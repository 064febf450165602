-------------------------- MODULE ProxyCacheProofs --------------------------
(***************************************************************************)
(* Proofs about ProxyCache, for any number of threads, implementations,    *)
(* addresses and proxies, and for the three kinds of weak pointer.         *)
(***************************************************************************)
EXTENDS ProxyCache, TLAPS

\* The mutex excludes.
LockInv == \A t \in Workers : pc[t] \in Inside => mutex = t

\* The caller of get() owns the implementation it asks about.
CallInv ==
    \A t \in Workers : pc[t] \in GetSteps =>
        /\ tag[t] \in Tags /\ impl[t] \in Impls
        /\ t \in holders[impl[t]]

\* Between find() and emplace() the key is not in the map.
AllocInv == \A t \in Workers : pc[t] = "getAlloc" => mapping[KeyOf(t)] = None

\* A Handle owns an implementation until it is destroyed.
HandleInv ==
    \A p \in Proxies : Constructed(p) => tagOf[p] \in Tags /\ objOf[p] \in Impls

\* Only live proxies have owners.
RefsInv == \A p \in Proxies : refs[p] # {} => state[p] = "live"

\* A dying proxy has one destructor, run by one thread.
RemoveInv ==
    \A t \in Workers :
        /\ pc[t] \in RmSteps => cur[t] \in Proxies
        /\ pc[t] \in {"rmLock", "rmCheck"} => state[cur[t]] = "dying"
        /\ pc[t] \in {"rmTemp", "rmUnlock", "dropObj"} => state[cur[t]] = "removed"
        /\ \A u \in Workers : /\ pc[t] \in RmSteps /\ pc[u] \in RmSteps
                              /\ cur[t] = cur[u]
                              => t = u

\* What is_expired() retains is alive; only ARC retains.
TempInv ==
    \A t \in Workers : 
        /\ temp[t] # None => /\ WeakKind = "objc_weak"
                             /\ pc[t] = "rmTemp"
                             /\ state[temp[t]] = "live"
        /\ pc[t] = "rmTemp" => temp[t] # None

\* Two implementations that exist together have different addresses.
AddrInv ==
    \A i, j \in Impls : Alive(i) /\ Alive(j) /\ AddrOf[i] = AddrOf[j] => i = j

IInv == /\ TypeOK /\ LockInv /\ CallInv /\ AllocInv /\ HandleInv /\ RefsInv
        /\ RemoveInv /\ TempInv /\ AddrInv
        /\ RightProxy /\ NoStaleEntry /\ LiveProxyIsCached

LEMMA NewImplStep ==
  ASSUME IInv, NEW t \in Threads, NEW i \in Impls, NewImpl(t, i)
  PROVE  IInv'
<1> USE AddrAssumption, ThreadsAssumption, NoneAssumption DEF IInv, TypeOK,
         Workers, Goto, objects, proxies, locals, NewImpl
<1>1. TypeOK'
  BY DEF GetSteps, RmSteps
<1>2. CallInv'
  BY DEF CallInv, GetSteps, AddrInv, Alive
<1>3. AddrInv'
  BY DEF AddrInv, Alive
<1>4. LockInv' /\ AllocInv' /\ HandleInv' /\ RefsInv' /\ RemoveInv' /\
      TempInv' /\ RightProxy' /\ NoStaleEntry' /\ LiveProxyIsCached'
  BY DEF LockInv, Inside, AllocInv, KeyOf, HandleInv, Constructed, RefsInv,
         RemoveInv, RmSteps, TempInv, RightProxy, NoStaleEntry, HandleKey,
         LiveProxyIsCached
<1> QED BY <1>1, <1>2, <1>3, <1>4

LEMMA ShareImplStep ==
  ASSUME IInv, NEW t \in Threads, NEW u \in Threads, NEW i \in Impls, ShareImpl(t, u, i)
  PROVE  IInv'
<1> USE AddrAssumption, ThreadsAssumption, NoneAssumption DEF IInv, TypeOK,
         Workers, Goto, objects, proxies, locals, ShareImpl
<1>1. TypeOK'
  BY DEF GetSteps, RmSteps
<1>2. CallInv'
  BY DEF CallInv, GetSteps
<1>3. AddrInv'
  BY DEF AddrInv, Alive
<1>4. LockInv' /\ AllocInv' /\ HandleInv' /\ RefsInv' /\ RemoveInv' /\
      TempInv' /\ RightProxy' /\ NoStaleEntry' /\ LiveProxyIsCached'
  BY DEF LockInv, Inside, AllocInv, KeyOf, HandleInv, Constructed, RefsInv,
         RemoveInv, RmSteps, TempInv, RightProxy, NoStaleEntry, HandleKey,
         LiveProxyIsCached
<1> QED BY <1>1, <1>2, <1>3, <1>4

LEMMA ReleaseImplStep ==
  ASSUME IInv, NEW t \in Threads, NEW i \in Impls, ReleaseImpl(t, i)
  PROVE  IInv'
<1> USE AddrAssumption, ThreadsAssumption, NoneAssumption DEF IInv, TypeOK,
         Workers, Goto, objects, proxies, locals, ReleaseImpl
<1>1. TypeOK'
  BY DEF GetSteps, RmSteps
<1>2. CallInv'
  BY DEF CallInv, GetSteps
<1>3. AddrInv'
  BY DEF AddrInv, Alive
<1>4. LockInv' /\ AllocInv' /\ HandleInv' /\ RefsInv' /\ RemoveInv' /\
      TempInv' /\ RightProxy' /\ NoStaleEntry' /\ LiveProxyIsCached'
  BY DEF LockInv, Inside, AllocInv, KeyOf, HandleInv, Constructed, RefsInv,
         RemoveInv, RmSteps, TempInv, RightProxy, NoStaleEntry, HandleKey,
         LiveProxyIsCached
<1> QED BY <1>1, <1>2, <1>3, <1>4

LEMMA UnwrapStep ==
  ASSUME IInv, NEW t \in Threads, NEW p \in Proxies, Unwrap(t, p)
  PROVE  IInv'
<1> USE AddrAssumption, ThreadsAssumption, NoneAssumption DEF IInv, TypeOK,
         Workers, Goto, objects, proxies, locals, Unwrap
<1>1. TypeOK'
  BY DEF GetSteps, RmSteps
<1>2. CallInv'
  BY DEF CallInv, GetSteps
<1>3. AddrInv'
  BY DEF AddrInv, Alive
<1>4. LockInv' /\ AllocInv' /\ HandleInv' /\ RefsInv' /\ RemoveInv' /\
      TempInv' /\ RightProxy' /\ NoStaleEntry' /\ LiveProxyIsCached'
  BY DEF LockInv, Inside, AllocInv, KeyOf, HandleInv, Constructed, RefsInv,
         RemoveInv, RmSteps, TempInv, RightProxy, NoStaleEntry, HandleKey,
         LiveProxyIsCached
<1> QED BY <1>1, <1>2, <1>3, <1>4

LEMMA DropProxyStep ==
  ASSUME IInv, NEW t \in Threads, NEW p \in Proxies, DropProxy(t, p)
  PROVE  IInv'
<1> USE AddrAssumption, ThreadsAssumption, NoneAssumption DEF IInv, TypeOK,
         Workers, Goto, objects, proxies, locals, DropProxy
<1>1. TypeOK'
  BY DEF GetSteps, RmSteps
<1>2. LockInv'
  BY DEF LockInv, Inside
<1>3. CallInv'
  BY DEF CallInv, GetSteps
<1>4. AllocInv'
  BY DEF AllocInv, KeyOf
<1>5. HandleInv'
  BY DEF HandleInv, Constructed, RefsInv
<1>6. RefsInv'
  BY DEF RefsInv, OwnedBesides
<1>7. RemoveInv'
  BY DEF RemoveInv, RmSteps, RefsInv
<1>8. TempInv'
  BY DEF TempInv, OwnedBesides
<1>9. RightProxy'
  <2>1. CASE WeakKind = "java_weak" \/ OwnedBesides(t, p)
    BY <2>1 DEF RightProxy
  <2>2. CASE ~(WeakKind = "java_weak" \/ OwnedBesides(t, p))
    <3>1. /\ pc' = [pc EXCEPT ![t] = "rmLock"] /\ cur' = [cur EXCEPT ![t] = p]
          /\ state' = [state EXCEPT ![p] = "dying"]
      BY <2>2
    <3>2. \A u \in Workers : u # t /\ pc[u] = "getReturn" => cur[u] # p
      BY <2>2 DEF OwnedBesides
    <3> QED BY <3>1, <3>2 DEF RightProxy
  <2> QED BY <2>1, <2>2
<1>10. NoStaleEntry'
  BY DEF NoStaleEntry, HandleKey, RefsInv
<1>11. LiveProxyIsCached'
  BY DEF LiveProxyIsCached, HandleKey
<1>12. AddrInv'
  BY DEF AddrInv, Alive
<1> QED BY <1>1, <1>2, <1>3, <1>4, <1>5, <1>6, <1>7, <1>8, <1>9, <1>10,
         <1>11, <1>12

LEMMA CollectStep ==
  ASSUME IInv, NEW p \in Proxies, Collect(p)
  PROVE  IInv'
<1> USE AddrAssumption, ThreadsAssumption, NoneAssumption DEF IInv, TypeOK,
         Workers, Goto, objects, proxies, locals, Collect
<1>1. TypeOK'
  BY DEF GetSteps, RmSteps
<1>2. HandleInv'
  BY DEF HandleInv, Constructed
<1>3. RefsInv'
  BY DEF RefsInv
<1>4. RemoveInv'
  BY DEF RemoveInv, RmSteps
<1>5. TempInv'
  BY DEF TempInv
<1>6. RightProxy'
  BY DEF RightProxy
<1>7. NoStaleEntry'
  BY DEF NoStaleEntry, HandleKey
<1>8. LiveProxyIsCached'
  BY DEF LiveProxyIsCached, HandleKey
<1>9. LockInv' /\ CallInv' /\ AllocInv' /\ AddrInv'
  BY DEF LockInv, Inside, CallInv, GetSteps, AllocInv, KeyOf, AddrInv, Alive
<1> QED BY <1>1, <1>2, <1>3, <1>4, <1>5, <1>6, <1>7, <1>8, <1>9

LEMMA FinalizeStep ==
  ASSUME IInv, NEW t \in Finalizers, NEW p \in Proxies, Finalize(t, p)
  PROVE  IInv'
<1> USE AddrAssumption, ThreadsAssumption, NoneAssumption DEF IInv, TypeOK,
         Workers, Goto, objects, proxies, locals, Finalize
<1>1. TypeOK'
  BY DEF GetSteps, RmSteps
<1>2. LockInv'
  BY DEF LockInv, Inside
<1>3. CallInv'
  BY DEF CallInv, GetSteps
<1>4. AllocInv'
  BY DEF AllocInv, KeyOf
<1>5. RemoveInv'
  BY DEF RemoveInv, RmSteps
<1>6. TempInv'
  BY DEF TempInv
<1>7. RightProxy'
  BY DEF RightProxy
<1>8. HandleInv' /\ RefsInv' /\ AddrInv' /\ NoStaleEntry' /\
      LiveProxyIsCached'
  BY DEF HandleInv, Constructed, RefsInv, AddrInv, Alive, NoStaleEntry,
         HandleKey, LiveProxyIsCached
<1> QED BY <1>1, <1>2, <1>3, <1>4, <1>5, <1>6, <1>7, <1>8

LEMMA GetCallStep ==
  ASSUME IInv, NEW t \in Threads, NEW g \in Tags, NEW i \in Impls, GetCall(t, g, i)
  PROVE  IInv'
<1> USE AddrAssumption, ThreadsAssumption, NoneAssumption DEF IInv, TypeOK,
         Workers, Goto, objects, proxies, locals, GetCall
<1>1. TypeOK'
  BY DEF GetSteps, RmSteps
<1>2. LockInv'
  BY DEF LockInv, Inside
<1>3. CallInv'
  BY DEF CallInv, GetSteps
<1>4. AllocInv'
  BY DEF AllocInv, KeyOf
<1>5. RemoveInv'
  BY DEF RemoveInv, RmSteps
<1>6. TempInv'
  BY DEF TempInv
<1>7. RightProxy'
  BY DEF RightProxy
<1>8. HandleInv' /\ RefsInv' /\ AddrInv' /\ NoStaleEntry' /\
      LiveProxyIsCached'
  BY DEF HandleInv, Constructed, RefsInv, AddrInv, Alive, NoStaleEntry,
         HandleKey, LiveProxyIsCached
<1> QED BY <1>1, <1>2, <1>3, <1>4, <1>5, <1>6, <1>7, <1>8

LEMMA GetLockStep ==
  ASSUME IInv, NEW t \in Workers, GetLock(t)
  PROVE  IInv'
<1> USE AddrAssumption, ThreadsAssumption, NoneAssumption DEF IInv, TypeOK,
         Workers, Goto, objects, proxies, locals, GetLock
<1>1. TypeOK'
  BY DEF GetSteps, RmSteps
<1>2. LockInv'
  BY DEF LockInv, Inside, LockFree
<1>3. CallInv'
  BY DEF CallInv, GetSteps
<1>4. AllocInv'
  BY DEF AllocInv, KeyOf
<1>5. RemoveInv'
  BY DEF RemoveInv, RmSteps
<1>6. TempInv'
  BY DEF TempInv
<1>7. RightProxy'
  BY DEF RightProxy
<1>8. HandleInv' /\ RefsInv' /\ AddrInv' /\ NoStaleEntry' /\
      LiveProxyIsCached'
  BY DEF HandleInv, Constructed, RefsInv, AddrInv, Alive, NoStaleEntry,
         HandleKey, LiveProxyIsCached
<1> QED BY <1>1, <1>2, <1>3, <1>4, <1>5, <1>6, <1>7, <1>8

LEMMA GetFindStep ==
  ASSUME IInv, NEW t \in Workers, GetFind(t)
  PROVE  IInv'
<1> USE AddrAssumption, ThreadsAssumption, NoneAssumption DEF IInv, TypeOK,
         Workers, Goto, objects, proxies, locals, GetFind
<1>1. TypeOK'
  <2>1. KeyOf(t) \in Keys
    BY DEF KeyOf, Keys, CallInv, GetSteps
  <2> QED BY <2>1 DEF GetSteps, RmSteps, Erase
<1>2. LockInv'
  BY DEF LockInv, Inside
<1>3. CallInv'
  BY DEF CallInv, GetSteps
<1>4. AllocInv'
  <2>1. \A u \in Workers : pc[u] \in GetSteps => KeyOf(u) \in Keys
    BY DEF KeyOf, Keys, CallInv
  <2>2. \A u \in Workers : KeyOf(u)' = KeyOf(u)
    BY DEF KeyOf
  <2>3. CASE Erase(KeyOf(t)) /\ pc' = [pc EXCEPT ![t] = "getAlloc"]
    BY <2>1, <2>2, <2>3 DEF AllocInv, Erase, GetSteps
  <2>4. CASE UNCHANGED mapping /\ pc' = [pc EXCEPT ![t] = "getReturn"]
    BY <2>2, <2>4 DEF AllocInv
  <2> QED BY <2>3, <2>4
<1>5. RemoveInv'
  BY DEF RemoveInv, RmSteps
<1>6. TempInv'
  BY DEF TempInv
<1>7. RightProxy'
  <2>1. KeyOf(t) \in Keys
    BY DEF KeyOf, Keys, CallInv, GetSteps
  <2> DEFINE p == mapping[KeyOf(t)]
  <2>2. ASSUME p # None, ~Expired(p)
        PROVE  /\ p \in Proxies /\ state[p] = "live"
               /\ tagOf[p] = tag[t] /\ AddrOf[objOf[p]] = AddrOf[impl[t]]
    BY <2>1, <2>2 DEF Expired, NoStaleEntry, HandleKey, KeyOf
  <2>3. ASSUME p # None, ~Expired(p)
        PROVE  objOf[p] = impl[t]
    BY <2>2, <2>3 DEF AddrInv, Alive, CallInv, GetSteps, HandleInv, Constructed
  <2> QED BY <2>2, <2>3 DEF RightProxy
<1>8. NoStaleEntry'
  BY DEF NoStaleEntry, HandleKey, Expired, Erase
<1>9. LiveProxyIsCached'
  <2>1. KeyOf(t) \in Keys
    BY DEF KeyOf, Keys, CallInv, GetSteps
  <2>2. CASE UNCHANGED mapping
    BY <2>2 DEF LiveProxyIsCached, HandleKey
  <2>3. CASE Erase(KeyOf(t)) /\ (mapping[KeyOf(t)] = None \/ Expired(mapping[KeyOf(t)]))
    BY <2>1, <2>3 DEF Erase, Expired, LiveProxyIsCached, HandleKey
  <2> QED BY <2>2, <2>3
<1>10. HandleInv' /\ RefsInv' /\ AddrInv'
  BY DEF HandleInv, Constructed, RefsInv, AddrInv, Alive
<1> QED BY <1>1, <1>2, <1>3, <1>4, <1>5, <1>6, <1>7, <1>8, <1>9, <1>10

LEMMA GetAllocStep ==
  ASSUME IInv, NEW t \in Workers, NEW p \in Proxies, GetAlloc(t, p)
  PROVE  IInv'
<1> USE AddrAssumption, ThreadsAssumption, NoneAssumption DEF IInv, TypeOK,
         Workers, Goto, objects, proxies, locals, GetAlloc
<1>1. TypeOK'
  BY DEF GetSteps, RmSteps, Construct, Emplace
<1>2. LockInv'
  BY DEF LockInv, Inside
<1>3. CallInv'
  BY DEF CallInv, GetSteps
<1>4. AllocInv'
  BY DEF AllocInv, KeyOf, LockInv, Inside
<1>5. HandleInv'
  BY DEF HandleInv, Constructed, Construct, Emplace, CallInv, GetSteps
<1>6. RefsInv'
  BY DEF RefsInv, Construct, Emplace
<1>7. RemoveInv'
  BY DEF RemoveInv, RmSteps, Construct, Emplace
<1>8. TempInv'
  BY DEF TempInv, Construct, Emplace
<1>9. AddrInv'
  BY DEF AddrInv, Alive, Construct, Emplace, CallInv, GetSteps
<1>10. RightProxy'
  BY DEF RightProxy, Construct, Emplace
<1>11. NoStaleEntry'
  BY DEF NoStaleEntry, HandleKey, Construct, Emplace, CallInv, GetSteps,
         AllocInv, KeyOf, HandleInv, Constructed
<1>12. LiveProxyIsCached'
  <2>1. KeyOf(t) \in Keys
    BY DEF KeyOf, Keys, CallInv, GetSteps
  <2>2. mapping' = [mapping EXCEPT ![KeyOf(t)] = p]
    BY DEF AllocInv, Emplace
  <2>3. HandleKey(p)' = KeyOf(t)
    BY DEF Construct, HandleKey, KeyOf
  <2>4. ASSUME NEW q \in Proxies, q # p, state[q] = "live"
        PROVE  mapping[HandleKey(q)] = q /\ HandleKey(q) # KeyOf(t)
    BY <2>4 DEF LiveProxyIsCached, AllocInv
  <2> QED BY <2>1, <2>2, <2>3, <2>4 DEF LiveProxyIsCached, HandleKey, Construct
<1> QED BY <1>1, <1>2, <1>3, <1>4, <1>5, <1>6, <1>7, <1>8, <1>9, <1>10,
         <1>11, <1>12

LEMMA GetAllocThrowEarlyStep ==
  ASSUME IInv, NEW t \in Workers, GetAllocThrowEarly(t)
  PROVE  IInv'
<1> USE AddrAssumption, ThreadsAssumption, NoneAssumption DEF IInv, TypeOK,
         Workers, Goto, objects, proxies, locals, GetAllocThrowEarly
<1>1. TypeOK'
  BY DEF GetSteps, RmSteps
<1>2. LockInv'
  BY DEF LockInv, Inside
<1>3. CallInv'
  BY DEF CallInv, GetSteps
<1>4. AllocInv'
  BY DEF AllocInv, KeyOf
<1>5. RemoveInv'
  BY DEF RemoveInv, RmSteps
<1>6. TempInv'
  BY DEF TempInv
<1>7. RightProxy'
  BY DEF RightProxy
<1>8. HandleInv' /\ RefsInv' /\ AddrInv' /\ NoStaleEntry' /\
      LiveProxyIsCached'
  BY DEF HandleInv, Constructed, RefsInv, AddrInv, Alive, NoStaleEntry,
         HandleKey, LiveProxyIsCached
<1> QED BY <1>1, <1>2, <1>3, <1>4, <1>5, <1>6, <1>7, <1>8

LEMMA GetAllocThrowLateStep ==
  ASSUME IInv, NEW t \in Workers, NEW p \in Proxies, GetAllocThrowLate(t, p)
  PROVE  IInv'
<1> USE AddrAssumption, ThreadsAssumption, NoneAssumption DEF IInv, TypeOK,
         Workers, Goto, objects, proxies, locals, GetAllocThrowLate
<1>1. TypeOK'
  BY DEF GetSteps, RmSteps, Construct
<1>2. LockInv'
  BY DEF LockInv, Inside
<1>3. CallInv'
  BY DEF CallInv, GetSteps
<1>4. AllocInv'
  BY DEF AllocInv, KeyOf
<1>5. HandleInv'
  BY DEF HandleInv, Constructed, Construct, CallInv, GetSteps
<1>6. RefsInv'
  BY DEF RefsInv, Construct
<1>7. RemoveInv'
  BY DEF RemoveInv, RmSteps, Construct
<1>8. TempInv'
  BY DEF TempInv, Construct
<1>9. AddrInv'
  BY DEF AddrInv, Alive, Construct, CallInv, GetSteps
<1>10. RightProxy'
  BY DEF RightProxy, Construct
<1>11. NoStaleEntry'
  BY DEF NoStaleEntry, HandleKey, Construct
<1>12. LiveProxyIsCached'
  BY DEF LiveProxyIsCached, HandleKey, Construct
<1> QED BY <1>1, <1>2, <1>3, <1>4, <1>5, <1>6, <1>7, <1>8, <1>9, <1>10,
         <1>11, <1>12

LEMMA GetUnwindStep ==
  ASSUME IInv, NEW t \in Workers, GetUnwind(t)
  PROVE  IInv'
<1> USE AddrAssumption, ThreadsAssumption, NoneAssumption DEF IInv, TypeOK,
         Workers, Goto, objects, proxies, locals, GetUnwind
<1>1. TypeOK'
  BY DEF GetSteps, RmSteps
<1>2. LockInv'
  BY DEF LockInv, Inside
<1>3. CallInv'
  BY DEF CallInv, GetSteps
<1>4. AllocInv'
  BY DEF AllocInv, KeyOf
<1>5. RemoveInv'
  BY DEF RemoveInv, RmSteps
<1>6. TempInv'
  BY DEF TempInv
<1>7. RightProxy'
  BY DEF RightProxy
<1>8. HandleInv' /\ RefsInv' /\ AddrInv' /\ NoStaleEntry' /\
      LiveProxyIsCached'
  BY DEF HandleInv, Constructed, RefsInv, AddrInv, Alive, NoStaleEntry,
         HandleKey, LiveProxyIsCached
<1> QED BY <1>1, <1>2, <1>3, <1>4, <1>5, <1>6, <1>7, <1>8

LEMMA GetReturnStep ==
  ASSUME IInv, NEW t \in Workers, GetReturn(t)
  PROVE  IInv'
<1> USE AddrAssumption, ThreadsAssumption, NoneAssumption DEF IInv, TypeOK,
         Workers, Goto, objects, proxies, locals, GetReturn
<1>1. TypeOK'
  <2>1. t \in Threads
    BY DEF CallInv, GetSteps
  <2> QED BY <2>1 DEF GetSteps, RmSteps, RightProxy
<1>2. LockInv'
  BY DEF LockInv, Inside
<1>3. CallInv'
  BY DEF CallInv, GetSteps
<1>4. AllocInv'
  BY DEF AllocInv, KeyOf
<1>5. RefsInv'
  BY DEF RefsInv, RightProxy
<1>6. RemoveInv'
  BY DEF RemoveInv, RmSteps
<1>7. TempInv'
  BY DEF TempInv
<1>8. RightProxy'
  BY DEF RightProxy
<1>9. HandleInv' /\ AddrInv' /\ NoStaleEntry' /\ LiveProxyIsCached'
  BY DEF HandleInv, Constructed, AddrInv, Alive, NoStaleEntry, HandleKey,
         LiveProxyIsCached
<1> QED BY <1>1, <1>2, <1>3, <1>4, <1>5, <1>6, <1>7, <1>8, <1>9

LEMMA RmLockStep ==
  ASSUME IInv, NEW t \in Workers, RmLock(t)
  PROVE  IInv'
<1> USE AddrAssumption, ThreadsAssumption, NoneAssumption DEF IInv, TypeOK,
         Workers, Goto, objects, proxies, locals, RmLock
<1>1. TypeOK'
  BY DEF GetSteps, RmSteps
<1>2. LockInv'
  BY DEF LockInv, Inside, LockFree
<1>3. CallInv'
  BY DEF CallInv, GetSteps
<1>4. AllocInv'
  BY DEF AllocInv, KeyOf
<1>5. RemoveInv'
  BY DEF RemoveInv, RmSteps
<1>6. TempInv'
  BY DEF TempInv
<1>7. RightProxy'
  BY DEF RightProxy
<1>8. HandleInv' /\ RefsInv' /\ AddrInv' /\ NoStaleEntry' /\
      LiveProxyIsCached'
  BY DEF HandleInv, Constructed, RefsInv, AddrInv, Alive, NoStaleEntry,
         HandleKey, LiveProxyIsCached
<1> QED BY <1>1, <1>2, <1>3, <1>4, <1>5, <1>6, <1>7, <1>8

LEMMA RmCheckStep ==
  ASSUME IInv, NEW t \in Workers, RmCheck(t)
  PROVE  IInv'
<1> USE AddrAssumption, ThreadsAssumption, NoneAssumption DEF IInv, TypeOK,
         Workers, Goto, objects, proxies, locals, RmCheck
<1>1. TypeOK'
  <2>1. HandleKey(cur[t]) \in Keys
    BY DEF HandleKey, Keys, HandleInv, Constructed, RemoveInv, RmSteps
  <2> QED BY <2>1 DEF GetSteps, RmSteps, Erase, Erasable
<1>2. LockInv'
  BY DEF LockInv, Inside
<1>3. CallInv'
  BY DEF CallInv, GetSteps
<1>4. AllocInv'
  BY DEF AllocInv, KeyOf, LockInv, Inside, CallInv, GetSteps
<1>5. HandleInv'
  BY DEF HandleInv, Constructed, RemoveInv, RmSteps
<1>6. RefsInv'
  BY DEF RefsInv, RemoveInv, RmSteps
<1>7. RemoveInv'
  BY DEF RemoveInv, RmSteps
<1>8. TempInv'
  BY DEF TempInv, Erasable, Erase, Expired, RetainsToRead, RemoveInv, RmSteps
<1>9. RightProxy'
  BY DEF RightProxy, RemoveInv, RmSteps
<1>10. NoStaleEntry'
  <2> DEFINE k == HandleKey(cur[t])
  <2>1. cur[t] \in Proxies /\ k \in Keys
    BY DEF HandleKey, Keys, HandleInv, Constructed, RemoveInv, RmSteps
  <2>2. \A l \in Keys : mapping'[l] # None => mapping'[l] = mapping[l] /\ mapping[l] # cur[t]
    <3>1. CASE Erasable(mapping[k])
      BY <2>1, <3>1 DEF Erase, NoStaleEntry
    <3>2. CASE ~Erasable(mapping[k])
      BY <2>1, <3>2 DEF Erasable, Expired, NoStaleEntry, RemoveInv
    <3> QED BY <3>1, <3>2
  <2>3. state' = [state EXCEPT ![cur[t]] = "removed"] /\ UNCHANGED <<tagOf, objOf>>
    OBVIOUS
  <2> QED BY <2>1, <2>2, <2>3 DEF NoStaleEntry, HandleKey
<1>11. LiveProxyIsCached'
  <2> DEFINE k == HandleKey(cur[t])
  <2>1. cur[t] \in Proxies /\ state[cur[t]] = "dying"
    BY DEF RemoveInv, RmSteps
  <2>2. CASE Erase(k) /\ Erasable(mapping[k])
    <3>1. ASSUME NEW q \in Proxies, state[q] = "live"
          PROVE  mapping[HandleKey(q)] = q /\ HandleKey(q) # k
      BY <2>2, <3>1 DEF LiveProxyIsCached, Erasable, Expired
    <3> QED BY <2>1, <2>2, <3>1 DEF LiveProxyIsCached, Erase, HandleKey
  <2>3. CASE UNCHANGED mapping
    BY <2>1, <2>3 DEF LiveProxyIsCached, HandleKey
  <2> QED BY <2>2, <2>3
<1>12. AddrInv'
  BY DEF AddrInv, Alive
<1> QED BY <1>1, <1>2, <1>3, <1>4, <1>5, <1>6, <1>7, <1>8, <1>9, <1>10,
         <1>11, <1>12

LEMMA RmTempStep ==
  ASSUME IInv, NEW t \in Workers, RmTemp(t)
  PROVE  IInv'
<1> USE AddrAssumption, ThreadsAssumption, NoneAssumption DEF IInv, TypeOK,
         Workers, Goto, objects, proxies, locals, RmTemp
<1>1. TypeOK'
  BY DEF GetSteps, RmSteps
<1>2. LockInv'
  BY DEF LockInv, Inside
<1>3. CallInv'
  BY DEF CallInv, GetSteps
<1>4. AllocInv'
  BY DEF AllocInv, KeyOf
<1>5. HandleInv'
  BY DEF HandleInv, Constructed, TempInv
<1>6. RefsInv'
  BY DEF RefsInv
<1>7. RemoveInv'
  BY DEF RemoveInv, RmSteps, TempInv
<1>8. TempInv'
  BY DEF TempInv, OwnedBesides
<1>9. RightProxy'
  <2>1. CASE refs[temp[t]] # {} \/ OwnedBesides(t, temp[t])
    BY <2>1 DEF RightProxy
  <2>2. CASE ~(refs[temp[t]] # {} \/ OwnedBesides(t, temp[t]))
    <3>1. /\ pc' = [pc EXCEPT ![t] = "relock"] /\ cur' = [cur EXCEPT ![t] = temp[t]]
          /\ state' = [state EXCEPT ![temp[t]] = "dying"]
      BY <2>2
    <3>2. \A u \in Workers : u # t /\ pc[u] = "getReturn" => cur[u] # temp[t]
      BY <2>2 DEF OwnedBesides
    <3> QED BY <3>1, <3>2 DEF RightProxy
  <2> QED BY <2>1, <2>2
<1>10. NoStaleEntry'
  BY DEF NoStaleEntry, HandleKey
<1>11. LiveProxyIsCached'
  BY DEF LiveProxyIsCached, HandleKey
<1>12. AddrInv'
  BY DEF AddrInv, Alive
<1> QED BY <1>1, <1>2, <1>3, <1>4, <1>5, <1>6, <1>7, <1>8, <1>9, <1>10,
         <1>11, <1>12

LEMMA RmUnlockStep ==
  ASSUME IInv, NEW t \in Workers, RmUnlock(t)
  PROVE  IInv'
<1> USE AddrAssumption, ThreadsAssumption, NoneAssumption DEF IInv, TypeOK,
         Workers, Goto, objects, proxies, locals, RmUnlock
<1>1. TypeOK'
  BY DEF GetSteps, RmSteps
<1>2. LockInv'
  BY DEF LockInv, Inside
<1>3. CallInv'
  BY DEF CallInv, GetSteps
<1>4. AllocInv'
  BY DEF AllocInv, KeyOf
<1>5. RemoveInv'
  BY DEF RemoveInv, RmSteps
<1>6. TempInv'
  BY DEF TempInv
<1>7. RightProxy'
  BY DEF RightProxy
<1>8. HandleInv' /\ RefsInv' /\ AddrInv' /\ NoStaleEntry' /\
      LiveProxyIsCached'
  BY DEF HandleInv, Constructed, RefsInv, AddrInv, Alive, NoStaleEntry,
         HandleKey, LiveProxyIsCached
<1> QED BY <1>1, <1>2, <1>3, <1>4, <1>5, <1>6, <1>7, <1>8

LEMMA DropObjStep ==
  ASSUME IInv, NEW t \in Workers, DropObj(t)
  PROVE  IInv'
<1> USE AddrAssumption, ThreadsAssumption, NoneAssumption DEF IInv, TypeOK,
         Workers, Goto, objects, proxies, locals, DropObj
<1>1. TypeOK'
  BY DEF GetSteps, RmSteps
<1>2. LockInv'
  BY DEF LockInv, Inside
<1>3. CallInv'
  BY DEF CallInv, GetSteps
<1>4. AllocInv'
  BY DEF AllocInv, KeyOf
<1>5. HandleInv'
  BY DEF HandleInv, Constructed
<1>6. RefsInv'
  BY DEF RefsInv, RemoveInv, RmSteps
<1>7. RemoveInv'
  BY DEF RemoveInv, RmSteps
<1>8. TempInv'
  BY DEF TempInv, RemoveInv, RmSteps
<1>9. AddrInv'
  BY DEF AddrInv, Alive
<1>10. RightProxy'
  BY DEF RightProxy, RemoveInv, RmSteps
<1>11. NoStaleEntry'
  BY DEF NoStaleEntry, HandleKey, RemoveInv, RmSteps
<1>12. LiveProxyIsCached'
  BY DEF LiveProxyIsCached, HandleKey
<1> QED BY <1>1, <1>2, <1>3, <1>4, <1>5, <1>6, <1>7, <1>8, <1>9, <1>10,
         <1>11, <1>12

LEMMA InitIInv == Init => IInv
<1> SUFFICES ASSUME Init PROVE IInv
    OBVIOUS
<1> USE AddrAssumption, NoneAssumption DEF Init
<1>1. TypeOK
  BY DEF TypeOK, Workers, Keys, GetSteps, RmSteps
<1>2. LockInv /\ CallInv /\ AllocInv /\ RemoveInv /\ TempInv /\ RightProxy
  BY DEF LockInv, CallInv, AllocInv, RemoveInv, TempInv, RightProxy, Inside,
         GetSteps, RmSteps
<1>3. HandleInv /\ RefsInv /\ AddrInv /\ LiveProxyIsCached
  BY DEF HandleInv, RefsInv, AddrInv, LiveProxyIsCached, Constructed, Alive
<1>4. NoStaleEntry
  BY DEF NoStaleEntry
<1> QED BY <1>1, <1>2, <1>3, <1>4 DEF IInv

LEMMA StutterIInv == ASSUME IInv, UNCHANGED vars PROVE IInv'
<1> USE DEF vars, objects, proxies, locals
<1>1. TypeOK' /\ LockInv' /\ CallInv' /\ AllocInv' /\ HandleInv' /\ RefsInv'
  BY DEF IInv, TypeOK, LockInv, CallInv, AllocInv, HandleInv, RefsInv, KeyOf,
         Constructed
<1>2. RemoveInv' /\ TempInv' /\ AddrInv'
  BY DEF IInv, RemoveInv, TempInv, AddrInv, Alive
<1>3. RightProxy' /\ NoStaleEntry' /\ LiveProxyIsCached'
  BY DEF IInv, RightProxy, NoStaleEntry, LiveProxyIsCached, HandleKey
<1> QED BY <1>1, <1>2, <1>3 DEF IInv

LEMMA NextIInv == ASSUME IInv, [Next]_vars PROVE IInv'
<1>1. ASSUME NEW t \in Threads, App(t)
      PROVE  IInv'
  BY <1>1, NewImplStep, ReleaseImplStep, ShareImplStep, UnwrapStep,
     DropProxyStep, GetCallStep DEF App
<1>2. ASSUME NEW t \in Workers, Step(t)
      PROVE  IInv'
  <2>1. ASSUME NEW p \in Proxies, GetAlloc(t, p) \/ GetAllocThrowLate(t, p)
        PROVE  IInv'
    BY <2>1, GetAllocStep, GetAllocThrowLateStep
  <2>2. CASE GetLock(t) \/ GetFind(t) \/ GetUnwind(t) \/ GetReturn(t)
             \/ GetAllocThrowEarly(t)
    BY <2>2, GetLockStep, GetFindStep, GetUnwindStep, GetReturnStep,
       GetAllocThrowEarlyStep
  <2>3. CASE RmLock(t) \/ RmCheck(t) \/ RmTemp(t) \/ RmUnlock(t) \/ DropObj(t)
    BY <2>3, RmLockStep, RmCheckStep, RmTempStep, RmUnlockStep, DropObjStep
  <2> QED BY <1>2, <2>1, <2>2, <2>3 DEF Step
<1>3. ASSUME NEW p \in Proxies, Collect(p)
      PROVE  IInv'
  BY <1>3, CollectStep
<1>4. ASSUME NEW t \in Finalizers, NEW p \in Proxies, Finalize(t, p)
      PROVE  IInv'
  BY <1>4, FinalizeStep
<1>5. CASE UNCHANGED vars
  BY <1>5, StutterIInv
<1> QED BY <1>1, <1>2, <1>3, <1>4, <1>5 DEF Next

\* The invariant that carries the others: it holds at the start and every step
\* of every thread, of the collector and of the finalizers preserves it.
THEOREM Invariance == Spec => []IInv
<1> QED BY InitIInv, NextIInv, PTL DEF Spec

\* Type correctness of the cache and its threads.
THEOREM TypeCorrect == Spec => []TypeOK
<1>1. IInv => TypeOK
  BY DEF IInv
<1> QED BY <1>1, Invariance, PTL

\* However the threads' calls of get(), the last releases and the destructors
\* interleave, an implementation has at most one live proxy of a type.
THEOREM ProxyUnique == Spec => []OneLiveProxy
<1>1. IInv => OneLiveProxy
  BY DEF IInv, LiveProxyIsCached, OneLiveProxy, HandleKey
<1> QED BY <1>1, Invariance, PTL

\* get() returns a live proxy of the very object it was given, although objects
\* are found by address and addresses are used again.
THEOREM ProxyRight == Spec => []RightProxy
<1>1. IInv => RightProxy
  BY DEF IInv
<1> QED BY <1>1, Invariance, PTL

\* No entry of the map outlives the Handle that is to erase it.
THEOREM EntriesFresh == Spec => []NoStaleEntry
<1>1. IInv => NoStaleEntry
  BY DEF IInv
<1> QED BY <1>1, Invariance, PTL

\* No destructor takes the entry of a live proxy out of the map.
THEOREM LiveCached == Spec => []LiveProxyIsCached
<1>1. IInv => LiveProxyIsCached
  BY DEF IInv
<1> QED BY <1>1, Invariance, PTL

-----------------------------------------------------------------------------
(* Freedom from self-deadlock.                                             *)

\* Where reading a weak pointer does not own the proxy (std::weak_ptr, Java's
\* WeakReference) and no allocator fails once the Handle is made, no thread
\* ever locks m_mutex while holding it.  Both conditions are needed: TLC finds
\* the deadlock without either.
THEOREM SelfDeadlockFree ==
    ASSUME WeakKind # "objc_weak", "late" \notin AllocThrows
    PROVE  Spec => []NoSelfDeadlock
<1> DEFINE Inv == IInv /\ NoSelfDeadlock
<1>1. Init => Inv
  BY InitIInv DEF Init, NoSelfDeadlock
<1>2. ASSUME Inv, [Next]_vars PROVE Inv'
  <2> USE DEF NoSelfDeadlock, Goto, locals
  <2>0. IInv'
    BY <1>2, NextIInv
  <2>1. pc \in [Workers -> {"idle", "relock"} \cup GetSteps \cup RmSteps]
    BY <1>2 DEF IInv, TypeOK
  <2>2. ASSUME NEW t \in Threads, App(t)
        PROVE  NoSelfDeadlock'
    <3>1. pc' = pc \/ pc' = [pc EXCEPT ![t] = "rmLock"]
                   \/ pc' = [pc EXCEPT ![t] = "getLock"]
      BY <2>2 DEF App, NewImpl, ReleaseImpl, ShareImpl, Unwrap, DropProxy,
                  GetCall
    <3> QED BY <1>2, <2>1, <3>1
  <2>3. ASSUME NEW t \in Workers, Step(t)
        PROVE  NoSelfDeadlock'
    <3>1. pc[t] # "rmTemp"
      BY <1>2 DEF IInv, TempInv
    <3>2. \E s \in GetSteps \cup RmSteps \cup {"idle"} : pc' = [pc EXCEPT ![t] = s]
      BY <2>3, <3>1 DEF Step, GetLock, GetFind, GetUnwind, GetReturn, GetAlloc,
         GetAllocThrowEarly, GetAllocThrowLate, RmLock, RmCheck, RmTemp,
         RmUnlock, DropObj, GetSteps, RmSteps, RetainsToRead
    <3> QED BY <1>2, <2>1, <3>2 DEF GetSteps, RmSteps
  <2>4. ASSUME NEW p \in Proxies, Collect(p)
        PROVE  NoSelfDeadlock'
    BY <1>2, <2>4 DEF Collect
  <2>5. ASSUME NEW t \in Finalizers, NEW p \in Proxies, Finalize(t, p)
        PROVE  NoSelfDeadlock'
    BY <1>2, <2>1, <2>5 DEF Finalize
  <2>6. CASE UNCHANGED vars
    BY <1>2, <2>0, <2>6 DEF vars
  <2> QED BY <1>2, <2>0, <2>2, <2>3, <2>4, <2>5, <2>6 DEF Next
<1>3. Inv => NoSelfDeadlock
  OBVIOUS
<1> QED BY <1>1, <1>2, <1>3, PTL DEF Spec

-----------------------------------------------------------------------------
(* The cache implements ProxyIdentity.                                     *)

LEMMA OnlyOne == ASSUME NEW p PROVE Only({p}) = p
BY DEF Only

LEMMA OnlyNone == Only({}) = None
BY DEF Only

\* A live proxy is the one that ProxyIdentity sees.
LEMMA LiveIsOnly ==
  ASSUME IInv, NEW p \in Proxies, state[p] = "live", NEW k, k = <<tagOf[p], objOf[p]>>
  PROVE  LiveSet(k) = {p}
<1>1. \A q \in Proxies : state[q] = "live" /\ <<tagOf[q], objOf[q]>> = k => q = p
  BY DEF IInv, LiveProxyIsCached, HandleKey
<1> QED BY <1>1 DEF LiveSet

LEMMA KeyIsAbstract ==
  ASSUME IInv, NEW p \in Proxies, state[p] = "live"
  PROVE  <<tagOf[p], objOf[p]>> \in Tags \X Impls
BY DEF IInv, HandleInv, Constructed

\* A step that lets no proxy live or die and starts or ends no return.
LEMMA AbsStutter ==
  ASSUME \A p \in Proxies : /\ (state'[p] = "live") <=> (state[p] = "live")
                            /\ (state'[p] = "unborn") <=> (state[p] = "unborn")
                            /\ state[p] = "live" => tagOf'[p] = tagOf[p] /\ objOf'[p] = objOf[p],
         \A t \in Workers : /\ (pc'[t] = "getReturn") <=> (pc[t] = "getReturn")
                            /\ pc[t] = "getReturn" =>
                                  tag'[t] = tag[t] /\ impl'[t] = impl[t] /\ cur'[t] = cur[t]
  PROVE  UNCHANGED Abstract!vars
<1>1. \A k \in Tags \X Impls : LiveSet(k)' = LiveSet(k)
  BY DEF LiveSet
<1>2. AbsProxy' = AbsProxy
  BY <1>1 DEF AbsProxy
<1>3. AbsUsed' = AbsUsed
  BY DEF AbsUsed
<1>4. AbsResult' = AbsResult
  BY DEF AbsResult
<1> QED BY <1>2, <1>3, <1>4 DEF Abstract!vars

\* A step that lets one proxy die that no call is about to return.
LEMMA AbsForget ==
  ASSUME IInv, NEW p \in Proxies, state[p] = "live",
         state' = [state EXCEPT ![p] = "dying"], UNCHANGED <<tagOf, objOf>>,
         \A t \in Workers : ~(pc[t] = "getReturn" /\ cur[t] = p),
         \A t \in Workers : /\ (pc'[t] = "getReturn") <=> (pc[t] = "getReturn")
                            /\ pc[t] = "getReturn" =>
                                  tag'[t] = tag[t] /\ impl'[t] = impl[t] /\ cur'[t] = cur[t]
  PROVE  Abstract!Next
<1> DEFINE k == <<tagOf[p], objOf[p]>>
<1>1. k \in Tags \X Impls /\ LiveSet(k) = {p}
  BY KeyIsAbstract, LiveIsOnly
<1>2. AbsProxy[k] = p
  BY <1>1, OnlyOne DEF AbsProxy
<1>3. state \in [Proxies -> {"unborn", "live", "dying", "removed", "gone"}]
  BY DEF IInv, TypeOK
<1>4. \A l \in Tags \X Impls : l # k => LiveSet(l)' = LiveSet(l)
  BY <1>3 DEF LiveSet
<1>5. LiveSet(k)' = {}
  BY <1>1, <1>3 DEF LiveSet
<1>6. AbsProxy' = [AbsProxy EXCEPT ![k] = None]
  BY <1>1, <1>4, <1>5, OnlyNone DEF AbsProxy
<1>7. AbsUsed' = AbsUsed
  BY <1>3 DEF AbsUsed
<1>8. AbsResult' = AbsResult
  BY DEF AbsResult
<1>9. \A t \in Workers : AbsResult[t] # <<k, p>>
  BY <1>1, NoneAssumption DEF AbsResult
<1>10. AbsProxy[k] # None
  BY <1>2, NoneAssumption
<1>11. Abstract!Forget(k)
  BY <1>2, <1>6, <1>7, <1>8, <1>9, <1>10 DEF Abstract!Forget
<1> QED BY <1>1, <1>11 DEF Abstract!Next

\* get() finds a live proxy.
LEMMA AbsFind ==
  ASSUME IInv, IInv', NEW t \in Workers, GetFind(t), pc'[t] = "getReturn"
  PROVE  Abstract!Next
<1> DEFINE k == <<tag[t], impl[t]>>
           p == cur'[t]
<1>1. /\ t \in Workers /\ pc[t] = "getFind" /\ pc' = [pc EXCEPT ![t] = "getReturn"]
      /\ cur' = [cur EXCEPT ![t] = p]
      /\ UNCHANGED <<state, tagOf, objOf, tag, impl>>
  BY DEF GetFind, Goto, proxies, IInv, TypeOK
<1>2. p \in Proxies /\ state[p] = "live" /\ <<tagOf[p], objOf[p]>> = k
  BY <1>1 DEF IInv, RightProxy
<1>3. k \in Tags \X Impls /\ LiveSet(k) = {p}
  BY <1>2, KeyIsAbstract, LiveIsOnly
<1>4. AbsProxy[k] = p
  BY <1>3, OnlyOne DEF AbsProxy
<1>5. AbsProxy' = AbsProxy /\ AbsUsed' = AbsUsed
  BY <1>1 DEF AbsProxy, AbsUsed, LiveSet
<1>6. AbsResult[t] = None /\ AbsResult' = [AbsResult EXCEPT ![t] = <<k, p>>]
  BY <1>1 DEF AbsResult, IInv, TypeOK
<1>7. Abstract!Find(t, k)
  BY <1>2, <1>4, <1>5, <1>6, NoneAssumption DEF Abstract!Find
<1> QED BY <1>3, <1>7 DEF Abstract!Next

\* get() makes a proxy.
LEMMA AbsMake ==
  ASSUME IInv, NEW t \in Workers, NEW p \in Proxies, GetAlloc(t, p)
  PROVE  Abstract!Next
<1>1. /\ pc[t] = "getAlloc" /\ pc' = [pc EXCEPT ![t] = "getReturn"]
      /\ state[p] = "unborn" /\ state' = [state EXCEPT ![p] = "live"]
      /\ tagOf' = [tagOf EXCEPT ![p] = tag[t]] /\ objOf' = [objOf EXCEPT ![p] = impl[t]]
      /\ cur' = [cur EXCEPT ![t] = p]
      /\ UNCHANGED <<tag, impl>>
  BY DEF GetAlloc, Construct, Goto
<1>2. TypeOK
  BY DEF IInv
<1>3. PICK k \in Tags \X Impls : k = <<tag[t], impl[t]>>
  BY <1>1 DEF IInv, CallInv, GetSteps
<1>4. LiveSet(k) = {}
  <2> SUFFICES ASSUME NEW q \in Proxies, state[q] = "live", <<tagOf[q], objOf[q]>> = k
               PROVE  FALSE
    BY DEF LiveSet
  <2>1. HandleKey(q) = KeyOf(t)
    BY <1>3 DEF HandleKey, KeyOf
  <2>2. mapping[KeyOf(t)] = q
    BY <2>1 DEF IInv, LiveProxyIsCached
  <2>3. mapping[KeyOf(t)] = None
    BY <1>1 DEF IInv, AllocInv
  <2> QED BY <2>2, <2>3, NoneAssumption
<1>5. LiveSet(k)' = {p}
  BY <1>1, <1>2, <1>3, <1>4 DEF LiveSet, TypeOK
<1>6. \A l \in Tags \X Impls : l # k => LiveSet(l)' = LiveSet(l)
  BY <1>1, <1>2, <1>3 DEF LiveSet, TypeOK
<1>7. AbsProxy' = [AbsProxy EXCEPT ![k] = p]
  BY <1>3, <1>5, <1>6, OnlyOne DEF AbsProxy
<1>8. AbsProxy[k] = None
  BY <1>3, <1>4, OnlyNone DEF AbsProxy
<1>9. p \notin AbsUsed /\ AbsUsed' = AbsUsed \cup {p}
  BY <1>1, <1>2 DEF AbsUsed, TypeOK
<1>10. AbsResult[t] = None /\ AbsResult' = [AbsResult EXCEPT ![t] = <<k, p>>]
  BY <1>1, <1>2, <1>3 DEF AbsResult, TypeOK
<1>11. Abstract!Make(t, k, p)
  BY <1>7, <1>8, <1>9, <1>10 DEF Abstract!Make
<1> QED BY <1>3, <1>11 DEF Abstract!Next

\* An allocator fails when its proxy has been begun.
LEMMA AbsWaste ==
  ASSUME IInv, NEW t \in Workers, NEW p \in Proxies, GetAllocThrowLate(t, p)
  PROVE  Abstract!Next
<1>1. /\ pc[t] = "getAlloc" /\ pc' = [pc EXCEPT ![t] = "relock"]
      /\ state[p] = "unborn" /\ state' = [state EXCEPT ![p] = "dying"]
      /\ \A q \in Proxies : q # p => tagOf'[q] = tagOf[q] /\ objOf'[q] = objOf[q]
      /\ \A u \in Workers : u # t => cur'[u] = cur[u]
      /\ UNCHANGED <<tag, impl>>
  BY DEF GetAllocThrowLate, Construct, Goto, IInv, TypeOK
<1>2. TypeOK
  BY DEF IInv
<1>3. \A k \in Tags \X Impls : LiveSet(k)' = LiveSet(k)
  BY <1>1, <1>2 DEF LiveSet, TypeOK
<1>4. AbsProxy' = AbsProxy
  BY <1>3 DEF AbsProxy
<1>5. p \notin AbsUsed /\ AbsUsed' = AbsUsed \cup {p}
  BY <1>1, <1>2 DEF AbsUsed, TypeOK
<1>6. AbsResult' = AbsResult
  BY <1>1, <1>2 DEF AbsResult, TypeOK
<1>7. Abstract!Waste(p)
  BY <1>4, <1>5, <1>6 DEF Abstract!Waste
<1> QED BY <1>7 DEF Abstract!Next

\* get() returns.
LEMMA AbsReturn ==
  ASSUME IInv, NEW t \in Workers, GetReturn(t)
  PROVE  Abstract!Next
<1>1. /\ pc[t] = "getReturn" /\ pc' = [pc EXCEPT ![t] = "idle"]
      /\ \A u \in Workers : u # t => cur'[u] = cur[u]
      /\ UNCHANGED <<state, tagOf, objOf, tag, impl>>
  BY DEF GetReturn, Goto, IInv, TypeOK
<1>2. AbsProxy' = AbsProxy /\ AbsUsed' = AbsUsed
  BY <1>1 DEF AbsProxy, AbsUsed, LiveSet
<1>3. <<<<tag[t], impl[t]>>, cur[t]>> \in (Tags \X Impls) \X Proxies
  BY <1>1 DEF IInv, CallInv, RightProxy, GetSteps
<1>4. AbsResult[t] # None
  BY <1>1, <1>3, NoneAssumption DEF AbsResult
<1>5. AbsResult' = [AbsResult EXCEPT ![t] = None]
  BY <1>1 DEF AbsResult, IInv, TypeOK
<1>6. Abstract!Return(t)
  BY <1>2, <1>4, <1>5 DEF Abstract!Return
<1> QED BY <1>6 DEF Abstract!Next

LEMMA AbsInit == Init => Abstract!Init
<1> SUFFICES ASSUME Init PROVE Abstract!Init
    OBVIOUS
<1>1. \A k \in Tags \X Impls : LiveSet(k) = {}
  BY DEF Init, LiveSet
<1>2. AbsProxy = [k \in Tags \X Impls |-> None]
  BY <1>1, OnlyNone DEF AbsProxy
<1>3. AbsUsed = {}
  BY DEF Init, AbsUsed
<1>4. AbsResult = [t \in Workers |-> None]
  BY DEF Init, AbsResult
<1> QED BY <1>2, <1>3, <1>4 DEF Abstract!Init

LEMMA AbsApp ==
  ASSUME IInv, NEW t \in Threads, App(t)
  PROVE  [Abstract!Next]_(Abstract!vars)
<1> USE DEF Workers, objects, proxies, locals, Goto
<1>1. TypeOK
  BY DEF IInv
<1>2. CASE \/ \E i \in Impls : NewImpl(t, i) \/ ReleaseImpl(t, i)
           \/ \E i \in Impls, u \in Threads : ShareImpl(t, u, i)
           \/ \E p \in Proxies : Unwrap(t, p)
  <2>1. UNCHANGED <<state, tagOf, objOf, pc, tag, impl, cur>>
    BY <1>2 DEF NewImpl, ReleaseImpl, ShareImpl, Unwrap
  <2> QED BY <2>1, AbsStutter
<1>3. ASSUME NEW g \in Tags, NEW i \in Impls, GetCall(t, g, i)
      PROVE  UNCHANGED Abstract!vars
  <2>1. /\ UNCHANGED <<state, tagOf, objOf, cur>>
        /\ pc[t] = "idle" /\ pc' = [pc EXCEPT ![t] = "getLock"]
        /\ \A u \in Workers : u # t => tag'[u] = tag[u] /\ impl'[u] = impl[u]
    BY <1>1, <1>3 DEF GetCall, TypeOK
  <2> QED BY <1>1, <2>1, AbsStutter DEF TypeOK
<1>4. ASSUME NEW p \in Proxies, DropProxy(t, p)
      PROVE  [Abstract!Next]_(Abstract!vars)
  <2>1. CASE UNCHANGED <<state, pc, cur>>
    <3>1. UNCHANGED <<tagOf, objOf, tag, impl>>
      BY <1>4 DEF DropProxy
    <3> QED BY <2>1, <3>1, AbsStutter
  <2>2. CASE ~OwnedBesides(t, p) /\ state' = [state EXCEPT ![p] = "dying"]
             /\ cur' = [cur EXCEPT ![t] = p] /\ pc' = [pc EXCEPT ![t] = "rmLock"]
    <3>1. state[p] = "live" /\ pc[t] = "idle" /\ UNCHANGED <<tagOf, objOf, tag, impl>>
      BY <1>4 DEF DropProxy, IInv, RefsInv
    <3>2. \A u \in Workers : ~(pc[u] = "getReturn" /\ cur[u] = p)
      BY <2>2, <3>1 DEF OwnedBesides
    <3>3. \A u \in Workers : /\ (pc'[u] = "getReturn") <=> (pc[u] = "getReturn")
                             /\ pc[u] = "getReturn" => cur'[u] = cur[u]
      BY <1>1, <2>2, <3>1 DEF TypeOK
    <3> QED BY <2>2, <3>1, <3>2, <3>3, AbsForget
  <2> QED BY <1>4, <2>1, <2>2 DEF DropProxy
<1> QED BY <1>2, <1>3, <1>4 DEF App

LEMMA AbsWork ==
  ASSUME IInv, IInv', NEW t \in Workers, Step(t)
  PROVE  [Abstract!Next]_(Abstract!vars)
<1> USE DEF objects, proxies, locals, Goto
<1>1. TypeOK
  BY DEF IInv
<1>2. CASE GetLock(t) \/ GetUnwind(t) \/ GetAllocThrowEarly(t) \/ RmLock(t) \/ RmUnlock(t)
  <2>1. /\ UNCHANGED <<state, tagOf, objOf, tag, impl, cur>>
        /\ pc[t] # "getReturn"
        /\ \E s : s # "getReturn" /\ pc' = [pc EXCEPT ![t] = s]
    BY <1>2 DEF GetLock, GetUnwind, GetAllocThrowEarly, RmLock, RmUnlock
  <2> QED BY <1>1, <2>1, AbsStutter DEF TypeOK
<1>3. CASE GetFind(t)
  <2>1. CASE pc'[t] = "getReturn"
    BY <1>3, <2>1, AbsFind
  <2>2. CASE pc'[t] # "getReturn"
    <3>1. /\ UNCHANGED <<state, tagOf, objOf, tag, impl, cur>>
          /\ pc[t] = "getFind" /\ pc' = [pc EXCEPT ![t] = "getAlloc"]
      BY <1>1, <1>3, <2>2 DEF GetFind, TypeOK
    <3> QED BY <1>1, <3>1, AbsStutter DEF TypeOK
  <2> QED BY <2>1, <2>2
<1>4. ASSUME NEW p \in Proxies, GetAlloc(t, p) \/ GetAllocThrowLate(t, p)
      PROVE  Abstract!Next
  BY <1>4, AbsMake, AbsWaste
<1>5. CASE GetReturn(t)
  BY <1>5, AbsReturn
<1>6. CASE RmCheck(t)
  <2>1. cur[t] \in Proxies /\ state[cur[t]] = "dying"
    BY <1>6 DEF RmCheck, IInv, RemoveInv, RmSteps
  <2>2. /\ UNCHANGED <<tagOf, objOf, tag, impl, cur>>
        /\ state' = [state EXCEPT ![cur[t]] = "removed"]
        /\ pc[t] = "rmCheck"
        /\ \E s \in {"rmTemp", "rmUnlock"} : pc' = [pc EXCEPT ![t] = s]
    BY <1>6 DEF RmCheck
  <2> QED BY <1>1, <2>1, <2>2, AbsStutter DEF TypeOK
<1>7. CASE RmTemp(t)
  <2>1. /\ pc[t] = "rmTemp" /\ UNCHANGED <<tagOf, objOf, tag, impl>>
        /\ temp[t] \in Proxies /\ state[temp[t]] = "live"
    BY <1>7 DEF RmTemp, IInv, TypeOK, TempInv
  <2>2. CASE pc' = [pc EXCEPT ![t] = "rmUnlock"] /\ UNCHANGED <<state, cur>>
    BY <1>1, <2>1, <2>2, AbsStutter DEF TypeOK
  <2>3. CASE /\ refs[temp[t]] = {} /\ ~OwnedBesides(t, temp[t])
             /\ state' = [state EXCEPT ![temp[t]] = "dying"]
             /\ cur' = [cur EXCEPT ![t] = temp[t]]
             /\ pc' = [pc EXCEPT ![t] = "relock"]
    <3>1. \A u \in Workers : ~(pc[u] = "getReturn" /\ cur[u] = temp[t])
      BY <2>1, <2>3 DEF OwnedBesides
    <3>2. \A u \in Workers : /\ (pc'[u] = "getReturn") <=> (pc[u] = "getReturn")
                             /\ pc[u] = "getReturn" => cur'[u] = cur[u]
      BY <1>1, <2>1, <2>3 DEF TypeOK
    <3> QED BY <2>1, <2>3, <3>1, <3>2, AbsForget
  <2> QED BY <1>7, <2>2, <2>3 DEF RmTemp
<1>8. CASE DropObj(t)
  <2>1. cur[t] \in Proxies /\ state[cur[t]] = "removed"
    BY <1>8 DEF DropObj, IInv, RemoveInv, RmSteps
  <2>2. /\ UNCHANGED <<tagOf, tag, impl>>
        /\ \A p \in Proxies : p # cur[t] => objOf'[p] = objOf[p]
        /\ \A u \in Workers : u # t => cur'[u] = cur[u]
        /\ state' = [state EXCEPT ![cur[t]] = "gone"]
        /\ pc[t] = "dropObj" /\ pc' = [pc EXCEPT ![t] = "idle"]
    BY <1>1, <1>8 DEF DropObj, TypeOK
  <2> QED BY <1>1, <2>1, <2>2, AbsStutter DEF TypeOK
<1> QED BY <1>2, <1>3, <1>4, <1>5, <1>6, <1>7, <1>8 DEF Step

\* The cache, with its lock, its weak pointers and its destructors, does what
\* ProxyIdentity says: looking a proxy up is one atomic step that returns the
\* live proxy of the object, or a new one if there is none.
THEOREM Refinement == Spec => RefinesIdentity
<1>1. ASSUME IInv, IInv', [Next]_vars
      PROVE  [Abstract!Next]_(Abstract!vars)
  <2>1. ASSUME NEW p \in Proxies, Collect(p)
        PROVE  Abstract!Next
    BY <1>1, <2>1, AbsForget DEF Collect, locals
  <2>2. ASSUME NEW t \in Finalizers, NEW p \in Proxies, Finalize(t, p)
        PROVE  UNCHANGED Abstract!vars
    <3>1. /\ UNCHANGED <<state, tagOf, objOf, tag, impl>>
          /\ \A u \in Workers : u # t => cur'[u] = cur[u]
          /\ pc[t] = "idle" /\ pc' = [pc EXCEPT ![t] = "rmLock"]
      BY <1>1, <2>2 DEF Finalize, proxies, Goto, IInv, TypeOK
    <3> QED BY <1>1, <3>1, AbsStutter DEF IInv, TypeOK
  <2>3. CASE UNCHANGED vars
    BY <2>3, AbsStutter DEF vars, proxies, locals
  <2> QED BY <1>1, <2>1, <2>2, <2>3, AbsApp, AbsWork DEF Next
<1> QED BY AbsInit, <1>1, Invariance, PTL DEF Spec, RefinesIdentity, Abstract!Spec
=============================================================================
