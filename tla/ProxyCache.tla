----------------------------- MODULE ProxyCache -----------------------------
(***************************************************************************)
(* djinni::ProxyCache<Traits>: the one cache behind every language         *)
(* boundary (support-lib/proxy_cache_interface.hpp, proxy_cache_impl.hpp). *)
(* A weak map takes (interface tag, address of an implementation) to the   *)
(* proxy that stands for it in the other language; every proxy owns a      *)
(* Handle, the Handle owns the implementation, and ~Handle cleans the map. *)
(*                                                                         *)
(* Implementations have an identity (Impls) and an address (AddrOf):       *)
(* several may have the same address, one after the other.  The three      *)
(* instantiations differ in their weak pointer (WeakKind):                 *)
(*   "weak_ptr"   JavaProxyCache, ObjcProxyCache: std::weak_ptr            *)
(*   "objc_weak"  CppProxyCache: `__weak id`, which ARC reads by retaining *)
(*   "java_weak"  JniCppProxyCache: java.lang.ref.WeakReference            *)
(***************************************************************************)
EXTENDS FiniteSets, Naturals

CONSTANTS
    Threads,      \* threads that run application code
    Finalizers,   \* threads that only run finalizers ("java_weak")
    Tags,         \* interface types: std::type_index
    Impls,        \* implementation objects, each born at most once
    Addrs,        \* the addresses they may have
    AddrOf,       \* Impls -> Addrs
    Proxies,      \* proxy objects, each born at most once
    WeakKind,     \* which WeakProxyPointer the traits name
    AllocThrows,  \* where an allocator may throw: "early", "late"
    None          \* "no such thing"

ASSUME ThreadsAssumption == Threads \cap Finalizers = {}
ASSUME AddrAssumption    == AddrOf \in [Impls -> Addrs]
ASSUME KindAssumption    == /\ WeakKind \in {"weak_ptr", "objc_weak", "java_weak"}
                            /\ AllocThrows \subseteq {"early", "late"}
ASSUME NoneAssumption    == /\ None \notin Threads \cup Finalizers
                            /\ None \notin Tags \cup Impls \cup Proxies
                            /\ None \notin (Tags \X Impls) \X Proxies

Workers == Threads \cup Finalizers
Keys    == Tags \X Addrs

VARIABLES
    mutex,     \* m_mutex: the thread that holds it, or None
    mapping,   \* m_mapping: Keys -> the proxy its weak pointer was made for
    born,      \* the implementations allocated so far
    holders,   \* holders[i]: the threads that own implementation i
    state,     \* state[p]: "unborn", "live", "dying" (its weak pointers have
               \* expired), "removed" (its Handle has left the cache), "gone"
    tagOf,     \* tagOf[p]: the TagType of p's Handle
    objOf,     \* objOf[p]: m_obj of p's Handle
    refs,      \* refs[p]: the threads that own proxy p
    pc,        \* what each thread is at
    tag,       \* its arguments of get()
    impl,
    cur,       \* get(): the proxy it will return; ~Handle: the proxy dying
    temp       \* remove(): the reference ARC retains to read a `__weak id`

objects == <<born, holders>>
proxies == <<state, tagOf, objOf, refs>>
locals  == <<tag, impl, cur, temp>>
vars    == <<mutex, mapping, objects, proxies, pc, locals>>

GetSteps == {"getLock", "getFind", "getAlloc", "getUnwind", "getReturn"}
RmSteps  == {"rmLock", "rmCheck", "rmTemp", "rmUnlock", "dropObj"}
Inside   == {"getFind", "getAlloc", "getUnwind", "getReturn",
             "rmCheck", "rmTemp", "rmUnlock", "relock"}

TypeOK ==
    /\ mutex \in Workers \cup {None}
    /\ mapping \in [Keys -> Proxies \cup {None}]
    /\ born \in SUBSET Impls
    /\ holders \in [Impls -> SUBSET Threads]
    /\ state \in [Proxies -> {"unborn", "live", "dying", "removed", "gone"}]
    /\ tagOf \in [Proxies -> Tags \cup {None}]
    /\ objOf \in [Proxies -> Impls \cup {None}]
    /\ refs \in [Proxies -> SUBSET Threads]
    /\ pc \in [Workers -> {"idle", "relock"} \cup GetSteps \cup RmSteps]
    /\ tag \in [Workers -> Tags \cup {None}]
    /\ impl \in [Workers -> Impls \cup {None}]
    /\ cur \in [Workers -> Proxies \cup {None}]
    /\ temp \in [Workers -> Proxies \cup {None}]

Init ==
    /\ mutex = None
    /\ mapping = [k \in Keys |-> None]
    /\ born = {}
    /\ holders = [i \in Impls |-> {}]
    /\ state = [p \in Proxies |-> "unborn"]
    /\ tagOf = [p \in Proxies |-> None]
    /\ objOf = [p \in Proxies |-> None]
    /\ refs = [p \in Proxies |-> {}]
    /\ pc = [t \in Workers |-> "idle"]
    /\ tag = [t \in Workers |-> None]
    /\ impl = [t \in Workers |-> None]
    /\ cur = [t \in Workers |-> None]
    /\ temp = [t \in Workers |-> None]

Goto(t, step) == pc' = [pc EXCEPT ![t] = step]

\* Key{tag, get_unowning(...)}: of a call of get(), and of a Handle.
KeyOf(t)     == <<tag[t], AddrOf[impl[t]]>>
HandleKey(p) == <<tagOf[p], AddrOf[objOf[p]]>>

\* Mutant: a Handle with a raw pointer.
Alive_Threads(i) == holders[i] # {}
\* An implementation lives while a thread or a Handle owns it.
Alive(i) == holders[i] # {} \/ \E p \in Proxies : objOf[p] = i

\* Mutant: JNI's WeakGlobalRef, which "can still be upgraded to a strong
\* reference even during finalization" (djinni_support.hpp).
Expired_WeakGlobal(p) == state[p] \notin {"live", "dying"}
\* is_expired() of a weak pointer to p.
Expired(p) == state[p] # "live"

\* Does is_expired() own the proxy for a moment?
RetainsToRead == WeakKind = "objc_weak"

\* m_mutex can be locked.  Mutant: nobody asks.
LockFree_Always == TRUE
LockFree == mutex = None

\* m_mapping.erase(), of an entry that may not be there.  Mutant: left out.
Erase_Not(k) == UNCHANGED mapping
Erase(k) == mapping' = [mapping EXCEPT ![k] = None]

\* Somebody other than t owns p.
OwnedBesides(t, p) ==
    \/ refs[p] \ {t} # {}
    \/ \E u \in Workers \ {t} : \/ pc[u] = "getReturn" /\ cur[u] = p
                                \/ temp[u] = p

-----------------------------------------------------------------------------
(* The application: it makes, shares and drops implementations and proxies. *)

\* An allocation may be given the address of an object that is no more.
NewImpl(t, i) ==
    /\ pc[t] = "idle"
    /\ i \notin born
    /\ \A j \in Impls : AddrOf[j] = AddrOf[i] => ~Alive(j)
    /\ born' = born \cup {i}
    /\ holders' = [holders EXCEPT ![i] = {t}]
    /\ UNCHANGED <<mutex, mapping, proxies, pc, locals>>

ShareImpl(t, u, i) ==
    /\ pc[t] = "idle" /\ t \in holders[i]
    /\ u \notin holders[i]
    /\ holders' = [holders EXCEPT ![i] = @ \cup {u}]
    /\ UNCHANGED <<mutex, mapping, born, proxies, pc, locals>>

ReleaseImpl(t, i) ==
    /\ pc[t] = "idle" /\ t \in holders[i]
    /\ holders' = [holders EXCEPT ![i] = @ \ {t}]
    /\ UNCHANGED <<mutex, mapping, born, proxies, pc, locals>>

\* Passing a proxy back to the implementation's language: Handle::get().
Unwrap(t, p) ==
    /\ pc[t] = "idle" /\ t \in refs[p]
    /\ t \notin holders[objOf[p]]
    /\ holders' = [holders EXCEPT ![objOf[p]] = @ \cup {t}]
    /\ UNCHANGED <<mutex, mapping, born, proxies, pc, locals>>

\* A counted proxy dies with its last reference and the thread that drops it
\* runs the destructor; a collected one is left to the garbage collector.
DropProxy(t, p) ==
    /\ pc[t] = "idle" /\ t \in refs[p]
    /\ refs' = [refs EXCEPT ![p] = @ \ {t}]
    /\ IF WeakKind = "java_weak" \/ OwnedBesides(t, p)
       THEN UNCHANGED <<state, pc, cur>>
       ELSE /\ state' = [state EXCEPT ![p] = "dying"]
            /\ cur' = [cur EXCEPT ![t] = p]
            /\ Goto(t, "rmLock")
    /\ UNCHANGED <<mutex, mapping, objects, tagOf, objOf, tag, impl, temp>>

\* The collector clears the WeakReferences to an unreachable proxy ...
Collect(p) ==
    /\ WeakKind = "java_weak"
    /\ state[p] = "live" /\ refs[p] = {}
    /\ \A t \in Workers : ~(pc[t] = "getReturn" /\ cur[t] = p)
    /\ state' = [state EXCEPT ![p] = "dying"]
    /\ UNCHANGED <<mutex, mapping, objects, tagOf, objOf, refs, pc, locals>>

\* ... and some time later a finalizer calls nativeDestroy() on its Handle.
Finalize(t, p) ==
    /\ pc[t] = "idle"
    /\ WeakKind = "java_weak" /\ state[p] = "dying"
    /\ \A u \in Workers : pc[u] \in RmSteps => cur[u] # p
    /\ cur' = [cur EXCEPT ![t] = p]
    /\ Goto(t, "rmLock")
    /\ UNCHANGED <<mutex, mapping, objects, proxies, tag, impl, temp>>

-----------------------------------------------------------------------------
(* Pimpl::get: find or make the proxy of an implementation.                *)

\* Bound: a call starts only while there is a proxy left for it to make.
ProxiesLeft ==
    Cardinality({u \in Workers : pc[u] \in GetSteps})
        < Cardinality({p \in Proxies : state[p] = "unborn"})

GetCall(t, g, i) ==
    /\ pc[t] = "idle" /\ t \in holders[i]
    /\ ProxiesLeft
    /\ tag' = [tag EXCEPT ![t] = g]
    /\ impl' = [impl EXCEPT ![t] = i]
    /\ Goto(t, "getLock")
    /\ UNCHANGED <<mutex, mapping, objects, proxies, cur, temp>>

GetLock(t) ==
    /\ pc[t] = "getLock" /\ LockFree
    /\ mutex' = t
    /\ Goto(t, "getFind")
    /\ UNCHANGED <<mapping, objects, proxies, locals>>

\* find(), then upgrade_weak(): the upgrade either owns the proxy from here on
\* or finds the entry expired and prunes it.
GetFind(t) ==
    /\ pc[t] = "getFind"
    /\ LET p == mapping[KeyOf(t)] IN
       IF p # None /\ ~Expired(p)
       THEN /\ cur' = [cur EXCEPT ![t] = p]
            /\ Goto(t, "getReturn")
            /\ UNCHANGED mapping
       ELSE /\ Erase(KeyOf(t))
            /\ Goto(t, "getAlloc")
            /\ UNCHANGED cur
    /\ UNCHANGED <<mutex, objects, proxies, tag, impl, temp>>

\* Mutant: alloc_result's two halves are swapped.
Emplace_Swapped(k, p) == mapping' = [mapping EXCEPT ![k] = k[2]]
\* m_mapping.emplace() keeps an entry that is there already.
Emplace(k, p) ==
    mapping' = IF mapping[k] = None THEN [mapping EXCEPT ![k] = p] ELSE mapping

\* The proxy p is made, with its Handle on the implementation.
Construct(t, p, s) ==
    /\ state[p] = "unborn"
    /\ state' = [state EXCEPT ![p] = s]
    /\ tagOf' = [tagOf EXCEPT ![p] = tag[t]]
    /\ objOf' = [objOf EXCEPT ![p] = impl[t]]
    /\ cur' = [cur EXCEPT ![t] = p]

\* alloc(impl) and emplace(), still under the lock.
GetAlloc(t, p) ==
    /\ pc[t] = "getAlloc"
    /\ Construct(t, p, "live")
    /\ Emplace(KeyOf(t), p)
    /\ Goto(t, "getReturn")
    /\ UNCHANGED <<mutex, objects, refs, tag, impl, temp>>

\* alloc() throws before there is a Handle: the exception leaves get().
GetAllocThrowEarly(t) ==
    /\ pc[t] = "getAlloc" /\ "early" \in AllocThrows
    /\ Goto(t, "getUnwind")
    /\ UNCHANGED <<mutex, mapping, objects, proxies, locals>>

\* newCppProxy() throws when NewObject fails, or emplace() throws: the Handle
\* is destroyed while `lock` is still held, and remove() locks m_mutex again.
GetAllocThrowLate(t, p) ==
    /\ pc[t] = "getAlloc" /\ "late" \in AllocThrows
    /\ Construct(t, p, "dying")
    /\ Goto(t, "relock")
    /\ UNCHANGED <<mutex, mapping, objects, refs, tag, impl, temp>>

\* Mutant: an exception leaves get() with the mutex locked.
GetUnwind_Locked(t) ==
    /\ pc[t] = "getUnwind"
    /\ Goto(t, "idle")
    /\ UNCHANGED <<mutex, mapping, objects, proxies, locals>>

GetUnwind(t) ==
    /\ pc[t] = "getUnwind"
    /\ mutex' = None
    /\ Goto(t, "idle")
    /\ UNCHANGED <<mapping, objects, proxies, locals>>

\* The lock is released; the caller owns the proxy.
GetReturn(t) ==
    /\ pc[t] = "getReturn"
    /\ mutex' = None
    /\ refs' = [refs EXCEPT ![cur[t]] = @ \cup {t}]
    /\ cur' = [cur EXCEPT ![t] = None]
    /\ Goto(t, "idle")
    /\ UNCHANGED <<mapping, objects, state, tagOf, objOf, tag, impl, temp>>

-----------------------------------------------------------------------------
(* Handle::~Handle: cleanup() -> Pimpl::remove(), then m_obj is destroyed. *)

RmLock(t) ==
    /\ pc[t] = "rmLock" /\ LockFree
    /\ mutex' = t
    /\ Goto(t, "rmCheck")
    /\ UNCHANGED <<mapping, objects, proxies, locals>>

\* Mutant: erased without a look.
Erasable_Always(q) == TRUE
Erasable(q) == q = None \/ Expired(q)

\* find() and is_expired(): only an expired entry is erased, whoever made it.
\* Reading a live `__weak id` retains it until the end of the expression.
RmCheck(t) ==
    /\ pc[t] = "rmCheck"
    /\ LET k == HandleKey(cur[t])
           q == mapping[k]
       IN  IF Erasable(q)
           THEN Erase(k) /\ Goto(t, "rmUnlock") /\ UNCHANGED temp
           ELSE /\ UNCHANGED mapping
                /\ IF RetainsToRead
                   THEN temp' = [temp EXCEPT ![t] = q] /\ Goto(t, "rmTemp")
                   ELSE UNCHANGED temp /\ Goto(t, "rmUnlock")
    /\ state' = [state EXCEPT ![cur[t]] = "removed"]
    /\ UNCHANGED <<mutex, objects, tagOf, objOf, refs, tag, impl, cur>>

\* ARC releases what it retained.  If that was the last reference the proxy is
\* deallocated here, and its own ~Handle locks m_mutex again.
RmTemp(t) ==
    /\ pc[t] = "rmTemp"
    /\ temp' = [temp EXCEPT ![t] = None]
    /\ IF refs[temp[t]] # {} \/ OwnedBesides(t, temp[t])
       THEN Goto(t, "rmUnlock") /\ UNCHANGED <<state, cur>>
       ELSE /\ state' = [state EXCEPT ![temp[t]] = "dying"]
            /\ cur' = [cur EXCEPT ![t] = temp[t]]
            /\ Goto(t, "relock")
    /\ UNCHANGED <<mutex, mapping, objects, tagOf, objOf, refs, tag, impl>>

\* Mutant: remove() never unlocks.
RmUnlock_Locked(t) ==
    /\ pc[t] = "rmUnlock"
    /\ Goto(t, "dropObj")
    /\ UNCHANGED <<mutex, mapping, objects, proxies, locals>>

RmUnlock(t) ==
    /\ pc[t] = "rmUnlock"
    /\ mutex' = None
    /\ Goto(t, "dropObj")
    /\ UNCHANGED <<mapping, objects, proxies, locals>>

DropObj(t) ==
    /\ pc[t] = "dropObj"
    /\ objOf' = [objOf EXCEPT ![cur[t]] = None]
    /\ state' = [state EXCEPT ![cur[t]] = "gone"]
    /\ cur' = [cur EXCEPT ![t] = None]
    /\ Goto(t, "idle")
    /\ UNCHANGED <<mutex, mapping, objects, tagOf, refs, tag, impl, temp>>

-----------------------------------------------------------------------------

\* The steps of a call that is under way.
Step(t) ==
    \/ GetLock(t) \/ GetFind(t) \/ GetUnwind(t) \/ GetReturn(t)
    \/ GetAllocThrowEarly(t)
    \/ \E p \in Proxies : GetAlloc(t, p) \/ GetAllocThrowLate(t, p)
    \/ RmLock(t) \/ RmCheck(t) \/ RmTemp(t) \/ RmUnlock(t) \/ DropObj(t)

App(t) ==
    \/ \E i \in Impls : NewImpl(t, i) \/ ReleaseImpl(t, i)
    \/ \E i \in Impls, u \in Threads : ShareImpl(t, u, i)
    \/ \E p \in Proxies : Unwrap(t, p) \/ DropProxy(t, p)
    \/ \E i \in Impls, g \in Tags : GetCall(t, g, i)

Next ==
    \/ \E t \in Threads : App(t)
    \/ \E t \in Workers : Step(t)
    \/ \E p \in Proxies : Collect(p)
    \/ \E t \in Finalizers, p \in Proxies : Finalize(t, p)

Spec == Init /\ [][Next]_vars

\* A thread inside a critical section keeps running and finalizers are run;
\* nothing is assumed of who gets the mutex next.
Fairness ==
    /\ \A t \in Workers : WF_vars(Step(t))
    /\ \A t \in Finalizers : WF_vars(\E p \in Proxies : Finalize(t, p))

FairSpec == Spec /\ Fairness
-----------------------------------------------------------------------------
(* Properties.                                                             *)

Constructed(p) == state[p] \in {"live", "dying", "removed"}

\* The point of the cache: while a proxy lives, it is the only one of its
\* implementation and type, whatever two racing calls of get(), a destructor
\* caught between expiry and remove(), or an address used again may do.
OneLiveProxy ==
    \A p, q \in Proxies :
        /\ state[p] = "live" /\ state[q] = "live"
        /\ tagOf[p] = tagOf[q] /\ objOf[p] = objOf[q]
        => p = q

\* get() answers with a proxy of the object it was asked for, of the type it
\* was asked for, and never with that of a former object at the same address.
RightProxy ==
    \A t \in Workers : pc[t] = "getReturn" =>
        /\ cur[t] \in Proxies /\ state[cur[t]] = "live"
        /\ tagOf[cur[t]] = tag[t] /\ objOf[cur[t]] = impl[t]

\* A weak pointer left in the map belongs to a proxy whose Handle has yet to
\* run remove(), so it still owns the implementation the key points to: no key
\* dangles, and no entry outlives the Handle that should erase it.
NoStaleEntry ==
    \A k \in Keys : mapping[k] # None =>
        /\ state[mapping[k]] \in {"live", "dying"}
        /\ HandleKey(mapping[k]) = k

\* remove(), called for a proxy that is gone, never takes the entry of a proxy
\* made for the same object meanwhile: a live proxy stays in the map.
LiveProxyIsCached ==
    \A p \in Proxies : state[p] = "live" => mapping[HandleKey(p)] = p

\* A thread never waits for m_mutex while it is the one that holds it (m_mutex
\* is not recursive, so it would wait for ever).
NoSelfDeadlock == \A t \in Workers : pc[t] # "relock"

\* The mutex is always given back.
LockReleased == \A t \in Workers : mutex = t ~> mutex # t

\* Once no thread calls get() any more, every proxy that has died leaves the
\* cache and lets go of its implementation.
EventuallyForgotten ==
    <>[](\A t \in Workers : pc[t] \notin GetSteps)
        => \A p \in Proxies : state[p] = "dying" ~> state[p] = "gone"

\* The cache implements ProxyIdentity: what get() will return is settled when
\* the weak pointer is upgraded or the new proxy is put in the map.
LiveSet(k) == {p \in Proxies : state[p] = "live" /\ <<tagOf[p], objOf[p]>> = k}
Only(S)    == IF S = {} THEN None ELSE CHOOSE p \in S : TRUE

AbsProxy  == [k \in Tags \X Impls |-> Only(LiveSet(k))]
AbsUsed   == {p \in Proxies : state[p] # "unborn"}
AbsResult == [t \in Workers |-> IF pc[t] = "getReturn"
                                THEN <<<<tag[t], impl[t]>>, cur[t]>> ELSE None]

Abstract == INSTANCE ProxyIdentity WITH
    proxy <- AbsProxy, used <- AbsUsed, result <- AbsResult

RefinesIdentity == Abstract!Spec
=============================================================================
