---------------------------- MODULE ProxyIdentity ----------------------------
(***************************************************************************)
(* What the proxy cache promises, without the map, the mutex or the weak   *)
(* pointers: "when we pass the same object across a language boundary      *)
(* twice, we want to get the same proxy object on the other side each      *)
(* time" (proxy_cache_interface.hpp).  Looking a proxy up is one atomic    *)
(* step; a proxy is forgotten when nobody owns it any more, and a new one  *)
(* is made the next time.                                                  *)
(***************************************************************************)
CONSTANTS Workers, Tags, Impls, Proxies, None

VARIABLES
    proxy,    \* proxy[g, i]: the live proxy of implementation i as a g, or None
    used,     \* the proxies made so far
    result    \* result[t]: <<k, p>> that a call of t will return, or None

vars == <<proxy, used, result>>

Init ==
    /\ proxy = [k \in Tags \X Impls |-> None]
    /\ used = {}
    /\ result = [t \in Workers |-> None]

\* The implementation has a live proxy: that one is returned.
Find(t, k) ==
    /\ result[t] = None
    /\ proxy[k] # None
    /\ result' = [result EXCEPT ![t] = <<k, proxy[k]>>]
    /\ UNCHANGED <<proxy, used>>

\* It has none: one is made that nobody has seen before.
Make(t, k, p) ==
    /\ result[t] = None
    /\ proxy[k] = None
    /\ p \notin used
    /\ proxy' = [proxy EXCEPT ![k] = p]
    /\ used' = used \cup {p}
    /\ result' = [result EXCEPT ![t] = <<k, p>>]

\* The allocator failed: a proxy was begun that never gets out.
Waste(p) ==
    /\ p \notin used
    /\ used' = used \cup {p}
    /\ UNCHANGED <<proxy, result>>

Return(t) ==
    /\ result[t] # None
    /\ result' = [result EXCEPT ![t] = None]
    /\ UNCHANGED <<proxy, used>>

\* A proxy on its way to a caller is owned, and so is not forgotten.
Forget(k) ==
    /\ proxy[k] # None
    /\ \A t \in Workers : result[t] # <<k, proxy[k]>>
    /\ proxy' = [proxy EXCEPT ![k] = None]
    /\ UNCHANGED <<used, result>>

Next ==
    \/ \E t \in Workers, k \in Tags \X Impls :
          \/ Find(t, k)
          \/ \E p \in Proxies : Make(t, k, p)
    \/ \E p \in Proxies : Waste(p)
    \/ \E t \in Workers : Return(t)
    \/ \E k \in Tags \X Impls : Forget(k)

Spec == Init /\ [][Next]_vars
=============================================================================
