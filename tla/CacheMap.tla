------------------------------ MODULE CacheMap ------------------------------
(***************************************************************************)
(* What the rrset cache promises to the threads that use it: a map from    *)
(* names to contents that may forget.  A lookup returns exactly what the   *)
(* map has for the name at one moment during the call, nothing gets into   *)
(* the map that a thread is not storing, and what a lookup returned stays  *)
(* the same in the hands of the thread until it lets go.                   *)
(***************************************************************************)
CONSTANTS Thread, Name, Data, NULL

VARIABLES
  map,     \* what the cache has for a name, or NULL
  want,    \* the names and contents that a thread is going to store
  got      \* what a lookup of the thread returned, or NULL

vars == <<map, want, got>>

Init ==
  /\ map = [n \in Name |-> NULL]
  /\ want = [t \in Thread |-> {}]
  /\ got = [t \in Thread |-> NULL]

\* A thread has rrsets to store.
Begin(t) ==
  /\ want[t] = {}
  /\ \E W \in SUBSET (Name \X Data) : want' = [want EXCEPT ![t] = W]
  /\ UNCHANGED <<map, got>>

\* One of them gets into the cache.
Store(t) ==
  \E n \in Name, d \in Data :
    /\ <<n, d>> \in want[t]
    /\ map' = [map EXCEPT ![n] = d]
    /\ want' = [want EXCEPT ![t] = @ \ {<<n, d>>}]
    /\ UNCHANGED got

\* A lookup returns what is in the cache.
Hit(t) ==
  \E n \in Name :
    /\ map[n] # NULL
    /\ got[t] = NULL
    /\ got' = [got EXCEPT ![t] = <<n, map[n]>>]
    /\ UNCHANGED <<map, want>>

\* The thread lets go of what it looked up, or does not store an rrset, for
\* instance because what it looked up is better.
Leave(t) ==
  /\ got' = [got EXCEPT ![t] = NULL] \/ got' = got
  /\ \E W \in SUBSET want[t] : want' = [want EXCEPT ![t] = W]
  /\ UNCHANGED map

\* The cache makes room, or a name is removed.
Forget ==
  /\ \E n \in Name : map' = [map EXCEPT ![n] = NULL]
  /\ UNCHANGED <<want, got>>

Next == Forget \/ \E t \in Thread : Begin(t) \/ Store(t) \/ Hit(t) \/ Leave(t)

Spec == Init /\ [][Next]_vars
=============================================================================
