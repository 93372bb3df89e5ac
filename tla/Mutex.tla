------------------------------- MODULE Mutex -------------------------------
(***************************************************************************)
(* What the lock of kernel/sync.c promises its callers: a mutex that its   *)
(* holder may acquire again, and that is free once it was released as      *)
(* often as it was acquired.                                               *)
(***************************************************************************)
EXTENDS Naturals

CONSTANTS Thread, Lock

VARIABLE
    depth  \* acquires that returned minus releases called, per lock and thread

MutexInit == depth = [l \in Lock |-> [t \in Thread |-> 0]]

Acquire(l, t) ==
    /\ \A u \in Thread \ {t} : depth[l][u] = 0
    /\ depth' = [depth EXCEPT ![l][t] = @ + 1]

Release(l, t) ==
    /\ depth[l][t] > 0
    /\ depth' = [depth EXCEPT ![l][t] = @ - 1]

MutexNext == \E l \in Lock, t \in Thread : Acquire(l, t) \/ Release(l, t)

MutexSpec == MutexInit /\ [][MutexNext]_depth

\* At most one thread is between its first acquire and its last release.
Exclusion ==
    \A l \in Lock : \A t, u \in Thread :
        depth[l][t] > 0 /\ depth[l][u] > 0 => t = u

=============================================================================
