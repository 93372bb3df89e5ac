------------------------------ MODULE MCSync ------------------------------
(* Small instances of Sync: constants only. *)
EXTENDS Sync

CONSTANTS t1, t2, t3, lock, disk

\* Every tick switches, so that every interleaving is a matter of few ticks.
MCPriority == [t \in Thread |-> 0]

\* A lock starts at 1, the semaphore of a device, disk_done, at 0.
MCInitial == [s \in Sem |-> IF s \in Lock THEN 1 ELSE 0]

\* main.c's main ends in while(1).
MCMayBlock == Thread \ {main}

=============================================================================
