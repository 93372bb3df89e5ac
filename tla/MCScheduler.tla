---------------------------- MODULE MCScheduler ----------------------------
(* Small instances of Scheduler: constants only. *)
EXTENDS Scheduler

CONSTANTS t1, t2, t3

\* A thread of priority 0 gives up the CPU on every tick, one keeps it for
\* two.
MCPriority == [t \in Thread |-> IF t = t1 THEN 1 ELSE 0]

\* main.c's main ends in while(1).
MCMayBlock == Thread \ {main}

=============================================================================
