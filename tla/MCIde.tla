------------------------------ MODULE MCIde ------------------------------
(* A small instance of Ide: constants only. *)
EXTENDS Ide

CONSTANTS t1, t2, master, slave

\* Calls of one command and of two; a full command (its count is passed as 0)
\* and a rest; both disks, both kinds on the same sectors.
MCRequest ==
    {[kind |-> "read", disk |-> master, lba |-> 0, cnt |-> 3],
     [kind |-> "write", disk |-> master, lba |-> 0, cnt |-> 3],
     [kind |-> "write", disk |-> slave, lba |-> 1, cnt |-> 2]}

=============================================================================
