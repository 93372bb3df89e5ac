----------------------------- MODULE PageGrant -----------------------------
(***************************************************************************)
(* What get_kernel_pages of kernel/memory.c promises its callers: each     *)
(* call that succeeds gives the caller adjacent virtual pages that nobody  *)
(* has, each backed by a page frame of its own, for good.                  *)
(***************************************************************************)
EXTENDS Naturals, Functions

CONSTANT Caller

VARIABLES
    owned,   \* the virtual pages each caller was given
    backing  \* the frame behind each page that was given to somebody

Owned == UNION {owned[c] : c \in Caller}

GrantInit ==
    /\ owned = [c \in Caller |-> {}]
    /\ backing = [p \in {} |-> 0]

Adjacent(S) == \E p, q \in S : S = p .. q

\* c is given the pages new.
Grant(c, new) ==
    /\ new # {}
    /\ Adjacent(new)
    /\ new \cap Owned = {}
    /\ owned' = [owned EXCEPT ![c] = @ \cup new]
    /\ DOMAIN backing' = DOMAIN backing \cup new
    /\ \A p \in DOMAIN backing : backing'[p] = backing[p]
    /\ IsInjective(backing')

GrantNext == \E c \in Caller : Grant(c, owned'[c] \ owned[c])

GrantSpec == GrantInit /\ [][GrantNext]_<< owned, backing >>

=============================================================================
