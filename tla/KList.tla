------------------------------- MODULE KList -------------------------------
(***************************************************************************)
(* The kernel's list (kernel/list.c) as the other modules use it: the      *)
(* sequence of the elements between the head and the tail sentinel.  Each  *)
(* operation of list.c that reads or changes links runs with interrupts    *)
(* disabled, so each one is a single step here.                            *)
(***************************************************************************)
EXTENDS Naturals, Sequences, SequencesExt

list_empty(plist) == plist = << >>

elem_find(plist, elem) == elem \in ToSet(plist)

\* At the front: before the element that follows the head sentinel.
list_push(plist, elem) == << elem >> \o plist

\* At the end: before the tail sentinel.
list_append(plist, elem) == Append(plist, elem)

\* Mutated form of list_rest: the element is read but stays in the list.
list_peek(plist) == plist

\* list_pop returns list_first and leaves list_rest.
list_first(plist) == Head(plist)
list_rest(plist) == Tail(plist)

=============================================================================
