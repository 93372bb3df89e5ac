------------------------------- MODULE Links -------------------------------
(***************************************************************************)
(* The links of kernel/list.c under everything thread.c and sync.c do with *)
(* them.  A list is a head and a tail, and the tags between them that lie  *)
(* in TCBs: general_tag, one pair of links for the ready list and all the  *)
(* lists of waiters, and all_list_tag.                                     *)
(*                                                                         *)
(* Each step of Sync is accompanied by the stores its calls of list.c make.*)
(* What these decide is decided by the links alone, so that ready, all and *)
(* waiters of Sync, which are sequences, are what the links are compared   *)
(* with.                                                                   *)
(***************************************************************************)
EXTENDS Sync

\* No semaphore has the name of a list of thread.c.
ASSUME ListAssumption == {"ready", "all"} \cap Sem = {}

VARIABLES
    next,  \* list_elem.next
    prev   \* list_elem.prev

linkVars == << vars, next, prev >>

\* &list.head, &list.tail, &thread->general_tag, &thread->all_list_tag.
head(l) == << "head", l >>
tail(l) == << "tail", l >>
general_tag(t)  == << "general_tag", t >>
all_list_tag(t) == << "all_list_tag", t >>
NULL == << "NULL", NoThread >>

List == {"ready", "all"} \cup Sem
Elem ==
    {head(l) : l \in List} \cup {tail(l) : l \in List}
        \cup {general_tag(t) : t \in Thread} \cup {all_list_tag(t) : t \in Thread}

\* The TCB a tag lies in: the address with its low 12 bits cleared.
TCB(e) == e[2]

-----------------------------------------------------------------------------
(***************************************************************************)
(* list.c, store by store.  h is the record of next and prev; a store      *)
(* through NULL is lost.                                                   *)
(***************************************************************************)
Next(h, e, x) == [h EXCEPT !.next[e] = x]
Prev(h, e, x) == [h EXCEPT !.prev[e] = x]

insert_before(h, before, e) ==
    LET h1 == Prev(Next(h, e, before), e, h.prev[before])
        h2 == Next(h1, h1.prev[before], e) IN
    Prev(h2, before, e)

\* Mutated form: the element that follows keeps its link back.
remove_oneway(h, e) ==
    Prev(Next(Next(h, h.prev[e], h.next[e]), e, NULL), e, NULL)

remove(h, e) ==
    LET h1 == Next(h, h.prev[e], h.next[e])
        h2 == Prev(h1, h1.next[e], h1.prev[e]) IN
    Prev(Next(h2, e, NULL), e, NULL)

push(h, l, e)   == insert_before(h, h.next[head(l)], e)
append(h, l, e) == insert_before(h, tail(l), e)
empty(h, l)     == h.next[head(l)] = tail(l)
pop(h, l)       == remove(h, h.next[head(l)])

\* elem_find: it walks over other lists, should the links lead there.
find(h, l, e) ==
    LET ptr[k \in 0 .. Cardinality(Thread)] ==
            IF k = 0 THEN head(l)
            ELSE LET p == ptr[k - 1] IN IF h.next[p] = NULL THEN p ELSE h.next[p]
    IN \E k \in 1 .. Cardinality(Thread) : ptr[k] = e

\* if(!elem_find(...)) list_append(...), as thread.c and sync.c have it.
append_once(h, l, e) == IF find(h, l, e) THEN h ELSE append(h, l, e)
push_once(h, l, e)   == IF find(h, l, e) THEN h ELSE push(h, l, e)

-----------------------------------------------------------------------------
(***************************************************************************)
(* What the functions of thread.c and sync.c do to the links.              *)
(***************************************************************************)
links == [next |-> next, prev |-> prev]

thread_start_links(h, u) == append_once(h, "all", all_list_tag(u))
thread_ready_links(h, u) == append_once(h, "ready", general_tag(u))

schedule_links(h, st) ==
    LET h1 == IF st[cur] = "TASK_RUNNING"
              THEN append_once(h, "ready", general_tag(cur)) ELSE h IN
    IF empty(h1, "ready") THEN h1 ELSE pop(h1, "ready")

timer_links(h) == IF ticks[cur] = 0 THEN schedule_links(h, status) ELSE h

down_block_links(h, s) ==
    schedule_links(append_once(h, s, general_tag(cur)),
                   [status EXCEPT ![cur] = "TASK_BLOCKED"])

unblock_links(h, u) ==
    IF status[u] \in BlockStatus THEN push_once(h, "ready", general_tag(u)) ELSE h

semaphore_up_links(h, s) ==
    IF empty(h, s) THEN h
    ELSE unblock_links(pop(h, s), TCB(h.next[head(s)]))

-----------------------------------------------------------------------------
\* list_init of every list; the main thread's all_list_tag has been appended.
\* The tags of TCBs that are still free will be 0, as pages are when they are
\* allocated; main's TCB is the page of its stack and holds anything.
LinksInit ==
    \E junk \in {NULL, tail("ready")} :
        LET Old(e) == IF e = general_tag(main) THEN junk ELSE NULL
            empties ==
                [next |-> [e \in Elem |-> IF \E l \in List : e = head(l)
                                         THEN tail(e[2]) ELSE Old(e)],
                 prev |-> [e \in Elem |-> IF \E l \in List : e = tail(l)
                                         THEN head(e[2]) ELSE Old(e)]]
            h == thread_start_links(empties, main) IN
        SyncInit /\ next = h.next /\ prev = h.prev

To(h) == next' = h.next /\ prev' = h.prev

LinksNext ==
    \/ timer /\ To(timer_links(links))
    \/ \E s \in Sem : event_up(s) /\ To(semaphore_up_links(links, s))
    \/ \E t \in Thread :
         \/ start_ready(t) /\ To(thread_ready_links(links, making[t]))
         \/ t = main /\ \E u \in Thread :
                start(t, u) /\ To(thread_start_links(links, u))
         \/ down_block(t) /\ To(down_block_links(links, arg[t]))
         \/ release_up(t) /\ To(semaphore_up_links(links, arg[t]))
         \/ /\ \/ \E l \in Lock : lock_acquire(t, l) \/ lock_release(t, l)
               \/ \E s \in Sem : down_enter(t, s)
               \/ down_take(t) \/ set_holder(t) \/ set_count(t)
               \/ clear_holder(t) \/ clear_count(t)
               \/ boot(t) \/ return(t)
            /\ UNCHANGED << next, prev >>

LinksSpec == LinksInit /\ [][LinksNext]_linkVars

-----------------------------------------------------------------------------
\* The elements of l are those of q, by the links and by the links back.
LinkedAs(l, q) ==
    LET chain == << head(l) >> \o q \o << tail(l) >> IN
    \A k \in 1 .. Len(chain) - 1 :
        next[chain[k]] = chain[k + 1] /\ prev[chain[k + 1]] = chain[k]

\* list.c: whatever is inserted and removed, in whichever order threads and
\* handlers come, the links of the ready list, of the list of all threads and
\* of each list of waiters lead through the elements that KList says, in both
\* directions, although one general_tag serves all lists; the tag of a started
\* thread that is in no list is NULL.
ListsLinked ==
    /\ LinkedAs("ready", [k \in 1 .. Len(ready) |-> general_tag(ready[k])])
    /\ LinkedAs("all", [k \in 1 .. Len(all) |-> all_list_tag(all[k])])
    /\ \A s \in Sem :
          LinkedAs(s, [k \in 1 .. Len(waiters[s]) |-> general_tag(waiters[s][k])])
    /\ \A t \in Thread \ {main} :
          t \notin ToSet(ready) /\ (\A s \in Sem : t \notin ToSet(waiters[s]))
              => next[general_tag(t)] = NULL /\ prev[general_tag(t)] = NULL

=============================================================================
