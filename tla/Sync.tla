-------------------------------- MODULE Sync --------------------------------
(***************************************************************************)
(* Semaphores and recursive locks: kernel/sync.c on top of the scheduler.  *)
(*                                                                         *)
(* The threads of Scheduler execute functions that call lock_acquire,      *)
(* lock_release, semaphore_down, semaphore_up and thread_start; pc is the  *)
(* place in the call a thread has reached.  Where the code runs with       *)
(* interrupts enabled each access to shared memory is a step of its own,   *)
(* and the timer or another handler can come in between.                   *)
(***************************************************************************)
EXTENDS Scheduler, FiniteSets

CONSTANTS
    Sem,       \* every semaphore, that of a lock under the name of the lock
    Lock,      \* the semaphores that belong to a lock
    MayDown,   \* the threads whose functions call semaphore_down themselves
    Initial,   \* semaphore_init's value (1 for a lock)
    MaxValue,  \* bound: no semaphore_up beyond this value
    MaxDepth   \* bound: no lock_acquire beyond this recursion

ASSUME SemAssumption ==
    /\ Lock \subseteq Sem /\ Sem # {}
    /\ MayDown \subseteq MayBlock
    /\ Initial \in [Sem -> Nat]
    /\ \A l \in Lock : Initial[l] = 1
ASSUME BoundAssumption == MaxValue \in Nat /\ MaxDepth \in Nat
\* semaphore_down blocks with this status.
ASSUME BlockedAssumption == "TASK_BLOCKED" \in BlockStatus

VARIABLES
    value,    \* semaphore.value
    waiters,  \* semaphore.waiters, linked through general_tag
    holder,   \* lock.holder
    repeat,   \* lock.holder_repeat_num
    pc,       \* where each thread is:
              \*   "body"   in its own function, or in thread_start
              \*   "call"   lock_acquire, found another holder
              \*   "down"   semaphore_down, at the test of its loop
              \*   "enter"  lock_acquire, about to set holder
              \*   "count"  lock_acquire, about to set holder_repeat_num
              \*   "clear"  lock_release, about to clear holder
              \*   "zero"   lock_release, about to clear holder_repeat_num
              \*   "up"     lock_release, about to call semaphore_up
    arg,      \* the semaphore or lock of the call pc is in
    old,      \* semaphore_down's local old
    held      \* history: acquires that returned minus releases called

syncVars == << value, waiters, holder, repeat, pc, arg, old, held >>
vars == << schedVars, syncVars >>

PC == {"body", "call", "down", "enter", "count", "clear", "zero", "up"}

SyncInit ==
    /\ thread_init
    /\ value = Initial
    /\ waiters = [s \in Sem |-> << >>]
    /\ holder = [l \in Lock |-> NoThread]
    /\ repeat = [l \in Lock |-> 0]
    /\ pc = [t \in Thread |-> "body"]
    /\ arg = [t \in Thread |-> CHOOSE s \in Sem : TRUE]
    /\ old = [t \in Thread |-> "INTR_OFF"]
    /\ held = [l \in Lock |-> [t \in Thread |-> 0]]

\* t executes at the place p of the code of sync.c.
At(t, p) == OnCpu(t) /\ making[t] = NoThread /\ pc[t] = p
Goto(t, p) == pc' = [pc EXCEPT ![t] = p]

-----------------------------------------------------------------------------
\* lock_acquire, to the test of the holder.
lock_acquire(t, l) ==
    /\ At(t, "body")
    /\ t \in MayBlock
    /\ held[l][t] < MaxDepth
    /\ \/ /\ holder[l] # t
          /\ Goto(t, "call")
          /\ arg' = [arg EXCEPT ![t] = l]
          /\ UNCHANGED << repeat, held >>
       \/ /\ holder[l] = t
          /\ repeat' = [repeat EXCEPT ![l] = @ + 1]
          /\ held' = [held EXCEPT ![l][t] = @ + 1]
          /\ UNCHANGED << pc, arg >>
    /\ UNCHANGED << schedVars, value, waiters, holder, old >>

\* semaphore_down(s) up to its loop: interrupts go off.
down_enter(t, s) ==
    /\ \/ At(t, "call") /\ s = arg[t]
       \/ At(t, "body") /\ t \in MayDown /\ s \in Sem \ Lock
    /\ intr' = "INTR_OFF"
    /\ old' = [old EXCEPT ![t] = intr]
    /\ arg' = [arg EXCEPT ![t] = s]
    /\ Goto(t, "down")
    /\ UNCHANGED << cur, ready, all, status, ticks, elapsed, frame, saved,
                    making, value, waiters, holder, repeat, held >>

\* The body of the loop for a thread that does not wait yet.  For one still in
\* the list the body is empty: another round changes nothing.
down_block(t) ==
    /\ At(t, "down")
    /\ value[arg[t]] = 0
    /\ ~ elem_find(waiters[arg[t]], t)
    /\ waiters' = [waiters EXCEPT ![arg[t]] = list_append(@, t)]
    /\ thread_block(t, "TASK_BLOCKED")
    /\ UNCHANGED << value, holder, repeat, pc, arg, old, held >>

\* Mutated forms: value is not tested again after the wake-up (an if in place
\* of the while); interrupts stay off.
down_take_untested(t) ==
    /\ At(t, "down")
    /\ value' = [value EXCEPT ![arg[t]] = @ - 1]
    /\ intr' = old[t]
    /\ Goto(t, IF arg[t] \in Lock THEN "enter" ELSE "body")
    /\ UNCHANGED << cur, ready, all, status, ticks, elapsed, frame, saved,
                    making, waiters, holder, repeat, arg, old, held >>
down_take_intr_off(t) ==
    /\ At(t, "down")
    /\ value[arg[t]] # 0
    /\ value' = [value EXCEPT ![arg[t]] = @ - 1]
    /\ Goto(t, IF arg[t] \in Lock THEN "enter" ELSE "body")
    /\ UNCHANGED << schedVars, waiters, holder, repeat, arg, old, held >>

\* The loop ends: the thread takes the semaphore, interrupts as before.
down_take(t) ==
    /\ At(t, "down")
    /\ value[arg[t]] # 0
    /\ value' = [value EXCEPT ![arg[t]] = @ - 1]
    /\ intr' = old[t]
    /\ Goto(t, IF arg[t] \in Lock THEN "enter" ELSE "body")
    /\ UNCHANGED << cur, ready, all, status, ticks, elapsed, frame, saved,
                    making, waiters, holder, repeat, arg, old, held >>

\* The rest of lock_acquire: two stores, with interrupts enabled again.
set_holder(t) ==
    /\ At(t, "enter")
    /\ holder' = [holder EXCEPT ![arg[t]] = t]
    /\ Goto(t, "count")
    /\ UNCHANGED << schedVars, value, waiters, repeat, arg, old, held >>

set_count(t) ==
    /\ At(t, "count")
    /\ repeat' = [repeat EXCEPT ![arg[t]] = 1]
    /\ held' = [held EXCEPT ![arg[t]][t] = @ + 1]
    /\ Goto(t, "body")
    /\ UNCHANGED << schedVars, value, waiters, holder, arg, old >>

\* Mutated form: any thread may release.
lock_release_any(t, l) ==
    /\ At(t, "body")
    /\ held' = [held EXCEPT ![l][t] = IF @ > 0 THEN @ - 1 ELSE 0]
    /\ \/ /\ repeat[l] > 1
          /\ repeat' = [repeat EXCEPT ![l] = @ - 1]
          /\ UNCHANGED << pc, arg >>
       \/ /\ repeat[l] <= 1
          /\ Goto(t, "clear")
          /\ arg' = [arg EXCEPT ![t] = l]
          /\ UNCHANGED repeat
    /\ UNCHANGED << schedVars, value, waiters, holder, old >>

\* lock_release, to the decision: not the holder, not the last release, or
\* the last one.
lock_release(t, l) ==
    /\ At(t, "body")
    /\ held' = [held EXCEPT ![l][t] = IF @ > 0 THEN @ - 1 ELSE 0]
    /\ \/ /\ holder[l] # t
          /\ UNCHANGED << repeat, pc, arg >>
       \/ /\ holder[l] = t
          /\ repeat[l] > 1
          /\ repeat' = [repeat EXCEPT ![l] = @ - 1]
          /\ UNCHANGED << pc, arg >>
       \/ /\ holder[l] = t
          /\ repeat[l] <= 1
          /\ Goto(t, "clear")
          /\ arg' = [arg EXCEPT ![t] = l]
          /\ UNCHANGED repeat
    /\ UNCHANGED << schedVars, value, waiters, holder, old >>

clear_holder(t) ==
    /\ At(t, "clear")
    /\ holder' = [holder EXCEPT ![arg[t]] = NoThread]
    /\ Goto(t, "zero")
    /\ UNCHANGED << schedVars, value, waiters, repeat, arg, old, held >>

clear_count(t) ==
    /\ At(t, "zero")
    /\ repeat' = [repeat EXCEPT ![arg[t]] = 0]
    /\ Goto(t, "up")
    /\ UNCHANGED << schedVars, value, waiters, holder, arg, old, held >>

\* Mutated forms of wake_first: a wake-up only if value was 0, as if one were
\* enough for all; the thread that is woken stays in the list.
wake_first_from_zero(s) ==
    \/ /\ list_empty(waiters[s]) \/ value[s] # 0
       /\ UNCHANGED << waiters, ready, status >>
    \/ /\ ~ list_empty(waiters[s]) /\ value[s] = 0
       /\ waiters' = [waiters EXCEPT ![s] = list_rest(@)]
       /\ unblock(list_first(waiters[s]))
wake_first_no_pop(s) ==
    /\ UNCHANGED waiters
    /\ IF list_empty(waiters[s]) THEN UNCHANGED << ready, status >>
                                 ELSE unblock(list_first(waiters[s]))
wake_first_never(s) == UNCHANGED << waiters, ready, status >>

\* The thread that waits longest is taken off the list and woken.
wake_first(s) ==
    \/ /\ list_empty(waiters[s])
       /\ UNCHANGED << waiters, ready, status >>
    \/ /\ ~ list_empty(waiters[s])
       /\ waiters' = [waiters EXCEPT ![s] = list_rest(@)]
       /\ unblock(list_first(waiters[s]))

\* semaphore_up(s): all of it with interrupts disabled, then as before.
semaphore_up(s) ==
    /\ value' = [value EXCEPT ![s] = @ + 1]
    /\ wake_first(s)
    /\ UNCHANGED << cur, intr, all, ticks, elapsed, frame, saved, making,
                    holder, repeat, arg, old, held >>

\* The end of lock_release.
release_up(t) ==
    /\ At(t, "up")
    /\ semaphore_up(arg[t])
    /\ Goto(t, "body")

\* A semaphore of its own is raised by a thread, or by an interrupt handler
\* at any point where interrupts are enabled.
event_up(s) ==
    /\ Interruptible \/ At(cur, "body")
    /\ s \in Sem \ Lock
    /\ value[s] < MaxValue
    /\ semaphore_up(s)
    /\ UNCHANGED pc

\* The steps below are the scheduler's: sync.c's state does not change.
boot(t) == At(t, "body") /\ intr_enable(t) /\ UNCHANGED syncVars
start(t, u) == At(t, "body") /\ thread_start(t, u) /\ UNCHANGED syncVars
start_ready(t) == thread_start_ready(t) /\ UNCHANGED syncVars
timer == intr_timer_handler /\ UNCHANGED syncVars
return(t) == switch_return(t) /\ UNCHANGED syncVars

\* The steps of a call that has begun: nothing but the CPU is needed.
Inside(t) ==
    \/ \E s \in Sem : At(t, "call") /\ down_enter(t, s)
    \/ down_block(t) \/ down_take(t)
    \/ set_holder(t) \/ set_count(t)
    \/ clear_holder(t) \/ clear_count(t) \/ release_up(t)

\* The calls a thread makes, and the start of the threads by main.
Call(t) ==
    \/ \E l \in Lock : lock_acquire(t, l) \/ lock_release(t, l)
    \/ \E s \in Sem : At(t, "body") /\ down_enter(t, s)
    \/ boot(t)
    \/ t = main /\ \E u \in Thread : start(t, u)

SyncNext ==
    \/ timer
    \/ \E s \in Sem : event_up(s)
    \/ \E t \in Thread : Inside(t) \/ Call(t) \/ start_ready(t) \/ return(t)

SyncSpec == SyncInit /\ [][SyncNext]_vars

(***************************************************************************)
(* Fairness, as in Scheduler: the CPU executes, a switch completes, a tick *)
(* is latched until interrupts are enabled.  A thread in a call gets to    *)
(* execute an instruction of it in one of its slices (strong fairness: the *)
(* timer may preempt it any number of times before).  Of the callers it    *)
(* asks that the main thread enables interrupts, as init_all does, and     *)
(* that who holds a lock makes its last release; of a device, that it      *)
(* raises the semaphore a thread waits for.                                *)
(***************************************************************************)
SyncFairness ==
    /\ SF_vars(timer)
    /\ WF_vars(boot(main))
    /\ WF_vars(\E t \in Thread : return(t))
    /\ SF_vars(start_ready(main))
    /\ \A t \in Thread : SF_vars(Inside(t))
    /\ \A s \in Sem \ Lock : SF_vars(~ list_empty(waiters[s]) /\ event_up(s))
    /\ \A t \in Thread, l \in Lock, d \in 1 .. MaxDepth :
         SF_vars(held[l][t] = d /\ lock_release(t, l))

FairSyncSpec == SyncSpec /\ SyncFairness

-----------------------------------------------------------------------------
DataTypeOK ==
    /\ value \in [Sem -> Nat]
    /\ waiters \in [Sem -> Seq(Thread)]
    /\ holder \in [Lock -> Thread \cup {NoThread}]
    /\ repeat \in [Lock -> Nat]
    /\ pc \in [Thread -> PC]
    /\ arg \in [Thread -> Sem]
    /\ \A t \in Thread :
         pc[t] \notin {"body", "down"} => arg[t] \in Lock
    /\ old \in [Thread -> Intr]
    /\ held \in [Lock -> [Thread -> Nat]]

SyncTypeOK == TypeOK /\ DataTypeOK

\* t is between semaphore_down and semaphore_up of the lock l.
Owns(t, l) ==
    \/ held[l][t] > 0
    \/ arg[t] = l /\ pc[t] \in {"enter", "count", "clear", "zero", "up"}

\* The value of a lock's semaphore and its owners account for each other: a
\* lock has one owner or is free to take, whatever the code between the
\* stores of holder, holder_repeat_num and value is interrupted by.
LockTokens ==
    \A l \in Lock :
        value[l] + Cardinality({t \in Thread : Owns(t, l)}) = 1

\* The two fields of a lock agree with its callers: holder_repeat_num counts
\* the acquires of the holder, and holder names no thread beyond its release.
HolderExact ==
    \A l \in Lock : \A t \in Thread :
        /\ held[l][t] > 0 => holder[l] = t /\ repeat[l] = held[l][t]
        /\ holder[l] = t =>
             \/ held[l][t] > 0
             \/ arg[t] = l /\ pc[t] \in {"count", "clear"}

\* The lock implements the recursive mutex its callers rely on.
Mtx == INSTANCE Mutex WITH depth <- held
LockIsMutex == Mtx!MutexSpec

\* The threads in semaphore_down that will test value again without a further
\* wake-up: newcomers, and waiters that semaphore_up took off the list.
Awake(s) ==
    {t \in Thread : pc[t] = "down" /\ arg[t] = s /\ t \notin ToSet(waiters[s])}

\* No wake-up is lost: while threads wait, every unit of value is about to be
\* fetched by a thread that is awake (even if another one got there first
\* and the one that was woken waits again).
NoLostWakeup ==
    \A s \in Sem :
        waiters[s] # << >> => value[s] <= Cardinality(Awake(s))

\* general_tag is one pair of links: it is in one list at most, once, and
\* only a thread blocked in semaphore_down is in a list of waiters.
TagInOneList ==
    /\ IsInjective(ready)
    /\ \A s \in Sem :
         /\ IsInjective(waiters[s])
         /\ \A t \in ToSet(waiters[s]) :
              /\ t \notin ToSet(ready)
              /\ status[t] = "TASK_BLOCKED" /\ pc[t] = "down" /\ arg[t] = s

\* sync.c: the loop of semaphore_down does not run on while value is 0; the
\* thread is back in it only after thread_unblock.
NoBusyWait ==
    \A t \in Thread :
        ~ (At(t, "down") /\ value[arg[t]] = 0 /\ t \in ToSet(waiters[arg[t]]))

\* Every disable is undone, over any switch in between: a started thread runs
\* with interrupts disabled in the loop of semaphore_down, and only there.
IntrDiscipline ==
    OnCpu(cur) /\ cur # main => (intr = "INTR_OFF" <=> pc[cur] = "down")

\* While a thread waits for a lock, the lock is acquired again (perhaps by
\* another thread: it is not handed to the one that was woken), although its
\* holder waits for a device in between.
LockProgress ==
    \A l \in Lock :
        (\E t \in Thread : pc[t] = "down" /\ arg[t] = l)
            ~> (\E t \in Thread : pc[t] = "count" /\ arg[t] = l)

=============================================================================
