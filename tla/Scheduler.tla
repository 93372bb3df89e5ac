----------------------------- MODULE Scheduler -----------------------------
(***************************************************************************)
(* Kernel threads on one CPU: kernel/thread.c, the timer interrupt of      *)
(* kernel/interrupt.c and the interrupt flag that protects both.           *)
(*                                                                         *)
(* A thread is its TCB.  One thread, cur, owns the CPU (the code finds it  *)
(* by masking esp).  A thread that was switched out sits inside a call of  *)
(* switch_to; frame says which code runs when that call returns.           *)
(***************************************************************************)
EXTENDS KList

CONSTANTS
    Thread,         \* the TCB pages, that of the main thread included
    main,           \* the thread the loader's stack belongs to
    NoThread,
    MayBlock,       \* the threads whose functions block; main.c's main does not
    BlockStatus,    \* the statuses thread_block accepts
    Priority,       \* the priority each thread is started with
    TimerSchedules, \* FALSE: intr_timer_handler as linked, it only counts;
                    \* TRUE: with its commented-out second half
    ElapsedLimit    \* elapsed_ticks wraps here (at 2^32 in the code)

ASSUME ThreadAssumption ==
    main \in Thread /\ NoThread \notin Thread /\ MayBlock \subseteq Thread
ASSUME StatusAssumption ==
    BlockStatus \subseteq {"TASK_BLOCKED", "TASK_WAITING", "TASK_HANGING"}
ASSUME PriorityAssumption == Priority \in [Thread -> Nat]
ASSUME TimerAssumption ==
    TimerSchedules \in BOOLEAN /\ ElapsedLimit \in Nat \ {0}

VARIABLES
    cur,      \* the thread on the CPU
    intr,     \* the IF bit of eflags
    ready,    \* thread_ready_list, linked through general_tag
    all,      \* thread_all_list, linked through all_list_tag
    status,   \* task_struct.status; "free" for a page not yet allocated
    ticks,    \* task_struct.ticks
    elapsed,  \* task_struct.elapsed_ticks
    frame,    \* what follows the switch_to a thread is inside of:
              \*   "none"   the thread is not inside one
              \*   "fresh"  kernel_thread, put on a new stack by thread_start
              \*   "timer"  the return from the timer interrupt
              \*   "block"  the end of thread_block
    saved,    \* thread_block's local old
    making    \* the thread a caller of thread_start has yet to make ready

schedVars == << cur, intr, ready, all, status, ticks, elapsed, frame, saved,
                making >>

Status == {"free", "TASK_RUNNING", "TASK_READY"} \cup BlockStatus
Frame  == {"none", "fresh", "timer", "block"}
Intr   == {"INTR_ON", "INTR_OFF"}

-----------------------------------------------------------------------------
\* The state thread_init leaves: interrupts are still off, as in the loader.
thread_init ==
    /\ cur = main
    /\ intr = "INTR_OFF"
    /\ ready = << >>
    /\ all = << main >>
    /\ status = [t \in Thread |-> IF t = main THEN "TASK_RUNNING" ELSE "free"]
    /\ ticks = [t \in Thread |-> IF t = main THEN Priority[main] ELSE 0]
    /\ elapsed = [t \in Thread |-> 0]
    /\ frame = [t \in Thread |-> "none"]
    /\ saved = [t \in Thread |-> "INTR_OFF"]
    /\ making = [t \in Thread |-> NoThread]

\* cur executes code of its own, not the rest of a switch.
OnCpu(t) == cur = t /\ frame[t] = "none"

\* cur executes its function: it may call any operation of the kernel.
InBody(t) == OnCpu(t) /\ making[t] = NoThread

\* An interrupt can be taken between two instructions.
Interruptible == OnCpu(cur) /\ intr = "INTR_ON"

intr_disable(t) ==
    /\ InBody(t)
    /\ intr = "INTR_ON"
    /\ intr' = "INTR_OFF"
    /\ UNCHANGED << cur, ready, all, status, ticks, elapsed, frame, saved,
                    making >>

intr_enable(t) ==
    /\ InBody(t)
    /\ intr = "INTR_OFF"
    /\ intr' = "INTR_ON"
    /\ UNCHANGED << cur, ready, all, status, ticks, elapsed, frame, saved,
                    making >>

\* The second half of schedule: take the next thread of the list queue, if
\* there is one.  The caller goes on as kind when switch_to returns; with an
\* empty list schedule returns at once, and it goes on without a switch.
switch_next(queue, st, kind) ==
    /\ frame' = [frame EXCEPT ![cur] = kind]
    /\ \/ /\ list_empty(queue)
          /\ ready' = queue
          /\ status' = st
          /\ UNCHANGED cur
       \/ /\ ~ list_empty(queue)
          /\ cur' = list_first(queue)
          /\ ready' = list_rest(queue)
          /\ status' = [st EXCEPT ![list_first(queue)] = "TASK_RUNNING"]

\* Mutated forms of schedule, to show what the properties detect: the thread
\* put at the wrong end, not put back at all, or left RUNNING.
schedule_lifo(st, kind) ==
    IF st[cur] = "TASK_RUNNING"
    THEN switch_next(list_push(ready, cur),
                     [st EXCEPT ![cur] = "TASK_READY"], kind)
    ELSE switch_next(ready, st, kind)
schedule_drop(st, kind) ==
    IF st[cur] = "TASK_RUNNING"
    THEN switch_next(ready, [st EXCEPT ![cur] = "TASK_READY"], kind)
    ELSE switch_next(ready, st, kind)
schedule_still_running(st, kind) ==
    IF st[cur] = "TASK_RUNNING"
    THEN switch_next(list_append(ready, cur), st, kind)
    ELSE switch_next(ready, st, kind)

\* schedule, called with the statuses st.
schedule(st, kind) ==
    \/ /\ st[cur] = "TASK_RUNNING"
       /\ switch_next(IF elem_find(ready, cur) THEN ready
                                              ELSE list_append(ready, cur),
                      [st EXCEPT ![cur] = "TASK_READY"], kind)
    \/ /\ st[cur] # "TASK_RUNNING"
       /\ switch_next(ready, st, kind)

\* What schedule does to ticks: a full slice for a thread that is preempted.
Refill(st) ==
    IF st[cur] = "TASK_RUNNING"
    THEN [ticks EXCEPT ![cur] = Priority[cur]] ELSE ticks

\* Mutated form: no thread_stack is laid out for the first switch.
thread_start_no_stack(t, u) ==
    /\ InBody(t)
    /\ status[u] = "free"
    /\ status' = [status EXCEPT ![u] = "TASK_READY"]
    /\ making' = [making EXCEPT ![t] = u]
    /\ UNCHANGED << cur, intr, ready, all, ticks, elapsed, frame, saved >>

\* thread_start(u) by t, up to the append to thread_all_list.  Interrupts are
\* not disabled: the caller can be switched out before it goes on.
thread_start(t, u) ==
    /\ InBody(t)
    /\ status[u] = "free"
    /\ status' = [status EXCEPT ![u] = "TASK_READY"]
    /\ ticks' = [ticks EXCEPT ![u] = Priority[u]]
    /\ elapsed' = [elapsed EXCEPT ![u] = 0]
    /\ frame' = [frame EXCEPT ![u] = "fresh"]
    /\ all' = IF elem_find(all, u) THEN all ELSE list_append(all, u)
    /\ making' = [making EXCEPT ![t] = u]
    /\ UNCHANGED << cur, intr, ready, saved >>

\* The last step of thread_start: the new thread enters the ready list.
thread_start_ready(t) ==
    /\ OnCpu(t)
    /\ making[t] # NoThread
    /\ ready' = IF elem_find(ready, making[t]) THEN ready
                ELSE list_append(ready, making[t])
    /\ making' = [making EXCEPT ![t] = NoThread]
    /\ UNCHANGED << cur, intr, all, status, ticks, elapsed, frame, saved >>

\* Mutated form: ticks is decremented without the test for 0.
timer_no_test ==
    /\ TimerSchedules
    /\ Interruptible
    /\ ticks' = [ticks EXCEPT ![cur] = @ - 1]
    /\ UNCHANGED << cur, intr, ready, all, status, elapsed, frame, saved,
                    making >>

(***************************************************************************)
(* The timer interrupt.  The gate clears IF, iretd restores it; the count  *)
(* of the ticks and its printing are left out, and a kernel stack never    *)
(* grows into its TCB here, so stack_magic is always intact.               *)
(***************************************************************************)
intr_timer_handler ==
    /\ TimerSchedules
    /\ Interruptible
    /\ elapsed' = [elapsed EXCEPT ![cur] = (@ + 1) % ElapsedLimit]
    /\ UNCHANGED << all, saved, making >>
    /\ \/ /\ ticks[cur] = 0
          /\ intr' = "INTR_OFF"
          /\ ticks' = Refill(status)
          /\ schedule(status, "timer")
       \/ /\ ticks[cur] # 0
          /\ ticks' = [ticks EXCEPT ![cur] = @ - 1]
          /\ UNCHANGED << cur, intr, ready, status, frame >>

\* t blocks itself.  Whether it is in some waiting list is its own business.
thread_block(t, s) ==
    /\ InBody(t)
    /\ t \in MayBlock
    /\ s \in BlockStatus
    /\ saved' = [saved EXCEPT ![t] = intr]
    /\ intr' = "INTR_OFF"
    /\ ticks' = Refill([status EXCEPT ![t] = s])
    /\ schedule([status EXCEPT ![t] = s], "block")
    /\ UNCHANGED << all, elapsed, making >>

\* Mutated form: the status is not tested.
unblock_always(u) ==
    /\ status' = [status EXCEPT ![u] = "TASK_READY"]
    /\ ready' = IF elem_find(ready, u) THEN ready ELSE list_push(ready, u)

\* The effect of thread_unblock(u), which runs with interrupts disabled.
unblock(u) ==
    \/ /\ status[u] \in BlockStatus
       /\ status' = [status EXCEPT ![u] = "TASK_READY"]
       /\ ready' = IF elem_find(ready, u) THEN ready ELSE list_push(ready, u)
    \/ /\ status[u] \notin BlockStatus
       /\ UNCHANGED << status, ready >>

\* thread_unblock(u), by the thread t on the CPU or by a handler that
\* interrupts it.
thread_unblock(t, u) ==
    /\ InBody(t) \/ (cur = t /\ Interruptible)
    /\ unblock(u)
    /\ UNCHANGED << cur, intr, all, ticks, elapsed, frame, saved, making >>

\* switch_to returns on the stack of the thread now on the CPU: the rest of
\* thread_block restores IF, kernel_thread enables interrupts, and iretd pops
\* the eflags of an interrupted thread, which had them enabled.
switch_return(t) ==
    /\ cur = t
    /\ frame[t] # "none"
    /\ frame' = [frame EXCEPT ![t] = "none"]
    /\ intr' = IF frame[t] = "block" THEN saved[t] ELSE "INTR_ON"
    /\ UNCHANGED << cur, ready, all, status, ticks, elapsed, saved, making >>

SchedNext ==
    \/ intr_timer_handler
    \/ \E t \in Thread :
         \/ intr_disable(t)
         \/ intr_enable(t)
         \/ \E u \in Thread : thread_start(t, u) \/ thread_unblock(t, u)
         \/ thread_start_ready(t)
         \/ \E s \in BlockStatus : thread_block(t, s)
         \/ switch_return(t)

SchedSpec == thread_init /\ [][SchedNext]_schedVars

(***************************************************************************)
(* Fairness.  The CPU goes on executing: a switch completes, and code that *)
(* disabled interrupts enables them again (every intr_disable of the       *)
(* kernel is paired with an intr_set_status), even if it is switched out   *)
(* in between.  The 8259A latches a tick that arrives with IF clear, so a  *)
(* tick is taken if interrupts are enabled again and again.                *)
(***************************************************************************)
SchedFairness ==
    /\ \A t \in Thread : WF_schedVars(switch_return(t))
    /\ SF_schedVars(\E t \in Thread : intr_enable(t))
    /\ SF_schedVars(intr_timer_handler)
    /\ \A t \in Thread : SF_schedVars(thread_start_ready(t))

FairSchedSpec == SchedSpec /\ SchedFairness

-----------------------------------------------------------------------------
TypeOK ==
    /\ cur \in Thread
    /\ intr \in Intr
    /\ ready \in Seq(Thread)
    /\ all \in Seq(Thread)
    /\ status \in [Thread -> Status]
    /\ ticks \in [Thread -> Nat]
    /\ elapsed \in [Thread -> 0 .. ElapsedLimit - 1]
    /\ frame \in [Thread -> Frame]
    /\ saved \in [Thread -> Intr]
    /\ making \in [Thread -> Thread \cup {NoThread}]

\* t has its TCB filled by thread_start but is not in the ready list yet.
BeingMade(t) == \E u \in Thread : making[u] = t

\* No READY thread is lost by a switch, a wake-up or an interrupted
\* thread_start: it is in the ready list, where general_tag links it once.
ReadyNotLost ==
    /\ IsInjective(ready)
    /\ \A t \in Thread :
         status[t] = "TASK_READY" => t \in ToSet(ready) \/ BeingMade(t)

\* Only READY threads are in the ready list: popping it never resumes a
\* thread whose event has not happened.  This, and the next property, need a
\* thread that never blocks: schedule returns to a blocked thread otherwise.
OnlyReadyListed ==
    \A t \in ToSet(ready) : status[t] = "TASK_READY" /\ ~ BeingMade(t)

\* A thread that blocked executes none of its own code until it is woken and
\* scheduled: thread_block does not return before.
BlockedStaysOff == OnCpu(cur) => status[cur] = "TASK_RUNNING"

\* No two TCBs claim the CPU: whoever is RUNNING is the thread whose stack
\* esp points into, although the status is set before switch_to.
OnlyCurRuns ==
    \A t \in Thread : status[t] = "TASK_RUNNING" => t = cur

\* switch_to always finds a saved context to return to: every started thread
\* off the CPU was left inside switch_to, or has the stack thread_start made.
ContextSaved ==
    \A t \in Thread \ {cur} : status[t] # "free" <=> frame[t] # "none"

\* A switch, from schedule to the return of switch_to on the other stack, is
\* never interrupted: no handler can touch the lists or switch again.
SwitchAtomic == frame[cur] # "none" => intr = "INTR_OFF"

\* Threads keep their order in the ready list; a thread that enters it goes
\* behind the others unless thread_unblock puts it in front on purpose.
Before(s, t, u) == \E i, j \in 1 .. Len(s) : i < j /\ s[i] = t /\ s[j] = u
KeepsTurn ==
    \A t, u \in Thread :
      /\ t \in ToSet(ready) /\ t \in ToSet(ready')
      /\ u \in ToSet(ready') /\ Before(ready', u, t)
      => Before(ready, u, t) \/ status[u] \in BlockStatus
NoOvertaking == [][KeepsTurn]_schedVars

\* Round robin, although wake-ups jump the queue: a thread in the ready list
\* gets the CPU.  (Threads that wake each other use up their own slices, and
\* then queue behind it.)
NoStarvation ==
    \A t \in Thread : t \in ToSet(ready) ~> cur = t

=============================================================================
