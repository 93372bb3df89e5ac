-------------------------- MODULE SchedulerProofs --------------------------
(***************************************************************************)
(* The invariants of Scheduler, for every set of threads, every priority,  *)
(* and with the timer as linked or with its second half.                   *)
(***************************************************************************)
EXTENDS Scheduler, TLAPS

-----------------------------------------------------------------------------
(* What the operations of KList do to the elements of a list. *)

\* list_append adds its argument, and links it once if it was not there.
LEMMA AppendElements ==
    ASSUME NEW S, NEW s \in Seq(S), NEW e \in S
    PROVE  /\ list_append(s, e) \in Seq(S)
           /\ ToSet(list_append(s, e)) = ToSet(s) \cup {e}
           /\ IsInjective(s) /\ e \notin ToSet(s)
                => IsInjective(list_append(s, e))
<1> DEFINE q == list_append(s, e)
<1>1. /\ q \in Seq(S)
      /\ DOMAIN q = 1 .. Len(s) + 1
      /\ \A i \in 1 .. Len(s) + 1 : q[i] = IF i = Len(s) + 1 THEN e ELSE s[i]
  BY DEF list_append
<1>2. ToSet(q) \subseteq ToSet(s) \cup {e}
  BY <1>1 DEF ToSet
<1>3. ASSUME NEW x \in ToSet(s) PROVE x \in ToSet(q)
  <2>1. PICK i \in 1 .. Len(s) : x = s[i]
    BY DEF ToSet
  <2>2. i \in DOMAIN q /\ x = q[i]
    BY <1>1, <2>1
  <2> QED
    BY <2>2 DEF ToSet
<1>4. e \in ToSet(q)
  <2>1. Len(s) + 1 \in DOMAIN q /\ q[Len(s) + 1] = e
    BY <1>1
  <2> QED
    BY <2>1 DEF ToSet
<1>5. ASSUME IsInjective(s), e \notin ToSet(s) PROVE IsInjective(q)
  <2>1. \A i \in 1 .. Len(s) : s[i] # e
    BY <1>5 DEF ToSet
  <2>2. \A i, j \in 1 .. Len(s) : s[i] = s[j] => i = j
    BY <1>5 DEF IsInjective
  <2> QED
    BY <1>1, <2>1, <2>2 DEF IsInjective
<1> QED
  BY <1>1, <1>2, <1>3, <1>4, <1>5

\* list_push adds its argument, and links it once if it was not there.
LEMMA PushElements ==
    ASSUME NEW S, NEW s \in Seq(S), NEW e \in S
    PROVE  /\ list_push(s, e) \in Seq(S)
           /\ ToSet(list_push(s, e)) = ToSet(s) \cup {e}
           /\ IsInjective(s) /\ e \notin ToSet(s)
                => IsInjective(list_push(s, e))
<1> DEFINE q == list_push(s, e)
<1>1. /\ q \in Seq(S)
      /\ DOMAIN q = 1 .. Len(s) + 1
      /\ \A i \in 1 .. Len(s) + 1 : q[i] = IF i = 1 THEN e ELSE s[i - 1]
  BY DEF list_push
<1>2. ToSet(q) \subseteq ToSet(s) \cup {e}
  BY <1>1 DEF ToSet
<1>3. ASSUME NEW x \in ToSet(s) PROVE x \in ToSet(q)
  <2>1. PICK i \in 1 .. Len(s) : x = s[i]
    BY DEF ToSet
  <2>2. i + 1 \in DOMAIN q /\ x = q[i + 1]
    BY <1>1, <2>1
  <2> QED
    BY <2>2 DEF ToSet
<1>4. e \in ToSet(q)
  <2>1. 1 \in DOMAIN q /\ q[1] = e
    BY <1>1
  <2> QED
    BY <2>1 DEF ToSet
<1>5. ASSUME IsInjective(s), e \notin ToSet(s) PROVE IsInjective(q)
  <2>1. \A i \in 1 .. Len(s) : s[i] # e
    BY <1>5 DEF ToSet
  <2>2. \A i, j \in 1 .. Len(s) : s[i] = s[j] => i = j
    BY <1>5 DEF IsInjective
  <2> QED
    BY <1>1, <2>1, <2>2 DEF IsInjective
<1> QED
  BY <1>1, <1>2, <1>3, <1>4, <1>5

\* list_pop takes one element off a list that is not empty.
LEMMA PopElements ==
    ASSUME NEW S, NEW s \in Seq(S), ~ list_empty(s)
    PROVE  /\ list_first(s) \in S
           /\ list_first(s) \in ToSet(s)
           /\ list_rest(s) \in Seq(S)
           /\ ToSet(s) = ToSet(list_rest(s)) \cup {list_first(s)}
           /\ IsInjective(s) => /\ IsInjective(list_rest(s))
                                /\ list_first(s) \notin ToSet(list_rest(s))
<1> DEFINE q == list_rest(s)
<1>1. /\ Len(s) \in Nat \ {0}
      /\ DOMAIN s = 1 .. Len(s)
      /\ list_first(s) = s[1]
  BY DEF list_empty, list_first
<1>2. /\ q \in Seq(S)
      /\ DOMAIN q = 1 .. Len(s) - 1
      /\ \A i \in 1 .. Len(s) - 1 : q[i] = s[i + 1]
  BY <1>1 DEF list_rest, list_empty
<1>3. list_first(s) \in ToSet(s) /\ list_first(s) \in S
  BY <1>1 DEF ToSet
<1>4. ASSUME NEW x \in ToSet(q) PROVE x \in ToSet(s)
  <2>1. PICK i \in 1 .. Len(s) - 1 : x = q[i]
    BY <1>2, <1>4 DEF ToSet
  <2>2. i + 1 \in DOMAIN s /\ x = s[i + 1]
    BY <1>1, <1>2, <2>1
  <2> QED
    BY <2>2 DEF ToSet
<1>5. ASSUME NEW x \in ToSet(s), x # list_first(s) PROVE x \in ToSet(q)
  <2>1. PICK i \in 1 .. Len(s) : x = s[i]
    BY <1>1 DEF ToSet
  <2>2. i # 1
    BY <1>1, <1>5, <2>1
  <2>3. i - 1 \in DOMAIN q /\ x = q[i - 1]
    BY <1>1, <1>2, <2>1, <2>2
  <2> QED
    BY <2>3 DEF ToSet
<1>6. ASSUME IsInjective(s)
      PROVE  IsInjective(q) /\ list_first(s) \notin ToSet(q)
  <2>1. \A i, j \in 1 .. Len(s) : s[i] = s[j] => i = j
    BY <1>1, <1>6 DEF IsInjective
  <2>2. IsInjective(q)
    BY <1>1, <1>2, <2>1 DEF IsInjective
  <2>3. \A i \in DOMAIN q : q[i] # s[1]
    BY <1>1, <1>2, <2>1
  <2> QED
    BY <1>1, <2>2, <2>3 DEF ToSet
<1> QED
  BY <1>2, <1>3, <1>4, <1>5, <1>6

-----------------------------------------------------------------------------
(* What schedule does to the ready list. *)

\* The elements that schedule chooses from: the ready list, and the caller if
\* it is preempted.
Candidates(st) ==
    ToSet(ready) \cup (IF st[cur] = "TASK_RUNNING" THEN {cur} ELSE {})

\* The statuses before the choice.
AfterPreempt(st) ==
    IF st[cur] = "TASK_RUNNING" THEN [st EXCEPT ![cur] = "TASK_READY"] ELSE st

\* schedule takes one of the candidates off the list and makes it RUNNING, or
\* returns because there is none.
LEMMA SwitchEffect ==
    ASSUME NEW STATE q, q \in Seq(Thread), IsInjective(q),
           NEW STATE st, st \in [Thread -> Status],
           NEW kind, cur \in Thread, switch_next(q, st, kind)
    PROVE  /\ cur' \in Thread /\ ready' \in Seq(Thread) /\ IsInjective(ready')
           /\ status' \in [Thread -> Status]
           /\ frame' = [frame EXCEPT ![cur] = kind]
           /\ \/ /\ ToSet(q) = {} /\ ready' = q
                 /\ cur' = cur /\ status' = st
              \/ /\ cur' \in ToSet(q)
                 /\ ToSet(ready') = ToSet(q) \ {cur'}
                 /\ status' = [st EXCEPT ![cur'] = "TASK_RUNNING"]
<1>1. CASE list_empty(q)
  <2>1. ToSet(q) = {}
    BY <1>1 DEF list_empty, ToSet
  <2> QED
    BY <1>1, <2>1 DEF switch_next
<1>2. CASE ~ list_empty(q)
  <2>1. /\ list_first(q) \in Thread
        /\ list_first(q) \in ToSet(q)
        /\ list_rest(q) \in Seq(Thread)
        /\ ToSet(q) = ToSet(list_rest(q)) \cup {list_first(q)}
        /\ IsInjective(list_rest(q))
        /\ list_first(q) \notin ToSet(list_rest(q))
    BY <1>2, PopElements
  <2>2. /\ cur' = list_first(q) /\ ready' = list_rest(q)
        /\ status' = [st EXCEPT ![list_first(q)] = "TASK_RUNNING"]
        /\ frame' = [frame EXCEPT ![cur] = kind]
    BY <1>2 DEF switch_next
  <2>3. ToSet(ready') = ToSet(q) \ {cur'}
    BY <2>1, <2>2
  <2>4. status' \in [Thread -> Status]
    BY <2>2 DEF Status
  <2> QED
    BY <2>1, <2>2, <2>3, <2>4
<1> QED
  BY <1>1, <1>2

LEMMA ScheduleEffect ==
    ASSUME TypeOK, IsInjective(ready),
           NEW STATE st, st \in [Thread -> Status],
           NEW kind, schedule(st, kind)
    PROVE  /\ cur' \in Thread /\ ready' \in Seq(Thread) /\ IsInjective(ready')
           /\ status' \in [Thread -> Status]
           /\ frame' = [frame EXCEPT ![cur] = kind]
           /\ \/ /\ Candidates(st) = {} /\ ToSet(ready') = {}
                 /\ cur' = cur /\ status' = st /\ st[cur] # "TASK_RUNNING"
              \/ /\ cur' \in Candidates(st)
                 /\ ToSet(ready') = Candidates(st) \ {cur'}
                 /\ status' = [AfterPreempt(st) EXCEPT ![cur'] = "TASK_RUNNING"]
<1>1. CASE st[cur] = "TASK_RUNNING"
  <2> DEFINE q == IF elem_find(ready, cur) THEN ready ELSE list_append(ready, cur)
             st2 == [st EXCEPT ![cur] = "TASK_READY"]
  <2>1. /\ q \in Seq(Thread) /\ IsInjective(q)
        /\ ToSet(q) = ToSet(ready) \cup {cur}
    BY AppendElements DEF TypeOK, elem_find
  <2>2. st2 \in [Thread -> Status]
    BY DEF Status
  <2>3. switch_next(q, st2, kind)
    BY <1>1 DEF schedule
  <2> HIDE DEF q, st2
  <2>4. /\ cur' \in Thread /\ ready' \in Seq(Thread) /\ IsInjective(ready')
        /\ status' \in [Thread -> Status]
        /\ frame' = [frame EXCEPT ![cur] = kind]
        /\ cur' \in ToSet(q)
        /\ ToSet(ready') = ToSet(q) \ {cur'}
        /\ status' = [st2 EXCEPT ![cur'] = "TASK_RUNNING"]
    BY <2>1, <2>2, <2>3, SwitchEffect DEF TypeOK
  <2> QED
    BY <1>1, <2>1, <2>4 DEF Candidates, AfterPreempt, st2
<1>2. CASE st[cur] # "TASK_RUNNING"
  <2>1. switch_next(ready, st, kind)
    BY <1>2 DEF schedule
  <2> QED
    BY <1>2, <2>1, SwitchEffect DEF TypeOK, Candidates, AfterPreempt
<1> QED
  BY <1>1, <1>2

-----------------------------------------------------------------------------
\* The thread on the CPU was started.
CurStarted == status[cur] # "free"

\* The invariant without assumptions on who blocks.  ContextSaved needs that
\* the thread switched out was started; the other parts support themselves.
SchedInv ==
    /\ TypeOK
    /\ ReadyNotLost
    /\ OnlyCurRuns
    /\ ContextSaved
    /\ SwitchAtomic
    /\ CurStarted

LEMMA BlockStatuses ==
    BlockStatus \cap {"free", "TASK_RUNNING", "TASK_READY"} = {}
BY StatusAssumption

\* A call of schedule with interrupts disabled keeps the invariant, whatever
\* the caller set its own status to before.
LEMMA ScheduleKeepsInv ==
    ASSUME SchedInv,
           NEW STATE st, st \in [Thread -> Status],
           \A t \in Thread \ {cur} : st[t] = status[t],
           st[cur] # "free",
           st[cur] = "TASK_READY" => status[cur] = "TASK_READY",
           NEW kind \in Frame \ {"none"}, schedule(st, kind),
           intr' = "INTR_OFF", making' = making
    PROVE  /\ ReadyNotLost'
           /\ OnlyCurRuns'
           /\ ContextSaved'
           /\ SwitchAtomic'
           /\ CurStarted'
<1>1. /\ cur \in Thread /\ frame \in [Thread -> Frame]
      /\ status \in [Thread -> Status] /\ IsInjective(ready)
  BY DEF SchedInv, TypeOK, ReadyNotLost
<1>2. /\ cur' \in Thread /\ IsInjective(ready')
      /\ status' \in [Thread -> Status]
      /\ frame' = [frame EXCEPT ![cur] = kind]
      /\ \/ /\ Candidates(st) = {} /\ ToSet(ready') = {}
            /\ cur' = cur /\ status' = st /\ st[cur] # "TASK_RUNNING"
         \/ /\ cur' \in Candidates(st)
            /\ ToSet(ready') = Candidates(st) \ {cur'}
            /\ status' = [AfterPreempt(st) EXCEPT ![cur'] = "TASK_RUNNING"]
  BY <1>1, ScheduleEffect DEF SchedInv
<1>3. \A t \in Thread : BeingMade(t)' <=> BeingMade(t)
  BY DEF BeingMade
<1>4. ReadyNotLost'
  <2>1. ASSUME NEW t \in Thread, status'[t] = "TASK_READY"
        PROVE  t \in ToSet(ready') \/ BeingMade(t)
    <3>1. CASE st[cur] = "TASK_RUNNING"
      BY <1>1, <1>2, <2>1, <3>1
      DEF Candidates, AfterPreempt, SchedInv, ReadyNotLost
    <3>2. CASE st[cur] # "TASK_RUNNING"
      BY <1>1, <1>2, <2>1, <3>2
      DEF Candidates, AfterPreempt, SchedInv, ReadyNotLost
    <3> QED
      BY <3>1, <3>2
  <2> QED
    BY <1>2, <1>3, <2>1 DEF ReadyNotLost
<1>5. OnlyCurRuns'
  BY <1>1, <1>2 DEF SchedInv, OnlyCurRuns, AfterPreempt, Candidates
<1>6. CurStarted'
  BY <1>1, <1>2 DEF CurStarted, AfterPreempt
<1>7. ContextSaved'
  <2>1. ASSUME NEW t \in Thread, t # cur'
        PROVE  status'[t] # "free" <=> frame'[t] # "none"
    <3>1. CASE t = cur
      BY <1>1, <1>2, <2>1, <3>1 DEF AfterPreempt
    <3>2. CASE t # cur
      BY <1>1, <1>2, <2>1, <3>2 DEF AfterPreempt, SchedInv, ContextSaved
    <3> QED
      BY <3>1, <3>2
  <2> QED
    BY <2>1 DEF ContextSaved
<1>8. SwitchAtomic'
  BY DEF SwitchAtomic
<1> QED
  BY <1>4, <1>5, <1>6, <1>7, <1>8

LEMMA InitInv == thread_init => SchedInv
<1> SUFFICES ASSUME thread_init PROVE SchedInv
  OBVIOUS
<1> USE ThreadAssumption, PriorityAssumption, TimerAssumption DEF thread_init
<1>1. TypeOK
  BY DEF TypeOK, Status, Frame, Intr
<1>2. IsInjective(ready)
  BY DEF IsInjective
<1>3. ReadyNotLost
  BY <1>2 DEF ReadyNotLost
<1> QED
  BY <1>1, <1>3 DEF SchedInv, OnlyCurRuns, ContextSaved, SwitchAtomic,
                    CurStarted

\* Every action keeps the types; schedule's part comes from ScheduleEffect.
LEMMA StepType ==
    ASSUME SchedInv, [SchedNext]_schedVars PROVE TypeOK'
<1> USE ThreadAssumption, PriorityAssumption, TimerAssumption
<1>0. TypeOK /\ IsInjective(ready)
  BY DEF SchedInv, ReadyNotLost
<1>1. CASE intr_timer_handler
  <2>1. elapsed' \in [Thread -> 0 .. ElapsedLimit - 1]
    BY <1>0, <1>1 DEF intr_timer_handler, TypeOK
  <2>2. CASE ticks[cur] = 0
    <3>1. schedule(status, "timer") /\ intr' = "INTR_OFF"
          /\ ticks' = Refill(status)
      BY <1>1, <2>2 DEF intr_timer_handler
    <3>2. /\ cur' \in Thread /\ ready' \in Seq(Thread)
          /\ status' \in [Thread -> Status]
          /\ frame' = [frame EXCEPT ![cur] = "timer"]
      BY <1>0, <3>1, ScheduleEffect DEF TypeOK
    <3> QED
      BY <1>0, <1>1, <2>1, <3>1, <3>2
      DEF intr_timer_handler, TypeOK, Refill, Frame, Intr
  <2>3. CASE ticks[cur] # 0
    <3>1. ticks' \in [Thread -> Nat]
      <4>1. ticks[cur] - 1 \in Nat
        BY <1>0, <2>3 DEF TypeOK
      <4> QED
        BY <1>0, <1>1, <2>3, <4>1 DEF intr_timer_handler, TypeOK
    <3> QED
      BY <1>0, <1>1, <2>1, <2>3, <3>1 DEF intr_timer_handler, TypeOK
  <2> QED
    BY <2>2, <2>3
<1>2. ASSUME NEW t \in Thread, intr_disable(t) \/ intr_enable(t) PROVE TypeOK'
  BY <1>0, <1>2 DEF intr_disable, intr_enable, TypeOK, Intr
<1>3. ASSUME NEW t \in Thread, NEW u \in Thread, thread_start(t, u)
      PROVE  TypeOK'
  <2>1. all' \in Seq(Thread)
    BY <1>0, <1>3, AppendElements DEF thread_start, TypeOK
  <2> QED
    BY <1>0, <1>3, <2>1 DEF thread_start, TypeOK, Status, Frame
<1>4. ASSUME NEW t \in Thread, NEW u \in Thread, thread_unblock(t, u)
      PROVE  TypeOK'
  <2>0. ready \in Seq(Thread) /\ list_push(ready, u) \in Seq(Thread)
    BY <1>0, PushElements DEF TypeOK
  <2>1. ready' \in Seq(Thread)
    BY <1>4, <2>0 DEF thread_unblock, unblock
  <2>2. status' \in [Thread -> Status]
    BY <1>0, <1>4 DEF thread_unblock, unblock, TypeOK, Status
  <2> QED
    BY <1>0, <1>4, <2>1, <2>2 DEF thread_unblock, TypeOK
<1>5. ASSUME NEW t \in Thread, thread_start_ready(t) PROVE TypeOK'
  <2>1. ready' \in Seq(Thread)
    BY <1>0, <1>5, AppendElements DEF thread_start_ready, TypeOK
  <2> QED
    BY <1>0, <1>5, <2>1 DEF thread_start_ready, TypeOK
<1>6. ASSUME NEW t \in Thread, NEW s \in BlockStatus, thread_block(t, s)
      PROVE  TypeOK'
  <2> DEFINE st == [status EXCEPT ![t] = s]
  <2>1. st \in [Thread -> Status]
    BY <1>0 DEF TypeOK, Status
  <2>2. /\ schedule(st, "block") /\ intr' = "INTR_OFF"
        /\ ticks' = Refill(st) /\ saved' = [saved EXCEPT ![t] = intr]
        /\ UNCHANGED << all, elapsed, making >>
    BY <1>6 DEF thread_block
  <2> HIDE DEF st
  <2>3. /\ cur' \in Thread /\ ready' \in Seq(Thread)
        /\ status' \in [Thread -> Status]
        /\ frame' = [frame EXCEPT ![cur] = "block"]
    BY <1>0, <2>1, <2>2, ScheduleEffect
  <2> QED
    BY <1>0, <2>2, <2>3 DEF TypeOK, Refill, Frame, Intr
<1>7. ASSUME NEW t \in Thread, switch_return(t) PROVE TypeOK'
  BY <1>0, <1>7 DEF switch_return, TypeOK, Frame, Intr
<1>8. CASE UNCHANGED schedVars
  BY <1>0, <1>8 DEF schedVars, TypeOK
<1> QED
  BY <1>1, <1>2, <1>3, <1>4, <1>5, <1>6, <1>7, <1>8 DEF SchedNext

LEMMA StepInv ==
    ASSUME SchedInv, [SchedNext]_schedVars PROVE SchedInv'
<1> USE ThreadAssumption
<1>0. /\ TypeOK' /\ TypeOK /\ IsInjective(ready)
      /\ ReadyNotLost /\ OnlyCurRuns /\ ContextSaved /\ SwitchAtomic
      /\ CurStarted
  BY StepType DEF SchedInv, ReadyNotLost
<1>1. CASE intr_timer_handler
  <2>2. CASE ticks[cur] = 0
    <3>1. /\ schedule(status, "timer") /\ intr' = "INTR_OFF"
          /\ making' = making
      BY <1>1, <2>2 DEF intr_timer_handler
    <3>2. status \in [Thread -> Status] /\ status[cur] # "free"
          /\ "timer" \in Frame \ {"none"}
      BY <1>0 DEF TypeOK, CurStarted, Frame
    <3> QED
      BY <1>0, <3>1, <3>2, ScheduleKeepsInv DEF SchedInv
  <2>3. CASE ticks[cur] # 0
    <3>1. UNCHANGED << cur, intr, ready, status, frame, making >>
      BY <1>1, <2>3 DEF intr_timer_handler
    <3> QED
      BY <1>0, <3>1 DEF SchedInv, ReadyNotLost, OnlyCurRuns, ContextSaved,
                        SwitchAtomic, CurStarted, BeingMade
  <2> QED
    BY <2>2, <2>3
<1>2. ASSUME NEW t \in Thread, intr_disable(t) \/ intr_enable(t) PROVE SchedInv'
  BY <1>0, <1>2 DEF intr_disable, intr_enable, InBody, OnCpu, SchedInv,
       ReadyNotLost, OnlyCurRuns, ContextSaved, SwitchAtomic, CurStarted,
       BeingMade
<1>3. ASSUME NEW t \in Thread, NEW u \in Thread, thread_start(t, u)
      PROVE  SchedInv'
  <2>1. /\ cur = t /\ u # cur /\ making[t] = NoThread
        /\ frame[t] = "none" /\ status[u] = "free"
        /\ status' = [status EXCEPT ![u] = "TASK_READY"]
        /\ frame' = [frame EXCEPT ![u] = "fresh"]
        /\ making' = [making EXCEPT ![t] = u]
        /\ UNCHANGED << cur, intr, ready >>
    BY <1>0, <1>3 DEF thread_start, InBody, OnCpu, CurStarted
  <2>2. \A v \in Thread : BeingMade(v)' <=> BeingMade(v) \/ v = u
    <3> TAKE v \in Thread
    <3>1. \A w \in Thread : making'[w] = IF w = t THEN u ELSE making[w]
      BY <1>0, <2>1 DEF TypeOK
    <3>2. making[t] # v
      BY <2>1, ThreadAssumption
    <3>3. making'[t] = u
      BY <3>1
    <3> HIDE <1>3, <2>1
    <3> QED
      BY <3>1, <3>2, <3>3 DEF BeingMade
  <2>3. ReadyNotLost'
    BY <1>0, <2>1, <2>2 DEF ReadyNotLost, TypeOK
  <2> QED
    BY <1>0, <2>1, <2>3 DEF SchedInv, OnlyCurRuns, ContextSaved, SwitchAtomic,
                            CurStarted, TypeOK
<1>4. ASSUME NEW t \in Thread, NEW u \in Thread, thread_unblock(t, u)
      PROVE  SchedInv'
  <2>1. /\ UNCHANGED << cur, intr, frame, making >>
        /\ unblock(u)
    BY <1>4 DEF thread_unblock
  <2>2. \A v \in Thread : BeingMade(v)' <=> BeingMade(v)
    BY <2>1 DEF BeingMade
  <2>3. CASE status[u] \notin BlockStatus
    <3>1. UNCHANGED << status, ready >>
      BY <2>1, <2>3 DEF unblock
    <3> QED
      BY <1>0, <2>1, <2>2, <3>1 DEF SchedInv, ReadyNotLost, OnlyCurRuns,
           ContextSaved, SwitchAtomic, CurStarted
  <2>4. CASE status[u] \in BlockStatus
    <3>1. /\ status' = [status EXCEPT ![u] = "TASK_READY"]
          /\ status[u] # "free"
          /\ ready' = IF elem_find(ready, u) THEN ready ELSE list_push(ready, u)
      BY <2>1, <2>4, BlockStatuses DEF unblock
    <3>2. ToSet(ready') = ToSet(ready) \cup {u} /\ IsInjective(ready')
      <4>1. /\ ToSet(list_push(ready, u)) = ToSet(ready) \cup {u}
            /\ u \notin ToSet(ready) => IsInjective(list_push(ready, u))
        <5>1. ready \in Seq(Thread) /\ IsInjective(ready)
          BY <1>0 DEF TypeOK
        <5> QED
          BY <5>1, PushElements
      <4> QED
        BY <1>0, <3>1, <4>1 DEF elem_find
    <3>3. ReadyNotLost'
      BY <1>0, <2>2, <3>1, <3>2 DEF ReadyNotLost, TypeOK
    <3> QED
      BY <1>0, <2>1, <3>1, <3>3 DEF SchedInv, OnlyCurRuns, ContextSaved,
           SwitchAtomic, CurStarted, TypeOK
  <2> QED
    BY <2>3, <2>4
<1>5. ASSUME NEW t \in Thread, thread_start_ready(t) PROVE SchedInv'
  <2> DEFINE v == making[t]
  <2>1. /\ v \in Thread /\ making' = [making EXCEPT ![t] = NoThread]
        /\ ready' = IF elem_find(ready, v) THEN ready ELSE list_append(ready, v)
        /\ UNCHANGED << cur, intr, status, frame >>
    BY <1>0, <1>5 DEF thread_start_ready, TypeOK
  <2>2. ToSet(ready') = ToSet(ready) \cup {v} /\ IsInjective(ready')
    <3>1. /\ ToSet(list_append(ready, v)) = ToSet(ready) \cup {v}
          /\ v \notin ToSet(ready) => IsInjective(list_append(ready, v))
      <4>1. ready \in Seq(Thread) /\ IsInjective(ready) /\ v \in Thread
        BY <1>0, <2>1 DEF TypeOK
      <4> HIDE DEF v
      <4> QED
        BY <4>1, AppendElements
    <3> QED
      BY <1>0, <2>1, <3>1 DEF elem_find
  <2>3. \A u \in Thread : BeingMade(u) => BeingMade(u)' \/ u = v
    BY <1>0, <2>1 DEF BeingMade, TypeOK
  <2>4. ReadyNotLost'
    BY <1>0, <2>1, <2>2, <2>3 DEF ReadyNotLost
  <2> QED
    BY <1>0, <2>1, <2>4 DEF SchedInv, OnlyCurRuns, ContextSaved, SwitchAtomic,
                            CurStarted
<1>6. ASSUME NEW t \in Thread, NEW s \in BlockStatus, thread_block(t, s)
      PROVE  SchedInv'
  <2> DEFINE st == [status EXCEPT ![t] = s]
  <2>1. /\ cur = t /\ schedule(st, "block") /\ intr' = "INTR_OFF"
        /\ making' = making
    BY <1>6 DEF thread_block, InBody, OnCpu
  <2>2. /\ st \in [Thread -> Status] /\ st[cur] = s
        /\ s \notin {"free", "TASK_READY"}
        /\ \A x \in Thread \ {cur} : st[x] = status[x]
        /\ "block" \in Frame \ {"none"}
    BY <1>0, <2>1, BlockStatuses DEF TypeOK, Status, Frame
  <2> HIDE DEF st
  <2> QED
    BY <1>0, <2>1, <2>2, ScheduleKeepsInv DEF SchedInv
<1>7. ASSUME NEW t \in Thread, switch_return(t) PROVE SchedInv'
  BY <1>0, <1>7 DEF switch_return, SchedInv, ReadyNotLost, OnlyCurRuns,
       ContextSaved, SwitchAtomic, CurStarted, BeingMade, TypeOK
<1>8. CASE UNCHANGED schedVars
  BY <1>0, <1>8 DEF schedVars, SchedInv, ReadyNotLost, OnlyCurRuns,
       ContextSaved, SwitchAtomic, CurStarted, BeingMade
<1> QED
  BY <1>1, <1>2, <1>3, <1>4, <1>5, <1>6, <1>7, <1>8 DEF SchedNext

\* The lists, the statuses and the saved contexts stay consistent whoever
\* blocks: no READY thread is lost, one thread at most is RUNNING and it is
\* the one on the CPU, switch_to finds a context, and no handler interrupts it.
THEOREM SchedulerSafe ==
    SchedSpec => [](/\ TypeOK
                    /\ ReadyNotLost
                    /\ OnlyCurRuns
                    /\ ContextSaved
                    /\ SwitchAtomic)
<1>1. SchedInv => TypeOK /\ ReadyNotLost /\ OnlyCurRuns /\ ContextSaved
                    /\ SwitchAtomic
  BY DEF SchedInv
<1> QED
  BY <1>1, InitInv, StepInv, PTL DEF SchedSpec

\* Statuses, lists, ticks and frames of thread.c keep their types: in
\* particular the unsigned ticks of a thread on the CPU, which the timer's
\* handler decrements, never goes below 0.
THEOREM SchedulerTypes == SchedSpec => []TypeOK
<1>1. (TypeOK /\ ReadyNotLost /\ OnlyCurRuns /\ ContextSaved /\ SwitchAtomic)
        => TypeOK
  OBVIOUS
<1> QED BY <1>1, SchedulerSafe, PTL

\* schedule and thread_block: however threads block, wake each other and are
\* preempted, no thread but the one on the CPU has the status TASK_RUNNING.
THEOREM OneThreadRuns == SchedSpec => []OnlyCurRuns
<1>1. (TypeOK /\ ReadyNotLost /\ OnlyCurRuns /\ ContextSaved /\ SwitchAtomic)
        => OnlyCurRuns
  OBVIOUS
<1> QED BY <1>1, SchedulerSafe, PTL

\* switch_to finds a stack it can return on in every thread that may be chosen,
\* those that thread_start has just made included.
THEOREM ContextsSaved == SchedSpec => []ContextSaved
<1>1. (TypeOK /\ ReadyNotLost /\ OnlyCurRuns /\ ContextSaved /\ SwitchAtomic)
        => ContextSaved
  OBVIOUS
<1> QED BY <1>1, SchedulerSafe, PTL

-----------------------------------------------------------------------------
\* With a main thread that never blocks, as main.c's, the ready list is never
\* empty when a thread blocks, so schedule always leaves a blocked thread.
CurRuns == status[cur] = "TASK_RUNNING"
MainAlive == status[main] \in {"TASK_RUNNING", "TASK_READY"} /\ ~ BeingMade(main)
\* A thread that is being made is made by one caller and has not run.
MakingReady ==
    \A t \in Thread :
        making[t] # NoThread =>
            /\ status[making[t]] = "TASK_READY"
            /\ \A u \in Thread : making[u] = making[t] => u = t

IdleInv ==
    /\ SchedInv
    /\ OnlyReadyListed
    /\ CurRuns
    /\ MainAlive
    /\ MakingReady

LEMMA InitIdle == thread_init => IdleInv
<1> SUFFICES ASSUME thread_init PROVE IdleInv
  OBVIOUS
<1>1. SchedInv
  BY InitInv
<1> USE ThreadAssumption DEF thread_init
<1>2. ToSet(ready) = {} /\ \A t \in Thread : ~ BeingMade(t)
  BY DEF ToSet, BeingMade
<1> QED
  BY <1>1, <1>2 DEF IdleInv, OnlyReadyListed, CurRuns, MainAlive, MakingReady

\* schedule, called by a thread that is preempted or that may block, finds
\* somebody: the caller, or a READY thread with a saved context.
LEMMA ScheduleSwitch ==
    ASSUME main \notin MayBlock, IdleInv,
           NEW STATE st, st \in [Thread -> Status],
           \A t \in Thread \ {cur} : st[t] = status[t],
           \/ st[cur] = "TASK_RUNNING"
           \/ st[cur] \in BlockStatus /\ cur \in MayBlock,
           NEW kind, schedule(st, kind)
    PROVE  /\ cur' \in Thread /\ cur' \in Candidates(st)
           /\ ToSet(ready') = Candidates(st) \ {cur'}
           /\ status' = [AfterPreempt(st) EXCEPT ![cur'] = "TASK_RUNNING"]
           /\ frame' = [frame EXCEPT ![cur] = kind]
           /\ cur' # cur => status[cur'] = "TASK_READY" /\ frame[cur'] # "none"
           /\ st[cur] \in BlockStatus => cur' # cur
<1> USE ThreadAssumption
<1>1. /\ TypeOK /\ IsInjective(ready) /\ OnlyReadyListed /\ CurRuns
      /\ MainAlive /\ ReadyNotLost /\ OnlyCurRuns /\ ContextSaved
      /\ cur \in Thread /\ ToSet(ready) \subseteq Thread
  BY DEF IdleInv, SchedInv, ReadyNotLost, TypeOK, ToSet
<1>2. Candidates(st) # {}
  <2>1. CASE st[cur] = "TASK_RUNNING"
    BY <2>1 DEF Candidates
  <2>2. CASE cur \in MayBlock
    <3>1. main # cur /\ status[main] = "TASK_READY"
      BY <1>1, <2>2 DEF MainAlive, OnlyCurRuns
    <3>2. main \in ToSet(ready)
      BY <1>1, <3>1 DEF MainAlive, ReadyNotLost
    <3> QED
      BY <3>2 DEF Candidates
  <2> QED
    BY <2>1, <2>2
<1>3. /\ cur' \in Candidates(st)
      /\ ToSet(ready') = Candidates(st) \ {cur'}
      /\ status' = [AfterPreempt(st) EXCEPT ![cur'] = "TASK_RUNNING"]
      /\ frame' = [frame EXCEPT ![cur] = kind]
      /\ cur' \in Thread
  BY <1>1, <1>2, ScheduleEffect
<1>4. cur' # cur => status[cur'] = "TASK_READY" /\ frame[cur'] # "none"
  <2>1. cur' # cur => cur' \in ToSet(ready)
    BY <1>3 DEF Candidates
  <2> QED
    BY <1>1, <1>3, <2>1 DEF OnlyReadyListed, ContextSaved
<1>5. st[cur] \in BlockStatus => cur' # cur
  <2>1. cur \notin ToSet(ready)
    BY <1>1 DEF OnlyReadyListed, CurRuns
  <2> QED
    BY <1>3, <2>1, BlockStatuses DEF Candidates
<1> QED
  BY <1>3, <1>4, <1>5

\* schedule, called by a thread that is preempted or that may block.
LEMMA ScheduleKeepsIdle ==
    ASSUME main \notin MayBlock, IdleInv,
           NEW STATE st, st \in [Thread -> Status],
           \A t \in Thread \ {cur} : st[t] = status[t],
           \/ st[cur] = "TASK_RUNNING"
           \/ st[cur] \in BlockStatus /\ cur \in MayBlock,
           NEW kind, schedule(st, kind), making' = making
    PROVE  OnlyReadyListed' /\ CurRuns' /\ MainAlive' /\ MakingReady'
<1> USE ThreadAssumption
<1>1. /\ TypeOK /\ IsInjective(ready) /\ OnlyReadyListed /\ CurRuns
      /\ MainAlive /\ MakingReady /\ ReadyNotLost /\ OnlyCurRuns
      /\ cur \in Thread /\ status \in [Thread -> Status]
      /\ making \in [Thread -> Thread \cup {NoThread}]
      /\ ToSet(ready) \subseteq Thread
  <2>1. ToSet(ready) \subseteq Thread
    BY DEF IdleInv, SchedInv, TypeOK, ToSet
  <2> QED
    BY <2>1 DEF IdleInv, SchedInv, ReadyNotLost, TypeOK
<1>2. \A t \in Thread : BeingMade(t)' <=> BeingMade(t)
  BY DEF BeingMade
<1>4. /\ cur' \in Candidates(st)
      /\ ToSet(ready') = Candidates(st) \ {cur'}
      /\ status' = [AfterPreempt(st) EXCEPT ![cur'] = "TASK_RUNNING"]
  BY ScheduleSwitch
<1>5. ~ BeingMade(cur)
  BY <1>1 DEF BeingMade, MakingReady, CurRuns
<1>6. ASSUME NEW t \in Candidates(st), t # cur
      PROVE  t \in Thread /\ status[t] = "TASK_READY" /\ ~ BeingMade(t)
  BY <1>1, <1>6 DEF Candidates, OnlyReadyListed
<1>7. CurRuns'
  <2>1. cur' \in Thread
    BY <1>1, <1>4, <1>6
  <2> QED
    BY <1>4, <2>1 DEF CurRuns, AfterPreempt
<1>8. \A t \in Thread : BeingMade(t) => t # cur /\ t # cur' /\ status'[t] = status[t]
  BY <1>1, <1>4, <1>5, <1>6 DEF AfterPreempt
<1>9. MakingReady'
  BY <1>1, <1>8 DEF MakingReady, BeingMade
<1>10. OnlyReadyListed'
  <2>1. ASSUME NEW t \in ToSet(ready')
        PROVE  status'[t] = "TASK_READY" /\ ~ BeingMade(t)
    <3>1. t \in Candidates(st) /\ t # cur'
      BY <1>4, <2>1
    <3>2. CASE t = cur
      <4>1. st[cur] = "TASK_RUNNING"
        BY <1>1, <3>1, <3>2 DEF Candidates, OnlyReadyListed, CurRuns
      <4> QED
        BY <1>1, <1>4, <1>5, <3>1, <3>2, <4>1 DEF AfterPreempt
    <3>3. CASE t # cur
      BY <1>4, <1>6, <3>1, <3>3 DEF AfterPreempt
    <3> QED
      BY <3>2, <3>3
  <2>2. ToSet(ready') \subseteq Thread
    BY <1>1, <1>4, <1>6
  <2> QED
    BY <1>2, <2>1, <2>2 DEF OnlyReadyListed
<1>11. MainAlive'
  <2>1. status'[main] \in {"TASK_RUNNING", "TASK_READY"}
    <3>1. CASE main = cur
      <4>1. st[cur] = "TASK_RUNNING"
        BY <3>1
      <4> QED
        BY <1>1, <1>4, <3>1, <4>1 DEF AfterPreempt
    <3>2. CASE main # cur
      BY <1>1, <1>4, <3>2 DEF AfterPreempt, MainAlive
    <3> QED
      BY <3>1, <3>2
  <2> QED
    BY <1>1, <1>2, <2>1 DEF MainAlive
<1> QED
  BY <1>7, <1>9, <1>10, <1>11

LEMMA StepIdle ==
    ASSUME main \notin MayBlock, IdleInv, [SchedNext]_schedVars PROVE IdleInv'
<1> USE ThreadAssumption
<1>0. /\ SchedInv' /\ OnlyReadyListed /\ CurRuns /\ MainAlive /\ MakingReady
      /\ ready \in Seq(Thread) /\ ToSet(ready) \subseteq Thread
      /\ cur \in Thread /\ status \in [Thread -> Status]
      /\ making \in [Thread -> Thread \cup {NoThread}]
      /\ IsInjective(ready)
  <2>1. ready \in Seq(Thread) /\ ToSet(ready) \subseteq Thread
    BY DEF IdleInv, SchedInv, TypeOK, ToSet
  <2> QED
    BY <2>1, StepInv DEF IdleInv, SchedInv, TypeOK, ReadyNotLost
<1>1. CASE intr_timer_handler
  <2>1. CASE ticks[cur] = 0
    <3>1. schedule(status, "timer") /\ making' = making
      BY <1>1, <2>1 DEF intr_timer_handler
    <3> QED
      BY <1>0, <3>1, ScheduleKeepsIdle DEF IdleInv, CurRuns
  <2>2. CASE ticks[cur] # 0
    <3>1. UNCHANGED << cur, ready, status, making >>
      BY <1>1, <2>2 DEF intr_timer_handler
    <3> QED
      BY <1>0, <3>1 DEF IdleInv, OnlyReadyListed, CurRuns, MainAlive,
                        MakingReady, BeingMade
  <2> QED
    BY <2>1, <2>2
<1>2. ASSUME NEW t \in Thread,
             intr_disable(t) \/ intr_enable(t) \/ switch_return(t)
      PROVE  IdleInv'
  <2>1. UNCHANGED << cur, ready, status, making >>
    BY <1>2 DEF intr_disable, intr_enable, switch_return
  <2> QED
    BY <1>0, <2>1 DEF IdleInv, OnlyReadyListed, CurRuns, MainAlive,
                      MakingReady, BeingMade
<1>3. ASSUME NEW t \in Thread, NEW u \in Thread, thread_start(t, u)
      PROVE  IdleInv'
  <2>1. /\ making[t] = NoThread /\ status[u] = "free"
        /\ status' = [status EXCEPT ![u] = "TASK_READY"]
        /\ making' = [making EXCEPT ![t] = u]
        /\ UNCHANGED << cur, ready >>
    BY <1>3 DEF thread_start, InBody
  <2>2. \A v \in Thread : BeingMade(v)' <=> BeingMade(v) \/ v = u
    BY <1>0, <2>1 DEF BeingMade
  <2>3. u \notin ToSet(ready) /\ u # cur /\ u # main /\ ~ BeingMade(u)
    BY <1>0, <2>1 DEF OnlyReadyListed, CurRuns, MainAlive, MakingReady, BeingMade
  <2>4. OnlyReadyListed'
    BY <1>0, <2>1, <2>2, <2>3 DEF OnlyReadyListed
  <2>5. CurRuns' /\ MainAlive'
    BY <1>0, <2>1, <2>2, <2>3 DEF CurRuns, MainAlive
  <2>6. MakingReady'
    BY <1>0, <2>1, <2>3 DEF MakingReady, BeingMade
  <2> QED
    BY <1>0, <2>4, <2>5, <2>6 DEF IdleInv
<1>4. ASSUME NEW t \in Thread, NEW u \in Thread, thread_unblock(t, u)
      PROVE  IdleInv'
  <2>1. UNCHANGED << cur, making >> /\ unblock(u)
    BY <1>4 DEF thread_unblock
  <2>2. \A v \in Thread : BeingMade(v)' <=> BeingMade(v)
    BY <2>1 DEF BeingMade
  <2>3. CASE status[u] \notin BlockStatus
    <3>1. UNCHANGED << status, ready >>
      BY <2>1, <2>3 DEF unblock
    <3> QED
      BY <1>0, <2>1, <2>2, <3>1
      DEF IdleInv, OnlyReadyListed, CurRuns, MainAlive, MakingReady
  <2>4. CASE status[u] \in BlockStatus
    <3>1. /\ status' = [status EXCEPT ![u] = "TASK_READY"]
          /\ ready' = IF elem_find(ready, u) THEN ready ELSE list_push(ready, u)
      BY <2>1, <2>4, BlockStatuses DEF unblock
    <3>2. status[u] \notin {"free", "TASK_RUNNING", "TASK_READY"}
      BY <2>4, BlockStatuses
    <3>3. u # cur /\ ~ BeingMade(u)
      BY <1>0, <3>2 DEF CurRuns, MakingReady, BeingMade
    <3>4. ToSet(list_push(ready, u)) = ToSet(ready) \cup {u}
      BY <1>0, PushElements
    <3>5. ToSet(ready') \subseteq ToSet(ready) \cup {u}
      BY <3>1, <3>4
    <3>6. OnlyReadyListed'
      BY <1>0, <2>2, <3>1, <3>3, <3>5 DEF OnlyReadyListed
    <3>7. CurRuns' /\ MainAlive' /\ MakingReady'
      BY <1>0, <2>1, <2>2, <3>1, <3>3 DEF CurRuns, MainAlive, MakingReady
    <3> QED
      BY <1>0, <3>6, <3>7 DEF IdleInv
  <2> QED
    BY <2>3, <2>4
<1>5. ASSUME NEW t \in Thread, thread_start_ready(t) PROVE IdleInv'
  <2>1. PICK v \in Thread : v = making[t]
    BY <1>0, <1>5 DEF thread_start_ready
  <2>2. /\ v # NoThread /\ status[v] = "TASK_READY"
        /\ \A u \in Thread : making[u] = v => u = t
        /\ making' = [making EXCEPT ![t] = NoThread]
        /\ ready' = IF elem_find(ready, v) THEN ready ELSE list_append(ready, v)
        /\ UNCHANGED << cur, status >>
    BY <1>0, <1>5, <2>1 DEF thread_start_ready, MakingReady
  <2>3. \A u \in Thread : BeingMade(u)' => BeingMade(u) /\ u # v
    BY <1>0, <2>2 DEF BeingMade
  <2>4. ToSet(list_append(ready, v)) = ToSet(ready) \cup {v}
    BY <1>0, AppendElements
  <2>5. ToSet(ready') \subseteq ToSet(ready) \cup {v}
    BY <2>2, <2>4
  <2>6. OnlyReadyListed'
    BY <1>0, <2>2, <2>3, <2>5 DEF OnlyReadyListed
  <2>7. CurRuns' /\ MainAlive'
    BY <1>0, <2>2, <2>3 DEF CurRuns, MainAlive
  <2>8. MakingReady'
    BY <1>0, <2>2 DEF MakingReady
  <2> QED
    BY <1>0, <2>6, <2>7, <2>8 DEF IdleInv
<1>6. ASSUME NEW t \in Thread, NEW s \in BlockStatus, thread_block(t, s)
      PROVE  IdleInv'
  <2> DEFINE st == [status EXCEPT ![t] = s]
  <2>1. /\ cur = t /\ t \in MayBlock /\ schedule(st, "block")
        /\ making' = making
    BY <1>6 DEF thread_block, InBody, OnCpu
  <2>2. /\ st \in [Thread -> Status] /\ st[cur] = s
        /\ \A x \in Thread \ {cur} : st[x] = status[x]
    BY <1>0, <2>1 DEF Status
  <2> HIDE DEF st
  <2> QED
    BY <1>0, <2>1, <2>2, ScheduleKeepsIdle DEF IdleInv
<1>7. CASE UNCHANGED schedVars
  <2>1. UNCHANGED << cur, ready, status, making >>
    BY <1>7 DEF schedVars
  <2> QED
    BY <1>0, <2>1 DEF IdleInv, OnlyReadyListed, CurRuns, MainAlive,
                      MakingReady, BeingMade
<1> QED
  BY <1>1, <1>2, <1>3, <1>4, <1>5, <1>6, <1>7 DEF SchedNext

\* If the main thread never blocks, only READY threads are in the ready list,
\* and a thread that blocked executes nothing before it is woken.
THEOREM BlockingSafe ==
    ASSUME main \notin MayBlock
    PROVE  SchedSpec => [](OnlyReadyListed /\ BlockedStaysOff)
<1>1. IdleInv => OnlyReadyListed /\ BlockedStaysOff
  BY DEF IdleInv, CurRuns, BlockedStaysOff
<1>2. IdleInv /\ [SchedNext]_schedVars => IdleInv'
  BY StepIdle
<1> QED
  BY <1>1, <1>2, InitIdle, PTL DEF SchedSpec

\* The ready list of thread.c holds READY threads only, so that schedule never
\* resumes one that waits for something, as long as main never blocks itself.
THEOREM ReadyListExact ==
    ASSUME main \notin MayBlock
    PROVE  SchedSpec => []OnlyReadyListed
<1>1. (OnlyReadyListed /\ BlockedStaysOff) => OnlyReadyListed
  OBVIOUS
<1> QED BY <1>1, BlockingSafe, PTL

-----------------------------------------------------------------------------
(* The order of the ready list. *)

\* list_append puts nothing in front of an element of the list.
LEMMA AppendOrder ==
    ASSUME NEW S, NEW s \in Seq(S), NEW e \in S, NEW t \in ToSet(s), NEW u,
           e \notin ToSet(s), Before(list_append(s, e), u, t)
    PROVE  Before(s, u, t)
<1> DEFINE q == list_append(s, e)
<1>1. /\ Len(s) \in Nat /\ Len(q) = Len(s) + 1
      /\ \A i \in 1 .. Len(s) + 1 : q[i] = IF i = Len(s) + 1 THEN e ELSE s[i]
  BY DEF list_append
<1> HIDE DEF q
<1>2. PICK i, j \in 1 .. Len(q) : i < j /\ q[i] = u /\ q[j] = t
  BY DEF Before, q
<1>3. j # Len(s) + 1
  BY <1>1, <1>2
<1>4. i \in 1 .. Len(s) /\ j \in 1 .. Len(s) /\ s[i] = u /\ s[j] = t
  BY <1>1, <1>2, <1>3
<1> QED
  BY <1>2, <1>4 DEF Before

\* list_push puts nothing but its argument in front of an element of the list.
LEMMA PushOrder ==
    ASSUME NEW S, NEW s \in Seq(S), NEW e \in S, NEW t \in ToSet(s), NEW u,
           e \notin ToSet(s), u # e, Before(list_push(s, e), u, t)
    PROVE  Before(s, u, t)
<1> DEFINE q == list_push(s, e)
<1>1. /\ Len(s) \in Nat /\ Len(q) = Len(s) + 1
      /\ \A i \in 1 .. Len(s) + 1 : q[i] = IF i = 1 THEN e ELSE s[i - 1]
  BY DEF list_push
<1> HIDE DEF q
<1>2. PICK i, j \in 1 .. Len(q) : i < j /\ q[i] = u /\ q[j] = t
  BY DEF Before, q
<1>3. i # 1
  BY <1>1, <1>2
<1>4. /\ i - 1 \in 1 .. Len(s) /\ j - 1 \in 1 .. Len(s) /\ i - 1 < j - 1
      /\ s[i - 1] = u /\ s[j - 1] = t
  BY <1>1, <1>2, <1>3
<1> QED
  BY <1>4 DEF Before

\* list_pop keeps the order of what is left.
LEMMA PopOrder ==
    ASSUME NEW S, NEW s \in Seq(S), ~ list_empty(s), NEW t, NEW u,
           Before(list_rest(s), u, t)
    PROVE  Before(s, u, t)
<1> DEFINE q == list_rest(s)
<1>1. /\ Len(s) \in Nat \ {0} /\ Len(q) = Len(s) - 1
      /\ \A i \in 1 .. Len(s) - 1 : q[i] = s[i + 1]
  BY DEF list_rest, list_empty
<1> HIDE DEF q
<1>2. PICK i, j \in 1 .. Len(q) : i < j /\ q[i] = u /\ q[j] = t
  BY DEF Before, q
<1>3. /\ i + 1 \in 1 .. Len(s) /\ j + 1 \in 1 .. Len(s) /\ i + 1 < j + 1
      /\ s[i + 1] = u /\ s[j + 1] = t
  BY <1>1, <1>2
<1> QED
  BY <1>3 DEF Before

\* schedule puts the caller behind the others, and takes the first.
LEMMA ScheduleOrder ==
    ASSUME cur \in Thread, ready \in Seq(Thread),
           NEW STATE st, NEW kind, schedule(st, kind),
           NEW t \in ToSet(ready), NEW u, Before(ready', u, t)
    PROVE  Before(ready, u, t)
<1>1. ASSUME NEW STATE q, q \in Seq(Thread), NEW STATE st2,
             switch_next(q, st2, kind)
      PROVE  Before(q, u, t)
  BY <1>1, PopOrder DEF switch_next
<1>2. CASE st[cur] = "TASK_RUNNING" /\ ~ elem_find(ready, cur)
  <2>1. list_append(ready, cur) \in Seq(Thread)
    BY AppendElements
  <2>2. Before(list_append(ready, cur), u, t)
    BY <1>1, <1>2, <2>1 DEF schedule
  <2> QED
    BY <1>2, <2>2, AppendOrder DEF elem_find
<1>3. CASE ~ (st[cur] = "TASK_RUNNING" /\ ~ elem_find(ready, cur))
  BY <1>1, <1>3 DEF schedule
<1> QED
  BY <1>2, <1>3

\* Whatever starts, blocks, wakes and is preempted: a thread in the ready list
\* is overtaken by those only that thread_unblock puts in front.
THEOREM ReadyInOrder == SchedSpec => NoOvertaking
<1>1. ASSUME TypeOK, [SchedNext]_schedVars PROVE KeepsTurn
  <2> SUFFICES ASSUME NEW t \in ToSet(ready), NEW u \in Thread,
                      Before(ready', u, t), status[u] \notin BlockStatus
               PROVE  Before(ready, u, t)
    BY DEF KeepsTurn
  <2> USE ThreadAssumption
  <2>0. cur \in Thread /\ ready \in Seq(Thread)
    BY <1>1 DEF TypeOK
  <2>1. CASE UNCHANGED ready
    BY <2>1
  <2>2. CASE intr_timer_handler
    BY <2>0, <2>1, <2>2, ScheduleOrder DEF intr_timer_handler
  <2>3. ASSUME NEW x \in Thread, NEW v \in Thread, thread_unblock(x, v)
        PROVE  Before(ready, u, t)
    <3>1. CASE status[v] \in BlockStatus /\ ~ elem_find(ready, v)
      <4>1. ready' = list_push(ready, v) /\ u # v
        BY <2>3, <3>1 DEF thread_unblock, unblock
      <4> QED
        BY <2>0, <3>1, <4>1, PushOrder DEF elem_find
    <3>2. CASE ~ (status[v] \in BlockStatus /\ ~ elem_find(ready, v))
      BY <2>1, <2>3, <3>2 DEF thread_unblock, unblock
    <3> QED
      BY <3>1, <3>2
  <2>4. ASSUME NEW x \in Thread, thread_start_ready(x)
        PROVE  Before(ready, u, t)
    <3> DEFINE v == making[x]
    <3>1. v \in Thread
      BY <1>1, <2>4 DEF TypeOK, thread_start_ready
    <3>2. CASE elem_find(ready, v)
      BY <2>1, <2>4, <3>2 DEF thread_start_ready
    <3>3. CASE ~ elem_find(ready, v)
      <4>1. ready' = list_append(ready, v)
        BY <2>4, <3>3 DEF thread_start_ready
      <4> HIDE DEF v
      <4> QED
        BY <2>0, <3>1, <3>3, <4>1, AppendOrder DEF elem_find
    <3> QED
      BY <3>2, <3>3
  <2>5. ASSUME NEW x \in Thread, NEW s \in BlockStatus, thread_block(x, s)
        PROVE  Before(ready, u, t)
    BY <2>0, <2>5, ScheduleOrder DEF thread_block
  <2>6. ASSUME NEW x \in Thread,
               \/ intr_disable(x) \/ intr_enable(x) \/ switch_return(x)
               \/ \E v \in Thread : thread_start(x, v)
        PROVE  Before(ready, u, t)
    BY <2>1, <2>6 DEF intr_disable, intr_enable, switch_return, thread_start
  <2> QED
    BY <1>1, <2>1, <2>2, <2>3, <2>4, <2>5, <2>6 DEF SchedNext, schedVars
<1> QED
  BY <1>1, SchedulerTypes, PTL DEF SchedSpec, NoOvertaking

=============================================================================
