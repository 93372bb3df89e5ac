---------------------------- MODULE SyncProofs ----------------------------
(***************************************************************************)
(* Sync, for every number of threads, locks and semaphores: its threads    *)
(* keep to the scheduler, and its locks are mutexes.                       *)
(***************************************************************************)
EXTENDS Sync, SchedulerProofs, FiniteSetTheorems

\* The steps that leave the state of the semaphores and locks alone, but for
\* the waiters.
Quiet ==
    \/ timer
    \/ \E t \in Thread :
         \/ boot(t) \/ start_ready(t) \/ return(t)
         \/ \E u \in Thread : start(t, u)
         \/ down_block(t)

LEMMA QuietStutters ==
    Quiet => UNCHANGED << value, holder, repeat, pc, arg, old, held >>
BY DEF Quiet, timer, boot, start_ready, return, start, down_block,
       syncVars, vars

\* The steps of SyncNext, one by one.
LEMMA SyncCases ==
    ASSUME SyncNext
    PROVE  \/ Quiet
           \/ \E s \in Sem : event_up(s)
           \/ \E t \in Thread :
                \/ \E l \in Lock : lock_acquire(t, l) \/ lock_release(t, l)
                \/ \E s \in Sem : down_enter(t, s)
                \/ down_take(t) \/ set_holder(t) \/ set_count(t)
                \/ clear_holder(t) \/ clear_count(t) \/ release_up(t)
BY DEF SyncNext, Inside, Call, Quiet

LEMMA SyncInitType == SyncInit => SyncTypeOK
<1> SUFFICES ASSUME SyncInit PROVE SyncTypeOK
  OBVIOUS
<1>1. TypeOK
  BY InitInv DEF SyncInit, SchedInv
<1>2. (CHOOSE s \in Sem : TRUE) \in Sem
  BY SemAssumption
<1>3. DataTypeOK
  BY <1>2, SemAssumption DEF SyncInit, DataTypeOK, PC, Intr
<1> QED
  BY <1>1, <1>3 DEF SyncTypeOK

\* The threads of Sync do what Scheduler lets threads do: each step is a step
\* of the scheduler, or leaves its state alone.
LEMMA SyncStepSched ==
    ASSUME SyncTypeOK, [SyncNext]_vars PROVE [SchedNext]_schedVars
<1>0. intr \in Intr /\ old \in [Thread -> Intr] /\ cur \in Thread
      /\ waiters \in [Sem -> Seq(Thread)] /\ arg \in [Thread -> Sem]
  BY DEF SyncTypeOK, TypeOK, DataTypeOK
<1>1. CASE Quiet
  BY <1>1, BlockedAssumption DEF Quiet, timer, boot, start_ready, return, start,
     down_block, vars, schedVars, SchedNext
<1>2. ASSUME NEW s \in Sem, NEW t \in Thread, cur = t,
             InBody(t) \/ Interruptible, semaphore_up(s)
      PROVE  [SchedNext]_schedVars
  <2>1. UNCHANGED << cur, intr, all, ticks, elapsed, frame, saved, making >>
    BY <1>2 DEF semaphore_up
  <2>2. CASE list_empty(waiters[s])
    BY <1>2, <2>1, <2>2 DEF semaphore_up, wake_first, schedVars
  <2>3. CASE ~ list_empty(waiters[s])
    <3>1. PICK u \in Thread : u = list_first(waiters[s])
      BY <1>0, <2>3, PopElements
    <3>2. unblock(u)
      BY <1>2, <2>3, <3>1 DEF semaphore_up, wake_first
    <3>3. thread_unblock(t, u)
      BY <1>2, <2>1, <3>2 DEF thread_unblock
    <3> QED
      BY <3>3 DEF SchedNext
  <2> QED
    BY <2>2, <2>3
<1>3. ASSUME NEW s \in Sem, event_up(s) PROVE [SchedNext]_schedVars
  BY <1>0, <1>2, <1>3 DEF event_up, At, InBody, OnCpu
<1>4. ASSUME NEW t \in Thread, release_up(t) PROVE [SchedNext]_schedVars
  BY <1>0, <1>2, <1>4 DEF release_up, At, InBody, OnCpu
<1>5. ASSUME NEW t \in Thread, NEW s \in Sem, down_enter(t, s)
      PROVE  [SchedNext]_schedVars
  <2>1. CASE intr = "INTR_ON"
    <3>1. intr_disable(t)
      BY <1>5, <2>1 DEF down_enter, At, InBody, intr_disable
    <3> QED
      BY <3>1 DEF SchedNext
  <2>2. CASE intr = "INTR_OFF"
    BY <1>5, <2>2 DEF down_enter, schedVars
  <2> QED
    BY <1>0, <2>1, <2>2 DEF Intr
<1>6. ASSUME NEW t \in Thread, down_take(t) PROVE [SchedNext]_schedVars
  <2>1. intr' = old[t] /\ InBody(t) /\ old[t] \in Intr
        /\ UNCHANGED << cur, ready, all, status, ticks, elapsed, frame, saved,
                        making >>
    BY <1>0, <1>6 DEF down_take, At, InBody
  <2>2. CASE intr' = intr
    BY <2>1, <2>2 DEF schedVars
  <2>3. CASE intr' # intr
    <3>1. intr_disable(t) \/ intr_enable(t)
      BY <1>0, <2>1, <2>3 DEF intr_disable, intr_enable, Intr
    <3> QED
      BY <3>1 DEF SchedNext
  <2> QED
    BY <2>2, <2>3
<1>7. ASSUME NEW t \in Thread,
             \/ \E l \in Lock : lock_acquire(t, l) \/ lock_release(t, l)
             \/ set_holder(t) \/ set_count(t) \/ clear_holder(t) \/ clear_count(t)
      PROVE  [SchedNext]_schedVars
  BY <1>7 DEF lock_acquire, lock_release, set_holder, set_count, clear_holder,
              clear_count
<1>8. CASE UNCHANGED vars
  BY <1>8 DEF vars
<1> QED
  BY <1>1, <1>3, <1>4, <1>5, <1>6, <1>7, <1>8, SyncCases

\* The types of the state of semaphores and locks.
LEMMA SyncStepData ==
    ASSUME SyncTypeOK, [SyncNext]_vars PROVE DataTypeOK'
<1> USE ThreadAssumption, SemAssumption
<1>0. DataTypeOK /\ intr \in Intr /\ cur \in Thread
  BY DEF SyncTypeOK, TypeOK
<1>1. CASE Quiet
  <2>1. waiters' \in [Sem -> Seq(Thread)]
    <3>1. ASSUME NEW t \in Thread, down_block(t)
          PROVE  waiters' \in [Sem -> Seq(Thread)]
      <4>1. list_append(waiters[arg[t]], t) \in Seq(Thread)
        BY <1>0, AppendElements DEF DataTypeOK
      <4> QED
        BY <1>0, <3>1, <4>1 DEF down_block, DataTypeOK
    <3>2. CASE UNCHANGED waiters
      BY <1>0, <3>2 DEF DataTypeOK
    <3> QED
      BY <1>1, <3>1, <3>2 DEF Quiet, timer, boot, start_ready, return, start,
         vars, syncVars
  <2> QED
    BY <1>0, <1>1, <2>1, QuietStutters DEF DataTypeOK
<1>2. ASSUME NEW s \in Sem, semaphore_up(s)
      PROVE  /\ waiters' \in [Sem -> Seq(Thread)]
             /\ value' \in [Sem -> Nat]
             /\ UNCHANGED << holder, repeat, arg, old, held >>
  <2>1. CASE list_empty(waiters[s])
    BY <1>0, <1>2, <2>1 DEF semaphore_up, wake_first, DataTypeOK
  <2>2. CASE ~ list_empty(waiters[s])
    <3>1. list_rest(waiters[s]) \in Seq(Thread)
      BY <1>0, <2>2, PopElements DEF DataTypeOK
    <3>2. /\ waiters' = [waiters EXCEPT ![s] = list_rest(@)]
          /\ value' = [value EXCEPT ![s] = @ + 1]
          /\ UNCHANGED << holder, repeat, arg, old, held >>
      BY <1>2, <2>2 DEF semaphore_up, wake_first
    <3> QED
      BY <1>0, <3>1, <3>2 DEF DataTypeOK
  <2> QED
    BY <2>1, <2>2
<1>3. ASSUME NEW s \in Sem, event_up(s) PROVE DataTypeOK'
  BY <1>0, <1>2, <1>3 DEF event_up, DataTypeOK
<1>4. ASSUME NEW t \in Thread, release_up(t) PROVE DataTypeOK'
  <2>1. semaphore_up(arg[t]) /\ arg[t] \in Sem /\ pc' = [pc EXCEPT ![t] = "body"]
    BY <1>0, <1>4 DEF release_up, Goto, DataTypeOK
  <2> QED
    BY <1>0, <1>2, <2>1 DEF DataTypeOK, PC
<1>5. ASSUME NEW t \in Thread, NEW l \in Lock, lock_acquire(t, l)
      PROVE  DataTypeOK'
  <2>1. CASE holder[l] # t
    <3>1. /\ pc' = [pc EXCEPT ![t] = "call"] /\ arg' = [arg EXCEPT ![t] = l]
          /\ UNCHANGED << value, waiters, holder, repeat, old, held >>
      BY <1>5, <2>1 DEF lock_acquire, Goto
    <3> QED
      BY <1>0, <3>1 DEF DataTypeOK, PC
  <2>2. CASE holder[l] = t
    <3>1. /\ repeat' = [repeat EXCEPT ![l] = @ + 1]
          /\ held' = [held EXCEPT ![l][t] = @ + 1]
          /\ UNCHANGED << value, waiters, holder, pc, arg, old >>
      BY <1>5, <2>2 DEF lock_acquire
    <3>2. repeat[l] + 1 \in Nat /\ held[l][t] + 1 \in Nat
      <4>1. repeat[l] \in Nat /\ held[l][t] \in Nat
        BY <1>0 DEF DataTypeOK
      <4> QED
        BY <4>1
    <3> QED
      BY <1>0, <3>1, <3>2 DEF DataTypeOK
  <2> QED
    BY <2>1, <2>2
<1>6. ASSUME NEW t \in Thread, NEW l \in Lock, lock_release(t, l)
      PROVE  DataTypeOK'
  <2>0. held \in [Lock -> [Thread -> Nat]] /\ repeat \in [Lock -> Nat]
    BY <1>0 DEF DataTypeOK
  <2>1. held' \in [Lock -> [Thread -> Nat]]
    <3>1. held[l][t] \in Nat
      BY <2>0
    <3> DEFINE n == IF held[l][t] > 0 THEN held[l][t] - 1 ELSE 0
    <3>2. n \in Nat
      BY <3>1
    <3>3. held' = [held EXCEPT ![l][t] = n]
      BY <1>6 DEF lock_release
    <3> HIDE DEF n
    <3> QED
      BY <2>0, <3>2, <3>3
  <2>2. repeat' \in [Lock -> Nat]
    <3>1. repeat[l] \in Nat
      BY <2>0
    <3>2. repeat[l] > 1 => repeat[l] - 1 \in Nat
      BY <3>1
    <3> QED
      BY <1>6, <2>0, <3>2 DEF lock_release
  <2>3. /\ \/ UNCHANGED << pc, arg >>
           \/ /\ pc' = [pc EXCEPT ![t] = "clear"]
              /\ arg' = [arg EXCEPT ![t] = l]
        /\ UNCHANGED << value, waiters, holder, old >>
    BY <1>6 DEF lock_release, Goto
  <2> QED
    BY <1>0, <2>1, <2>2, <2>3 DEF DataTypeOK, PC
<1>7. ASSUME NEW t \in Thread, NEW s \in Sem, down_enter(t, s)
      PROVE  DataTypeOK'
  BY <1>0, <1>7 DEF down_enter, Goto, DataTypeOK, PC
<1>8. ASSUME NEW t \in Thread, down_take(t) PROVE DataTypeOK'
  <2>1. value[arg[t]] - 1 \in Nat
    BY <1>0, <1>8 DEF down_take, DataTypeOK
  <2> QED
    BY <1>0, <1>8, <2>1 DEF down_take, Goto, DataTypeOK, PC
<1>9. ASSUME NEW t \in Thread,
             set_holder(t) \/ set_count(t) \/ clear_holder(t) \/ clear_count(t)
      PROVE  DataTypeOK'
  <2>1. arg[t] \in Lock /\ 1 \in Nat /\ held[arg[t]][t] + 1 \in Nat
    <3>1. pc[t] \notin {"body", "down"}
      BY <1>9 DEF set_holder, set_count, clear_holder, clear_count, At
    <3>2. arg[t] \in Lock
      BY <1>0, <3>1 DEF DataTypeOK
    <3>3. held[arg[t]][t] \in Nat
      BY <1>0, <3>2 DEF DataTypeOK
    <3> QED
      BY <3>2, <3>3
  <2>2. CASE set_holder(t)
    BY <1>0, <2>1, <2>2 DEF set_holder, Goto, DataTypeOK, PC
  <2>3. CASE set_count(t)
    <3>1. /\ repeat' = [repeat EXCEPT ![arg[t]] = 1]
          /\ held' = [held EXCEPT ![arg[t]][t] = @ + 1]
          /\ pc' = [pc EXCEPT ![t] = "body"]
          /\ UNCHANGED << value, waiters, holder, arg, old >>
      BY <2>3 DEF set_count, Goto
    <3> QED
      BY <1>0, <2>1, <3>1 DEF DataTypeOK, PC
  <2>4. CASE clear_holder(t)
    BY <1>0, <2>1, <2>4 DEF clear_holder, Goto, DataTypeOK, PC
  <2>5. CASE clear_count(t)
    BY <1>0, <2>1, <2>5 DEF clear_count, Goto, DataTypeOK, PC
  <2> QED
    BY <1>9, <2>2, <2>3, <2>4, <2>5
<1>10. CASE UNCHANGED vars
  BY <1>0, <1>10 DEF vars, syncVars, DataTypeOK
<1> QED
  BY <1>1, <1>3, <1>4, <1>5, <1>6, <1>7, <1>8, <1>9, <1>10, SyncCases

\* The invariant of the scheduler and the types, together.
SyncInv == SchedInv /\ DataTypeOK

LEMMA SyncInvariant == SyncSpec => []SyncInv
<1>1. SyncInit => SyncInv
  BY SyncInitType, InitInv DEF SyncInv, SyncInit, SyncTypeOK
<1>2. SyncInv /\ [SyncNext]_vars => SyncInv'
  <2> SUFFICES ASSUME SyncInv, [SyncNext]_vars PROVE SyncInv'
    OBVIOUS
  <2>1. SyncTypeOK
    BY DEF SyncInv, SchedInv, SyncTypeOK
  <2> QED
    BY <2>1, SyncStepSched, SyncStepData, StepInv DEF SyncInv
<1> QED
  BY <1>1, <1>2, PTL DEF SyncSpec

\* The threads that use semaphores and locks are threads of the scheduler.
THEOREM SyncImplementsSched == SyncSpec => SchedSpec
<1>1. SyncInit => thread_init
  BY DEF SyncInit
<1>2. SyncInv /\ [SyncNext]_vars => [SchedNext]_schedVars
  BY SyncStepSched DEF SyncInv, SchedInv, SyncTypeOK
<1> QED
  BY <1>1, <1>2, SyncInvariant, PTL DEF SyncSpec, SchedSpec

\* The types, of the scheduler's state and of the semaphores and locks.
THEOREM SyncTypes == SyncSpec => []SyncTypeOK
<1>1. SyncInv => SyncTypeOK
  BY DEF SyncInv, SchedInv, SyncTypeOK
<1> QED
  BY <1>1, SyncInvariant, PTL

-----------------------------------------------------------------------------
(***************************************************************************)
(* Mutual exclusion.  LockTokens and HolderExact are not inductive alone:  *)
(* they need that a thread on its way into or out of a lock has no acquire *)
(* of it to its name (CallNotHeld), and that holder still is the thread    *)
(* that set it when the thread goes on (HolderInCall).                     *)
(***************************************************************************)
ValueBinary == \A l \in Lock : value[l] \in {0, 1}
OwnerTakes  == \A l \in Lock : \A t \in Thread : Owns(t, l) => value[l] = 0
OwnerUnique ==
    \A l \in Lock : \A t, u \in Thread : Owns(t, l) /\ Owns(u, l) => t = u
OwnerExists == \A l \in Lock : value[l] = 0 => \E t \in Thread : Owns(t, l)
CallNotHeld ==
    \A t \in Thread :
        pc[t] # "body" /\ arg[t] \in Lock => held[arg[t]][t] = 0
HolderInCall ==
    \A t \in Thread : pc[t] \in {"count", "clear"} => holder[arg[t]] = t

LockInv ==
    /\ ValueBinary
    /\ OwnerTakes
    /\ OwnerUnique
    /\ OwnerExists
    /\ HolderExact
    /\ CallNotHeld
    /\ HolderInCall

LEMMA LockInitInv == SyncInit => LockInv
<1> SUFFICES ASSUME SyncInit PROVE LockInv
  OBVIOUS
<1>1. \A l \in Lock : value[l] = 1
  BY SemAssumption DEF SyncInit
<1>2. \A l \in Lock : \A t \in Thread : held[l][t] = 0 /\ holder[l] # t
  BY ThreadAssumption DEF SyncInit
<1>3. \A t \in Thread : pc[t] = "body"
  BY DEF SyncInit
<1>4. \A l \in Lock : \A t \in Thread : ~ Owns(t, l)
  BY <1>2, <1>3 DEF Owns
<1> QED
  BY <1>1, <1>2, <1>3, <1>4 DEF LockInv, ValueBinary, OwnerTakes, OwnerUnique,
     OwnerExists, HolderExact, CallNotHeld, HolderInCall

\* A step that changes none of what LockInv reads, for the locks.
LEMMA LockInvQuiet ==
    ASSUME LockInv, UNCHANGED << holder, repeat, pc, arg, held >>,
           \A l \in Lock : value'[l] = value[l]
    PROVE  LockInv'
<1>1. \A l \in Lock : \A t \in Thread : Owns(t, l)' <=> Owns(t, l)
  BY DEF Owns
<1> QED
  BY <1>1 DEF LockInv, ValueBinary, OwnerTakes, OwnerUnique, OwnerExists,
              HolderExact, CallNotHeld, HolderInCall

\* lock_acquire, up to the call of semaphore_down.
LEMMA AcquireKeepsLockInv ==
    ASSUME DataTypeOK, LockInv, NEW t \in Thread, NEW l \in Lock,
           lock_acquire(t, l)
    PROVE  LockInv'
<1> USE DEF LockInv
<1>0. /\ pc \in [Thread -> PC] /\ arg \in [Thread -> Sem] /\ l \in Sem
      /\ held \in [Lock -> [Thread -> Nat]] /\ repeat \in [Lock -> Nat]
      /\ pc[t] = "body"
  BY SemAssumption DEF DataTypeOK, lock_acquire, At
<1>1. CASE holder[l] # t
  <2>1. /\ pc' = [pc EXCEPT ![t] = "call"] /\ arg' = [arg EXCEPT ![t] = l]
        /\ UNCHANGED << value, holder, repeat, held >>
    BY <1>1 DEF lock_acquire, Goto
  <2>2. held[l][t] = 0
    BY <1>0, <1>1 DEF HolderExact
  <2>3. \A m \in Lock : \A u \in Thread : Owns(u, m)' <=> Owns(u, m)
    BY <1>0, <2>1 DEF Owns
  <2>4. HolderExact'
    BY <1>0, <2>1 DEF HolderExact
  <2>5. CallNotHeld' /\ HolderInCall'
    BY <1>0, <2>1, <2>2 DEF CallNotHeld, HolderInCall
  <2> QED
    BY <2>1, <2>3, <2>4, <2>5
    DEF ValueBinary, OwnerTakes, OwnerUnique, OwnerExists
<1>2. CASE holder[l] = t
  <2>1. /\ repeat' = [repeat EXCEPT ![l] = @ + 1]
        /\ held' = [held EXCEPT ![l][t] = @ + 1]
        /\ UNCHANGED << value, holder, pc, arg >>
    BY <1>2 DEF lock_acquire
  <2>2. held[l][t] > 0 /\ held[l][t] \in Nat /\ repeat[l] = held[l][t]
    BY <1>0, <1>2 DEF HolderExact
  <2>3. \A m \in Lock : \A u \in Thread : Owns(u, m)' <=> Owns(u, m)
    BY <1>0, <2>1, <2>2 DEF Owns
  <2>4. \A u \in Thread \ {t} : held[l][u] = 0
    BY <1>0, <2>2 DEF OwnerUnique, Owns
  <2>5. HolderExact'
    BY <1>0, <1>2, <2>1, <2>2, <2>4 DEF HolderExact
  <2>6. CallNotHeld' /\ HolderInCall'
    BY <1>0, <2>1 DEF CallNotHeld, HolderInCall
  <2> QED
    BY <2>1, <2>3, <2>5, <2>6
    DEF ValueBinary, OwnerTakes, OwnerUnique, OwnerExists
<1> QED
  BY <1>1, <1>2

\* lock_release, up to the store that clears holder.
LEMMA ReleaseKeepsLockInv ==
    ASSUME DataTypeOK, LockInv, NEW t \in Thread, NEW l \in Lock,
           lock_release(t, l)
    PROVE  LockInv'
<1> USE DEF LockInv
<1>0. /\ pc \in [Thread -> PC] /\ arg \in [Thread -> Sem] /\ l \in Sem
      /\ held \in [Lock -> [Thread -> Nat]] /\ repeat \in [Lock -> Nat]
      /\ pc[t] = "body" /\ held[l][t] \in Nat
  BY SemAssumption DEF DataTypeOK, lock_release, At
<1>1. CASE holder[l] # t
  <2>1. held[l][t] = 0
    BY <1>0, <1>1 DEF HolderExact
  <2>2. held' = [held EXCEPT ![l][t] = 0]
    BY <2>1 DEF lock_release
  <2>3. UNCHANGED << value, holder, repeat, pc, arg, held >>
    BY <1>0, <1>1, <2>1, <2>2 DEF lock_release
  <2> QED
    BY <2>3, LockInvQuiet
<1>2. CASE holder[l] = t
  <2>1. held[l][t] > 0 /\ repeat[l] = held[l][t] /\ Owns(t, l)
    BY <1>0, <1>2 DEF HolderExact, Owns
  <2>2. held' = [held EXCEPT ![l][t] = @ - 1]
    BY <2>1 DEF lock_release
  <2>3. \A u \in Thread \ {t} : held[l][u] = 0
    BY <1>0, <2>1 DEF OwnerUnique, Owns
  <2>4. CASE repeat[l] > 1
    <3>1. /\ repeat' = [repeat EXCEPT ![l] = @ - 1]
          /\ UNCHANGED << value, holder, pc, arg >>
      BY <1>0, <1>2, <2>4 DEF lock_release
    <3>2. \A m \in Lock : \A u \in Thread : Owns(u, m)' <=> Owns(u, m)
      BY <1>0, <2>1, <2>2, <2>4, <3>1 DEF Owns
    <3>3. HolderExact'
      BY <1>0, <1>2, <2>1, <2>2, <2>3, <2>4, <3>1 DEF HolderExact
    <3>4. CallNotHeld' /\ HolderInCall'
      BY <1>0, <2>2, <3>1 DEF CallNotHeld, HolderInCall
    <3> QED
      BY <3>1, <3>2, <3>3, <3>4
      DEF ValueBinary, OwnerTakes, OwnerUnique, OwnerExists
  <2>5. CASE repeat[l] <= 1
    <3>1. /\ pc' = [pc EXCEPT ![t] = "clear"] /\ arg' = [arg EXCEPT ![t] = l]
          /\ UNCHANGED << value, holder, repeat >>
      BY <1>0, <1>2, <2>5 DEF lock_release, Goto
    <3>2. held[l][t] = 1
      BY <1>0, <2>1, <2>5
    <3>3. \A m \in Lock : \A u \in Thread : Owns(u, m)' <=> Owns(u, m)
      BY <1>0, <2>1, <2>2, <3>1, <3>2 DEF Owns
    <3>4. HolderExact'
      BY <1>0, <1>2, <2>2, <2>3, <3>1, <3>2 DEF HolderExact
    <3>5. CallNotHeld' /\ HolderInCall'
      BY <1>0, <1>2, <2>2, <3>1, <3>2 DEF CallNotHeld, HolderInCall
    <3> QED
      BY <3>1, <3>3, <3>4, <3>5
      DEF ValueBinary, OwnerTakes, OwnerUnique, OwnerExists
  <2> QED
    BY <1>0, <2>4, <2>5
<1> QED
  BY <1>1, <1>2

\* semaphore_down, by any thread.
LEMMA DownKeepsLockInv ==
    ASSUME DataTypeOK, LockInv, NEW t \in Thread,
           (\E s \in Sem : down_enter(t, s)) \/ down_take(t)
    PROVE  LockInv'
<1> USE DEF LockInv
<1>0. /\ pc \in [Thread -> PC] /\ arg \in [Thread -> Sem]
      /\ value \in [Sem -> Nat] /\ Lock \subseteq Sem
  BY SemAssumption DEF DataTypeOK
<1>1. ASSUME NEW s \in Sem, down_enter(t, s) PROVE LockInv'
  <2>1. /\ pc' = [pc EXCEPT ![t] = "down"] /\ arg' = [arg EXCEPT ![t] = s]
        /\ UNCHANGED << value, holder, repeat, held >>
        /\ \/ pc[t] = "call" /\ s = arg[t]
           \/ pc[t] = "body" /\ s \notin Lock
    BY <1>1 DEF down_enter, Goto, At
  <2>2. \A m \in Lock : \A u \in Thread : Owns(u, m)' <=> Owns(u, m)
    BY <1>0, <2>1 DEF Owns
  <2>3. HolderExact' /\ CallNotHeld' /\ HolderInCall'
    BY <1>0, <2>1 DEF HolderExact, CallNotHeld, HolderInCall
  <2> QED
    BY <2>1, <2>2, <2>3 DEF ValueBinary, OwnerTakes, OwnerUnique, OwnerExists
<1>2. CASE down_take(t)
  <2> DEFINE l == arg[t]
  <2>1. /\ pc[t] = "down" /\ value[l] # 0
        /\ value' = [value EXCEPT ![l] = @ - 1]
        /\ pc' = [pc EXCEPT ![t] = IF l \in Lock THEN "enter" ELSE "body"]
        /\ UNCHANGED << holder, repeat, arg, held >>
    BY <1>2 DEF down_take, Goto, At
  <2>2. HolderExact' /\ CallNotHeld' /\ HolderInCall'
    BY <1>0, <2>1 DEF HolderExact, CallNotHeld, HolderInCall
  <2>3. CASE l \in Lock
    <3>1. value[l] = 1 /\ \A u \in Thread : ~ Owns(u, l)
      BY <2>1, <2>3 DEF ValueBinary, OwnerTakes
    <3>2. /\ value'[l] = 0
          /\ \A m \in Lock \ {l} : value'[m] = value[m]
      BY <1>0, <2>1, <2>3, <3>1
    <3>3. \A m \in Lock : \A u \in Thread :
            Owns(u, m)' <=> Owns(u, m) \/ (u = t /\ m = l)
      BY <1>0, <2>1, <2>3 DEF Owns
    <3>4. ValueBinary' /\ OwnerTakes'
      BY <3>2, <3>3 DEF ValueBinary, OwnerTakes
    <3>5. OwnerUnique' /\ OwnerExists'
      BY <3>1, <3>2, <3>3 DEF OwnerUnique, OwnerExists
    <3> QED
      BY <2>2, <3>4, <3>5
  <2>4. CASE l \notin Lock
    <3>1. \A m \in Lock : value'[m] = value[m]
      BY <1>0, <2>1, <2>4
    <3>2. \A m \in Lock : \A u \in Thread : Owns(u, m)' <=> Owns(u, m)
      BY <1>0, <2>1, <2>4 DEF Owns
    <3> QED
      BY <2>2, <3>1, <3>2
      DEF ValueBinary, OwnerTakes, OwnerUnique, OwnerExists
  <2> QED
    BY <2>3, <2>4
<1> QED
  BY <1>1, <1>2

\* The stores of lock_acquire and lock_release, made with interrupts enabled:
\* the thread owns the lock, so no other one is at a store of it.
LEMMA StoreKeepsLockInv ==
    ASSUME DataTypeOK, LockInv, NEW t \in Thread,
           set_holder(t) \/ set_count(t) \/ clear_holder(t) \/ clear_count(t)
    PROVE  LockInv'
<1> USE DEF LockInv
<1> DEFINE l == arg[t]
<1>0. /\ pc \in [Thread -> PC] /\ arg \in [Thread -> Sem]
      /\ held \in [Lock -> [Thread -> Nat]] /\ repeat \in [Lock -> Nat]
      /\ holder \in [Lock -> Thread \cup {NoThread}]
      /\ UNCHANGED << value, arg >>
  BY DEF DataTypeOK, set_holder, set_count, clear_holder, clear_count
<1>1. /\ pc[t] \in {"enter", "count", "clear", "zero"} /\ l \in Lock
      /\ Owns(t, l) /\ held[l][t] = 0
  <2>1. pc[t] \in {"enter", "count", "clear", "zero"}
    BY DEF set_holder, set_count, clear_holder, clear_count, At
  <2>2. l \in Lock
    BY <2>1 DEF DataTypeOK
  <2> QED
    BY <2>1, <2>2 DEF Owns, CallNotHeld
<1>2. \A u \in Thread \ {t} :
        held[l][u] = 0 /\ ~ (arg[u] = l /\ pc[u] \in {"count", "clear"})
  BY <1>0, <1>1 DEF OwnerUnique, Owns
<1>3. CASE set_holder(t)
  <2>1. /\ pc[t] = "enter" /\ pc' = [pc EXCEPT ![t] = "count"]
        /\ holder' = [holder EXCEPT ![l] = t] /\ UNCHANGED << repeat, held >>
    BY <1>3 DEF set_holder, Goto, At
  <2>2. \A m \in Lock : \A u \in Thread : Owns(u, m)' <=> Owns(u, m)
    BY <1>0, <1>1, <2>1 DEF Owns
  <2>3. HolderExact'
    BY <1>0, <1>1, <1>2, <2>1 DEF HolderExact
  <2>4. CallNotHeld' /\ HolderInCall'
    BY <1>0, <1>1, <1>2, <2>1 DEF CallNotHeld, HolderInCall, DataTypeOK
  <2> QED
    BY <1>0, <2>2, <2>3, <2>4
    DEF ValueBinary, OwnerTakes, OwnerUnique, OwnerExists
<1>4. CASE set_count(t)
  <2>1. /\ pc[t] = "count" /\ pc' = [pc EXCEPT ![t] = "body"]
        /\ repeat' = [repeat EXCEPT ![l] = 1]
        /\ held' = [held EXCEPT ![l][t] = @ + 1] /\ UNCHANGED holder
    BY <1>4 DEF set_count, Goto, At
  <2>2. held' = [held EXCEPT ![l][t] = 1] /\ held'[l][t] = 1
    BY <1>0, <1>1, <2>1
  <2>3. \A m \in Lock : \A u \in Thread : Owns(u, m)' <=> Owns(u, m)
    BY <1>0, <1>1, <2>1, <2>2 DEF Owns
  <2>4. holder[l] = t
    BY <2>1 DEF HolderInCall
  <2>5. HolderExact'
    BY <1>0, <1>1, <1>2, <2>1, <2>2, <2>4 DEF HolderExact
  <2>6. CallNotHeld' /\ HolderInCall'
    BY <1>0, <1>1, <2>1, <2>2 DEF CallNotHeld, HolderInCall
  <2> QED
    BY <1>0, <2>3, <2>5, <2>6
    DEF ValueBinary, OwnerTakes, OwnerUnique, OwnerExists
<1>5. CASE clear_holder(t)
  <2>1. /\ pc[t] = "clear" /\ pc' = [pc EXCEPT ![t] = "zero"]
        /\ holder' = [holder EXCEPT ![l] = NoThread]
        /\ UNCHANGED << repeat, held >>
    BY <1>5 DEF clear_holder, Goto, At
  <2>2. \A m \in Lock : \A u \in Thread : Owns(u, m)' <=> Owns(u, m)
    BY <1>0, <1>1, <2>1 DEF Owns
  <2>3. HolderExact'
    BY <1>0, <1>1, <1>2, <2>1, ThreadAssumption DEF HolderExact
  <2>4. CallNotHeld' /\ HolderInCall'
    BY <1>0, <1>1, <1>2, <2>1 DEF CallNotHeld, HolderInCall, DataTypeOK
  <2> QED
    BY <1>0, <2>2, <2>3, <2>4
    DEF ValueBinary, OwnerTakes, OwnerUnique, OwnerExists
<1>6. CASE clear_count(t)
  <2>1. /\ pc[t] = "zero" /\ pc' = [pc EXCEPT ![t] = "up"]
        /\ repeat' = [repeat EXCEPT ![l] = 0] /\ UNCHANGED << holder, held >>
    BY <1>6 DEF clear_count, Goto, At
  <2>2. \A m \in Lock : \A u \in Thread : Owns(u, m)' <=> Owns(u, m)
    BY <1>0, <1>1, <2>1 DEF Owns
  <2>3. HolderExact'
    BY <1>0, <1>1, <1>2, <2>1 DEF HolderExact
  <2>4. CallNotHeld' /\ HolderInCall'
    BY <1>0, <1>1, <2>1 DEF CallNotHeld, HolderInCall
  <2> QED
    BY <1>0, <2>2, <2>3, <2>4
    DEF ValueBinary, OwnerTakes, OwnerUnique, OwnerExists
<1> QED
  BY <1>3, <1>4, <1>5, <1>6

\* The semaphore_up at the end of lock_release gives the lock back.
LEMMA UpKeepsLockInv ==
    ASSUME DataTypeOK, LockInv, NEW t \in Thread, release_up(t)
    PROVE  LockInv'
<1> USE DEF LockInv
<1> DEFINE l == arg[t]
<1>1. /\ pc \in [Thread -> PC] /\ value \in [Sem -> Nat] /\ pc[t] = "up"
      /\ Lock \subseteq Sem
      /\ pc' = [pc EXCEPT ![t] = "body"]
      /\ value' = [value EXCEPT ![l] = @ + 1]
      /\ UNCHANGED << holder, repeat, arg, held >>
  BY SemAssumption DEF DataTypeOK, release_up, At, Goto, semaphore_up
<1>2. l \in Lock /\ Owns(t, l) /\ held[l][t] = 0 /\ value[l] = 0
  BY <1>1 DEF DataTypeOK, Owns, CallNotHeld, OwnerTakes
<1>3. /\ value'[l] = 1
      /\ \A m \in Lock \ {l} : value'[m] = value[m]
  BY <1>1, <1>2
<1>4. \A m \in Lock : \A u \in Thread :
        Owns(u, m)' <=> Owns(u, m) /\ (u # t \/ m # l)
  BY <1>1, <1>2 DEF Owns
<1>5. \A u \in Thread : ~ Owns(u, l)'
  BY <1>1, <1>2, <1>4 DEF OwnerUnique
<1>6. HolderExact' /\ CallNotHeld' /\ HolderInCall'
  BY <1>1 DEF HolderExact, CallNotHeld, HolderInCall
<1>7. ValueBinary' /\ OwnerTakes'
  BY <1>1, <1>3, <1>4, <1>5 DEF ValueBinary, OwnerTakes
<1>8. OwnerUnique' /\ OwnerExists'
  BY <1>1, <1>3, <1>4, <1>5 DEF OwnerUnique, OwnerExists
<1> QED
  BY <1>6, <1>7, <1>8

LEMMA LockStepInv ==
    ASSUME DataTypeOK, LockInv, [SyncNext]_vars PROVE LockInv'
<1>1. CASE Quiet
  BY <1>1, QuietStutters, LockInvQuiet
<1>2. ASSUME NEW s \in Sem, event_up(s) PROVE LockInv'
  <2>1. \A l \in Lock : value'[l] = value[l]
    BY <1>2, SemAssumption DEF event_up, semaphore_up, DataTypeOK
  <2>2. UNCHANGED << holder, repeat, pc, arg, held >>
    BY <1>2 DEF event_up, semaphore_up
  <2> QED
    BY <2>1, <2>2, LockInvQuiet
<1>3. CASE UNCHANGED vars
  BY <1>3, LockInvQuiet DEF vars, syncVars
<1> QED
  BY <1>1, <1>2, <1>3, SyncCases, AcquireKeepsLockInv, ReleaseKeepsLockInv,
     DownKeepsLockInv, StoreKeepsLockInv, UpKeepsLockInv

LEMMA LockInvariant == SyncSpec => [](DataTypeOK /\ LockInv)
<1>1. SyncInit => LockInv
  BY LockInitInv
<1>2. SyncInv => DataTypeOK
  BY DEF SyncInv
<1>3. DataTypeOK /\ LockInv /\ [SyncNext]_vars => LockInv'
  BY LockStepInv
<1> QED
  BY <1>1, <1>2, <1>3, SyncInvariant, PTL DEF SyncSpec

\* A lock has one owner or is free to take, and its fields agree with its
\* callers, for every number of threads, locks and acquires.
THEOREM LocksConsistent == SyncSpec => [](LockTokens /\ HolderExact)
<1>1. LockInv => HolderExact
  BY DEF LockInv
<1>2. LockInv => LockTokens
  <2> SUFFICES ASSUME LockInv, NEW l \in Lock
               PROVE  value[l] + Cardinality({t \in Thread : Owns(t, l)}) = 1
    BY DEF LockTokens
  <2> DEFINE O == {t \in Thread : Owns(t, l)}
  <2>1. CASE value[l] = 0
    <3>1. PICK t \in Thread : O = {t}
      BY <2>1 DEF LockInv, OwnerExists, OwnerUnique
    <3>2. Cardinality(O) = 1
      BY <3>1, FS_Singleton
    <3> QED
      BY <2>1, <3>2
  <2>2. CASE value[l] = 1
    <3>1. O = {}
      BY <2>2 DEF LockInv, OwnerTakes
    <3>2. Cardinality(O) = 0
      BY <3>1, FS_EmptySet
    <3> QED
      BY <2>2, <3>2
  <2> QED
    BY <2>1, <2>2 DEF LockInv, ValueBinary
<1> QED
  BY <1>1, <1>2, LockInvariant, PTL

\* The lock of sync.c is a recursive mutex: each step of its code acquires or
\* releases it as Mutex allows, or changes nothing its callers can tell.
THEOREM LockImplementsMutex == SyncSpec => LockIsMutex
<1>1. SyncInit => Mtx!MutexInit
  BY DEF SyncInit, Mtx!MutexInit
<1>2. ASSUME DataTypeOK, LockInv, [SyncNext]_vars
      PROVE  [Mtx!MutexNext]_held
  <2>0. held \in [Lock -> [Thread -> Nat]]
    BY <1>2 DEF DataTypeOK
  <2>1. ASSUME NEW t \in Thread, NEW l \in Lock, Owns(t, l),
               held' = [held EXCEPT ![l][t] = @ + 1]
        PROVE  [Mtx!MutexNext]_held
    <3>1. \A u \in Thread \ {t} : held[l][u] = 0
      BY <1>2, <2>0, <2>1 DEF LockInv, OwnerUnique, Owns
    <3>2. Mtx!Acquire(l, t)
      BY <2>1, <3>1 DEF Mtx!Acquire
    <3> QED
      BY <3>2 DEF Mtx!MutexNext
  <2>2. ASSUME NEW t \in Thread, NEW l \in Lock, lock_acquire(t, l)
        PROVE  [Mtx!MutexNext]_held
    <3>1. CASE holder[l] = t
      <4>1. held[l][t] > 0
        BY <1>2, <2>2, <3>1 DEF lock_acquire, At, LockInv, HolderExact
      <4>2. held' = [held EXCEPT ![l][t] = @ + 1]
        BY <2>2, <3>1 DEF lock_acquire
      <4> QED
        BY <2>1, <4>1, <4>2 DEF Owns
    <3>2. CASE holder[l] # t
      BY <2>2, <3>2 DEF lock_acquire
    <3> QED
      BY <3>1, <3>2
  <2>3. ASSUME NEW t \in Thread, NEW l \in Lock, lock_release(t, l)
        PROVE  [Mtx!MutexNext]_held
    <3>1. CASE held[l][t] > 0
      <4>1. Mtx!Release(l, t)
        BY <2>3, <3>1 DEF lock_release, Mtx!Release
      <4> QED
        BY <4>1 DEF Mtx!MutexNext
    <3>2. CASE held[l][t] = 0
      BY <2>0, <2>3, <3>2 DEF lock_release
    <3> QED
      BY <2>0, <3>1, <3>2
  <2>4. ASSUME NEW t \in Thread, set_count(t) PROVE [Mtx!MutexNext]_held
    <3>1. pc[t] = "count" /\ held' = [held EXCEPT ![arg[t]][t] = @ + 1]
      BY <2>4 DEF set_count, At
    <3>2. PICK l \in Lock : l = arg[t]
      BY <1>2, <3>1 DEF DataTypeOK
    <3> QED
      BY <2>1, <3>1, <3>2 DEF Owns
  <2>5. ASSUME NEW t \in Thread,
               \/ \E s \in Sem : down_enter(t, s)
               \/ down_take(t) \/ set_holder(t) \/ clear_holder(t)
               \/ clear_count(t) \/ release_up(t)
        PROVE  [Mtx!MutexNext]_held
    BY <2>5 DEF down_enter, down_take, set_holder, clear_holder, clear_count,
                release_up, semaphore_up
  <2>6. ASSUME NEW s \in Sem, event_up(s) PROVE [Mtx!MutexNext]_held
    BY <2>6 DEF event_up, semaphore_up
  <2>7. CASE UNCHANGED vars
    BY <2>7 DEF vars, syncVars
  <2> QED
    BY <1>2, <2>2, <2>3, <2>4, <2>5, <2>6, <2>7, SyncCases, QuietStutters
<1> QED
  BY <1>1, <1>2, LockInvariant, PTL DEF SyncSpec, LockIsMutex, Mtx!MutexSpec

-----------------------------------------------------------------------------
(***************************************************************************)
(* Waiting.  Lists of waiters hold blocked threads only, so that the thread *)
(* on the CPU, the only one that moves its pc, is in none of them.  Who     *)
(* blocks here is not main, as in main.c: without a thread that is always   *)
(* ready, schedule would return to the thread that has just blocked.        *)
(***************************************************************************)
WaitersBlocked ==
    \A s \in Sem :
        /\ IsInjective(waiters[s])
        /\ \A t \in ToSet(waiters[s]) :
              status[t] = "TASK_BLOCKED" /\ pc[t] = "down" /\ arg[t] = s

LEMMA CurNotWaiting ==
    ASSUME WaitersBlocked, CurRuns
    PROVE  \A s \in Sem : cur \notin ToSet(waiters[s])
BY DEF WaitersBlocked, CurRuns

\* The timer's handler and the other steps of the scheduler leave a blocked
\* thread blocked.
LEMMA BlockedStays ==
    ASSUME main \notin MayBlock, IdleInv, NEW t \in Thread, status[t] = "TASK_BLOCKED",
           \/ timer
           \/ \E u \in Thread :
                \/ boot(u) \/ start_ready(u) \/ return(u)
                \/ \E v \in Thread : start(u, v)
           \/ down_block(cur)
    PROVE  status'[t] = "TASK_BLOCKED"
<1>0. status \in [Thread -> Status] /\ status[cur] = "TASK_RUNNING" /\ cur \in Thread
  BY DEF IdleInv, SchedInv, TypeOK, CurRuns
<1>1. CASE timer
  <2>1. CASE ticks[cur] = 0
    <3>1. schedule(status, "timer")
      BY <1>1, <2>1 DEF timer, intr_timer_handler
    <3>2. /\ status' = [AfterPreempt(status) EXCEPT ![cur'] = "TASK_RUNNING"]
          /\ cur' # cur => status[cur'] = "TASK_READY"
      BY <1>0, <3>1, ScheduleSwitch
    <3> QED
      BY <1>0, <3>2 DEF AfterPreempt
  <2>2. CASE ticks[cur] # 0
    BY <1>1, <2>2 DEF timer, intr_timer_handler
  <2> QED
    BY <2>1, <2>2
<1>2. ASSUME NEW u \in Thread,
             \/ boot(u) \/ start_ready(u) \/ return(u)
             \/ \E v \in Thread : start(u, v)
      PROVE  status'[t] = "TASK_BLOCKED"
  BY <1>0, <1>2 DEF boot, intr_enable, start_ready, thread_start_ready, return,
     switch_return, start, thread_start
<1>3. CASE down_block(cur)
  <2> DEFINE st == [status EXCEPT ![cur] = "TASK_BLOCKED"]
  <2>1. schedule(st, "block") /\ cur \in MayBlock
    BY <1>3 DEF down_block, thread_block
  <2>2. /\ st \in [Thread -> Status] /\ st[cur] \in BlockStatus
        /\ \A x \in Thread \ {cur} : st[x] = status[x]
    BY <1>0, BlockedAssumption DEF Status
  <2>3. AfterPreempt(st) = st
    BY <1>0 DEF AfterPreempt
  <2> HIDE DEF st
  <2>4. /\ status' = [AfterPreempt(st) EXCEPT ![cur'] = "TASK_RUNNING"]
        /\ cur' # cur /\ status[cur'] = "TASK_READY"
    BY <2>1, <2>2, ScheduleSwitch
  <2> QED
    BY <1>0, <2>2, <2>3, <2>4
<1> QED
  BY <1>1, <1>2, <1>3

\* down_block: the caller is switched out, its status says so.
LEMMA BlockEffect ==
    ASSUME main \notin MayBlock, IdleInv, NEW t \in Thread, down_block(t)
    PROVE  /\ t = cur /\ cur' # cur /\ cur' \in Thread
           /\ status'[t] = "TASK_BLOCKED" /\ frame' = [frame EXCEPT ![t] = "block"]
           /\ status[cur'] = "TASK_READY" /\ frame[cur'] # "none"
           /\ saved' = [saved EXCEPT ![t] = intr] /\ intr' = "INTR_OFF"
<1>0. status \in [Thread -> Status] /\ status[cur] = "TASK_RUNNING" /\ cur \in Thread
  BY DEF IdleInv, SchedInv, TypeOK, CurRuns
<1> DEFINE st == [status EXCEPT ![t] = "TASK_BLOCKED"]
<1>1. /\ t = cur /\ cur \in MayBlock /\ schedule(st, "block")
      /\ saved' = [saved EXCEPT ![t] = intr] /\ intr' = "INTR_OFF"
  BY DEF down_block, thread_block, InBody, OnCpu
<1>2. /\ st \in [Thread -> Status] /\ st[cur] = "TASK_BLOCKED"
      /\ "TASK_BLOCKED" \in BlockStatus
      /\ \A x \in Thread \ {cur} : st[x] = status[x]
  BY <1>0, <1>1, BlockedAssumption DEF Status
<1> HIDE DEF st
<1>3. /\ status' = [AfterPreempt(st) EXCEPT ![cur'] = "TASK_RUNNING"]
      /\ frame' = [frame EXCEPT ![cur] = "block"]
      /\ cur' # cur /\ status[cur'] = "TASK_READY" /\ frame[cur'] # "none"
      /\ cur' \in Thread
  BY <1>1, <1>2, ScheduleSwitch
<1>4. AfterPreempt(st) = st
  BY <1>2 DEF AfterPreempt
<1> QED
  BY <1>1, <1>2, <1>3, <1>4

\* semaphore_up: the first waiter, if there is one, is off the list and READY.
LEMMA UpEffect ==
    ASSUME DataTypeOK, TypeOK, WaitersBlocked, NEW s \in Sem, semaphore_up(s)
    PROVE  /\ UNCHANGED << cur, intr, frame, saved, making, holder, repeat, arg,
                           old, held >>
           /\ value' = [value EXCEPT ![s] = @ + 1]
           /\ \/ waiters[s] = << >> /\ UNCHANGED << waiters, ready, status >>
              \/ \E u \in ToSet(waiters[s]) :
                    /\ u \in Thread
                    /\ waiters' = [waiters EXCEPT ![s] = list_rest(@)]
                    /\ ToSet(waiters[s]) = ToSet(list_rest(waiters[s])) \cup {u}
                    /\ IsInjective(list_rest(waiters[s]))
                    /\ u \notin ToSet(list_rest(waiters[s]))
                    /\ status' = [status EXCEPT ![u] = "TASK_READY"]
<1>1. waiters[s] \in Seq(Thread) /\ IsInjective(waiters[s])
  BY DEF DataTypeOK, WaitersBlocked
<1>2. CASE list_empty(waiters[s])
  BY <1>2 DEF semaphore_up, wake_first, list_empty
<1>3. CASE ~ list_empty(waiters[s])
  <2>1. PICK u \in Thread :
          /\ u = list_first(waiters[s]) /\ u \in ToSet(waiters[s])
          /\ ToSet(waiters[s]) = ToSet(list_rest(waiters[s])) \cup {u}
          /\ IsInjective(list_rest(waiters[s]))
          /\ u \notin ToSet(list_rest(waiters[s]))
    BY <1>1, <1>3, PopElements
  <2>2. waiters' = [waiters EXCEPT ![s] = list_rest(@)] /\ unblock(u)
    BY <1>3, <2>1 DEF semaphore_up, wake_first
  <2>3. status[u] \in BlockStatus
    BY <2>1, BlockedAssumption DEF WaitersBlocked
  <2>4. status' = [status EXCEPT ![u] = "TASK_READY"]
    BY <2>2, <2>3 DEF unblock
  <2> QED
    BY <2>1, <2>2, <2>4 DEF semaphore_up
<1> QED
  BY <1>2, <1>3


WaitInv == IdleInv /\ DataTypeOK /\ WaitersBlocked

LEMMA WaitInit == SyncInit => WaitInv
<1> SUFFICES ASSUME SyncInit PROVE WaitInv
  OBVIOUS
<1>1. IdleInv /\ DataTypeOK
  BY InitIdle, SyncInitType DEF SyncInit, SyncTypeOK
<1>2. \A s \in Sem : waiters[s] = << >>
  BY DEF SyncInit
<1>3. WaitersBlocked
  BY <1>2 DEF WaitersBlocked, IsInjective, ToSet
<1> QED
  BY <1>1, <1>3 DEF WaitInv

\* A step that wakes nobody, and moves no pc but that of the CPU's thread.
LEMMA WaitersKept ==
    ASSUME DataTypeOK, WaitersBlocked, CurRuns, UNCHANGED waiters,
           \A t \in Thread \ {cur} : pc'[t] = pc[t] /\ arg'[t] = arg[t],
           \A t \in Thread : status[t] = "TASK_BLOCKED" => status'[t] = "TASK_BLOCKED"
    PROVE  WaitersBlocked'
<1>1. \A s \in Sem : ToSet(waiters[s]) \subseteq Thread \ {cur}
  BY CurNotWaiting DEF DataTypeOK, ToSet
<1> QED
  BY <1>1 DEF WaitersBlocked

\* semaphore_up takes its thread off the only list it is in.
LEMMA UpKeepsWaiters ==
    ASSUME DataTypeOK, TypeOK, WaitersBlocked, CurRuns, NEW s \in Sem,
           semaphore_up(s),
           \A t \in Thread \ {cur} : pc'[t] = pc[t]
    PROVE  WaitersBlocked'
<1>0. \A z \in Sem : ToSet(waiters[z]) \subseteq Thread \ {cur}
  BY CurNotWaiting DEF DataTypeOK, ToSet
<1>1. CASE UNCHANGED << waiters, ready, status >>
  <2>1. UNCHANGED arg
    BY DEF semaphore_up
  <2> QED
    BY <1>1, <2>1, WaitersKept
<1>2. ASSUME NEW u \in ToSet(waiters[s]),
             waiters' = [waiters EXCEPT ![s] = list_rest(@)],
             ToSet(waiters[s]) = ToSet(list_rest(waiters[s])) \cup {u},
             IsInjective(list_rest(waiters[s])),
             u \notin ToSet(list_rest(waiters[s])),
             status' = [status EXCEPT ![u] = "TASK_READY"]
      PROVE  WaitersBlocked'
  <2>1. waiters \in [Sem -> Seq(Thread)] /\ status \in [Thread -> Status]
        /\ UNCHANGED arg
    BY DEF DataTypeOK, TypeOK, semaphore_up
  <2>2. ASSUME NEW z \in Sem
        PROVE  /\ IsInjective(waiters'[z])
               /\ \A t \in ToSet(waiters'[z]) : t \in ToSet(waiters[z]) /\ t # u
    <3>1. CASE z = s
      BY <1>2, <2>1, <3>1
    <3>2. CASE z # s
      BY <1>2, <2>1, <3>2 DEF WaitersBlocked
    <3> QED
      BY <3>1, <3>2
  <2>3. ASSUME NEW z \in Sem, NEW t \in ToSet(waiters'[z])
        PROVE  status'[t] = "TASK_BLOCKED" /\ pc'[t] = "down" /\ arg'[t] = z
    <3>1. t \in ToSet(waiters[z]) /\ t # u /\ t \in Thread \ {cur}
      BY <1>0, <2>2, <2>3
    <3> QED
      BY <1>2, <2>1, <3>1 DEF WaitersBlocked
  <2> QED
    BY <2>2, <2>3 DEF WaitersBlocked
<1> QED
  BY <1>1, <1>2, UpEffect

\* The thread that blocks is in no list before.
LEMMA BlockKeepsWaiters ==
    ASSUME main \notin MayBlock, WaitInv, NEW t \in Thread, down_block(t)
    PROVE  WaitersBlocked'
<1>0. DataTypeOK /\ WaitersBlocked /\ CurRuns /\ IdleInv
  BY DEF WaitInv, IdleInv
<1> DEFINE s == arg[t]
<1>1. /\ s \in Sem /\ waiters \in [Sem -> Seq(Thread)] /\ pc[t] = "down"
      /\ waiters' = [waiters EXCEPT ![s] = list_append(@, t)]
      /\ UNCHANGED << pc, arg >>
  BY <1>0 DEF down_block, At, DataTypeOK
<1>2. t = cur /\ status'[t] = "TASK_BLOCKED"
  BY <1>0, BlockEffect
<1>3. \A z \in Sem : t \notin ToSet(waiters[z]) /\ ToSet(waiters[z]) \subseteq Thread
  BY <1>0, <1>2, CurNotWaiting DEF DataTypeOK, ToSet
<1>4. \A u \in Thread : status[u] = "TASK_BLOCKED" => status'[u] = "TASK_BLOCKED"
  BY <1>0, <1>2, BlockedStays
<1>5. /\ ToSet(list_append(waiters[s], t)) = ToSet(waiters[s]) \cup {t}
      /\ IsInjective(list_append(waiters[s], t))
  <2>1. waiters[s] \in Seq(Thread) /\ IsInjective(waiters[s])
    BY <1>0, <1>1 DEF WaitersBlocked
  <2> QED
    BY <1>1, <1>3, <2>1, AppendElements
<1>6. ASSUME NEW z \in Sem
      PROVE  /\ IsInjective(waiters'[z])
             /\ \A u \in ToSet(waiters'[z]) :
                   u \in ToSet(waiters[z]) \/ (u = t /\ z = s)
  <2>1. CASE z = s
    BY <1>1, <1>5, <2>1
  <2>2. CASE z # s
    BY <1>0, <1>1, <2>2 DEF WaitersBlocked
  <2> QED
    BY <2>1, <2>2
<1> QED
  BY <1>0, <1>1, <1>2, <1>3, <1>4, <1>6 DEF WaitersBlocked

\* Steps that move the pc of the thread on the CPU and touch no status.
LEMMA CallKeepsWaiters ==
    ASSUME WaitInv, NEW t \in Thread,
           \/ \E l \in Lock : lock_acquire(t, l) \/ lock_release(t, l)
           \/ \E s \in Sem : down_enter(t, s)
           \/ down_take(t) \/ set_holder(t) \/ set_count(t)
           \/ clear_holder(t) \/ clear_count(t)
    PROVE  /\ WaitersBlocked' /\ t = cur /\ UNCHANGED << waiters, status >>
           /\ \A u \in Thread \ {cur} : pc'[u] = pc[u] /\ arg'[u] = arg[u]
<1>0. pc \in [Thread -> PC] /\ arg \in [Thread -> Sem]
  BY DEF WaitInv, DataTypeOK
<1>1. t = cur /\ UNCHANGED << waiters, status >>
  BY DEF lock_acquire, lock_release, down_enter, down_take, set_holder,
     set_count, clear_holder, clear_count, At, OnCpu, schedVars
<1>2. \A u \in Thread \ {cur} : pc'[u] = pc[u] /\ arg'[u] = arg[u]
  BY <1>0, <1>1 DEF lock_acquire, lock_release, down_enter, down_take, set_holder,
     set_count, clear_holder, clear_count, Goto
<1> QED
  BY <1>1, <1>2, WaitersKept DEF WaitInv, IdleInv

LEMMA WaitStep ==
    ASSUME main \notin MayBlock, WaitInv, [SyncNext]_vars PROVE WaitInv'
<1>0. /\ DataTypeOK /\ WaitersBlocked /\ IdleInv /\ SyncTypeOK /\ TypeOK /\ CurRuns
      /\ pc \in [Thread -> PC]
  BY DEF WaitInv, SyncTypeOK, IdleInv, SchedInv, DataTypeOK
<1>1. IdleInv' /\ DataTypeOK'
  BY <1>0, SyncStepSched, SyncStepData, StepIdle
<1>2. ASSUME NEW t \in Thread, down_block(t) PROVE WaitersBlocked'
  BY <1>2, BlockKeepsWaiters
<1>3. ASSUME Quiet, ~ \E t \in Thread : down_block(t) PROVE WaitersBlocked'
  <2>1. UNCHANGED << waiters, pc, arg >>
    BY <1>3 DEF Quiet, timer, boot, start_ready, return, start, syncVars
  <2>2. \A t \in Thread : status[t] = "TASK_BLOCKED" => status'[t] = "TASK_BLOCKED"
    BY <1>0, <1>3, BlockedStays DEF Quiet
  <2> QED
    BY <1>0, <2>1, <2>2, WaitersKept
<1>4. ASSUME NEW s \in Sem, event_up(s) PROVE WaitersBlocked'
  BY <1>0, <1>4, UpKeepsWaiters DEF event_up
<1>5. ASSUME NEW t \in Thread, release_up(t) PROVE WaitersBlocked'
  <2>1. /\ t = cur /\ pc' = [pc EXCEPT ![t] = "body"] /\ arg[t] \in Sem
        /\ semaphore_up(arg[t])
    BY <1>0, <1>5 DEF release_up, At, OnCpu, Goto, DataTypeOK
  <2> QED
    BY <1>0, <2>1, UpKeepsWaiters
<1>6. ASSUME NEW t \in Thread,
             \/ \E l \in Lock : lock_acquire(t, l) \/ lock_release(t, l)
             \/ \E s \in Sem : down_enter(t, s)
             \/ down_take(t) \/ set_holder(t) \/ set_count(t)
             \/ clear_holder(t) \/ clear_count(t)
      PROVE  WaitersBlocked'
  BY <1>6, CallKeepsWaiters
<1>7. ASSUME UNCHANGED vars PROVE WaitersBlocked'
  BY <1>0, <1>7, WaitersKept DEF vars, syncVars, schedVars
<1> QED
  BY <1>1, <1>2, <1>3, <1>4, <1>5, <1>6, <1>7, SyncCases DEF WaitInv

LEMMA WaitInvariant ==
    ASSUME main \notin MayBlock PROVE SyncSpec => []WaitInv
<1>1. WaitInv /\ [SyncNext]_vars => WaitInv'
  BY WaitStep
<1> QED
  BY <1>1, WaitInit, PTL DEF SyncSpec

\* general_tag is one pair of links: a thread is in the ready list or in one
\* list of waiters, once, and in the latter only while it is blocked there.
THEOREM TagsNotShared ==
    ASSUME main \notin MayBlock PROVE SyncSpec => []TagInOneList
<1>1. WaitInv => TagInOneList
  <2> SUFFICES ASSUME WaitInv PROVE TagInOneList
    OBVIOUS
  <2>1. IsInjective(ready) /\ OnlyReadyListed /\ WaitersBlocked
    BY DEF WaitInv, IdleInv, SchedInv, ReadyNotLost
  <2> QED
    BY <2>1 DEF TagInOneList, WaitersBlocked, OnlyReadyListed
<1> QED
  BY <1>1, WaitInvariant, PTL

\* The loop of semaphore_down does not turn while value is 0: a thread is back
\* in it only after semaphore_up has taken it off the list.
THEOREM DownNeverSpins ==
    ASSUME main \notin MayBlock PROVE SyncSpec => []NoBusyWait
<1>1. WaitInv => NoBusyWait
  <2> SUFFICES ASSUME WaitInv PROVE NoBusyWait
    OBVIOUS
  <2>1. \A s \in Sem : cur \notin ToSet(waiters[s])
    BY CurNotWaiting DEF WaitInv, IdleInv
  <2>2. \A t \in Thread : arg[t] \in Sem
    BY DEF WaitInv, DataTypeOK
  <2> QED
    BY <2>1, <2>2 DEF NoBusyWait, At, OnCpu
<1> QED
  BY <1>1, WaitInvariant, PTL


-----------------------------------------------------------------------------
(***************************************************************************)
(* The interrupt flag.  The flag of a thread that is switched out is in its *)
(* frame: the timer's handler and kernel_thread enable interrupts when      *)
(* switch_to returns, thread_block restores what it saved.  That the flag   *)
(* is clear in semaphore_down only needs what is to be restored there.      *)
(***************************************************************************)
FlagOf(t) ==
    /\ pc[t] = "down" => old[t] = "INTR_ON"
    /\ frame[t] \in {"fresh", "timer"} \/ status[t] = "free" => pc[t] # "down"
    /\ frame[t] = "block" => pc[t] = "down" /\ saved[t] = "INTR_OFF"
    /\ OnCpu(t) => (intr = "INTR_OFF" <=> pc[t] = "down")

FlagInv == \A t \in Thread \ {main} : FlagOf(t)

LEMMA FlagInit == SyncInit => FlagInv
BY ThreadAssumption DEF SyncInit, thread_init, FlagInv, FlagOf, OnCpu

\* A step that leaves alone what FlagOf reads of a thread that is not on the
\* CPU, before or after.
LEMMA FlagOthers ==
    ASSUME NEW t \in Thread, FlagOf(t), t # cur, t # cur',
           UNCHANGED << pc[t], old[t], frame[t], saved[t] >>,
           status'[t] = "free" => status[t] = "free"
    PROVE  FlagOf(t)'
BY DEF FlagOf, OnCpu

LEMMA FlagStep ==
    ASSUME main \notin MayBlock, WaitInv, FlagInv, [SyncNext]_vars PROVE FlagInv'
<1>0. /\ cur \in Thread /\ status \in [Thread -> Status] /\ status[cur] = "TASK_RUNNING"
      /\ frame \in [Thread -> Frame] /\ saved \in [Thread -> Intr]
      /\ pc \in [Thread -> PC] /\ arg \in [Thread -> Sem] /\ old \in [Thread -> Intr]
      /\ intr \in Intr /\ IdleInv /\ TypeOK /\ DataTypeOK /\ WaitersBlocked
      /\ ContextSaved
  BY DEF WaitInv, IdleInv, SchedInv, TypeOK, CurRuns, DataTypeOK
<1>1. CASE timer
  <2>1. CASE ticks[cur] # 0
    <3>1. UNCHANGED << cur, intr, status, frame, saved, pc, old >>
      BY <1>1, <2>1 DEF timer, intr_timer_handler, syncVars
    <3> QED
      BY <3>1 DEF FlagInv, FlagOf, OnCpu
  <2>2. CASE ticks[cur] = 0
    <3>1. /\ schedule(status, "timer") /\ UNCHANGED << saved, pc, old >>
          /\ intr' = "INTR_OFF"
          /\ OnCpu(cur) /\ intr = "INTR_ON"
      BY <1>1, <2>2 DEF timer, intr_timer_handler, syncVars, Interruptible
    <3>2. /\ cur' \in Thread /\ frame' = [frame EXCEPT ![cur] = "timer"]
          /\ status' = [AfterPreempt(status) EXCEPT ![cur'] = "TASK_RUNNING"]
          /\ cur' # cur => status[cur'] = "TASK_READY" /\ frame[cur'] # "none"
      BY <1>0, <3>1, ScheduleSwitch
    <3>3. status' = [status EXCEPT ![cur] = "TASK_READY", ![cur'] = "TASK_RUNNING"]
      BY <1>0, <3>2 DEF AfterPreempt
    <3>4. ASSUME NEW t \in Thread \ {main} PROVE FlagOf(t)'
      <4>1. FlagOf(t)
        BY DEF FlagInv
      <4>2. CASE t = cur
        BY <1>0, <3>1, <3>2, <3>3, <4>1, <4>2 DEF FlagOf, OnCpu, Intr
      <4>3. CASE t # cur /\ t = cur'
        BY <1>0, <3>1, <3>2, <3>3, <4>1, <4>3 DEF FlagOf, OnCpu
      <4>4. CASE t # cur /\ t # cur'
        BY <1>0, <3>1, <3>2, <3>3, <4>1, <4>4, FlagOthers
      <4> QED
        BY <4>2, <4>3, <4>4
    <3> QED
      BY <3>4 DEF FlagInv
  <2> QED
    BY <2>1, <2>2
<1>2. ASSUME NEW t \in Thread, down_block(t) PROVE FlagInv'
  <2>1. /\ t = cur /\ cur' # cur /\ cur' \in Thread
        /\ status'[t] = "TASK_BLOCKED" /\ frame' = [frame EXCEPT ![t] = "block"]
        /\ status[cur'] = "TASK_READY" /\ frame[cur'] # "none"
        /\ saved' = [saved EXCEPT ![t] = intr] /\ intr' = "INTR_OFF"
    BY <1>0, <1>2, BlockEffect
  <2>2. UNCHANGED << pc, old >> /\ pc[t] = "down" /\ OnCpu(t)
    BY <1>2 DEF down_block, At
  <2>3. \A u \in Thread : status'[u] = "free" => status[u] = "free"
    <3>1. schedule([status EXCEPT ![t] = "TASK_BLOCKED"], "block")
      BY <1>2 DEF down_block, thread_block
    <3> QED
      BY <1>0, <2>1, <3>1, BlockedAssumption DEF schedule, switch_next, Status
  <2>4. ASSUME NEW u \in Thread \ {main} PROVE FlagOf(u)'
    <3>1. FlagOf(u)
      BY DEF FlagInv
    <3>2. CASE u = t
      BY <1>0, <2>1, <2>2, <3>1, <3>2 DEF FlagOf, OnCpu
    <3>3. CASE u # t /\ u = cur'
      BY <1>0, <2>1, <2>2, <2>3, <3>1, <3>3 DEF FlagOf, OnCpu
    <3>4. CASE u # t /\ u # cur'
      BY <1>0, <2>1, <2>2, <2>3, <3>1, <3>4, FlagOthers
    <3> QED
      BY <3>2, <3>3, <3>4
  <2> QED
    BY <2>4 DEF FlagInv
<1>3. ASSUME NEW t \in Thread, boot(t) PROVE FlagInv'
  BY <1>0, <1>3 DEF boot, intr_enable, At, OnCpu, InBody, syncVars, FlagInv, FlagOf
<1>4. ASSUME NEW t \in Thread, start_ready(t) PROVE FlagInv'
  BY <1>0, <1>4 DEF start_ready, thread_start_ready, syncVars, FlagInv, FlagOf, OnCpu
<1>5. ASSUME NEW t \in Thread, NEW u \in Thread, start(t, u) PROVE FlagInv'
  <2>1. /\ cur = t /\ u # t /\ status[u] = "free"
        /\ frame' = [frame EXCEPT ![u] = "fresh"]
        /\ status' = [status EXCEPT ![u] = "TASK_READY"]
        /\ UNCHANGED << cur, intr, saved, pc, old >>
    BY <1>0, <1>5 DEF start, thread_start, InBody, OnCpu, syncVars
  <2> QED
    BY <1>0, <2>1 DEF FlagInv, FlagOf, OnCpu
<1>6. ASSUME NEW t \in Thread, return(t) PROVE FlagInv'
  <2>1. /\ cur = t /\ frame[t] # "none" /\ frame' = [frame EXCEPT ![t] = "none"]
        /\ intr' = IF frame[t] = "block" THEN saved[t] ELSE "INTR_ON"
        /\ UNCHANGED << cur, status, saved, pc, old >>
    BY <1>6 DEF return, switch_return, syncVars
  <2>2. ASSUME NEW u \in Thread \ {main} PROVE FlagOf(u)'
    <3>1. CASE u = t
      BY <1>0, <2>1, <3>1 DEF FlagInv, FlagOf, OnCpu, Frame
    <3>2. CASE u # t
      BY <1>0, <2>1, <3>2 DEF FlagInv, FlagOf, OnCpu
    <3> QED
      BY <3>1, <3>2
  <2> QED
    BY <2>2 DEF FlagInv
<1>7. ASSUME NEW s \in Sem, semaphore_up(s),
             \A t \in Thread : (pc[t] = "down") <=> (pc'[t] = "down")
      PROVE  FlagInv'
  <2>1. /\ UNCHANGED << cur, intr, frame, saved, old >>
        /\ \A t \in Thread : status'[t] = "free" => status[t] = "free"
    BY <1>0, <1>7, UpEffect
  <2> QED
    BY <1>7, <2>1 DEF FlagInv, FlagOf, OnCpu
<1>8. ASSUME NEW s \in Sem, event_up(s) PROVE FlagInv'
  BY <1>7, <1>8 DEF event_up
<1>9. ASSUME NEW t \in Thread, release_up(t) PROVE FlagInv'
  <2>1. pc[t] = "up" /\ pc' = [pc EXCEPT ![t] = "body"] /\ arg[t] \in Sem
        /\ semaphore_up(arg[t])
    BY <1>0, <1>9 DEF release_up, At, Goto
  <2> QED
    BY <1>0, <1>7, <2>1
<1>10. ASSUME NEW t \in Thread,
              \/ \E l \in Lock : lock_acquire(t, l) \/ lock_release(t, l)
              \/ set_holder(t) \/ set_count(t) \/ clear_holder(t) \/ clear_count(t)
       PROVE  FlagInv'
  <2>1. UNCHANGED << cur, intr, status, frame, saved, old >>
    BY <1>10 DEF lock_acquire, lock_release, set_holder, set_count, clear_holder,
       clear_count, schedVars
  <2>2. \A u \in Thread : (pc[u] = "down") <=> (pc'[u] = "down")
    BY <1>0, <1>10 DEF lock_acquire, lock_release, set_holder, set_count,
       clear_holder, clear_count, At, Goto
  <2> QED
    BY <2>1, <2>2 DEF FlagInv, FlagOf, OnCpu
<1>11. ASSUME NEW t \in Thread, NEW s \in Sem, down_enter(t, s) PROVE FlagInv'
  <2>1. /\ cur = t /\ frame[t] = "none" /\ pc[t] # "down"
        /\ intr' = "INTR_OFF" /\ old' = [old EXCEPT ![t] = intr]
        /\ pc' = [pc EXCEPT ![t] = "down"]
        /\ UNCHANGED << cur, status, frame, saved >>
    BY <1>11 DEF down_enter, At, OnCpu, Goto
  <2> QED
    BY <1>0, <2>1 DEF FlagInv, FlagOf, OnCpu, Intr
<1>12. ASSUME NEW t \in Thread, down_take(t) PROVE FlagInv'
  <2>1. /\ cur = t /\ frame[t] = "none" /\ pc[t] = "down" /\ intr' = old[t]
        /\ pc' = [pc EXCEPT ![t] = IF arg[t] \in Lock THEN "enter" ELSE "body"]
        /\ UNCHANGED << cur, status, frame, saved, old >>
    BY <1>12 DEF down_take, At, OnCpu, Goto
  <2> QED
    BY <1>0, <2>1 DEF FlagInv, FlagOf, OnCpu
<1>13. CASE UNCHANGED vars
  BY <1>13 DEF vars, syncVars, schedVars, FlagInv, FlagOf, OnCpu
<1> QED
  BY <1>1, <1>2, <1>3, <1>4, <1>5, <1>6, <1>8, <1>9, <1>10, <1>11, <1>12, <1>13,
     SyncCases DEF Quiet

\* Every intr_disable of sync.c and thread.c is undone, on every path and over
\* any switch in between: a started thread runs with interrupts disabled in the
\* loop of semaphore_down and nowhere else.
THEOREM FlagFollowsCode ==
    ASSUME main \notin MayBlock PROVE SyncSpec => []IntrDiscipline
<1>1. WaitInv /\ FlagInv => IntrDiscipline
  <2>1. WaitInv => cur \in Thread
    BY DEF WaitInv, IdleInv, SchedInv, TypeOK
  <2> QED
    BY <2>1 DEF FlagInv, FlagOf, IntrDiscipline
<1>2. WaitInv /\ FlagInv /\ [SyncNext]_vars => FlagInv'
  BY FlagStep
<1> QED
  BY <1>1, <1>2, FlagInit, WaitInvariant, PTL DEF SyncSpec


-----------------------------------------------------------------------------
(***************************************************************************)
(* Wake-ups.  A unit more of value is matched by a waiter that leaves the   *)
(* list, a unit less by the thread that takes it.                           *)
(***************************************************************************)
\* A thread more, or a thread less, that is awake.
LEMMA AwakeCount ==
    ASSUME IsFiniteSet(Thread), NEW A, A \subseteq Thread
    PROVE  /\ Cardinality(A) \in Nat
           /\ \A B \in SUBSET Thread : A \subseteq B => Cardinality(A) <= Cardinality(B)
           /\ \A t \in Thread \ A : Cardinality(A \cup {t}) = Cardinality(A) + 1
           /\ \A t \in A : Cardinality(A \ {t}) = Cardinality(A) - 1
<1>1. \A B \in SUBSET Thread : IsFiniteSet(B)
  BY FS_Subset
<1>2. \A B \in SUBSET Thread : A \subseteq B => Cardinality(A) <= Cardinality(B)
  BY <1>1, FS_Subset
<1> QED
  BY <1>1, <1>2, FS_CardinalityType, FS_AddElement, FS_RemoveElement

\* A step that wakes nobody, takes nothing and lets no new thread wait.
LEMMA WakeupKept ==
    ASSUME IsFiniteSet(Thread), NoLostWakeup, DataTypeOK, DataTypeOK',
           UNCHANGED << value, waiters >>,
           \A s \in Sem : Awake(s) \subseteq Awake(s)'
    PROVE  NoLostWakeup'
<1> SUFFICES ASSUME NEW s \in Sem, waiters[s] # << >>
             PROVE  value[s] <= Cardinality(Awake(s)')
  BY DEF NoLostWakeup
<1>1. Awake(s) \in SUBSET Thread /\ Awake(s)' \in SUBSET Thread
  BY DEF Awake
<1>2. value[s] <= Cardinality(Awake(s)) /\ value[s] \in Nat
  BY DEF NoLostWakeup, DataTypeOK
<1>3. /\ Cardinality(Awake(s)) \in Nat /\ Cardinality(Awake(s)') \in Nat
      /\ Cardinality(Awake(s)) <= Cardinality(Awake(s)')
  BY <1>1, AwakeCount
<1> QED
  BY <1>2, <1>3

LEMMA WakeupStep ==
    ASSUME main \notin MayBlock, IsFiniteSet(Thread), WaitInv, NoLostWakeup,
           [SyncNext]_vars
    PROVE  NoLostWakeup'
<1>0. /\ cur \in Thread /\ IdleInv /\ TypeOK /\ DataTypeOK /\ DataTypeOK'
      /\ WaitersBlocked /\ \A s \in Sem : cur \notin ToSet(waiters[s])
      /\ pc \in [Thread -> PC] /\ arg \in [Thread -> Sem]
      /\ value \in [Sem -> Nat] /\ waiters \in [Sem -> Seq(Thread)]
  BY CurNotWaiting, WaitStep DEF WaitInv, IdleInv, SchedInv, TypeOK, DataTypeOK
<1>1. ASSUME UNCHANGED << value, waiters >>,
             \A t \in Thread : pc[t] = "down" => pc'[t] = "down" /\ arg'[t] = arg[t]
      PROVE  NoLostWakeup'
  BY <1>0, <1>1, WakeupKept DEF Awake
<1>2. ASSUME NEW t \in Thread, down_block(t) PROVE NoLostWakeup'
  <2>1. /\ t = cur /\ pc[t] = "down" /\ value[arg[t]] = 0
        /\ waiters' = [waiters EXCEPT ![arg[t]] = list_append(@, t)]
        /\ UNCHANGED << value, pc, arg >>
    BY <1>2 DEF down_block, At, OnCpu
  <2>2. SUFFICES ASSUME NEW s \in Sem, waiters'[s] # << >>
                 PROVE  value'[s] <= Cardinality(Awake(s)')
    BY DEF NoLostWakeup
  <2>3. CASE s = arg[t]
    <3>1. Awake(s)' \subseteq Thread
      BY DEF Awake
    <3> QED
      BY <2>1, <2>3, <3>1, AwakeCount
  <2>4. CASE s # arg[t]
    <3>1. waiters'[s] = waiters[s] /\ Awake(s)' = Awake(s)
      BY <1>0, <2>1, <2>4 DEF Awake
    <3> QED
      BY <2>1, <2>2, <3>1 DEF NoLostWakeup
  <2> QED
    BY <2>3, <2>4
<1>3. ASSUME NEW z \in Sem, semaphore_up(z),
             \A t \in Thread : (pc[t] = "down") <=> (pc'[t] = "down")
      PROVE  NoLostWakeup'
  <2>1. value' = [value EXCEPT ![z] = @ + 1] /\ UNCHANGED arg
    BY <1>0, <1>3, UpEffect
  <2>2. SUFFICES ASSUME NEW s \in Sem, waiters'[s] # << >>
                 PROVE  value'[s] <= Cardinality(Awake(s)')
    BY DEF NoLostWakeup
  <2>3. CASE waiters'[s] = waiters[s] /\ s # z
    <3>1. Awake(s)' = Awake(s)
      BY <1>3, <2>1, <2>3 DEF Awake
    <3> QED
      BY <1>0, <2>1, <2>2, <2>3, <3>1 DEF NoLostWakeup
  <2>4. ASSUME NEW u \in ToSet(waiters[z]), u \in Thread, s = z,
               waiters' = [waiters EXCEPT ![z] = list_rest(@)],
               ToSet(waiters[z]) = ToSet(list_rest(waiters[z])) \cup {u},
               u \notin ToSet(list_rest(waiters[z]))
        PROVE  value'[s] <= Cardinality(Awake(s)')
    <3>1. pc[u] = "down" /\ arg[u] = z
      BY <1>0, <2>4 DEF WaitersBlocked
    <3>2. Awake(s)' = Awake(s) \cup {u} /\ u \notin Awake(s)
      BY <1>0, <1>3, <2>1, <2>4, <3>1 DEF Awake
    <3>3. waiters[s] # << >>
      BY <2>4 DEF ToSet
    <3>4. value[s] <= Cardinality(Awake(s)) /\ Awake(s) \subseteq Thread
      BY <3>3 DEF NoLostWakeup, Awake
    <3>5. Cardinality(Awake(s)') = Cardinality(Awake(s)) + 1
          /\ Cardinality(Awake(s)) \in Nat
      BY <2>4, <3>2, <3>4, AwakeCount
    <3> QED
      BY <1>0, <2>1, <2>4, <3>4, <3>5
  <2>5. CASE waiters[z] = << >> /\ UNCHANGED waiters
    BY <2>2, <2>3, <2>5
  <2>6. CASE s # z
    <3>1. waiters'[s] = waiters[s]
      BY <1>0, <1>3, <2>6, UpEffect
    <3> QED
      BY <2>3, <2>6, <3>1
  <2> QED
    BY <1>0, <1>3, <2>4, <2>5, <2>6, UpEffect
<1>4. ASSUME NEW t \in Thread, down_take(t) PROVE NoLostWakeup'
  <2> DEFINE z == arg[t]
  <2>1. /\ z \in Sem /\ t = cur /\ pc[t] = "down" /\ value[z] # 0
        /\ value' = [value EXCEPT ![z] = @ - 1]
        /\ pc' = [pc EXCEPT ![t] = IF z \in Lock THEN "enter" ELSE "body"]
        /\ UNCHANGED << waiters, arg >>
    BY <1>0, <1>4 DEF down_take, At, OnCpu, Goto
  <2>2. SUFFICES ASSUME NEW s \in Sem, waiters[s] # << >>
                 PROVE  value'[s] <= Cardinality(Awake(s)')
    BY <2>1 DEF NoLostWakeup
  <2>3. value[s] <= Cardinality(Awake(s)) /\ Awake(s) \subseteq Thread
    BY <2>2 DEF NoLostWakeup, Awake
  <2>4. CASE s = z
    <3>1. t \in Awake(s) /\ Awake(s)' = Awake(s) \ {t}
      BY <1>0, <2>1, <2>4 DEF Awake
    <3>2. /\ Cardinality(Awake(s)') = Cardinality(Awake(s)) - 1
          /\ Cardinality(Awake(s)) \in Nat
      BY <2>3, <3>1, AwakeCount
    <3> QED
      BY <1>0, <2>1, <2>3, <2>4, <3>2
  <2>5. CASE s # z
    <3>1. Awake(s)' = Awake(s)
      BY <1>0, <2>1, <2>5 DEF Awake
    <3> QED
      BY <1>0, <2>1, <2>3, <2>5, <3>1
  <2> QED
    BY <2>4, <2>5
<1>5. CASE Quiet /\ ~ \E t \in Thread : down_block(t)
  <2>1. UNCHANGED << value, waiters, pc, arg >>
    BY <1>5 DEF Quiet, timer, boot, start_ready, return, start, syncVars
  <2> QED
    BY <1>1, <2>1
<1>6. ASSUME NEW s \in Sem, event_up(s) PROVE NoLostWakeup'
  BY <1>3, <1>6 DEF event_up
<1>7. ASSUME NEW t \in Thread, release_up(t) PROVE NoLostWakeup'
  <2>1. pc[t] = "up" /\ pc' = [pc EXCEPT ![t] = "body"] /\ arg[t] \in Sem
        /\ semaphore_up(arg[t])
    BY <1>0, <1>7 DEF release_up, At, Goto
  <2> QED
    BY <1>0, <1>3, <2>1
<1>8. ASSUME NEW t \in Thread,
             \/ \E l \in Lock : lock_acquire(t, l) \/ lock_release(t, l)
             \/ \E s \in Sem : down_enter(t, s)
             \/ set_holder(t) \/ set_count(t) \/ clear_holder(t) \/ clear_count(t)
      PROVE  NoLostWakeup'
  <2>1. UNCHANGED << value, waiters >>
    BY <1>8 DEF lock_acquire, lock_release, down_enter, set_holder, set_count,
       clear_holder, clear_count
  <2>2. \A u \in Thread : pc[u] = "down" => pc'[u] = "down" /\ arg'[u] = arg[u]
    BY <1>0, <1>8 DEF lock_acquire, lock_release, down_enter, set_holder,
       set_count, clear_holder, clear_count, At, Goto
  <2> QED
    BY <1>1, <2>1, <2>2
<1>9. CASE UNCHANGED vars
  BY <1>1, <1>9 DEF vars, syncVars
<1> QED
  BY <1>2, <1>4, <1>5, <1>6, <1>7, <1>8, <1>9, SyncCases

\* No wake-up is lost in the lists of waiters: while a thread waits, every unit
\* of value is about to be fetched by a thread that is awake, although the test
\* of value and the wake-up are not one step and any thread can take the unit.
THEOREM WakeupsKept ==
    ASSUME main \notin MayBlock, IsFiniteSet(Thread)
    PROVE  SyncSpec => []NoLostWakeup
<1>1. SyncInit => NoLostWakeup
  BY DEF SyncInit, NoLostWakeup
<1>2. WaitInv /\ NoLostWakeup /\ [SyncNext]_vars => NoLostWakeup'
  BY WakeupStep
<1> QED
  BY <1>1, <1>2, WaitInvariant, PTL DEF SyncSpec

=============================================================================
