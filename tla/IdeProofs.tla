----------------------------- MODULE IdeProofs -----------------------------
(***************************************************************************)
(* Proofs about Ide, for any threads, calls, sizes of disk and of command, *)
(* as long as a disk rejects no write (a rejected write leaves its         *)
(* interrupt to the next user of the channel).                             *)
(***************************************************************************)
EXTENDS Ide, TLAPS

\* The channel when no command is being executed, or data moved.
Quiet == phase = "idle" /\ port = << >> /\ ~ intrq /\ disk_done = 0

\* The four stages of the wake-up of a command: the flag is set, the interrupt
\* is pending, the semaphore has been raised, the wake-up has been taken.
Asked  == expecting /\ ~ intrq /\ disk_done = 0
Raised == expecting /\ intrq /\ disk_done = 0
Woken  == ~ expecting /\ ~ intrq /\ disk_done = 1
Taken  == ~ expecting /\ ~ intrq /\ disk_done = 0

\* What the registers hold for t's next command.
Command(t) == [disk |-> call[t].disk, lba |-> call[t].lba + done[t],
               cnt |-> secs_op(t) % MaxOp]

\* The disk's sectors of the command of t, and those in its buffer.
OnDisk(t) == [i \in 0 .. secs_op(t) - 1 |->
                media[call[t].disk][call[t].lba + done[t] + i]]
InBuf(t)  == [i \in 0 .. secs_op(t) - 1 |-> buf[t][done[t] + i]]

\* The sectors that are done, and those of the command, are the disk's.
Agree(t) ==
    \A i \in 0 .. done[t] - 1 :
        buf[t][i] = media[call[t].disk][call[t].lba + i]
AllAgree(t) ==
    \A i \in 0 .. done[t] + secs_op(t) - 1 :
        buf[t][i] = media[call[t].disk][call[t].lba + i]

Between == {"select", "sector", "expect", "release"}
Running == {"down", "busy", "transfer"}

\* The data of a read wait in the controller, or it was rejected.
Offered(t) ==
    \/ phase = "offer" /\ port = OnDisk(t)
    \/ phase = "idle" /\ port = << >>

ReadGood(t) ==
    /\ pc[t] = "down" =>
          \/ Asked /\ phase = "fetch" /\ port = << >>
          \/ (Raised \/ Woken) /\ Offered(t)
    /\ pc[t] = "busy" => Taken /\ Offered(t)
    /\ pc[t] = "transfer" => Taken /\ phase = "offer" /\ port = OnDisk(t)

WriteGood(t) ==
    /\ pc[t] = "busy" => Asked /\ phase \in {"prepare", "accept"} /\ port = << >>
    /\ pc[t] = "transfer" => Asked /\ phase = "accept" /\ port = << >>
    /\ pc[t] = "down" =>
          \/ Asked /\ phase = "store" /\ port = InBuf(t)
          \/ /\ Raised \/ Woken
             /\ phase = "idle" /\ port = << >>
             /\ AllAgree(t)

\* What is true of the channel for the thread that has it.
Good(t) ==
    /\ pc[t] \notin {"idle", "lock"}
    /\ pc[t] \in Between => Quiet /\ ~ expecting
    /\ pc[t] = "command" => Quiet /\ expecting
    /\ pc[t] # "release" => done[t] < call[t].cnt
    /\ done[t] <= call[t].cnt
    /\ pc[t] \in {"expect", "command"} => regs = Command(t)
    /\ pc[t] \in Running => doing = Command(t)
    /\ call[t].kind = "read" => ReadGood(t)
    /\ call[t].kind = "write" => WriteGood(t)
    /\ Agree(t)

Free == Quiet /\ ~ expecting

IdeInv ==
    /\ IdeTypeOK
    /\ \A t \in Thread : pc[t] \in {"idle", "lock"} => done[t] = 0
    /\ \A t \in Thread : Holds(t) <=> pc[t] \notin {"idle", "lock"}
    /\ \A t, u \in Thread : Holds(t) /\ Holds(u) => t = u
    /\ \A t \in Thread : Holds(t) => Good(t)
    /\ (\A t \in Thread : ~ Holds(t)) => Free

-----------------------------------------------------------------------------
LEMMA ModSmall ==
    ASSUME NEW m \in Nat, m > 0, NEW s \in Nat, s < m
    PROVE  s % m = s /\ m % m = 0
BY Z3T(20)

\* A count of sectors survives as an unsigned char, 256 as 0.
LEMMA SectorsOf ==
    ASSUME NEW s \in 1 .. MaxOp
    PROVE  s % MaxOp \in 0 .. MaxOp - 1 /\ Sectors(s % MaxOp) = s
<1>1. MaxOp \in Nat /\ MaxOp > 0 BY LbaAssumption
<1>2. CASE s = MaxOp
  <2>1. s % MaxOp = 0 BY <1>1, <1>2, ModSmall
  <2> QED BY <1>1, <1>2, <2>1 DEF Sectors
<1>3. CASE s # MaxOp
  <2>1. s \in Nat /\ s < MaxOp BY <1>1, <1>3
  <2>2. s % MaxOp = s BY <1>1, <2>1, ModSmall
  <2> QED BY <1>1, <2>1, <2>2 DEF Sectors
<1> QED BY <1>2, <1>3

\* A command stays inside its call and on the disk.
LEMMA OpInside ==
    ASSUME NEW t \in Thread, call[t] \in Request, done[t] \in Nat,
           done[t] < call[t].cnt
    PROVE  /\ secs_op(t) \in 1 .. MaxOp
           /\ done[t] + secs_op(t) <= call[t].cnt
           /\ call[t].lba + done[t] + secs_op(t) - 1 <= MaxLba
           /\ call[t].lba \in Nat /\ call[t].cnt \in Nat
           /\ call[t].disk \in Disk /\ call[t].kind \in {"read", "write"}
BY LbaAssumption, RequestAssumption DEF secs_op

LEMMA ZeroNotAbove == ~ (0 > 0)
OBVIOUS

LEMMA InitGood == ide_init => IdeInv
<1> SUFFICES ASSUME ide_init PROVE IdeInv
  OBVIOUS
<1>1. depth = [l \in {"channel"} |-> [t \in Thread |-> 0]]
  BY DEF ide_init, Mtx!MutexInit
<1>2. depth \in [{"channel"} -> [Thread -> {0, 1}]]
  <2>1. [t \in Thread |-> 0] \in [Thread -> {0, 1}] OBVIOUS
  <2> QED BY <1>1, <2>1
<1>3. \A t \in Thread : depth["channel"][t] = 0
  BY <1>1
<1>4. regs \in [disk : Disk, lba : 0 .. MaxLba, cnt : 0 .. MaxOp - 1]
  <2>1. 0 \in 0 .. MaxLba /\ 0 \in 0 .. MaxOp - 1 BY LbaAssumption
  <2> QED BY <2>1 DEF ide_init
<1>5. IdeTypeOK
  <2>1. /\ pc = [t \in Thread |-> "idle"] /\ call = [t \in Thread |-> NoCall]
        /\ done = [t \in Thread |-> 0] /\ DOMAIN buf = Thread
        /\ expecting = FALSE /\ intrq = FALSE /\ disk_done = 0
        /\ media \in [Disk -> [0 .. MaxLba -> Data]]
    BY DEF ide_init
  <2> QED BY <1>2, <1>4, <2>1 DEF IdeTypeOK, PC
<1>6. ASSUME NEW t \in Thread PROVE ~ Holds(t)
  <2>1. depth["channel"][t] = 0 BY <1>3
  <2> QED BY <2>1, ZeroNotAbove, Zenon DEF Holds
<1> QED BY <1>5, <1>6 DEF IdeInv, Free, Quiet, ide_init

LEMMA CallKeeps ==
    ASSUME IdeInv, NEW u \in Thread, NEW r \in Request, ide_call(u, r)
    PROVE  IdeInv'
<1> USE LbaAssumption, RequestAssumption, NoCallAssumption
<1> USE DEF ide_call, chanVars, hardVars, At, Goto
<1>1. IdeTypeOK'
  BY DEF IdeInv, IdeTypeOK, PC
<1>2. \A t \in Thread : Holds(t)' <=> Holds(t)
  BY DEF Holds
<1>3. ~ Holds(u)
  BY DEF IdeInv
<1>4. ASSUME NEW t \in Thread, Holds(t) PROVE Good(t)'
  <2>1. t # u BY <1>3, <1>4
  <2>2. /\ pc'[t] = pc[t] /\ call'[t] = call[t] /\ buf'[t] = buf[t]
        /\ done'[t] = done[t]
    BY <2>1 DEF IdeInv, IdeTypeOK
  <2>3. Good(t) BY <1>4 DEF IdeInv
  <2> QED BY <2>2, <2>3 DEF Good, Quiet, Command, ReadGood, WriteGood, Agree, AllAgree, Offered,
         OnDisk, InBuf, Asked, Raised, Woken, Taken, secs_op
<1>5. \A t \in Thread : pc'[t] \in {"idle", "lock"} => done'[t] = 0
  BY DEF IdeInv, IdeTypeOK
<1>6. \A t \in Thread : Holds(t)' <=> pc'[t] \notin {"idle", "lock"}
  BY <1>2 DEF IdeInv, IdeTypeOK
<1>7. Free' <=> Free
  BY DEF Free, Quiet
<1> QED BY <1>1, <1>2, <1>4, <1>5, <1>6, <1>7 DEF IdeInv

\* The steps of t and of the channel leave other threads alone; t is the one
\* that has the channel.
LEMMA Step ==
    ASSUME IdeInv, NEW t \in Thread, Holds(t),
           IdeTypeOK', depth' = depth, Good(t)',
           \A u \in Thread \ {t} : pc'[u] = pc[u] /\ done'[u] = done[u]
    PROVE  IdeInv'
<1>1. \A u \in Thread : Holds(u)' <=> u = t
  BY DEF IdeInv, Holds
<1>2. \A u \in Thread : pc'[u] \in {"idle", "lock"} <=> u # t
  BY <1>1 DEF IdeInv, Good
<1>3. \A u \in Thread : pc'[u] \in {"idle", "lock"} => done'[u] = 0
  BY <1>2 DEF IdeInv
<1> QED BY <1>1, <1>2, <1>3 DEF IdeInv

LEMMA SelectKeeps ==
    ASSUME IdeInv, NEW t \in Thread, select_disk(t) \/ select_sector(t) \/ expect(t) \/ cmd_out(t)
    PROVE  IdeInv'
<1> USE LbaAssumption, RequestAssumption, NoCallAssumption
<1>1. Holds(t) /\ Good(t) /\ call[t] \in Request /\ done[t] \in Nat
      /\ done[t] < call[t].cnt
  BY DEF IdeInv, IdeTypeOK, select_disk, select_sector, expect, cmd_out, At, Good
<1>2. /\ secs_op(t) % MaxOp \in 0 .. MaxOp - 1
      /\ call[t].lba + done[t] <= MaxLba
      /\ call[t].lba + done[t] \in 0 .. MaxLba
      /\ call[t].disk \in Disk
      /\ call[t].kind \in {"read", "write"}
  BY <1>1, OpInside, SectorsOf
<1>3. CASE select_disk(t)
  <2> USE <1>3 DEF select_disk, chanVars, At, Goto
  <2>1. IdeTypeOK' BY <1>1, <1>2 DEF IdeInv, IdeTypeOK, PC
  <2>2. pc'[t] = "sector" /\ pc[t] = "select" BY DEF IdeInv, IdeTypeOK
  <2>3. Good(t)' BY <1>1, <2>2 DEF Good, Quiet, ReadGood, WriteGood, Agree, Between, Running
  <2> QED BY <1>1, <2>1, <2>3, Step DEF IdeInv, IdeTypeOK
<1>4. CASE select_sector(t)
  <2> USE <1>4 DEF select_sector, chanVars, At, Goto
  <2>1. regs' = Command(t) BY <1>2 DEF Command
  <2>2. IdeTypeOK' BY <1>1, <1>2, <2>1 DEF IdeInv, IdeTypeOK, PC, Command
  <2>3. pc'[t] = "expect" /\ pc[t] = "sector" BY DEF IdeInv, IdeTypeOK
  <2>4. Command(t)' = Command(t) BY DEF Command, secs_op
  <2>5. Good(t)'
    BY <1>1, <2>1, <2>3, <2>4 DEF Good, Quiet, ReadGood, WriteGood, Agree, Between, Running
  <2> QED BY <1>1, <2>2, <2>5, Step DEF IdeInv, IdeTypeOK
<1>5. CASE expect(t)
  <2> USE <1>5 DEF expect, chanVars, hardVars, At, Goto
  <2>1. IdeTypeOK' BY <1>1 DEF IdeInv, IdeTypeOK, PC
  <2>2. pc'[t] = "command" /\ pc[t] = "expect" BY DEF IdeInv, IdeTypeOK
  <2>3. Command(t)' = Command(t) BY DEF Command, secs_op
  <2>4. Good(t)'
    BY <1>1, <2>2, <2>3 DEF Good, Quiet, ReadGood, WriteGood, Agree, Between, Running
  <2> QED BY <1>1, <2>1, <2>4, Step DEF IdeInv, IdeTypeOK
<1>6. CASE cmd_out(t)
  <2> USE <1>6 DEF cmd_out, chanVars, At, Goto
  <2>1. IdeTypeOK' BY <1>1 DEF IdeInv, IdeTypeOK, PC
  <2>2. pc[t] = "command" /\ pc'[t] = IF call[t].kind = "read" THEN "down" ELSE "busy"
    BY DEF IdeInv, IdeTypeOK
  <2>3. Command(t)' = Command(t) BY DEF Command, secs_op
  <2>4. Good(t)'
    BY <1>1, <1>2, <2>2, <2>3
    DEF Good, Quiet, ReadGood, WriteGood, Agree, Asked, Between, Running
  <2> QED BY <1>1, <2>1, <2>4, Step DEF IdeInv, IdeTypeOK
<1> QED BY <1>3, <1>4, <1>5, <1>6

LEMMA LockKeeps ==
    ASSUME IdeInv, NEW t \in Thread, lock_acquire(t) \/ lock_release(t)
    PROVE  IdeInv'
<1> USE LbaAssumption, RequestAssumption, NoCallAssumption
<1>1. CASE lock_acquire(t)
  <2> USE <1>1 DEF lock_acquire, Mtx!Acquire, hardVars, At, Goto
  <2>1. \A u \in Thread : ~ Holds(u)
    <3>1. \A u \in Thread \ {t} : depth["channel"][u] = 0 OBVIOUS
    <3>2. ~ Holds(t) BY DEF IdeInv
    <3>3. ASSUME NEW u \in Thread, u # t PROVE ~ Holds(u)
      BY <3>1, <3>3 DEF Holds
    <3> QED BY <3>2, <3>3
  <2>2. Free BY <2>1 DEF IdeInv
  <2>3. depth["channel"][t] = 0
    BY <2>1 DEF Holds, IdeInv, IdeTypeOK
  <2>4. \A u \in Thread : depth'["channel"][u] =
                            IF u = t THEN 1 ELSE depth["channel"][u]
    BY <2>3 DEF IdeInv, IdeTypeOK
  <2>5. IdeTypeOK'
    <3>1. depth' \in [{"channel"} -> [Thread -> {0, 1}]]
      BY <2>3 DEF IdeInv, IdeTypeOK
    <3> QED BY <3>1 DEF IdeInv, IdeTypeOK, PC
  <2>6. \A u \in Thread : Holds(u)' <=> u = t
    BY <2>1, <2>4 DEF Holds
  <2>7. pc'[t] = "select" /\ done'[t] = 0 /\ call'[t] = call[t] /\ call[t] \in Request
    BY DEF IdeInv, IdeTypeOK
  <2>8. Free'
    BY <2>2 DEF Free, Quiet
  <2>9. Good(t)'
    BY <2>7, <2>8 DEF Good, ReadGood, WriteGood, Agree, Free, Quiet, Between, Running
  <2>10. \A u \in Thread : pc'[u] = IF u = t THEN "select" ELSE pc[u]
    BY DEF IdeInv, IdeTypeOK
  <2> QED BY <2>1, <2>5, <2>6, <2>7, <2>9, <2>10 DEF IdeInv
<1>2. CASE lock_release(t)
  <2> USE <1>2 DEF lock_release, Mtx!Release, hardVars, At, Goto
  <2>1. Holds(t) /\ Good(t) /\ \A u \in Thread \ {t} : ~ Holds(u)
    BY DEF IdeInv
  <2>2. depth["channel"][t] = 1
    BY DEF IdeInv, IdeTypeOK
  <2>3. \A u \in Thread : depth'["channel"][u] =
                            IF u = t THEN 0 ELSE depth["channel"][u]
    BY <2>2 DEF IdeInv, IdeTypeOK
  <2>4. IdeTypeOK'
    <3>1. depth' \in [{"channel"} -> [Thread -> {0, 1}]]
      BY <2>2 DEF IdeInv, IdeTypeOK
    <3> QED BY <3>1 DEF IdeInv, IdeTypeOK, PC
  <2>5. ASSUME NEW u \in Thread PROVE ~ Holds(u)'
    BY <2>1, <2>3, Zenon, ZeroNotAbove DEF Holds
  <2>6. Free'
    BY <2>1 DEF Good, Between, Free, Quiet
  <2>7. \A u \in Thread : /\ pc'[u] = IF u = t THEN "idle" ELSE pc[u]
                          /\ done'[u] = IF u = t THEN 0 ELSE done[u]
    BY DEF IdeInv, IdeTypeOK
  <2> QED BY <2>1, <2>4, <2>5, <2>6, <2>7 DEF IdeInv
<1> QED BY <1>1, <1>2

LEMMA WaitKeeps ==
    ASSUME IdeInv, NEW t \in Thread, semaphore_down(t) \/ busy_wait(t)
    PROVE  IdeInv'
<1> USE LbaAssumption, RequestAssumption, NoCallAssumption
<1>1. Holds(t) /\ Good(t) /\ call[t] \in Request /\ done[t] \in Nat
      /\ done[t] < call[t].cnt
  BY DEF IdeInv, IdeTypeOK, semaphore_down, busy_wait, At, Good
<1>2. /\ secs_op(t) \in 1 .. MaxOp
      /\ done[t] + secs_op(t) <= call[t].cnt
      /\ call[t].cnt \in Nat /\ call[t].kind \in {"read", "write"}
      /\ MaxOp \in Nat
  BY <1>1, OpInside
<1>3. CASE semaphore_down(t) /\ call[t].kind = "read"
  <2> USE <1>3 DEF semaphore_down, chanVars, hardVars, At, Goto
  <2>1. pc[t] = "down" /\ pc'[t] = "busy" BY DEF IdeInv, IdeTypeOK
  <2>2. Woken /\ Offered(t)
    BY <1>1, <2>1 DEF Good, ReadGood, Asked, Raised
  <2>3. IdeTypeOK' BY <2>2 DEF Woken, IdeInv, IdeTypeOK, PC
  <2>4. /\ Command(t)' = Command(t) /\ OnDisk(t)' = OnDisk(t)
        /\ Taken' /\ Offered(t)'
    BY <2>2 DEF Command, OnDisk, secs_op, Taken, Woken, Offered
  <2>5. Good(t)'
    BY <1>1, <2>1, <2>4 DEF Good, ReadGood, Agree, Between, Running
  <2> QED BY <1>1, <2>3, <2>5, Step DEF IdeInv, IdeTypeOK
<1>4. CASE semaphore_down(t) /\ call[t].kind = "write"
  <2> USE <1>4 DEF semaphore_down, advance, hardVars, At, Goto
  <2>1. /\ pc[t] = "down"
        /\ pc'[t] = IF done[t] + secs_op(t) < call[t].cnt THEN "sector" ELSE "release"
        /\ done'[t] = done[t] + secs_op(t)
    BY DEF IdeInv, IdeTypeOK
  <2>2. Woken /\ phase = "idle" /\ port = << >> /\ AllAgree(t)
    BY <1>1, <2>1 DEF Good, WriteGood, Asked, Raised
  <2>3. IdeTypeOK'
    <3>1. done[t] + secs_op(t) \in Nat BY <1>1, <1>2
    <3>2. done' \in [Thread -> Nat] BY <3>1 DEF IdeInv, IdeTypeOK
    <3>3. /\ pc' \in [Thread -> PC] /\ pc[t] # "idle" /\ pc'[t] # "idle"
          /\ \A u \in Thread \ {t} : pc'[u] = pc[u]
      BY <2>1 DEF IdeInv, IdeTypeOK, PC
    <3>4. disk_done' = 0 BY <2>2 DEF Woken
    <3>5. UNCHANGED << expecting, intrq, depth, call, buf, regs, media >>
      OBVIOUS
    <3> QED BY <3>2, <3>3, <3>4, <3>5 DEF IdeInv, IdeTypeOK
  <2>4. Quiet' /\ ~ expecting' /\ Agree(t)'
    <3>1. Quiet' /\ ~ expecting' BY <2>2 DEF Quiet, Woken
    <3>2. media' = media /\ call' = call /\ buf' = buf OBVIOUS
    <3> HIDE <1>4
    <3>3. done'[t] - 1 = done[t] + secs_op(t) - 1 BY <1>1, <1>2, <2>1
    <3>4. \A i \in 0 .. done[t] + secs_op(t) - 1 :
              buf[t][i] = media[call[t].disk][call[t].lba + i]
      BY <2>2 DEF AllAgree
    <3>5. \A i \in 0 .. done'[t] - 1 :
              buf[t][i] = media[call[t].disk][call[t].lba + i]
      BY <3>3, <3>4, Zenon
    <3> QED BY <3>1, <3>2, <3>5, Zenon DEF Agree
  <2>5. Good(t)'
    BY <1>1, <1>2, <2>1, <2>4 DEF Good, WriteGood, Between, Running
  <2> QED BY <1>1, <2>3, <2>5, Step DEF IdeInv, IdeTypeOK
<1>5. CASE busy_wait(t)
  <2> USE <1>5 DEF busy_wait, chanVars, hardVars, At, Goto, BSY, DRQ
  <2>1. /\ pc[t] = "busy"
        /\ pc'[t] = IF phase \in {"offer", "accept"} THEN "transfer" ELSE "release"
    BY DEF IdeInv, IdeTypeOK
  <2>2. IdeTypeOK' BY DEF IdeInv, IdeTypeOK, PC
  <2>3. /\ Command(t)' = Command(t) /\ OnDisk(t)' = OnDisk(t)
        /\ (Agree(t) => Agree(t)')
    BY DEF Command, OnDisk, secs_op, Agree
  <2>4. CASE call[t].kind = "read"
    <3>1. Taken /\ Offered(t) BY <1>1, <2>1, <2>4 DEF Good, ReadGood
    <3>2. Good(t)'
      BY <1>1, <2>1, <2>3, <2>4, <3>1
      DEF Good, ReadGood, Taken, Offered, Quiet, Between, Running
    <3> QED BY <1>1, <2>2, <3>2, Step DEF IdeInv, IdeTypeOK
  <2>5. CASE call[t].kind = "write"
    <3>1. Asked /\ phase \in {"prepare", "accept"} /\ port = << >>
      BY <1>1, <2>1, <2>5 DEF Good, WriteGood
    <3>2. Good(t)'
      BY <1>1, <2>1, <2>3, <2>5, <3>1
      DEF Good, WriteGood, Asked, Between, Running
    <3> QED BY <1>1, <2>2, <3>2, Step DEF IdeInv, IdeTypeOK
  <2> QED BY <1>2, <2>4, <2>5
<1> QED BY <1>2, <1>3, <1>4, <1>5

LEMMA TransferKeeps ==
    ASSUME IdeInv, NEW t \in Thread, read_from_sector(t) \/ write_to_sector(t)
    PROVE  IdeInv'
<1> USE LbaAssumption, RequestAssumption, NoCallAssumption
<1>1. Holds(t) /\ Good(t) /\ call[t] \in Request /\ done[t] \in Nat
      /\ done[t] < call[t].cnt
  BY DEF IdeInv, IdeTypeOK, read_from_sector, write_to_sector, At, Good
<1>2. /\ secs_op(t) \in 1 .. MaxOp
      /\ done[t] + secs_op(t) <= call[t].cnt
      /\ call[t].cnt \in Nat /\ MaxOp \in Nat
  BY <1>1, OpInside
<1>3. Sectors(secs_op(t) % MaxOp) = secs_op(t)
  BY <1>2, SectorsOf
<1>4. CASE read_from_sector(t)
  <2> USE <1>4 DEF read_from_sector, advance, At, Goto
  <2>1. /\ pc[t] = "transfer"
        /\ pc'[t] = IF done[t] + secs_op(t) < call[t].cnt THEN "sector" ELSE "release"
        /\ done'[t] = done[t] + secs_op(t)
        /\ buf'[t] = [i \in 0 .. done[t] + secs_op(t) - 1 |->
                        IF i < done[t] THEN buf[t][i] ELSE port[i - done[t]]]
    BY <1>3 DEF IdeInv, IdeTypeOK
  <2>2. Taken /\ port = OnDisk(t) /\ Agree(t)
    BY <1>1, <2>1 DEF Good, ReadGood
  <2>3. IdeTypeOK'
    <3>1. done[t] + secs_op(t) \in Nat BY <1>1, <1>2
    <3>2. done' \in [Thread -> Nat] BY <3>1 DEF IdeInv, IdeTypeOK
    <3>3. /\ pc' \in [Thread -> PC] /\ pc[t] # "idle" /\ pc'[t] # "idle"
          /\ \A u \in Thread \ {t} : pc'[u] = pc[u]
      BY <2>1 DEF IdeInv, IdeTypeOK, PC
    <3>4. /\ DOMAIN buf' = Thread /\ call[t].kind = "read"
          /\ \A u \in Thread \ {t} : buf'[u] = buf[u]
      BY DEF IdeInv, IdeTypeOK
    <3>5. UNCHANGED << expecting, intrq, depth, call, disk_done, regs, media >>
      BY DEF chanVars
    <3> QED BY <3>2, <3>3, <3>4, <3>5 DEF IdeInv, IdeTypeOK
  <2>4. Agree(t)'
    <3> DEFINE l == call[t].lba
               m == media[call[t].disk]
               s == secs_op(t)
    <3>1. done[t] \in Nat /\ s \in Nat /\ l \in Nat
      BY <1>1, <1>2, OpInside
    <3>2. port = [i \in 0 .. s - 1 |-> m[l + done[t] + i]]
      BY <2>2 DEF OnDisk
    <3>3. \A i \in 0 .. done[t] - 1 : buf[t][i] = m[l + i]
      BY <2>2 DEF Agree
    <3>4. \A i \in 0 .. done[t] + s - 1 :
              buf'[t][i] = IF i < done[t] THEN buf[t][i] ELSE port[i - done[t]]
      BY <2>1
    <3>5. ASSUME NEW i \in 0 .. done[t] + s - 1
          PROVE  buf'[t][i] = m[l + i]
      <4> HIDE <1>4 DEF l, m, s
      <4>1. CASE i < done[t]
        BY <3>1, <3>3, <3>4, <4>1
      <4>2. CASE ~ (i < done[t])
        <5>1. i - done[t] \in 0 .. s - 1 /\ l + done[t] + (i - done[t]) = l + i
          BY <3>1, <4>2
        <5>2. buf'[t][i] = port[i - done[t]] BY <3>4, <4>2
        <5>3. port[i - done[t]] = m[l + done[t] + (i - done[t])] BY <3>2, <5>1
        <5> QED BY <5>1, <5>2, <5>3
      <4> QED BY <4>1, <4>2
    <3>6. media' = media /\ call' = call /\ done'[t] = done[t] + s
      BY <2>1 DEF chanVars
    <3> HIDE <1>4 DEF s
    <3>7. \A i \in 0 .. done'[t] - 1 :
              buf'[t][i] = media'[call'[t].disk][call'[t].lba + i]
      <4>1. done'[t] - 1 = done[t] + s - 1 BY <3>1, <3>6
      <4>2. \A i \in 0 .. done[t] + s - 1 :
                buf'[t][i] = media'[call'[t].disk][call'[t].lba + i]
        BY <3>5, <3>6
      <4> HIDE DEF l, m
      <4> QED BY <4>1, <4>2, Zenon
    <3> QED BY <3>7 DEF Agree
  <2>5. Quiet' /\ ~ expecting'
    BY <2>2 DEF Quiet, Taken, chanVars
  <2>6. Good(t)'
    BY <1>1, <1>2, <2>1, <2>4, <2>5
    DEF Good, ReadGood, Between, Running, chanVars
  <2> QED BY <1>1, <2>3, <2>6, Step DEF IdeInv, IdeTypeOK, chanVars
<1>5. CASE write_to_sector(t)
  <2> USE <1>5 DEF write_to_sector, chanVars, At, Goto
  <2>1. pc[t] = "transfer" /\ pc'[t] = "down" BY DEF IdeInv, IdeTypeOK
  <2>2. IdeTypeOK' BY <2>1 DEF IdeInv, IdeTypeOK, PC
  <2>3. Asked BY <1>1, <2>1 DEF Good, WriteGood
  <2>4. /\ Command(t)' = Command(t) /\ InBuf(t)' = InBuf(t) /\ port' = InBuf(t)
        /\ Asked' /\ (Agree(t) => Agree(t)')
    BY <1>3, <2>3 DEF Command, InBuf, secs_op, Asked, Agree
  <2>5. Good(t)'
    BY <1>1, <2>1, <2>4 DEF Good, WriteGood, Between, Running
  <2> QED BY <1>1, <2>2, <2>5, Step DEF IdeInv, IdeTypeOK
<1> QED BY <1>4, <1>5

\* Somebody has the channel when something happens on it.
LEMMA Holder ==
    ASSUME IdeInv, phase # "idle" \/ intrq
    PROVE  \E t \in Thread : Holds(t)
BY DEF IdeInv, Free, Quiet

LEMMA HandlerKeeps ==
    ASSUME IdeInv, intr_hd_handler
    PROVE  IdeInv'
<1> USE DEF intr_hd_handler, callVars
<1>1. PICK t \in Thread : Holds(t) BY Holder
<1>2. Good(t) /\ call[t] \in Request
  BY <1>1 DEF IdeInv, IdeTypeOK, Good
<1>3. call[t].kind \in {"read", "write"} BY <1>2, RequestAssumption
<1>4. Raised
  <2>1. pc[t] \in Running
    BY <1>2 DEF Good, Quiet, Between, Running, IdeInv, IdeTypeOK, PC
  <2>2. CASE call[t].kind = "read"
    BY <1>2, <2>1, <2>2 DEF Good, ReadGood, Running, Asked, Woken, Taken
  <2>3. CASE call[t].kind = "write"
    BY <1>2, <2>1, <2>3 DEF Good, WriteGood, Running, Asked, Woken
  <2> QED BY <1>3, <2>2, <2>3
<1>5. Woken' BY <1>4 DEF Raised, Woken
<1>6. IdeTypeOK'
  <2>1. /\ disk_done' = 1 /\ expecting' = FALSE /\ intrq' = FALSE
        /\ UNCHANGED << depth, pc, call, buf, done, regs, media >>
    BY <1>4 DEF Raised
  <2> QED BY <2>1 DEF IdeInv, IdeTypeOK
<1>7. pc[t] = "down"
  BY <1>2, <1>3, <1>4
  DEF Good, ReadGood, WriteGood, Between, Quiet, Asked, Raised, Taken,
      IdeInv, IdeTypeOK, PC
<1>8. /\ Command(t)' = Command(t) /\ (Offered(t) => Offered(t)')
      /\ (Agree(t) => Agree(t)') /\ (AllAgree(t) => AllAgree(t)')
      /\ secs_op(t)' = secs_op(t)
  BY DEF Command, Offered, OnDisk, Agree, AllAgree, secs_op
<1>9. ReadGood(t)' \/ call[t].kind # "read"
  BY <1>2, <1>4, <1>5, <1>7, <1>8 DEF Good, ReadGood, Asked, Raised
<1>10. WriteGood(t)' \/ call[t].kind # "write"
  BY <1>2, <1>4, <1>5, <1>7, <1>8 DEF Good, WriteGood, Asked, Raised
<1>11. Good(t)'
  BY <1>2, <1>7, <1>8, <1>9, <1>10 DEF Good, Between, Running
<1> QED BY <1>1, <1>6, <1>11, Step

LEMMA DiskKeeps ==
    ASSUME IdeInv, Failing \subseteq {"fetch"}, Hardware
    PROVE  IdeInv'
<1> USE DEF callVars, chanVars
<1>1. phase # "idle"
  BY FailingAssumption
  DEF Hardware, disk_fetch, disk_prepare, disk_store, disk_reject
<1>2. PICK t \in Thread : Holds(t) BY <1>1, Holder
<1>3. /\ Good(t) /\ call[t] \in Request /\ done[t] \in Nat
      /\ pc[t] \notin {"idle", "lock"}
  BY <1>2 DEF IdeInv, IdeTypeOK, Good
<1>4. call[t].kind \in {"read", "write"} BY <1>3, RequestAssumption
<1>5. /\ pc[t] \in Running /\ doing = Command(t) /\ done[t] < call[t].cnt
  BY <1>1, <1>3
  DEF Good, Between, Running, Quiet, IdeInv, IdeTypeOK, PC
<1>6. /\ secs_op(t) \in 1 .. MaxOp
      /\ done[t] + secs_op(t) <= call[t].cnt
      /\ call[t].lba + done[t] + secs_op(t) - 1 <= MaxLba
      /\ call[t].lba \in Nat /\ call[t].cnt \in Nat /\ MaxLba \in Nat
      /\ call[t].disk \in Disk
  BY <1>3, <1>5, OpInside, LbaAssumption
<1>7. Sectors(secs_op(t) % MaxOp) = secs_op(t)
  BY <1>6, SectorsOf
<1>8. CASE disk_fetch
  <2> USE <1>8 DEF disk_fetch
  <2>1. call[t].kind = "read" /\ pc[t] = "down" /\ Asked
    BY <1>3, <1>4, <1>5
    DEF Good, ReadGood, WriteGood, Running, Offered
  <2>2. port' = OnDisk(t)
    BY <1>5, <1>7 DEF Command, OnDisk
  <2>3. OnDisk(t)' = OnDisk(t) /\ Command(t)' = Command(t) /\ Raised'
        /\ (Agree(t) => Agree(t)')
    BY <2>1 DEF OnDisk, Command, secs_op, Asked, Raised, Agree
  <2>4. IdeTypeOK' BY DEF IdeInv, IdeTypeOK
  <2>5. Good(t)'
    BY <1>3, <2>1, <2>2, <2>3
    DEF Good, ReadGood, Offered, Between, Running
  <2> QED BY <1>2, <2>4, <2>5, Step
<1>9. CASE disk_prepare
  <2> USE <1>9 DEF disk_prepare
  <2>1. call[t].kind = "write" /\ pc[t] = "busy" /\ Asked /\ port = << >>
    BY <1>3, <1>4, <1>5
    DEF Good, ReadGood, WriteGood, Running, Offered
  <2>2. Asked' /\ Command(t)' = Command(t)
        /\ (Agree(t) => Agree(t)')
    BY <2>1 DEF Asked, Command, secs_op, Agree
  <2>3. IdeTypeOK' BY DEF IdeInv, IdeTypeOK
  <2>4. Good(t)'
    BY <1>3, <2>1, <2>2 DEF Good, WriteGood, Between, Running
  <2> QED BY <1>2, <2>3, <2>4, Step
<1>10. CASE disk_reject
  <2> USE <1>10 DEF disk_reject
  <2>1. call[t].kind = "read" /\ pc[t] = "down" /\ Asked /\ port = << >>
    BY <1>3, <1>4, <1>5
    DEF Good, ReadGood, WriteGood, Running, Offered
  <2>2. Raised' /\ Command(t)' = Command(t)
        /\ (Agree(t) => Agree(t)')
    BY <2>1 DEF Asked, Raised, Command, secs_op, Agree
  <2>3. IdeTypeOK' BY DEF IdeInv, IdeTypeOK
  <2>4. Good(t)'
    BY <1>3, <2>1, <2>2 DEF Good, ReadGood, Offered, Between, Running
  <2> QED BY <1>2, <2>3, <2>4, Step
<1>11. CASE disk_store
  <2> USE <1>11 DEF disk_store
  <2>1. call[t].kind = "write" /\ pc[t] = "down" /\ Asked /\ port = InBuf(t)
    BY <1>3, <1>4, <1>5
    DEF Good, ReadGood, WriteGood, Running, Offered
  <2>2. /\ doing.disk = call[t].disk /\ doing.lba = call[t].lba + done[t]
        /\ DOMAIN port = 0 .. secs_op(t) - 1
    BY <1>5, <2>1 DEF Command, InBuf
  <2>3. buf[t] \in [0 .. call[t].cnt - 1 -> Data]
    BY <1>3, <2>1 DEF IdeInv, IdeTypeOK
  <2> DEFINE l == call[t].lba
             m == media[call[t].disk]
             d == done[t]
             s == secs_op(t)
             n == [x \in 0 .. MaxLba |-> IF x - (l + d) \in 0 .. s - 1
                                         THEN port[x - (l + d)] ELSE m[x]]
  <2>4. media' = [media EXCEPT ![call[t].disk] = n]
    BY <2>2
  <2>5. /\ d \in Nat /\ s \in Nat /\ l \in Nat /\ MaxLba \in Nat
        /\ l + d \in Int /\ l + d + s - 1 <= MaxLba /\ d + s <= call[t].cnt
        /\ call[t].cnt \in Nat
        /\ m \in [0 .. MaxLba -> Data]
    BY <1>3, <1>6 DEF IdeInv, IdeTypeOK
  <2>6. port = [i \in 0 .. s - 1 |-> buf[t][d + i]]
    BY <2>1 DEF InBuf
  <2>7. \A i \in 0 .. d - 1 : buf[t][i] = m[l + i]
    BY <1>3 DEF Good, Agree
  <2>8. n \in [0 .. MaxLba -> Data]
    <3> HIDE <1>11 DEF l, m, d, s
    <3>1. \A i \in 0 .. s - 1 : port[i] \in Data
      <4> TAKE i \in 0 .. s - 1
      <4>1. d + i \in 0 .. call[t].cnt - 1 BY <2>5
      <4>2. port[i] = buf[t][d + i] BY <2>6
      <4> QED BY <2>3, <4>1, <4>2
    <3>2. ASSUME NEW x \in 0 .. MaxLba PROVE n[x] \in Data
      BY <2>5, <3>1
    <3> QED BY <3>2
  <2>9. media' \in [Disk -> [0 .. MaxLba -> Data]] /\ media'[call[t].disk] = n
    <3> HIDE <1>11 DEF n
    <3>1. media \in [Disk -> [0 .. MaxLba -> Data]] BY DEF IdeInv, IdeTypeOK
    <3> QED BY <1>6, <2>4, <2>8, <3>1
  <2>10. AllAgree(t)' /\ Agree(t)'
    <3>1. ASSUME NEW i \in 0 .. d + s - 1 PROVE buf[t][i] = n[l + i]
      <4> HIDE <1>11 DEF l, m, d, s
      <4>1. l + i \in 0 .. MaxLba /\ (l + i) - (l + d) = i - d BY <2>5
      <4>2. CASE i < d
        <5>1. ~ (i - d \in 0 .. s - 1) BY <2>5, <4>2
        <5>2. n[l + i] = m[l + i] BY <4>1, <5>1
        <5> QED BY <2>5, <2>7, <4>2, <5>2
      <4>3. CASE ~ (i < d)
        <5>1. i - d \in 0 .. s - 1 /\ d + (i - d) = i BY <2>5, <4>3
        <5>2. n[l + i] = port[i - d] BY <4>1, <5>1
        <5>3. port[i - d] = buf[t][d + (i - d)] BY <2>6, <5>1
        <5> QED BY <5>1, <5>2, <5>3
      <4> QED BY <4>2, <4>3
    <3>2. \A i \in 0 .. d - 1 : i \in 0 .. d + s - 1 BY <2>5
    <3>3. done' = done /\ call' = call /\ buf' = buf OBVIOUS
    <3>4. secs_op(t)' = secs_op(t) BY <3>3 DEF secs_op
    <3> HIDE <1>11 DEF n
    <3>5. \A i \in 0 .. done[t] + secs_op(t) - 1 :
              buf'[t][i] = media'[call'[t].disk][call'[t].lba + i]
      BY <2>9, <3>1, <3>3
    <3>6. \A i \in 0 .. done[t] - 1 :
              buf'[t][i] = media'[call'[t].disk][call'[t].lba + i]
      BY <3>2, <3>5
    <3> HIDE DEF l, m, d, s
    <3>7. AllAgree(t)' BY <3>3, <3>5 DEF AllAgree, secs_op
    <3>8. Agree(t)' BY <3>3, <3>6, Zenon DEF Agree
    <3> QED BY <3>7, <3>8
  <2>11. IdeTypeOK'
    <3>1. UNCHANGED << expecting, disk_done, depth, pc, call, buf, done, regs >>
          /\ intrq' = TRUE
      OBVIOUS
    <3> QED BY <2>9, <3>1 DEF IdeInv, IdeTypeOK
  <2>12. Raised' /\ Command(t)' = Command(t) /\ secs_op(t)' = secs_op(t)
    BY <2>1 DEF Asked, Raised, Command, secs_op
  <2>13. Good(t)'
    BY <1>3, <2>1, <2>10, <2>12 DEF Good, WriteGood, Between, Running
  <2> QED BY <1>2, <2>11, <2>13, Step
<1> QED BY <1>8, <1>9, <1>10, <1>11 DEF Hardware

LEMMA StepKeeps ==
    ASSUME IdeInv, Failing \subseteq {"fetch"}, [IdeNext]_ideVars
    PROVE  IdeInv'
<1>1. CASE intr_hd_handler BY <1>1, HandlerKeeps
<1>2. CASE Hardware BY <1>2, DiskKeeps
<1>3. ASSUME NEW t \in Thread, Inside(t) \/ lock_acquire(t)
      PROVE  IdeInv'
  BY <1>3, SelectKeeps, LockKeeps, WaitKeeps, TransferKeeps DEF Inside
<1>4. ASSUME NEW t \in Thread, NEW r \in Request, ide_call(t, r)
      PROVE  IdeInv'
  BY <1>4, CallKeeps
<1>5. CASE UNCHANGED ideVars
  BY <1>5
  DEF ideVars, chanVars, callVars, hardVars, IdeInv, IdeTypeOK, Holds, Good, Free,
      Quiet, Asked, Raised, Woken, Taken, Command, OnDisk, InBuf, Agree, AllAgree, Offered,
      ReadGood, WriteGood, secs_op
<1> QED BY <1>1, <1>2, <1>3, <1>4, <1>5 DEF IdeNext

LEMMA Invariant ==
    ASSUME Failing \subseteq {"fetch"}
    PROVE  IdeSpec => []IdeInv
<1>1. ide_init => IdeInv BY InitGood
<1>2. IdeInv /\ [IdeNext]_ideVars => IdeInv' BY StepKeeps
<1> QED BY <1>1, <1>2, PTL DEF IdeSpec

\* No call programs the controller while a command of another is running, its
\* data wait or its interrupt is on its way, for any number of threads and any
\* calls, as long as no write is rejected.
THEOREM NoCommandDisturbed ==
    ASSUME Failing \subseteq {"fetch"}
    PROVE  IdeSpec => []QuietChannel
<1>1. IdeInv => QuietChannel
  <2> SUFFICES ASSUME IdeInv, NEW t \in Thread,
                      pc[t] \in {"select", "sector", "expect", "command", "release"}
               PROVE  Quiet
    BY DEF QuietChannel, Quiet
  <2>1. Holds(t) BY DEF IdeInv
  <2>2. Good(t) BY <2>1 DEF IdeInv
  <2> QED BY <2>2 DEF Good, Between
<1> QED BY <1>1, Invariant, PTL

\* What a call has done agrees with the disk, sector by sector, over any number
\* of commands of any size, however late the interrupts are taken.
THEOREM TransfersExact ==
    ASSUME Failing \subseteq {"fetch"}
    PROVE  IdeSpec => []TransferExact
<1>1. IdeInv => TransferExact
  BY DEF IdeInv, Good, Agree, TransferExact
<1> QED BY <1>1, Invariant, PTL

\* Only the sectors of a write that has the channel change, and to what its
\* buffer holds: the splitting into commands, with 256 passed as 0, writes
\* nothing beyond the call.
THEOREM WritesExact ==
    ASSUME Failing \subseteq {"fetch"}
    PROVE  IdeSpec => OnlyWhatIsWritten
<1>1. ASSUME IdeInv, [IdeNext]_ideVars, NEW e \in Disk, NEW l \in 0 .. MaxLba,
             media'[e][l] # media[e][l]
      PROVE  \E t \in Thread :
                /\ Holds(t)
                /\ call[t].kind = "write" /\ call[t].disk = e
                /\ l - call[t].lba \in done[t] .. call[t].cnt - 1
                /\ media'[e][l] = buf[t][l - call[t].lba]
  <2>1. disk_store
    BY <1>1
    DEF IdeNext, ideVars, hardVars, chanVars, callVars, intr_hd_handler, Hardware,
        disk_fetch, disk_prepare, disk_reject, Inside, select_disk, select_sector,
        expect, cmd_out, semaphore_down, busy_wait, read_from_sector,
        write_to_sector, lock_release, lock_acquire, ide_call
  <2>2. PICK t \in Thread : Holds(t) BY <1>1, <2>1, Holder DEF disk_store
  <2>3. /\ Good(t) /\ call[t] \in Request /\ done[t] \in Nat
        /\ pc[t] \notin {"idle", "lock"} /\ pc[t] \in PC
    BY <1>1, <2>2 DEF IdeInv, IdeTypeOK, Good
  <2>4. call[t].kind \in {"read", "write"} BY <2>3, RequestAssumption
  <2>5. /\ pc[t] \in Running /\ doing = Command(t) /\ done[t] < call[t].cnt
    BY <2>1, <2>3 DEF Good, Between, Running, Quiet, PC, disk_store
  <2>6. call[t].kind = "write" /\ port = InBuf(t)
    BY <2>1, <2>3, <2>4, <2>5
    DEF Good, ReadGood, WriteGood, Running, Offered, disk_store
  <2>7. /\ secs_op(t) \in Nat /\ done[t] + secs_op(t) <= call[t].cnt
        /\ call[t].lba \in Nat /\ call[t].cnt \in Nat
    BY <2>3, <2>5, OpInside, LbaAssumption
  <2>8. media' = [media EXCEPT ![call[t].disk] =
                    [k \in 0 .. MaxLba |->
                       IF k - (call[t].lba + done[t]) \in 0 .. secs_op(t) - 1
                       THEN port[k - (call[t].lba + done[t])]
                       ELSE media[call[t].disk][k]]]
    BY <2>1, <2>5, <2>6 DEF disk_store, Command, InBuf
  <2>9. media \in [Disk -> [0 .. MaxLba -> Data]]
    BY <1>1 DEF IdeInv, IdeTypeOK
  <2>10. e = call[t].disk BY <1>1, <2>8, <2>9
  <2>11. /\ l - (call[t].lba + done[t]) \in 0 .. secs_op(t) - 1
         /\ media'[e][l] = port[l - (call[t].lba + done[t])]
    BY <1>1, <2>8, <2>9, <2>10
  <2>12. port[l - (call[t].lba + done[t])] =
            buf[t][done[t] + (l - (call[t].lba + done[t]))]
    BY <2>6, <2>11 DEF InBuf
  <2>13. /\ done[t] + (l - (call[t].lba + done[t])) = l - call[t].lba
         /\ l - call[t].lba \in done[t] .. call[t].cnt - 1
    BY <2>3, <2>7, <2>11
  <2> QED BY <2>2, <2>6, <2>10, <2>11, <2>12, <2>13
<1>2. IdeInv /\ [IdeNext]_ideVars =>
        [\A d \in Disk, l \in 0 .. MaxLba :
           media'[d][l] # media[d][l] =>
             \E t \in Thread :
               /\ Holds(t)
               /\ call[t].kind = "write" /\ call[t].disk = d
               /\ l - call[t].lba \in done[t] .. call[t].cnt - 1
               /\ media'[d][l] = buf[t][l - call[t].lba]]_media
  BY <1>1
<1> QED BY <1>2, Invariant, PTL DEF IdeSpec, OnlyWhatIsWritten

=============================================================================
