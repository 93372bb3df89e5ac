-------------------------------- MODULE Ide --------------------------------
(***************************************************************************)
(* The disk driver: one channel of temp/ide.c, shared by the threads that  *)
(* call ide_read and ide_write for the two disks on it.                    *)
(*                                                                         *)
(* The channel's lock is the mutex module Sync shows it to be, a down of   *)
(* disk_done waits for its value (Sync!NoLostWakeup).  The controller and  *)
(* the disks are modelled as ide.c uses them: one interrupt per command,   *)
(* after the data of a read, after the data of a write was stored.         *)
(*                                                                         *)
(* The channels of a machine share nothing but partition_list; which       *)
(* channel an interrupt is for is left out, and so are the names, the      *)
(* parameters and the partition tables that ide_init reads.                *)
(***************************************************************************)
EXTENDS Integers

CONSTANTS
    Thread,
    Disk,       \* devices[0] and devices[1]
    MaxLba,     \* max_lba
    MaxOp,      \* the sectors of one command: 256
    Data,       \* the contents of a sector
    Request,    \* the calls: records of kind, disk, lba, cnt
    NoCall,
    Failing     \* the phases in which a disk may reject a command

ASSUME LbaAssumption == MaxLba \in Nat /\ MaxOp \in Nat \ {0}
ASSUME FailingAssumption == Failing \subseteq {"fetch", "prepare"}
ASSUME RequestAssumption ==
    \A r \in Request :
        /\ r.kind \in {"read", "write"} /\ r.disk \in Disk
        /\ r.lba \in 0 .. MaxLba /\ r.cnt \in 1 .. MaxLba - r.lba + 1
ASSUME NoCallAssumption == NoCall \notin Request

VARIABLES
    \* The channel
    depth,      \* the lock: acquires minus releases, see Mutex
    expecting,  \* expecting_intr
    disk_done,  \* the value of the semaphore
    \* The callers
    pc,         \* where each thread is in its call
    call,       \* the parameters of the call
    buf,        \* the sectors in its buffer, numbered from 0
    done,       \* its local secs_done
    \* The hardware
    regs,       \* the registers sect_cnt, lba_l/m/h and the DEV bit of dev
    phase,      \* what the controller is doing:
                \*   "idle"
                \*   "fetch"    BSY: a read
                \*   "offer"    DRQ: the data of a read can be read
                \*   "prepare"  BSY: a write, before its data
                \*   "accept"   DRQ: the data of a write can be written
                \*   "store"    BSY: a write, after its data
    doing,      \* the disk, lba and cnt of the last command
    port,       \* the sectors behind the data register
    intrq,      \* an interrupt of the channel is pending
    media       \* the contents of the disks

chanVars == << depth, expecting, disk_done >>
callVars == << pc, call, buf, done >>
hardVars == << regs, phase, doing, port, intrq, media >>
ideVars == << chanVars, callVars, hardVars >>

PC == {"idle", "lock", "select", "sector", "expect", "command", "down", "busy",
       "transfer", "release"}

Mtx == INSTANCE Mutex WITH Lock <- {"channel"}
Holds(t) == depth["channel"][t] > 0

BSY == phase \in {"fetch", "prepare", "store"}
DRQ == phase \in {"offer", "accept"}

\* ide_init: no interrupt is expected yet.
ide_init ==
    /\ Mtx!MutexInit
    /\ expecting = FALSE
    /\ disk_done = 0
    /\ pc = [t \in Thread |-> "idle"]
    /\ call = [t \in Thread |-> NoCall]
    /\ buf = [t \in Thread |-> << >>]
    /\ done = [t \in Thread |-> 0]
    /\ regs \in [disk : Disk, lba : {0}, cnt : {0}]
    /\ phase = "idle"
    /\ doing = regs
    /\ port = << >>
    /\ intrq = FALSE
    /\ media \in [Disk -> [0 .. MaxLba -> Data]]

At(t, p) == pc[t] = p
Goto(t, p) == pc' = [pc EXCEPT ![t] = p]

-----------------------------------------------------------------------------
(***************************************************************************)
(* The driver.                                                             *)
(***************************************************************************)

\* A call; one of no sectors, or from beyond the disk, returns at once.  The
\* buffer of a write holds any data.
ide_call(t, r) ==
    /\ At(t, "idle")
    /\ Goto(t, "lock")
    /\ call' = [call EXCEPT ![t] = r]
    /\ \E b \in [0 .. r.cnt - 1 -> Data] :
         buf' = [buf EXCEPT ![t] = IF r.kind = "write" THEN b ELSE << >>]
    /\ UNCHANGED << chanVars, done, hardVars >>

\* Mutated form: the channel is not locked.
lock_acquire_not(t) ==
    /\ At(t, "lock")
    /\ depth' = [depth EXCEPT !["channel"][t] = 1]
    /\ Goto(t, "select")
    /\ UNCHANGED << expecting, disk_done, call, buf, done, hardVars >>

lock_acquire(t) ==
    /\ At(t, "lock")
    /\ Mtx!Acquire("channel", t)
    /\ Goto(t, "select")
    /\ UNCHANGED << expecting, disk_done, call, buf, done, hardVars >>

select_disk(t) ==
    /\ At(t, "select")
    /\ regs' = [regs EXCEPT !.disk = call[t].disk]
    /\ Goto(t, "sector")
    /\ UNCHANGED << chanVars, call, buf, done, phase, doing, port, intrq, media >>

\* The sectors of the next command, as many as one can do.
secs_op(t) == IF done[t] + MaxOp <= call[t].cnt THEN MaxOp
              ELSE call[t].cnt - done[t]

\* Mutated form: every command starts at the lba of the call.
select_sector_first(t) ==
    /\ At(t, "sector")
    /\ regs' = [disk |-> call[t].disk, lba |-> call[t].lba,
                cnt |-> secs_op(t) % MaxOp]
    /\ Goto(t, "expect")
    /\ UNCHANGED << chanVars, call, buf, done, phase, doing, port, intrq, media >>

\* The number of sectors is passed as an unsigned char: 256 becomes 0.
select_sector(t) ==
    /\ At(t, "sector")
    /\ regs' = IF call[t].lba + done[t] > MaxLba THEN regs
               ELSE [disk |-> call[t].disk, lba |-> call[t].lba + done[t],
                     cnt |-> secs_op(t) % MaxOp]
    /\ Goto(t, "expect")
    /\ UNCHANGED << chanVars, call, buf, done, phase, doing, port, intrq, media >>

\* cmd_out: the flag first, then the command.
expect(t) ==
    /\ At(t, "expect")
    /\ expecting' = TRUE
    /\ Goto(t, "command")
    /\ UNCHANGED << depth, disk_done, call, buf, done, hardVars >>

\* What a controller that is busy makes of a command is not modelled: no
\* command is ever given to one (QuietChannel).
cmd_out(t) ==
    /\ At(t, "command")
    /\ phase' = IF call[t].kind = "read" THEN "fetch" ELSE "prepare"
    /\ doing' = regs
    /\ Goto(t, IF call[t].kind = "read" THEN "down" ELSE "busy")
    /\ UNCHANGED << chanVars, call, buf, done, regs, port, intrq, media >>

\* secs_done += secs_op, and the test of the loop.
advance(t, n) ==
    /\ done' = [done EXCEPT ![t] = @ + n]
    /\ Goto(t, IF done[t] + n < call[t].cnt THEN "sector" ELSE "release")

\* Mutated form: a write does not wait, its wake-up is left behind.
semaphore_down_read(t) ==
    /\ At(t, "down")
    /\ \/ /\ call[t].kind = "read"
          /\ disk_done > 0
          /\ disk_done' = disk_done - 1
          /\ Goto(t, "busy")
          /\ UNCHANGED done
       \/ /\ call[t].kind = "write"
          /\ advance(t, secs_op(t))
          /\ UNCHANGED disk_done
    /\ UNCHANGED << depth, expecting, call, buf, hardVars >>

\* semaphore_down(disk_done): before the data of a read, after that of a write.
semaphore_down(t) ==
    /\ At(t, "down")
    /\ disk_done > 0
    /\ disk_done' = disk_done - 1
    /\ \/ /\ call[t].kind = "read"
          /\ Goto(t, "busy")
          /\ UNCHANGED done
       \/ /\ call[t].kind = "write"
          /\ advance(t, secs_op(t))
    /\ UNCHANGED << depth, expecting, call, buf, hardVars >>

\* Mutated form: a command that was rejected is given again.
busy_wait_retry(t) ==
    /\ At(t, "busy")
    /\ ~ BSY
    /\ Goto(t, IF DRQ THEN "transfer" ELSE "sector")
    /\ UNCHANGED << chanVars, call, buf, done, hardVars >>

\* The disk answers within the 31 seconds of the ATA standard, and busy_wait
\* goes on for longer: it gives up only when no data will come.
busy_wait(t) ==
    /\ At(t, "busy")
    /\ ~ BSY
    /\ Goto(t, IF DRQ THEN "transfer" ELSE "release")
    /\ UNCHANGED << chanVars, call, buf, done, hardVars >>

\* A count of 0 stands for 256 sectors, to read_from_sector and to the disk.
Sectors(cnt) == IF cnt = 0 THEN MaxOp ELSE cnt

read_from_sector(t) ==
    /\ At(t, "transfer")
    /\ call[t].kind = "read"
    /\ LET n == Sectors(secs_op(t) % MaxOp)
       IN  buf' = [buf EXCEPT ![t] =
                     [i \in 0 .. done[t] + n - 1 |->
                        IF i < done[t] THEN @[i] ELSE port[i - done[t]]]]
    /\ phase' = "idle"
    /\ port' = << >>
    /\ advance(t, secs_op(t))
    /\ UNCHANGED << chanVars, call, regs, doing, intrq, media >>

write_to_sector(t) ==
    /\ At(t, "transfer")
    /\ call[t].kind = "write"
    /\ port' = [i \in 0 .. Sectors(secs_op(t) % MaxOp) - 1 |->
                  buf[t][done[t] + i]]
    /\ phase' = "store"
    /\ Goto(t, "down")
    /\ UNCHANGED << chanVars, call, buf, done, regs, doing, intrq, media >>

lock_release(t) ==
    /\ At(t, "release")
    /\ Mtx!Release("channel", t)
    /\ Goto(t, "idle")
    /\ call' = [call EXCEPT ![t] = NoCall]
    /\ buf' = [buf EXCEPT ![t] = << >>]
    /\ done' = [done EXCEPT ![t] = 0]
    /\ UNCHANGED << expecting, disk_done, hardVars >>

\* An interrupt that is not expected is gone.
intr_hd_handler ==
    /\ intrq
    /\ intrq' = FALSE
    /\ expecting' = FALSE
    /\ disk_done' = IF expecting THEN disk_done + 1 ELSE disk_done
    /\ UNCHANGED << depth, callVars, regs, phase, doing, port, media >>

-----------------------------------------------------------------------------
(***************************************************************************)
(* The controller and its disks.                                           *)
(***************************************************************************)

disk_fetch ==
    /\ phase = "fetch"
    /\ phase' = "offer"
    /\ port' = [i \in 0 .. Sectors(doing.cnt) - 1 |->
                  media[doing.disk][doing.lba + i]]
    /\ intrq' = TRUE
    /\ UNCHANGED << chanVars, callVars, regs, doing, media >>

disk_prepare ==
    /\ phase = "prepare"
    /\ phase' = "accept"
    /\ UNCHANGED << chanVars, callVars, regs, doing, port, intrq, media >>

disk_store ==
    /\ phase = "store"
    /\ phase' = "idle"
    /\ media' = [media EXCEPT ![doing.disk] =
                   [l \in 0 .. MaxLba |->
                      IF l - doing.lba \in DOMAIN port
                      THEN port[l - doing.lba] ELSE @[l]]]
    /\ port' = << >>
    /\ intrq' = TRUE
    /\ UNCHANGED << chanVars, callVars, regs, doing >>

\* A command ends without any data.
disk_reject ==
    /\ phase \in Failing
    /\ phase' = "idle"
    /\ intrq' = TRUE
    /\ UNCHANGED << chanVars, callVars, regs, doing, port, media >>

-----------------------------------------------------------------------------
\* A step of a thread that has the channel.
Inside(t) ==
    \/ select_disk(t) \/ select_sector(t) \/ expect(t) \/ cmd_out(t)
    \/ semaphore_down(t) \/ busy_wait(t)
    \/ read_from_sector(t) \/ write_to_sector(t) \/ lock_release(t)

Hardware == disk_fetch \/ disk_prepare \/ disk_store \/ disk_reject

IdeNext ==
    \/ intr_hd_handler
    \/ Hardware
    \/ \E t \in Thread : Inside(t) \/ lock_acquire(t)
    \/ \E t \in Thread, r \in Request : ide_call(t, r)

IdeSpec == ide_init /\ [][IdeNext]_ideVars

(***************************************************************************)
(* Fairness: the disks finish their commands, a pending interrupt is taken *)
(* (ide.c runs with interrupts enabled), and a thread that can go on gets  *)
(* the CPU (Scheduler!NoStarvation).  Nothing is asked of the lock.        *)
(***************************************************************************)
FairIdeSpec ==
    /\ IdeSpec
    /\ WF_ideVars(intr_hd_handler)
    /\ WF_ideVars(Hardware)
    /\ \A t \in Thread : WF_ideVars(Inside(t))

-----------------------------------------------------------------------------
IdeTypeOK ==
    /\ expecting \in BOOLEAN /\ intrq \in BOOLEAN
    /\ disk_done \in {0, 1}
    /\ depth \in [{"channel"} -> [Thread -> {0, 1}]]
    /\ pc \in [Thread -> PC]
    /\ call \in [Thread -> Request \cup {NoCall}]
    /\ \A t \in Thread : call[t] = NoCall <=> pc[t] = "idle"
    /\ done \in [Thread -> Nat] /\ DOMAIN buf = Thread
    /\ \A t \in Thread :
         pc[t] # "idle" /\ call[t].kind = "write"
             => buf[t] \in [0 .. call[t].cnt - 1 -> Data]
    /\ regs \in [disk : Disk, lba : 0 .. MaxLba, cnt : 0 .. MaxOp - 1]
    /\ media \in [Disk -> [0 .. MaxLba -> Data]]

\* A thread programs the controller only while the one before is through with
\* it: no command is running, no data wait, no interrupt is on its way.
QuietChannel ==
    \A t \in Thread :
        pc[t] \in {"select", "sector", "expect", "command", "release"} =>
            phase = "idle" /\ port = << >> /\ ~ intrq /\ disk_done = 0

\* ide.c: what is done of a call is done: the buffer and the disk agree on
\* all sectors up to secs_done, over any number of commands, whatever other
\* threads read and write on the channel (they cannot before the release).
TransferExact ==
    \A t \in Thread : Holds(t) =>
        \A i \in 0 .. done[t] - 1 :
            buf[t][i] = media[call[t].disk][call[t].lba + i]

\* A sector of a disk changes only as part of a write of it that has the
\* channel, and to what the caller's buffer holds.
OnlyWhatIsWritten ==
    [][\A d \in Disk, l \in 0 .. MaxLba :
         media'[d][l] # media[d][l] =>
           \E t \in Thread :
             /\ Holds(t)
             /\ call[t].kind = "write" /\ call[t].disk = d
             /\ l - call[t].lba \in done[t] .. call[t].cnt - 1
             /\ media'[d][l] = buf[t][l - call[t].lba]]_media

\* Whoever has the channel is through with it some time.
ChannelReleased == \A t \in Thread : Holds(t) ~> ~ Holds(t)

=============================================================================
