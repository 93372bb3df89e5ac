# TinyOSKernel: a TLA+ verification project

TinyOSKernel is a teaching kernel for one 32-bit x86 CPU: kernel threads under a round-robin
scheduler driven by the timer interrupt, semaphores and recursive locks built on disabling
interrupts, bitmap page allocation, a text console, a keyboard driver, and the drafts of an IDE
driver, a file system and user processes. This directory holds TLA+ models of its logic, the TLC
configurations that check them on small instances, and proofs that TLAPS checks for every instance.

1. [The system](#1-the-system)
2. [Modules](#2-modules)
3. [How the models correspond to the code](#3-how-the-models-correspond-to-the-code)
4. [Runs, bounds and what they show](#4-runs-bounds-and-what-they-show)
5. [Fairness](#5-fairness)
6. [Proofs](#6-proofs)
7. [Disagreements between the code and its comments](#7-disagreements-between-the-code-and-its-comments)
8. [What is not modelled](#8-what-is-not-modelled)
9. [Plan](#9-plan)

Paths are relative to `src/`.

## 1. The system

### What is linked

`build.sh` compiles all of `kernel/` but links only main, init, print, interrupt, keyboard,
putchar and intrrpt. Threads, semaphores, memory and lists are complete and compiled, but the calls
that start them (`init.c:9-10`, `main.c:34-35`) and the half of the timer handler that schedules
(`interrupt.c:97-109`) are commented out: the author removed the file system that used them
and could not find why they then stopped working (`README.md`). They are modelled as written. Where
the commented half of the handler matters it is a constant, `TimerSchedules`: FALSE is the handler
as linked, TRUE the one the rest of the code is written for.

### Components

| component | state | operations | interacts through |
|---|---|---|---|
| scheduler (`thread.c`, `switchTo.asm`) | TCBs (status, ticks, elapsed_ticks, saved stack), ready list, list of all threads, the thread on the CPU | thread_init, thread_start, thread_block, thread_unblock, schedule | called by sync and by the timer handler; lists; the interrupt flag |
| interrupts (`interrupt.c`, `lib/interrupt.asm`, `init.c`) | IF, the descriptor table, the table of handlers, the 8259A, the words an entry pushes | idt_init, entry and exit of an interrupt, intr_enable, intr_disable, intr_set_status, the timer handler | IF guards every shared structure of the kernel; calls the handlers |
| semaphores and locks (`sync.c`) | value and list of waiters; holder and holder_repeat_num | semaphore_down, semaphore_up, lock_acquire, lock_release | thread_block and thread_unblock; `general_tag`, the links the ready list uses too |
| lists (`list.c`) | doubly linked tags inside TCBs | push, append, pop, remove, find | scheduler, sync |
| memory (`memory.c`, `bitmap.c`) | three bitmaps, page tables | mem_init, malloc_page, get_kernel_pages, page_table_add | the size and the tables the loader leaves; thread_start takes its TCB from it |
| console (`print.c`, `putchar.asm`) | text memory and cursor of the VGA | put_c, put_char, put_str, put_uint, put_int, put_16uint | called by main and by interrupt handlers |
| keyboard (`keyboard.c`) | five flags | intr_keyboard_handler | port 0x60; put_char |
| IDE driver (`temp/ide.c`) | per channel: lock, semaphore disk_done, expecting_intr | select, read, write, interrupt handler | lock, semaphore; not linked |
| strings (`lib/str.c`) | none | mem_set, mem_cpy, mem_cmp, str_... | everybody |
| boot (`boot/mbr.asm`, `boot/loader.asm`) | the list of memory areas, the size at 0xb00, the ELF file's blocks and the segments, page tables | read the loader, detect memory (3 ways), read the kernel, build page tables, copy segments | BIOS; its results are where the kernel starts |
| file system, processes, TSS, system calls (`temp/`) | | | abandoned drafts; do not compile or are not called |

### What makes it hard

* One CPU, no memory ordering: concurrency is interrupts. A thread can be preempted at any
  instruction at which IF is set, and a handler can run there. `sync.c` and `thread.c` disable
  interrupts for some accesses and not for others (`lock_acquire` sets `holder` with IF set,
  `thread_start` changes two lists with it set).
* A switch leaves the caller in the middle of `switch_to`. IF is global, but the old value
  each function restores is on its own stack, with any number of other threads in between.
* `general_tag` is in the ready list or in one list of waiters. `schedule` returns to a thread
  that has blocked itself when nobody is ready.
* A woken semaphore waiter competes again; another thread can take the value before it.
* A scan code may be two interrupts, and the handler may lag behind the keys.
* The page allocator returns nothing it took when it fails half way.
* The boot depends on the BIOS, any call of which may fail, on 16-bit registers, on 32-bit sums that wrap and on where a
  segment of the kernel is linked.
* Exceptions come during handlers, some with an error code; the 8259A may withdraw a request, and forgets one that is
  pending when it is initialised.

### What correct means, by component

* **Boot**: main is entered with a size of memory the pools can be cut from, page tables as documented, the loader
  intact and the segments in place, or the machine stops at a message.
* **Interrupts**: each handler runs for its own event, frames are popped as they were pushed, the 8259A is given back,
  the keyboard does not go deaf.
* **Scheduler**: nobody READY is lost; exactly the thread on the CPU is RUNNING; every thread off it
  can be resumed; switches are not interrupted; blocked threads stay off; round robin starves nobody.
* **Lists**: the links of all lists agree, in both directions, with the elements put in and taken out.
* **Semaphores and locks**: one owner per lock, however the stores of its fields are interleaved;
  its fields agree with its callers; a wake-up is never lost; the lock is a recursive mutex.
* **Memory**: no page or frame is granted twice, a page granted is mapped to a frame of its own; failing calls lose
  nothing; pools and bitmaps fit into the memory there is; what the loader mapped stays mapped.
* **Console**: prints do not mix; the cursor stays on the screen and text ends at it.
* **Disk driver**: buffer and disk agree on what is done; the channel is
  programmed only while it is quiet, and is given back.
* **Keyboard**: a character is the one meant when the key went down; the flags follow the keys.

## 2. Modules

| module | models | code |
|---|---|---|
| `Loader` | the boot, from the MBR's read of the loader to main | mbr.asm, loader.asm |
| `Pools` | the arithmetic of mem_pool_init, which `Loader` and `Memory` share | memory.c, memory.h |
| `Paging` | the page tables: built by the loader, then edited by page_table_add; EXTENDS `Memory`, whose steps it accompanies | loader.asm, memory.c |
| `Interrupts` | descriptor table, 8259A, entry and exit of interrupts and exceptions | interrupt.c, lib/interrupt.asm, init.c |
| `KList` | `list.c` by its effect on the sequence of elements | list.c |
| `Scheduler` | threads, timer, IF | thread.c, switchTo.asm, interrupt.c |
| `Sync` | `sync.c`; EXTENDS `Scheduler`, whose actions it calls | sync.c, init.c |
| `Links` | the stores of `list.c` under every step of `Sync`, which it EXTENDS; the links are compared with `KList`'s sequences | list.c, thread.c, sync.c |
| `Mutex` | abstract: a recursive mutex per lock. `Sync` implements it (`LockIsMutex`) | (promise) |
| `Memory` | page allocation | memory.c, bitmap.c |
| `PageGrant` | abstract: pages are granted once, each backed by a frame of its own. `Memory` implements it (`GrantsPages`) | (promise) |
| `Console` | printing from main and from a handler | print.c, putchar.asm |
| `Keyboard` | the handler, with the keyboard and its controller as environment | keyboard.c |
| `Ide` | one channel of the disk driver, with controller and disks as environment; its lock is that of `Mutex` | temp/ide.c |
| `MC*` | constants of small instances; symmetry | |
| `SchedulerProofs`, `SyncProofs`, `LinksProofs`, `MemoryProofs` (with `Paging`), `LoaderProofs`, `ConsoleProofs`, `InputProofs` (`Interrupts` and `Keyboard`), `IdeProofs` | proofs | |

The parts meet where their code does: `Loader` leaves the size of memory from which `Memory` cuts its pools
(`PoolIsRam` is stated with the operators of `Pools`), and the tables `Paging` goes on with; `Sync` is `Scheduler` with callers,
`Links` is `Sync` with links; `Ide` uses the `Mutex` that `Sync` implements; `Interrupts` justifies the single steps in which
`Scheduler` and `Console` enter and leave a handler.

## 3. How the models correspond to the code

**Names** are those of the code. An operator that models a part of a function is named for what it
does (`down_block`, `down_take`), and PROJECT.json maps it to its lines. Operators called "mutated
form" in the modules are not part of the models: they are plausible bugs, and each property is
violated when one of them takes the place of the definition it mutates.

**Atomicity.** Code that runs with interrupts disabled is one step up to the point where it switches
stacks. Code that runs with interrupts enabled is cut at every access to memory that somebody else
accesses. So `semaphore_up` is one step, `lock_release` is four (the test of holder and count,
holder = NULL, count = 0, semaphore_up), and `thread_start` is two (filling the TCB and the first
list; the ready list), since the TCB is nobody else's until then. Its list operations disable
interrupts inside themselves.

**Switching.** `schedule` chooses the next thread and calls `switch_to`, which returns on another
stack. `frame[t]` says what follows when `switch_to` returns for t: the end of the timer handler, the end
of `thread_block`, or `kernel_thread` for a thread that never ran. The new `cur` first takes
`switch_return`; until then IF is clear. With an empty ready list `schedule` returns to its caller
without a switch, as the code does.

**Who may block.** `main.c`'s main thread ends in `while(1)` and never blocks. `MayBlock` are the
threads that may, `MayDown` those of them whose functions call semaphore_down themselves, for a device. `OnlyReadyListed` and `BlockedStaysOff` depend on it: without a thread that is always ready, the empty
ready list sends `schedule` back to a blocked thread, which then spins in semaphore_down with interrupts disabled. The theorems
that need it say so.

**Left out of the scheduler**: `stack_magic` (checked by the handler against a stack overflow),
names, the global count of ticks and its printing; a `thread_start` that gets no page changes nothing.
Priorities are any naturals; threads never end, as no function of the repository returns.

**Memory** is counted in pages of 4 KB. The 16 bits of `unsigned short all_free_pages` and the
remainders of the divisions by 2 and 8 are kept. `vaddr_get` has no code for PF_USER, so only the kernel's pool is ever used. The
contents of pages (`mem_set`) are left out. `bitmap_scan` is two steps, the scan and the set,
because another thread can run between them if the timer schedules (constant `TimerSchedules`, FALSE as linked).

**Page tables.** `Paging` has every word of the page tables. page_table_add stores through the last entry of the
directory, so the model translates the address it computes with the tables as they are, as the processor would. The loader makes a table
for every kernel address, so page_table_add never allocates one; its other branch is unreachable for the heap. Attributes of
entries are left out.

**Boot.** Sizes of memory are in KB, and the low memory is counted in cells, with the block of 16 KB that int 0x13 reads as 3 cells:
what matters is which cell of the file ends where. The 32 bits of the sums and the signed comparison of
find_max_mem_area are kept. Every call of the BIOS may fail; what the BIOS lists is any list of areas a PC can have
(`MachineAssumption`). A 13th area is written over `ards_nr` and the loader's code, as in the code (`e820_overrun`); what junk does
when it is executed is not said ("wild"), and the properties of the boot but `SegmentsInPlace` are stated of machines whose areas
fit (`Fits`). The packets of int 0x13, which lie in the path of execution, are taken not to do harm as instructions.

**Interrupts.** The 8259A is modelled with the words the code writes to it and what they make it do; a frame is the
words that are pushed, so that a missing or an additional one shows. What handlers do is left out but for the reading of the byte by
the keyboard's. Devices raise their lines at any time, exceptions come in main and in handlers, a request may be withdrawn.

**Lists.** In `Links` each step of `Sync` also makes the stores of the list operations it calls, and what these decide (is the list
empty, is the element in it, which is the first) they read from the links. Each list operation disables interrupts
before its stores, so they are one step; list_push reads head.next before, but its one caller has disabled them already. The tag of main's TCB is not
initialised by the code.

**Console.** The screen is `Cols` by `Rows` characters, attributes are left out. A context (main, or
a handler that has interrupted it) is in put_str, put_char or put_c; put_c is cut between reading and writing
the cursor. `put_uint`, `put_int` and `put_16uint` compute digits and print them like put_str.
That nothing interrupts a print is not built into the model: interrupts are taken whenever IF is
set, and the functions really save, clear and restore it.

**Keyboard.** A key is its make code of scan code set 1. Its one or two bytes go into a queue, from
which the handler takes one per step. `down`, `latest` and `caps` are the user's side; each byte
carries, for the properties only, what may be printed for it, fixed when the key goes down. Keys that are held repeat, caps
lock too, and then the driver toggles `caps_lock_status` each time (section 7). A user cannot tell what that leaves, so `caps` is
the set of states caps lock may be in, both after a held caps lock, and a letter may be meant in either case.

**Disk driver.** `ide.c` is a draft: it is not linked, and a few characters of it do not compile (`??` on line
161, `amx_lba` on 116). It is the one user of locks and semaphores in the repository, and is modelled
as what it plainly says. A call is a thread's walk through `pc`; lock, disk_done, expecting_intr and
the registers are shared, and each access to them is a step. The lock is taken from `Mutex`, which `Sync` implements;
a down of disk_done is a wait for its value, which `NoLostWakeup` justifies. The controller answers each
command with one interrupt, as the driver counts on; a pending interrupt may be taken late. A disk may reject a
command before its data. One channel is modelled; the handler picks it by the number of the interrupt.

## 4. Runs, bounds and what they show

| run | instance | result |
|---|---|---|
| `boot_kernel` | 6 machines (4 MB, 32 MB, 3 GB with devices below 4 GB, 2 GB, one with 12 areas, one with 13), 3 kernels (1, 2 and 6 blocks), memory that held anything | `PoolIsRam`, `SizeFound`, `LoaderSurvives`, `SegmentsInPlace` and `BootEnds` hold |
| `boot_image` | a kernel of 2 blocks | violation of `KernelAsLinked` |
| `mem_pages` | 2 callers, pools of 0, 8 and more pages, 7 sizes of memory, a request that takes the heap into its second table | `LayoutOK`, `NothingLeaks`, `MapsAsDocumented`, `HeapMapped` and the refinement `GrantsPages` hold |
| `interrupts` | exceptions with and without an error code, up to 4 exceptions and spurious interrupts | `FramesWhole`, `HandlerMeant`, `OneInterrupt` and `KeyboardHeard` hold |
| `spurious` | the same | violation of `SpuriousIgnored` |
| `sched_threads` | main and 3 threads, priorities 0 and 1, under fairness | 6 invariants, `NoOvertaking` and `NoStarvation` hold |
| `sync_safety` | main and 3 threads, a lock (recursion 2), a device's semaphore (value up to 2), all links | 6 invariants and the refinement `LockIsMutex` hold (1.1 million states) |
| `sync_progress` | main and 2 threads, a lock (recursion 2) and a device one of them waits for, holding the lock or not, under fairness | `LockProgress` holds |
| `console_safety` | a screen of 2 rows of 3 cells, one picture, strings of up to 2 characters | `NothingBehindCursor`, `StringsWhole`, `IntrRestored` hold (0.3 million states) |
| `kbd_keys` | 9 keys, which all repeat, up to 3 held, up to 4 bytes unread | `TypedAsMeant`, `FlagsFollowKeys` hold (0.9 million states) |
| `kbd_shift` | a letter and both shift keys | violation of `FlagsFollowKeys` |
| `ide_transfers` | 2 threads, 2 disks of 3 sectors, 2 sectors per command, reads may be rejected, under fairness | `QuietChannel`, `TransferExact`, `OnlyWhatIsWritten` and `ChannelReleased` hold (0.6 million states) |

**Why the bounds are enough.** *Threads*: three next to main (for `LockProgress` two: a holder and a waiter) are two in a list of waiters and one
running, and a ready list in which two others can change places; every hazard of `thread.c` and `sync.c` in
PROJECT.json involves at most three. *Priorities*: 0 and 1 cover the switch at each tick and the tick
that only counts; in `Sync` every tick switches, which gives the most interleavings. *`ElapsedLimit`*
is 2^32 in the code; no property reads elapsed_ticks, so it is 1 to save states. *`MaxValue`* (2)
lets a device raise its semaphore ahead of two waits; *`MaxDepth`* (2) has one nested acquire.
*`MaxTaken`*: no call begins once more than 5 pages are taken, after which the pool of 8 may have no room for 3
adjacent ones but has some for 1, and the larger pools behave as the pool of 8 does before it is
full; the request of 769 pages is made of an empty pool only. `Detected` has a size of each kind: none free, remainders of both divisions, 66064 pages (the
16 bits wrap to 16), 32 MB, the largest number of free pages before the wrap, the largest memory.
*Pages of the heap*: 769 are one more than its first table has; the proof covers all sizes.
*Kernels*: the 8 reads and the 4 blocks that di can address are those of the code; kernels end in the first block, in a later
one that is read, and beyond the wrap of di. *Machines*: each has a case of the arithmetic of its own. *Exceptions*: four are two within
a handler and two more after it; the nesting of a third adds nothing to a stack that each frame leaves as it was.
*Screen*: lines wrap, the last one scrolls, and a string crosses both. *Keys*: one of each class
of keymap (letter, sign, one column), modifiers of one and of two bytes, keys the driver ignores; four
unread bytes are a press and a release of a two-byte key.
*Disks*: `MaxOp` is 256 in the code; with 2 sectors to a command and 3 to a call there is a full
command, whose count is passed as 0, and a rest. A full sector is any of 2 contents, so that a sector that went
to the wrong place or was not stored shows.

**Deadlock** is checked in all runs: a caller can always ask for nothing, main is always ready, and the loader's ends are loops.

**Properties that take some explaining.** `NoLostWakeup`: while somebody waits, each unit of the
value is about to be fetched by a thread that is already awake. A wake-up that is taken away from the
woken thread by a newcomer is not lost, and the property must not say so. `LockTokens`: value plus owners is
1, where an owner is anybody between the end of `semaphore_down` and `semaphore_up`, so it covers the
windows in which holder and count do not yet, or no longer, tell. `TypedAsMeant` is about the order of bytes: the character that is
printed for a make code is the one of the shift keys and the caps lock (after a held one, of either state) at the time the key went down, however late the handler
reads it. `KeyboardHeard` leaves out a byte that waited when pic_init began: ICW1 makes the 8259A forget its edge, and the line
stays high until somebody reads the byte, which nobody does.

**Mutants.** For every property of every passing run PROJECT.json names a mutated definition under
which the same run violates it.

## 5. Fairness

Used by `sched_threads`, `sync_progress`, `ide_transfers`, `boot_kernel` and `interrupts`.

* `switch_return` (weak): the CPU goes on executing; the code after `switch_to` cannot be interrupted.
* the timer (strong): IF may be clear when a tick arrives, but the 8259A keeps the request and it is
  taken when IF is set. A thread that disables interrupts again and again does not mask it.
* `intr_enable` (strong) and `boot` (weak): each `intr_disable` of the kernel is followed by
  `intr_set_status`, and `init_all` ends with `intr_enable`.
* `thread_start_ready` and the steps of a call of sync.c (strong, per thread): a thread may be preempted before
  any instruction any number of times, but whenever it is on the CPU it executes. A slice has
  at least one instruction between two ticks, so of infinitely many slices one executes it.
* `lock_release` of a lock held (strong, per thread): callers pair lock_acquire with
  lock_release; without that no lock makes progress.
* a device (strong): while a thread waits for its semaphore, it raises it. `LockProgress` needs that, since the thread may hold the
  lock, as `ide.c` does while it waits for disk_done; the same holder is the only thread that waits there (`MayDown`).

* In `Ide` (weak): the disks finish commands, the handler runs, a thread that can go on does.
  That is what `NoStarvation` gives it; nothing is asked of the lock, so `ChannelReleased` speaks of
  whoever has the channel only.

* In `Loader` (weak, of any step): the processor goes on, the BIOS returns.
* In `Interrupts` (weak, of the processor's steps): it goes on with what it executes, and takes a request once interrupts are enabled; for
  main that includes an instruction with interrupts enabled between its prints. Nothing is assumed of devices and exceptions.

Nothing is assumed of thread_block, thread_unblock, thread_start or lock_acquire.
`LockProgress` says that somebody gets the lock. A single thread may wait for ever: it is woken, and
another thread takes the value each time before it runs. That is the code's design
(the value is not handed over), so it is not stated as a property.

## 6. Proofs

| theorem | says | for |
|---|---|---|
| `SchedulerSafe`; `SchedulerTypes`, `OneThreadRuns`, `ContextsSaved` | TypeOK, ReadyNotLost, OnlyCurRuns, ContextSaved, SwitchAtomic | all threads, priorities, both timers |
| `BlockingSafe`; `ReadyListExact` | OnlyReadyListed, BlockedStaysOff | the same, main never blocks |
| `ReadyInOrder` | NoOvertaking | all threads, priorities, both timers |
| `SyncImplementsSched` | each step of Sync is a step of Scheduler or a stutter | all semaphores and locks |
| `SyncTypes` | SyncTypeOK | the same |
| `LocksConsistent` | LockTokens, HolderExact | the same |
| `LockImplementsMutex` | Sync implements Mutex | the same |
| `TagsNotShared`, `DownNeverSpins` | TagInOneList, NoBusyWait | the same, main never blocks |
| `FlagFollowsCode` | IntrDiscipline | the same |
| `WakeupsKept` | NoLostWakeup | the same, finitely many threads |
| `ListsStayLinked` | ListsLinked | the same |
| `PoolLayout` | LayoutOK | all sizes of memory below 4 GB |
| `PagesSafe` | MemTypeOK, PallocSucceeds, NothingLeaks | the timer does not schedule |
| `PagesGranted` | Memory implements PageGrant | the same |
| `LoaderMapsStay` | MapsAsDocumented | the same, all sizes of memory and requests |
| `HeapStaysMapped` | HeapMapped | the same |
| `PoolInRam` | PoolIsRam | all machines whose areas fit, all failures of the BIOS |
| `MemorySizeFound` | SizeFound: the size is right up to 64 KB; with 2 GB or more it may also be any size below 2 GB | the same |
| `LoaderNotOverwritten` | LoaderSurvives | the same, all kernels |
| `SegmentsLoaded` | SegmentsInPlace | all kernels |
| `CursorStaysOnScreen` | ConsoleTypeOK, NothingBehindCursor | all sizes of screen, all texts |
| `PrintingIsAtomic`; `FlagRestored` | StringsWhole, CursorFresh, IntrRestored | all texts |
| `InterruptsReturn`, `HandlersMeant`, `OneAtATime` | FramesWhole, HandlerMeant, OneInterrupt | all sets of exceptions, any depth of nesting |
| `KeysTypedAsMeant`, `FlagsFollow` | TypedAsMeant, FlagsFollowKeys | all keyboards with one key of each kind, whichever keys repeat, any number of keys held and bytes waiting |
| `NoCommandDisturbed` | QuietChannel | all threads, disks, calls, sizes of command; only reads are rejected |
| `TransfersExact` | TransferExact | the same |
| `WritesExact` | OnlyWhatIsWritten | the same |

A name after a semicolon is a conjunct of the theorem before it, stated by itself. The invariants of the types of `Memory`, `Console`,
`Sync` and `Ide` (within `IdeInv`) are proved rather than run.

**Assumptions** are the named ASSUMEs of the modules (each evaluated by TLC on the small instances),
and the hypotheses of the theorems:

* `main \notin MayBlock`: main never blocks itself. The repository's main does not; section 7 has what happens if it did.
* `IsFiniteSet(Thread)`: there are finitely many threads, as memory is finite.
* The timer does not schedule: the linked handler, which has that half commented out.
* A disk rejects reads only (`Failing`).
* `OneKeyEach`: a keyboard with one ctrl, one shift and one alt key, since keyboard.c has one flag for two keys; with two shift
  keys the statement is false (run `kbd_shift`).

**Arguments.**

* *Scheduler.* The conjuncts of `SchedulerSafe` are inductive together once the ready list has no
  duplicates, cur is not free, and a thread being made is READY and made by one thread. The work is in what `schedule` does to
  the list: `ScheduleEffect` states it once, as sets, from the list lemmas before it, for both callers, the
  timer and thread_block. For `BlockingSafe` the invariant adds that the main thread is RUNNING or in the
  ready list whenever somebody else is on the CPU, so a thread that blocks always finds a successor.
* *Sync.* Since every action of Sync is an action of Scheduler with the same variables or leaves them
  unchanged, the scheduler's theorems hold of Sync. `LockInv` says, for each lock, who may
  be where: the tokens add up, a thread inside acquire or release of a lock is its only
  owner, and holder and count have the values that place implies. With it each store of
  `lock_acquire` and `lock_release` is a step or a stutter of Mutex.
* *The order of the ready list.* `AppendOrder`, `PushOrder` and `PopOrder` say what each operation of list.c does to who is before
  whom, `ScheduleOrder` what schedule does: nobody passes a thread that stays in the list. Only thread_unblock pushes in front,
  and its thread was blocked.
* *Waiters.* `WaitInv` adds `WaitersBlocked` to the scheduler's invariant: a thread in a list of waiters is there once, is
  blocked, and is in the loop of semaphore_down of that semaphore, so in no other list. That needs the main thread to be ready:
  thread_block then switches, and the loop goes on only after thread_unblock has moved the tag.
* *The interrupt flag.* `FlagInv` says of each thread, on the CPU or off it, which flag it has or will get back, by what it is
  to return to: a new thread and one the timer switched out get INTR_ON and are outside the loop, one that blocked itself gets
  INTR_OFF and is inside. A switch hands over from one such thread to another.
* *Wake-ups.* `NoLostWakeup` is inductive on top of `WaitInv`. `semaphore_up` adds one to value and, with one waiter, one thread that is awake in
  the loop; `down_take` takes one from both; a thread joins the waiters only when value is 0. The
  cardinalities need finitely many threads.
* *Links.* `HeapOK(h, L)` relates the links to the sequences that `KList` has for them: no tag in two places, next and prev of neighbours agree
  (`Linked`), a tag in no list is NULL twice (`Loose`), nothing follows a tail (`Ends`). `InsertKeepsHeap` and `PopKeepsHeap` follow the four stores
  of an insertion and those of a removal through it, for list_append, list_push and list_pop, whatever the lists hold. What
  thread_start and schedule look for with elem_find is in the list exactly if the walk along next finds it (`FindMeans`). That is
  an induction along a list of any length; `LeastNatural`, that a set of naturals which is not empty has a least element, provides it:
  it is derived from the well-foundedness of strict subsets of a finite set (the library's induction theorems take an operator, which
  the provers cannot instantiate). `LinksInv` is WaitInv with the links of all lists.
* *Memory.* With one call at a time the bitmaps are always prefixes: `bitmap_scan` takes the first
  place, and nothing is freed. `MemInv` says so and counts: frames taken are as many as pages
  granted, plus those already mapped by the call in progress. So a virtual page that is found
  implies a frame, which is why the missing way to give pages back does no harm in the
  linked kernel. `PoolLayout` is arithmetic on the 16 bits.
* *Console.* `PutGood` says of put_c as a function, for all screens, cursors and characters, that the cursor stays on the screen with
  nothing behind it. `FlagsNested` is the invariant about saved flags: the outermost print
  function of a context has saved what its caller had, inner ones INTR_OFF.

* *Page tables.* `PagingIsMemory` makes Memory's invariant available: pages granted are fewer than the pool has, so the heap stays
  below the window on the tables. `RamInv` says that the directory and the first table are as the loader wrote them, that
  tables are frames below the pool (so no page of the heap is a table), and that each page of the heap has its frame in its entry.
  `PtePtr` is the arithmetic: the address that pte_ptr computes is that of the entry, for each page of the heap.
* *Boot.* `DetectInv` follows the size: after the scan edx is the end of memory when there is less than 2 GB, and below it there is no
  greater signed number. `PoolEnds` bounds the frames of the kernel's pool by half of what is found, and three quarters of memory are free at
  least. What a 13th area does is set aside (`Fits`). `LoadInv` follows the cells: the loader's code stays where it is, the first block is in the buffer from the first copy on, also after di has wrapped, and
  segments neither overlap nor reach the buffer.
* *Interrupts.* `IntrInv` gives for each place of an entry the number of words that are on the stack and which they are, by the
  vector's error code (`WordsOK`), and how far idt_init is by what tables and 8259A hold (`Started`). Interrupts stay
  disabled until iretd, so only the frame at the bottom has flags with INTR_ON in it, and every frame above it is an exception.
* *Keyboard.* `Chain` reads the bytes that wait, one after the other, as the handler would: a sequence of states of the flags, each
  byte leading to the next and printing what was meant when its key was pressed. `KbdInv` says that the chain
  starts at the flags there are and ends at those of the keys held now, for one of the states caps lock may be in. A key adds its bytes at the end, where flags and keys
  agree; the handler takes the first link off. So the length of the chain needs no induction.
* *Disk driver.* `IdeInv` says of the thread that holds the lock what controller, flag and semaphore are at each place of its
  call, and that they are at rest when nobody holds it. With it the phases of a command leave no place at which an interrupt is
  early, late or left over. Rejected writes are left out: with them the statement is false (section 7).

**Model-checked only**: the liveness properties `NoStarvation`, `LockProgress`, `ChannelReleased`, `BootEnds` and `KeyboardHeard`, since
liveness under fairness and ENABLED are beyond the prover. Each safety invariant, action property and refinement of the passing runs is
stated by a theorem.

## 7. Disagreements between the code and its comments

Three are runs that TLC finds violated; PROJECT.json quotes the comments.

1. `keyboard.c:120`, the flags record whether a control key is still held: two keys share one flag
   (`kbd_shift`).
2. `loader.asm:213`, the kernel may have 128 KB, read 16 KB at a time: the sector to read never advances and di wraps at 64 KB,
   so that a kernel of more than 16 KB does not arrive (`boot_image`). The memory of a segment that the file does not hold is not cleared either.
3. `interrupt.c:121`, spurious interrupts (0x27) need no handling, and line 120 tests for them: the descriptor table ends at 0x21, so they
   raise a general protection exception, whose handler prints and returns (`spurious`).

The others were met while modelling and have no run.

4. `sync.c:18`, the loop is left only by a wake-up: a thread that waits when nobody is ready is
   returned to by `schedule` and loops with interrupts disabled. The repository's main never
   blocks, so this takes a main thread that does; with all threads in `MayBlock` and `MayDown`, `BlockedStaysOff` and `NoBusyWait` are violated.
5. `bitmap.h:10`, bitmap_scan takes free bits: under a timer that schedules, two threads take the same bits, and
   `GrantsPages` is violated (`mem_pages` with `TimerSchedules` TRUE). `thread_start` calls get_kernel_pages with interrupts enabled.
6. `putchar.asm:2`, the screen holds 2000 characters: one printed at the last cell falls through into
   the backspace and is erased.
7. `ide.c:236`, after the wake-up the sectors are certainly written: `ide_write` returns from a rejected command
   without waiting for its interrupt, which wakes the next write too early (`TransferExact` and `QuietChannel` are violated with "prepare"
   in `Failing`). `ide_read` waits first and has no such trouble.
8. `keyboard.c:120`, a caps lock that is held counts as one press: the driver toggles at each repetition (lines 183-188).
9. `loader.asm:133`, there are three ways to detect memory: when the third, 0x88, succeeds, the code computes the size and runs on into error_hlt
   (lines 194-198), which has no message.
10. `loader.asm:118`, ards_buf holds the areas of memory: there is no test for the 12 it has room for. A 13th is written over the
    number of areas and the code that follows; if it is the last one, the loop is left and a wrong number of areas is looked at.
11. `loader.asm:153`, the largest end of an area is the size: the comparison is one of signed numbers, so ends of 2 GB and more are passed over, and
    with that much memory a size below 2 GB is found, 640 KB in the worst case.
12. `interrupt.c:173`, the 8259A is initialised: a byte that waits in the keyboard controller at that time loses its edge and is never
    read, nor is any after it (`KeyboardHeard` leaves these boots out).
13. `thread.h:108` says elapsed_ticks is priority - ticks, which holds of a thread's first slice only;
    nothing reads elapsed_ticks.
14. `ide.c:154`, `print.c:86`, `str.c:25`: busy_wait counts down by 1 in place of 10, hexadecimal digits above 9 are printed as other
    characters, mem_cpy and mem_cmp count up.

## 8. What is not modelled

* The switch to protected mode and the descriptors (one step of `Loader`), the picture mbr.asm leaves (the initial state of `Console`), and the
  effect of the packets' bytes as instructions.
* The registers that `switch_to` pushes and pops; of the 8259A the slave, whose line is masked.
* list_len, which nothing calls.
* `str.c` and the digits of `put_uint` and its relatives: sequential functions of their arguments without shared state; nothing that
  is linked calls mem_cpy or mem_cmp.
* Of the IDE driver the scan of partition tables, identify_disk and what ide_init reads; disks that
  are late beyond busy_wait's limit or fail to store data; calls that end beyond the disk. The other drafts
  in `temp/`.
* An overflow of the keyboard controller, the Pause key, the keys the driver ignores beyond two examples.

## 9. Plan

Done, in this order: `KList`, `Scheduler`, `Sync` with `Mutex`, `Memory` with `PageGrant`, `Console`,
`Keyboard`, `Ide`, `Loader` with `Pools`, `Paging`, `Interrupts`, `Links`; and the proofs of section 6.

Next, proofs: more of what the linked modules promise each other, such as `FramesWhole` as the reason for the single steps in which
`Scheduler` and `Console` enter and leave a handler; and the page tables when callers are interleaved by a timer that schedules, under which the
hypotheses of `PagesSafe` fail today.
