------------------------------- MODULE Memory -------------------------------
(***************************************************************************)
(* Page allocation: kernel/memory.c and kernel/lib/bitmap.c.               *)
(*                                                                         *)
(* A call of get_kernel_pages takes adjacent bits of the bitmap of the     *)
(* kernel's virtual pages, then one frame at a time from the bitmap of the *)
(* kernel's physical pool, and enters each pair in the page table.  No     *)
(* interrupt is disabled: if the timer schedules, another thread can run   *)
(* between any two accesses of shared memory.  Nothing is ever freed.      *)
(*                                                                         *)
(* Memory is counted in pages of 4 KB.  The page directory has an entry    *)
(* for every kernel address (loader.asm), so page_table_add never has to   *)
(* allocate a page table; what mem_set writes into the pages is left out.  *)
(***************************************************************************)
EXTENDS Pools, FiniteSets, Functions

CONSTANTS
    Caller,         \* the threads that call get_kernel_pages
    Detected,       \* the sizes of memory the loader may find, in pages
    Request,        \* the values of pg_cnt
    TimerSchedules, \* whether the timer's interrupt switches threads
    MaxTaken        \* bound: n pages are not asked for once more than
                    \* MaxTaken[n] are taken

\* A word of bytes.  It may be below 2 MB: the loader passes over areas that end
\* above 2 GB, and may be left with the 640 KB at 0.
ASSUME DetectedAssumption == \A m \in Detected : m \in Nat /\ m < 1048576
ASSUME RequestAssumption == Request \subseteq Nat
ASSUME MemTimerAssumption == TimerSchedules \in BOOLEAN
ASSUME TakenAssumption == MaxTaken \in [Request -> Nat]

VARIABLES
    all_mem,  \* the word at 0xb00 that mem_init reads
    vbits,    \* the bits set in kernel_vaddr.vaddr_bitmap
    pbits,    \* the bits set in kernel_pool.pool_bitmap
    pte,      \* the page table entries of the heap: page -> frame
    pc,       \* where each caller is in get_kernel_pages
    cnt,      \* pg_cnt of its call
    start,    \* bit_idx_start, what the scan of the virtual pages found
    done,     \* the pages of the call already mapped
    frame,    \* bit_idx, what the scan of the frames found
    owned     \* history: the pages returned to each caller

callVars == << pc, cnt, start, done, frame >>
memVars == << all_mem, vbits, pbits, pte, callVars, owned >>

-----------------------------------------------------------------------------
mem_init ==
    /\ all_mem \in Detected
    /\ vbits = {}
    /\ pbits = {}
    /\ pte = [p \in {} |-> 0]
    /\ pc = [t \in Caller |-> "idle"]
    /\ cnt = [t \in Caller |-> 0]
    /\ start = [t \in Caller |-> 0]
    /\ done = [t \in Caller |-> 0]
    /\ frame = [t \in Caller |-> 0]
    /\ owned = [t \in Caller |-> {}]

\* t executes: another thread takes its place only if the timer schedules.
At(t, p) ==
    /\ pc[t] = p
    /\ TimerSchedules \/ \A u \in Caller \ {t} : pc[u] = "idle"
Goto(t, p) == pc' = [pc EXCEPT ![t] = p]

\* The n bits from bit i on.
Bits(i, n) == i .. i + n - 1

\* Mutated form: the test begins with the second bit.
Fits_second(bits, n, i) ==
    i + n <= Pages(all_mem) /\ Bits(i + 1, n - 1) \cap bits = {}

\* Bit i is the first of n bits that are clear and inside the bitmap.
Fits(bits, n, i) ==
    i + n <= Pages(all_mem) /\ Bits(i, n) \cap bits = {}
Full(bits, n) == \A i \in 0 .. Pages(all_mem) - 1 : ~ Fits(bits, n, i)

\* bitmap_scan takes the first place there is.
bitmap_scan(bits, n) ==
    CHOOSE i \in 0 .. Pages(all_mem) - 1 :
        Fits(bits, n, i) /\ \A j \in 0 .. i - 1 : ~ Fits(bits, n, j)

bitmap_set(bits, i, n) == bits \cup Bits(i, n)

-----------------------------------------------------------------------------
\* get_kernel_pages(n) and malloc_page up to the call of vaddr_get.
malloc_page(t, n) ==
    /\ At(t, "idle")
    /\ \/ /\ n = 0 \/ n >= 3840
          /\ UNCHANGED << pc, cnt, done >>
       \/ /\ n # 0 /\ n < 3840
          /\ Cardinality(vbits) <= MaxTaken[n]
          /\ Goto(t, "vscan")
          /\ cnt' = [cnt EXCEPT ![t] = n]
          /\ done' = [done EXCEPT ![t] = 0]
    /\ UNCHANGED << all_mem, vbits, pbits, pte, start, frame, owned >>

\* vaddr_get: bitmap_scan tests the bits, ...
vaddr_scan(t) ==
    /\ At(t, "vscan")
    /\ \/ /\ Full(vbits, cnt[t])
          /\ Goto(t, "idle")
          /\ UNCHANGED start
       \/ /\ ~ Full(vbits, cnt[t])
          /\ start' = [start EXCEPT ![t] = bitmap_scan(vbits, cnt[t])]
          /\ Goto(t, "vset")
    /\ UNCHANGED << all_mem, vbits, pbits, pte, cnt, done, frame, owned >>

\* ... and then sets them.
vaddr_set(t) ==
    /\ At(t, "vset")
    /\ vbits' = bitmap_set(vbits, start[t], cnt[t])
    /\ Goto(t, "pscan")
    /\ UNCHANGED << all_mem, pbits, pte, cnt, start, done, frame, owned >>

\* palloc, the same in two steps.  When no frame is left malloc_page returns
\* NULL, and the pages and frames it has taken stay taken.
palloc_scan(t) ==
    /\ At(t, "pscan")
    /\ \/ /\ Full(pbits, 1)
          /\ Goto(t, "idle")
          /\ UNCHANGED frame
       \/ /\ ~ Full(pbits, 1)
          /\ frame' = [frame EXCEPT ![t] = bitmap_scan(pbits, 1)]
          /\ Goto(t, "pset")
    /\ UNCHANGED << all_mem, vbits, pbits, pte, cnt, start, done, owned >>

\* Mutated form: the bit is not set.
palloc_set_not(t) ==
    /\ At(t, "pset")
    /\ Goto(t, "map")
    /\ UNCHANGED << all_mem, vbits, pbits, pte, cnt, start, done, frame, owned >>

palloc_set(t) ==
    /\ At(t, "pset")
    /\ pbits' = bitmap_set(pbits, frame[t], 1)
    /\ Goto(t, "map")
    /\ UNCHANGED << all_mem, vbits, pte, cnt, start, done, frame, owned >>

\* page_table_add, and the end of malloc_page's loop; after the last page
\* the call returns.
page_table_add(t) ==
    LET page == start[t] + done[t] IN
    /\ At(t, "map")
    /\ pte' = [p \in DOMAIN pte \cup {page} |->
                  IF p = page THEN frame[t] ELSE pte[p]]
    /\ done' = [done EXCEPT ![t] = @ + 1]
    /\ \/ /\ done[t] + 1 < cnt[t]
          /\ Goto(t, "pscan")
          /\ UNCHANGED owned
       \/ /\ done[t] + 1 = cnt[t]
          /\ Goto(t, "idle")
          /\ owned' = [owned EXCEPT ![t] = @ \cup Bits(start[t], cnt[t])]
    /\ UNCHANGED << all_mem, vbits, pbits, cnt, start, frame >>

MemNext ==
    \E t \in Caller :
        \/ \E n \in Request : malloc_page(t, n)
        \/ vaddr_scan(t) \/ vaddr_set(t)
        \/ palloc_scan(t) \/ palloc_set(t)
        \/ page_table_add(t)

MemSpec == mem_init /\ [][MemNext]_memVars

-----------------------------------------------------------------------------
Owned == UNION {owned[t] : t \in Caller}
Idle == \A t \in Caller : pc[t] = "idle"

MemTypeOK ==
    /\ all_mem \in Detected
    /\ vbits \subseteq 0 .. Pages(all_mem) - 1
    /\ pbits \subseteq 0 .. Pages(all_mem) - 1
    /\ DOMAIN pte \subseteq Nat
    /\ \A p \in DOMAIN pte : pte[p] \in Nat
    /\ pc \in [Caller -> {"idle", "vscan", "vset", "pscan", "pset", "map"}]
    /\ cnt \in [Caller -> Nat]
    /\ start \in [Caller -> Nat]
    /\ done \in [Caller -> Nat]
    /\ frame \in [Caller -> Nat]
    /\ owned \in [Caller -> SUBSET (0 .. Pages(all_mem) - 1)]

\* mem_pool_init: the three bitmaps end below the TCB of the main thread, the
\* pools share no frame and lie in the memory that was found (less than 2 MB is
\* the case of Loader!PoolIsRam), and the heap ends below the window on the page
\* tables.
LayoutOK ==
    LET m == all_mem IN
    /\ MEM_BITMAP_BASE + 2 * kbm_length(m) + ubm_length(m) <= MainTCB
    /\ used_mem + 8 * kbm_length(m) <= used_mem + kernel_free_pages(m)
    /\ used_mem <= m => used_mem + kernel_free_pages(m) + 8 * ubm_length(m) <= m
    /\ K_HEAP_START + Pages(m) <= PageTables

\* malloc_page's loop never runs out of frames after vaddr_get succeeded: it
\* has no way to give back what it took.
PallocSucceeds ==
    \A t \in Caller : pc[t] = "pscan" => ~ Full(pbits, 1)

\* Between calls every page and every frame taken is one somebody was given:
\* a call that returns NULL has taken nothing.
NothingLeaks ==
    Idle => vbits = Owned /\ pbits = {pte[p] : p \in Owned}

\* get_kernel_pages implements its promise, as long as callers do not get between
\* the scan and the setting of another's bits.
Alloc == INSTANCE PageGrant
           WITH backing <- [p \in Owned |-> pte[p]]
GrantsPages == Alloc!GrantSpec

=============================================================================
