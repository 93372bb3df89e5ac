---------------------------- MODULE MemoryProofs ----------------------------
(***************************************************************************)
(* Proofs about Memory and Paging, for any callers, requests and sizes of  *)
(* memory.                                                                 *)
(***************************************************************************)
EXTENDS Paging, TLAPS

-----------------------------------------------------------------------------
\* The pools that mem_pool_init lays out, by integer arithmetic.
LEMMA PoolArithmetic ==
    ASSUME NEW m \in Nat
    PROVE  /\ kbm_length(m) \in Nat /\ kbm_length(m) <= 4095
           /\ ubm_length(m) \in Nat /\ ubm_length(m) <= 4096
           /\ kernel_free_pages(m) \in Nat
           /\ 8 * kbm_length(m) <= kernel_free_pages(m)
           /\ 512 <= m => kernel_free_pages(m) + 8 * ubm_length(m) <= m - 512
<1> DEFINE a == all_free_pages(m)
           k == kernel_free_pages(m)
           u == user_free_pages(m)
<1>1. m - 512 \in Int
    BY SMT
<1>2. a \in Nat /\ a < 65536 /\ (512 <= m => a <= m - 512)
    BY <1>1, SMT DEF all_free_pages, used_mem
<1>3. k = a \div 2 /\ u = a - k
    BY SMT DEF kernel_free_pages, user_free_pages
<1>4. /\ kbm_length(m) = k \div 8
      /\ ubm_length(m) = u \div 8
    BY SMT DEF kbm_length, ubm_length
<1> HIDE DEF a, k, u
<1>5. /\ k \in Nat /\ k <= 32767
      /\ u \in Nat /\ u <= 32768
      /\ k + u = a
    BY <1>2, <1>3, SMT
<1>6. /\ k \div 8 \in Nat /\ k \div 8 <= 4095 /\ 8 * (k \div 8) <= k
      /\ u \div 8 \in Nat /\ u \div 8 <= 4096 /\ 8 * (u \div 8) <= u
    BY <1>5, SMT
<1>7. 512 <= m => k + 8 * (u \div 8) <= m - 512
    BY <1>1, <1>2, <1>5, <1>6, SMT
<1>8. k \in Nat /\ 8 * (k \div 8) <= k
    BY <1>5, <1>6
<1> QED BY <1>4, <1>6, <1>7, <1>8, SMT DEF k

\* mem_pool_init: for every size of memory the bitmaps stay below the TCB of
\* the main thread and the pools are disjoint and inside the memory.
THEOREM PoolLayout == MemSpec => []LayoutOK
<1>1. ASSUME all_mem \in Detected PROVE LayoutOK
    <2>1. all_mem \in Nat
        BY <1>1, DetectedAssumption, SMT
    <2> QED BY <2>1, PoolArithmetic, SMT DEF LayoutOK, Pages, used_mem,
               MEM_BITMAP_BASE, MainTCB, K_HEAP_START, PageTables
<1>2. MemSpec => [](all_mem \in Detected)
    <2>1. mem_init => all_mem \in Detected
        BY SMT DEF mem_init
    <2>2. all_mem \in Detected /\ [MemNext]_memVars => (all_mem \in Detected)'
        <3>1. MemNext => UNCHANGED all_mem
            BY SMT DEF MemNext, malloc_page, vaddr_scan, vaddr_set,
                   palloc_scan, palloc_set, page_table_add
        <3>2. UNCHANGED memVars => UNCHANGED all_mem
            BY SMT DEF memVars
        <3> QED BY <3>1, <3>2, SMT
    <2> QED BY <2>1, <2>2, PTL DEF MemSpec
<1> QED BY <1>1, <1>2, PTL

-----------------------------------------------------------------------------
(***************************************************************************)
(* Without a scheduling timer one call runs at a time, and since nothing   *)
(* is freed the bitmaps are always an initial part of ones: v virtual      *)
(* pages and f frames are taken, g pages are mapped, o are owned.          *)
(***************************************************************************)
Taken(v, f, g, o) ==
    /\ v <= Pages(all_mem)
    /\ vbits = 0 .. v - 1
    /\ pbits = 0 .. f - 1
    /\ pte = [p \in 0 .. g - 1 |-> p]
    /\ Owned = 0 .. o - 1

\* No call has set bits that it has not mapped and returned.
Even(v, f, g, o) == f = v /\ g = v /\ o = v

\* How far the call of t is, by its place in the code.
Progress(t, v, f, g, o) ==
    /\ pc[t] = "vscan" => Even(v, f, g, o) /\ cnt[t] > 0 /\ done[t] = 0
    /\ pc[t] = "vset" =>
         /\ Even(v, f, g, o) /\ cnt[t] > 0 /\ done[t] = 0
         /\ start[t] = v /\ v + cnt[t] <= Pages(all_mem)
    /\ pc[t] \in {"pscan", "pset", "map"} =>
         /\ start[t] = o /\ o + cnt[t] = v
         /\ done[t] < cnt[t] /\ g = o + done[t]
    /\ pc[t] \in {"pscan", "pset"} => f = g
    /\ pc[t] \in {"pset", "map"} => frame[t] = g
    /\ pc[t] = "map" => f = g + 1

MemTypes ==
    /\ all_mem \in Detected
    /\ pc \in [Caller -> {"idle", "vscan", "vset", "pscan", "pset", "map"}]
    /\ cnt \in [Caller -> Nat]
    /\ start \in [Caller -> Nat]
    /\ done \in [Caller -> Nat]
    /\ frame \in [Caller -> Nat]
    /\ owned \in [Caller -> SUBSET Nat]

Tally(v, f, g, o) ==
    /\ Taken(v, f, g, o)
    /\ \A t \in Caller : Progress(t, v, f, g, o)
    /\ Idle => Even(v, f, g, o)

MemInv ==
    /\ MemTypes
    /\ \A t, u \in Caller : pc[t] # "idle" /\ pc[u] # "idle" => t = u
    /\ \E v, f, g, o \in Nat : Tally(v, f, g, o)

LEMMA PagesNat == ASSUME all_mem \in Detected PROVE Pages(all_mem) \in Nat
    BY DetectedAssumption, PoolArithmetic, SMT DEF Pages

\* On a bitmap whose first k bits are set, bitmap_scan returns k, or fails
\* when fewer than n bits follow.
LEMMA ScanPrefix ==
    ASSUME all_mem \in Detected,
           NEW k \in Nat, k <= Pages(all_mem),
           NEW n \in Nat, n > 0
    PROVE  /\ Full(0 .. k - 1, n) <=> k + n > Pages(all_mem)
           /\ ~ Full(0 .. k - 1, n) => bitmap_scan(0 .. k - 1, n) = k
<1> DEFINE P == Pages(all_mem)
<1>1. P \in Nat
    BY PagesNat
<1>2. \A i \in 0 .. P - 1 :
         Fits(0 .. k - 1, n, i) <=> i + n <= P /\ k <= i
    BY <1>1, SMT DEF Fits, Bits
<1>3. Full(0 .. k - 1, n) <=> k + n > P
    BY <1>1, <1>2, SMT DEF Full
<1>4. ASSUME ~ Full(0 .. k - 1, n)
      PROVE  bitmap_scan(0 .. k - 1, n) = k
    <2> DEFINE First(i) == /\ Fits(0 .. k - 1, n, i)
                           /\ \A j \in 0 .. i - 1 : ~ Fits(0 .. k - 1, n, j)
    <2>1. k \in 0 .. P - 1 /\ First(k)
        BY <1>1, <1>2, <1>3, <1>4, SMT
    <2>2. ASSUME NEW i \in 0 .. P - 1, First(i) PROVE i = k
        BY <1>1, <1>2, <2>1, <2>2, SMT
    <2>3. bitmap_scan(0 .. k - 1, n) = CHOOSE i \in 0 .. P - 1 : First(i)
        BY DEF bitmap_scan
    <2> HIDE DEF First
    <2> QED BY <2>1, <2>2, <2>3
<1> QED BY <1>3, <1>4

LEMMA InitTally ==
    ASSUME mem_init PROVE MemInv
<1>1. MemTypes /\ Idle
    BY SMT DEF mem_init, MemTypes, Idle
<1>2. Pages(all_mem) \in Nat
    BY <1>1, PagesNat DEF MemTypes
<1>3. Owned = {}
    BY DEF mem_init, Owned
<1>4. Taken(0, 0, 0, 0)
    BY <1>2, <1>3, SMT DEF mem_init, Taken
<1>5. Tally(0, 0, 0, 0)
    BY <1>1, <1>4, SMT DEF Tally, Progress, Even, Idle
<1>6. \A t, u \in Caller : pc[t] # "idle" /\ pc[u] # "idle" => t = u
    BY <1>1 DEF Idle
<1> QED BY <1>1, <1>5, <1>6, SMT DEF MemInv

\* Pages and frames are taken from v and f on, f never overtakes v.
LEMMA TallyOrder ==
    ASSUME MemInv,
           NEW v \in Nat, NEW f \in Nat, NEW g \in Nat, NEW o \in Nat,
           Tally(v, f, g, o)
    PROVE  o <= v /\ f <= v /\ g <= v /\ o <= g /\ g <= f
<1>1. CASE Idle
    BY <1>1, SMT DEF Tally, Even
<1>2. CASE ~ Idle
    <2>1. PICK t \in Caller : pc[t] # "idle"
        BY <1>2 DEF Idle
    <2>2. Progress(t, v, f, g, o)
        BY <2>1 DEF Tally
    <2>3. /\ pc[t] \in {"idle", "vscan", "vset", "pscan", "pset", "map"}
          /\ cnt[t] \in Nat /\ done[t] \in Nat
        BY <2>1 DEF MemInv, MemTypes
    <2> QED BY <2>1, <2>2, <2>3, SMT DEF Progress, Even
<1> QED BY <1>1, <1>2

-----------------------------------------------------------------------------
\* A step of t restores the invariant if it keeps the tally of t: all others
\* are idle.
LEMMA OneCall ==
    ASSUME NEW t \in Caller,
           NEW v \in Nat, NEW f \in Nat, NEW g \in Nat, NEW o \in Nat,
           MemTypes', \A u \in Caller \ {t} : pc'[u] = "idle",
           Taken(v, f, g, o)', Progress(t, v, f, g, o)',
           pc'[t] = "idle" => Even(v, f, g, o)
    PROVE  MemInv'
<1>1. \A u \in Caller : Progress(u, v, f, g, o)'
    BY DEF Progress
<1>2. Idle' => Even(v, f, g, o)'
    BY DEF Idle, Even
<1> QED BY <1>1, <1>2 DEF MemInv, Tally

\* The steps of a call, by the only caller that is in one.
LEMMA StepTally ==
    ASSUME ~ TimerSchedules, MemInv, [MemNext]_memVars
    PROVE  MemInv'
<1> SUFFICES ASSUME MemNext PROVE MemInv'
    <2>1. CASE UNCHANGED memVars
        <3>1. UNCHANGED << all_mem, vbits, pbits, pte, pc, cnt, start, done,
                           frame, owned >>
            BY <2>1 DEF memVars, callVars
        <3>2. Pages(all_mem)' = Pages(all_mem) /\ UNCHANGED Owned
            BY <3>1 DEF Pages, kbm_length, kernel_free_pages, all_free_pages,
               Owned
        <3>3. ASSUME NEW v \in Nat, NEW f \in Nat, NEW g \in Nat, NEW o \in Nat,
                     Tally(v, f, g, o)
              PROVE  Tally(v, f, g, o)'
            BY <3>1, <3>2, <3>3 DEF Tally, Taken, Progress, Even, Idle
        <3>4. MemTypes'
            BY <3>1 DEF MemInv, MemTypes
        <3> QED BY <3>1, <3>3, <3>4 DEF MemInv
    <2> QED BY <2>1
<1> PICK v \in Nat, f \in Nat, g \in Nat, o \in Nat : Tally(v, f, g, o)
    BY DEF MemInv
<1> DEFINE P == Pages(all_mem)
<1>1. /\ MemTypes
      /\ Pages(all_mem) \in Nat
      /\ Taken(v, f, g, o)
      /\ \A t \in Caller : Progress(t, v, f, g, o)
      /\ Idle => Even(v, f, g, o)
      /\ o <= v /\ f <= v /\ g <= v /\ o <= g /\ g <= f
    <2>1. MemTypes /\ Tally(v, f, g, o)
        BY DEF MemInv
    <2>2. Pages(all_mem) \in Nat
        BY <2>1, PagesNat DEF MemTypes
    <2> QED BY <2>1, <2>2, TallyOrder DEF Tally
<1>2. UNCHANGED all_mem /\ Pages(all_mem)' = Pages(all_mem)
    <2>1. UNCHANGED all_mem
        BY SMT DEF MemNext, malloc_page, vaddr_scan, vaddr_set,
               palloc_scan, palloc_set, page_table_add
    <2> QED BY <2>1 DEF Pages, kbm_length, kernel_free_pages, all_free_pages
<1>3. ASSUME NEW t \in Caller, NEW n \in Request, malloc_page(t, n)
      PROVE  MemInv'
    <2> USE <1>3
    <2>1. /\ n \in Nat
          /\ \A u \in Caller : pc[u] = "idle"
          /\ Even(v, f, g, o)
        BY <1>1, RequestAssumption DEF malloc_page, At, Idle
    <2>2. /\ UNCHANGED << vbits, pbits, pte, start, frame, owned >>
          /\ \/ UNCHANGED << pc, cnt, done >>
             \/ /\ n # 0 /\ pc' = [pc EXCEPT ![t] = "vscan"]
                /\ cnt' = [cnt EXCEPT ![t] = n]
                /\ done' = [done EXCEPT ![t] = 0]
        BY DEF malloc_page, Goto
    <2>3. MemTypes'
        BY <1>1, <1>2, <2>1, <2>2 DEF MemTypes
    <2>4. Taken(v, f, g, o)'
        BY <1>1, <1>2, <2>2 DEF Taken, Owned
    <2>5. /\ \A u \in Caller \ {t} : pc'[u] = "idle"
          /\ Progress(t, v, f, g, o)'
        BY <1>1, <2>1, <2>2, SMT DEF Progress, MemTypes, Even
    <2> QED BY <2>1, <2>3, <2>4, <2>5, OneCall
<1>4. ASSUME NEW t \in Caller, vaddr_scan(t)
      PROVE  MemInv'
    <2>1. /\ pc[t] = "vscan"
          /\ \A u \in Caller \ {t} : pc[u] = "idle"
          /\ Progress(t, v, f, g, o)
        BY <1>1, <1>4 DEF vaddr_scan, At
    <2>2. Even(v, f, g, o) /\ cnt[t] \in Nat /\ cnt[t] > 0 /\ done[t] = 0
        BY <1>1, <2>1 DEF Progress, MemTypes
    <2>3. /\ Full(vbits, cnt[t]) <=> v + cnt[t] > Pages(all_mem)
          /\ ~ Full(vbits, cnt[t]) => bitmap_scan(vbits, cnt[t]) = v
        BY <1>1, <2>2, ScanPrefix DEF Taken, MemTypes
    <2>4. /\ UNCHANGED << vbits, pbits, pte, cnt, done, frame, owned >>
          /\ \/ pc' = [pc EXCEPT ![t] = "idle"] /\ UNCHANGED start
             \/ /\ v + cnt[t] <= Pages(all_mem)
                /\ pc' = [pc EXCEPT ![t] = "vset"]
                /\ start' = [start EXCEPT ![t] = v]
        BY <1>1, <1>4, <2>2, <2>3, SMT DEF vaddr_scan, Goto
    <2>5. MemTypes'
        BY <1>1, <1>2, <2>4 DEF MemTypes
    <2>6. Taken(v, f, g, o)'
        BY <1>1, <1>2, <2>4 DEF Taken, Owned
    <2>7. /\ \A u \in Caller \ {t} : pc'[u] = "idle"
          /\ Progress(t, v, f, g, o)'
        BY <1>1, <1>2, <2>1, <2>2, <2>4, SMT DEF Progress, MemTypes, Even
    <2> QED BY <2>2, <2>5, <2>6, <2>7, OneCall
<1>5. ASSUME NEW t \in Caller, vaddr_set(t)
      PROVE  MemInv'
    <2> PICK n \in Nat : n = cnt[t]
        BY <1>1 DEF MemTypes
    <2>1. /\ pc[t] = "vset"
          /\ \A u \in Caller \ {t} : pc[u] = "idle"
          /\ Progress(t, v, f, g, o)
        BY <1>1, <1>5 DEF vaddr_set, At
    <2>2. /\ Even(v, f, g, o) /\ n \in Nat /\ n > 0 /\ done[t] = 0
          /\ start[t] = v /\ v + n <= Pages(all_mem)
        BY <1>1, <2>1 DEF Progress, MemTypes
    <2>3. /\ vbits' = vbits \cup v .. v + n - 1
          /\ UNCHANGED << pbits, pte, cnt, start, done, frame, owned >>
          /\ pc' = [pc EXCEPT ![t] = "pscan"]
        BY <1>5, <2>2 DEF vaddr_set, Goto, bitmap_set, Bits
    <2>4. MemTypes'
        BY <1>1, <1>2, <2>3 DEF MemTypes
    <2>5. vbits' = 0 .. v + n - 1
        BY <1>1, <2>2, <2>3, SMT DEF Taken
    <2>6. Taken(v + n, f, g, o)'
        <3>1. /\ v + n <= Pages(all_mem)'
              /\ pbits' = pbits /\ pte' = pte /\ Owned' = Owned
            BY <1>2, <2>2, <2>3 DEF Owned
        <3>2. pbits = 0 .. f - 1 /\ pte = [p \in 0 .. g - 1 |-> p] /\ Owned = 0 .. o - 1
            BY <1>1 DEF Taken
        <3> QED BY <2>5, <3>1, <3>2 DEF Taken
    <2>7. /\ \A u \in Caller \ {t} : pc'[u] = "idle"
          /\ pc'[t] # "idle"
          /\ Progress(t, v + n, f, g, o)'
        BY <1>1, <1>2, <2>1, <2>2, <2>3, SMT DEF Progress, MemTypes, Even
    <2>8. v + n \in Nat
        BY <2>2, SMT
    <2> QED BY <2>4, <2>6, <2>7, <2>8, OneCall
<1>6. ASSUME NEW t \in Caller, palloc_scan(t)
      PROVE  MemInv'
    <2>1. /\ pc[t] = "pscan"
          /\ \A u \in Caller \ {t} : pc[u] = "idle"
          /\ Progress(t, v, f, g, o)
        BY <1>1, <1>6 DEF palloc_scan, At
    <2>2. f < v
        BY <1>1, <2>1, SMT DEF Progress, MemTypes
    <2>3. ~ Full(pbits, 1) /\ bitmap_scan(pbits, 1) = f
        <3>1. f <= Pages(all_mem) /\ ~ (f + 1 > Pages(all_mem))
            BY <1>1, <2>2, SMT DEF Taken
        <3>2. /\ Full(0 .. f - 1, 1) <=> f + 1 > Pages(all_mem)
              /\ ~ Full(0 .. f - 1, 1) => bitmap_scan(0 .. f - 1, 1) = f
            <4>1. 1 \in Nat /\ 1 > 0 /\ all_mem \in Detected
                BY <1>1, SMT DEF MemTypes
            <4> QED BY <3>1, <4>1, ScanPrefix
        <3> QED BY <1>1, <3>1, <3>2 DEF Taken
    <2>4. /\ UNCHANGED << vbits, pbits, pte, cnt, start, done, owned >>
          /\ frame' = [frame EXCEPT ![t] = f]
          /\ pc' = [pc EXCEPT ![t] = "pset"]
        BY <1>6, <2>3 DEF palloc_scan, Goto
    <2>5. MemTypes'
        BY <1>1, <1>2, <2>4 DEF MemTypes
    <2>6. Taken(v, f, g, o)'
        BY <1>1, <1>2, <2>4 DEF Taken, Owned
    <2>7. /\ \A u \in Caller \ {t} : pc'[u] = "idle"
          /\ pc'[t] # "idle"
          /\ Progress(t, v, f, g, o)'
        BY <1>1, <1>2, <2>1, <2>4, SMT DEF Progress, MemTypes, Even
    <2> QED BY <2>5, <2>6, <2>7, OneCall
<1>7. ASSUME NEW t \in Caller, palloc_set(t)
      PROVE  MemInv'
    <2>1. /\ pc[t] = "pset"
          /\ \A u \in Caller \ {t} : pc[u] = "idle"
          /\ Progress(t, v, f, g, o)
        BY <1>1, <1>7 DEF palloc_set, At
    <2>2. f = g /\ frame[t] = f
        BY <2>1, SMT DEF Progress
    <2>3. /\ pbits' = pbits \cup f .. f + 1 - 1
          /\ UNCHANGED << vbits, pte, cnt, start, done, frame, owned >>
          /\ pc' = [pc EXCEPT ![t] = "map"]
        BY <1>7, <2>2 DEF palloc_set, Goto, bitmap_set, Bits
    <2>4. MemTypes'
        BY <1>1, <1>2, <2>3 DEF MemTypes
    <2>5. pbits' = 0 .. (f + 1) - 1
        BY <1>1, <2>3, SMT DEF Taken
    <2>6. Taken(v, f + 1, g, o)'
        BY <1>1, <1>2, <2>3, <2>5 DEF Taken, Owned
    <2>7. /\ \A u \in Caller \ {t} : pc'[u] = "idle"
          /\ pc'[t] # "idle"
          /\ Progress(t, v, f + 1, g, o)'
        BY <1>1, <1>2, <2>1, <2>2, <2>3, SMT DEF Progress, MemTypes, Even
    <2>8. f + 1 \in Nat
        BY SMT
    <2> QED BY <2>4, <2>6, <2>7, <2>8, OneCall
<1>8. ASSUME NEW t \in Caller, page_table_add(t)
      PROVE  MemInv'
    <2>1. /\ pc[t] = "map"
          /\ \A u \in Caller \ {t} : pc[u] = "idle"
          /\ Progress(t, v, f, g, o)
        BY <1>1, <1>8 DEF page_table_add, At
    <2>2. /\ cnt[t] \in Nat /\ done[t] \in Nat /\ start[t] = o
          /\ o + cnt[t] = v /\ done[t] < cnt[t] /\ g = o + done[t]
          /\ frame[t] = g /\ f = g + 1
        BY <1>1, <2>1, SMT DEF Progress, MemTypes
    <2>3. /\ pte' = [p \in DOMAIN pte \cup {g} |-> IF p = g THEN g ELSE pte[p]]
          /\ done' = [done EXCEPT ![t] = @ + 1]
          /\ UNCHANGED << vbits, pbits, cnt, start, frame >>
        BY <1>8, <2>2 DEF page_table_add
    <2>4. pte' = [p \in 0 .. (g + 1) - 1 |-> p]
        <3>1. DOMAIN pte = 0 .. g - 1 /\ \A p \in 0 .. g - 1 : pte[p] = p
            BY <1>1 DEF Taken
        <3>2. (0 .. g - 1) \cup {g} = 0 .. (g + 1) - 1
            BY SMT
        <3> QED BY <2>3, <3>1, <3>2
    <2>5. CASE done[t] + 1 < cnt[t]
        <3>1. pc' = [pc EXCEPT ![t] = "pscan"] /\ UNCHANGED owned
            BY <1>8, <2>2, <2>5, SMT DEF page_table_add, Goto
        <3>2. MemTypes'
            BY <1>1, <1>2, <2>3, <3>1 DEF MemTypes
        <3>3. Taken(v, f, g + 1, o)'
            BY <1>1, <1>2, <2>3, <2>4, <3>1 DEF Taken, Owned
        <3>4. /\ \A u \in Caller \ {t} : pc'[u] = "idle"
              /\ pc'[t] # "idle"
              /\ Progress(t, v, f, g + 1, o)'
            BY <1>1, <2>1, <2>2, <2>3, <2>5, <3>1, SMT DEF Progress, MemTypes
        <3>5. g + 1 \in Nat
            BY SMT
        <3> QED BY <3>2, <3>3, <3>4, <3>5, OneCall
    <2>6. CASE done[t] + 1 = cnt[t]
        <3>1. /\ pc' = [pc EXCEPT ![t] = "idle"]
              /\ owned' = [owned EXCEPT ![t] = @ \cup o .. o + cnt[t] - 1]
            BY <1>8, <2>2, <2>6, SMT DEF page_table_add, Goto, Bits
        <3>2. MemTypes'
            BY <1>1, <1>2, <2>2, <2>3, <3>1, SMT DEF MemTypes
        <3>3. Owned' = 0 .. v - 1
            <4>1. Owned' = Owned \cup o .. v - 1
                BY <1>1, <2>2, <3>1, SMT DEF Owned, MemTypes
            <4> QED BY <1>1, <4>1, SMT DEF Taken
        <3>4. g + 1 = v /\ f = v
            BY <2>2, <2>6, SMT
        <3>5. Taken(v, v, v, v)'
            BY <1>1, <1>2, <2>3, <2>4, <3>3, <3>4 DEF Taken
        <3>6. /\ \A u \in Caller \ {t} : pc'[u] = "idle"
              /\ Progress(t, v, v, v, v)'
              /\ Even(v, v, v, v)
            BY <1>1, <2>1, <3>1, SMT DEF Progress, MemTypes, Even
        <3> QED BY <3>2, <3>5, <3>6, OneCall
    <2> QED BY <2>2, <2>5, <2>6, SMT
<1> QED BY <1>3, <1>4, <1>5, <1>6, <1>7, <1>8 DEF MemNext

LEMMA MemInvariant ==
    ASSUME ~ TimerSchedules
    PROVE  MemSpec => []MemInv
<1>1. mem_init => MemInv
    BY InitTally
<1>2. MemInv /\ [MemNext]_memVars => MemInv'
    BY StepTally
<1> QED BY <1>1, <1>2, PTL DEF MemSpec

-----------------------------------------------------------------------------
\* Unless the timer switches threads: the bits that are set are inside the bitmap,
\* malloc_page finds a frame for every page it reserved, and nothing that is
\* taken is lost.
THEOREM PagesSafe ==
    ASSUME ~ TimerSchedules
    PROVE  MemSpec => [](MemTypeOK /\ PallocSucceeds /\ NothingLeaks)
<1>1. ASSUME MemInv
      PROVE  MemTypeOK /\ PallocSucceeds /\ NothingLeaks
    <2> USE <1>1
    <2> PICK v \in Nat, f \in Nat, g \in Nat, o \in Nat : Tally(v, f, g, o)
        BY DEF MemInv
    <2>1. /\ MemTypes
          /\ Taken(v, f, g, o)
          /\ \A t \in Caller : Progress(t, v, f, g, o)
          /\ Idle => Even(v, f, g, o)
        BY DEF MemInv, Tally
    <2>2. o <= v /\ f <= v /\ v <= Pages(all_mem) /\ Pages(all_mem) \in Nat
        BY <2>1, TallyOrder, PagesNat DEF Taken, MemTypes
    <2>3. MemTypeOK
        <3>1. \A t \in Caller : owned[t] \subseteq 0 .. Pages(all_mem) - 1
            <4>1. \A t \in Caller : owned[t] \subseteq 0 .. o - 1
                BY <2>1 DEF Owned, Taken
            <4> QED BY <2>2, <4>1, SMT
        <3>2. owned \in [Caller -> SUBSET (0 .. Pages(all_mem) - 1)]
            BY <2>1, <3>1 DEF MemTypes
        <3>3. /\ vbits \subseteq 0 .. Pages(all_mem) - 1
              /\ pbits \subseteq 0 .. Pages(all_mem) - 1
              /\ DOMAIN pte \subseteq Nat
              /\ \A p \in DOMAIN pte : pte[p] \in Nat
            BY <2>1, <2>2, SMT DEF Taken
        <3> QED BY <2>1, <3>2, <3>3 DEF MemTypeOK, MemTypes
    <2>4. PallocSucceeds
        <3>1. SUFFICES ASSUME NEW t \in Caller, pc[t] = "pscan"
                       PROVE  ~ Full(pbits, 1)
            BY DEF PallocSucceeds
        <3>2. f < v
            BY <2>1, <3>1, SMT DEF Progress, MemTypes
        <3>3. Full(0 .. f - 1, 1) <=> f + 1 > Pages(all_mem)
            <4>1. /\ f <= Pages(all_mem)
                  /\ 1 \in Nat /\ 1 > 0 /\ all_mem \in Detected
                BY <2>1, <2>2, SMT DEF MemTypes
            <4> QED BY <4>1, ScanPrefix
        <3> QED BY <2>1, <2>2, <3>2, <3>3, SMT DEF Taken
    <2>5. NothingLeaks
        BY <2>1, SMT DEF NothingLeaks, Even, Taken
    <2> QED BY <2>3, <2>4, <2>5
<1>2. MemSpec => []MemInv
    BY MemInvariant
<1> QED BY <1>1, <1>2, PTL

\* Unless the timer switches threads, get_kernel_pages implements PageGrant:
\* each page it returns is new and is backed by a frame of its own for good.
THEOREM PagesGranted ==
    ASSUME ~ TimerSchedules
    PROVE  MemSpec => GrantsPages
<1> DEFINE backing == [p \in Owned |-> pte[p]]
<1>1. mem_init => Alloc!GrantInit
    BY DEF mem_init, Alloc!GrantInit, Owned
<1>2. ASSUME MemInv, MemInv', [MemNext]_memVars
      PROVE  [Alloc!GrantNext]_<< owned, backing >>
    <2> USE <1>2
    <2> PICK v \in Nat, f \in Nat, g \in Nat, o \in Nat : Tally(v, f, g, o)
        BY DEF MemInv
    <2>1. /\ MemTypes /\ Taken(v, f, g, o)
          /\ \A t \in Caller : Progress(t, v, f, g, o)
          /\ o <= g
        BY TallyOrder DEF MemInv, Tally
    <2>2. ASSUME UNCHANGED owned, \A p \in Owned : pte'[p] = pte[p]
          PROVE  UNCHANGED << owned, backing >>
        BY <2>2 DEF Owned
    <2>3. CASE UNCHANGED << pte, owned >>
        BY <2>2, <2>3
    <2>4. CASE \E t \in Caller : page_table_add(t)
        <3>1. PICK t \in Caller : page_table_add(t)
            BY <2>4
        <3>2. /\ cnt[t] \in Nat /\ done[t] \in Nat /\ start[t] = o
              /\ o + cnt[t] = v /\ done[t] < cnt[t] /\ g = o + done[t]
              /\ frame[t] = g
            BY <2>1, <3>1, SMT DEF Progress, MemTypes, page_table_add, At
        <3>3. pte' = [p \in DOMAIN pte \cup {g} |-> IF p = g THEN g ELSE pte[p]]
            BY <3>1, <3>2 DEF page_table_add
        <3>4. pte' = [p \in 0 .. g |-> p]
            <4>1. DOMAIN pte = 0 .. g - 1 /\ \A p \in 0 .. g - 1 : pte[p] = p
                BY <2>1 DEF Taken
            <4>2. (0 .. g - 1) \cup {g} = 0 .. g
                BY SMT
            <4> QED BY <3>3, <4>1, <4>2
        <3>5. /\ Owned = 0 .. o - 1
              /\ \A p \in Owned : pte[p] = p /\ pte'[p] = p
            BY <2>1, <3>4, SMT DEF Taken
        <3>6. CASE UNCHANGED owned
            BY <2>2, <3>5, <3>6
        <3>7. CASE /\ done[t] + 1 = cnt[t]
                   /\ owned' = [owned EXCEPT ![t] = @ \cup Bits(start[t], cnt[t])]
            <4> DEFINE new == o .. v - 1
            <4>0. Bits(start[t], cnt[t]) = new
                BY <3>2, SMT DEF Bits
            <4> HIDE DEF new
            <4>1. owned' = [owned EXCEPT ![t] = @ \cup new]
                BY <3>7, <4>0
            <4>2. new # {} /\ new \cap Owned = {}
                BY <2>1, <3>2, <3>5, SMT DEF new
            <4>3. owned'[t] \ owned[t] = new
                BY <2>1, <4>1, <4>2 DEF Owned, MemTypes
            <4>4. Alloc!Adjacent(new)
                <5>1. o \in new /\ v - 1 \in new
                    BY <3>2, SMT DEF new
                <5> QED BY <5>1 DEF Alloc!Adjacent, new
            <4>5. Owned' = Owned \cup new
                BY <2>1, <4>1 DEF Owned, MemTypes
            <4>6. \A p \in Owned' : pte'[p] = p
                BY <2>1, <3>2, <3>4, <3>5, <3>7, <4>5, SMT DEF new
            <4>7. /\ DOMAIN backing' = DOMAIN backing \cup new
                  /\ \A p \in DOMAIN backing : backing'[p] = backing[p]
                  /\ IsInjective(backing')
                BY <3>5, <4>5, <4>6 DEF IsInjective
            <4>8. Alloc!Grant(t, owned'[t] \ owned[t])
                BY <4>1, <4>2, <4>3, <4>4, <4>7 DEF Alloc!Grant, Alloc!Owned,
                   Alloc!Adjacent, Alloc!IsInjective, IsInjective, Owned
            <4>9. Alloc!GrantNext
                BY <4>8 DEF Alloc!GrantNext, Alloc!Grant
            <4> QED BY <4>9
        <3> QED BY <3>1, <3>6, <3>7 DEF page_table_add
    <2> QED
        <3>1. CASE UNCHANGED memVars
            BY <2>3, <3>1 DEF memVars
        <3>2. CASE MemNext
            BY <2>3, <2>4, <3>2 DEF MemNext, malloc_page, vaddr_scan,
               vaddr_set, palloc_scan, palloc_set
        <3> QED BY <3>1, <3>2
<1>3. MemSpec => []MemInv
    BY MemInvariant
<1> QED BY <1>1, <1>2, <1>3, PTL DEF GrantsPages, Alloc!GrantSpec, MemSpec

-----------------------------------------------------------------------------
\* The table that maps page p of the heap, and the entry in it.
HeapTable(p) == PageDir + 1 + (256 + p) \div Words
HeapEntry(p) == (256 + p) % Words

\* Page p of the heap is mapped by entry HeapEntry(p) of the table that entry
\* 768 + (256 + p) \div Words of the directory points to.
LEMMA HeapIndex ==
    ASSUME NEW p \in Nat, p < 32768
    PROVE  /\ PDE_IDX(Heap(p)) = 768 + (256 + p) \div Words
           /\ PTE_IDX(Heap(p)) = HeapEntry(p)
           /\ (256 + p) \div Words \in Nat /\ (256 + p) \div Words <= 32
           /\ HeapEntry(p) \in Nat /\ HeapEntry(p) < 1024
<1>1. Heap(p) = (786688 + p) * 1024
    BY DEF Heap, K_HEAP_START, Words
<1>2. Heap(p) \div 1048576 = 768 + (256 + p) \div 1024
    BY <1>1, SMT
<1>3. Heap(p) \div 1024 = 786688 + p
    BY <1>1, SMT
<1>4. (786688 + p) % 1024 = (256 + p) % 1024
    BY SMT
<1>5. /\ (256 + p) \div 1024 \in Nat /\ (256 + p) \div 1024 <= 32
      /\ (256 + p) % 1024 \in Nat /\ (256 + p) % 1024 < 1024
    BY SMT
<1> QED BY <1>2, <1>3, <1>4, <1>5 DEF PDE_IDX, PTE_IDX, HeapEntry, Words

\* pte_ptr leads through the last entry of the directory: a table is a page
\* there, numbered as the entry that points to it.
LEMMA PtePtr ==
    ASSUME NEW v \in Nat, PDE_IDX(v) \in Nat, PDE_IDX(v) < 1024
    PROVE  /\ PDE_IDX(pte_ptr(v)) = 1023
           /\ PTE_IDX(pte_ptr(v)) = PDE_IDX(v)
           /\ pte_ptr(v) % Words = PTE_IDX(v)
<1> DEFINE d == PDE_IDX(v)
           e == PTE_IDX(v)
<1>1. d \in Nat /\ d < 1024 /\ e \in Nat /\ e < 1024
    BY SMT DEF PTE_IDX, Words
<1>2. pte_ptr(v) = 1047552 * 1024 + d * 1024 + e
    BY DEF pte_ptr, PageTables, Words
<1> HIDE DEF d, e
<1>3. /\ pte_ptr(v) \div 1048576 = 1023
      /\ pte_ptr(v) \div 1024 = 1047552 + d
      /\ pte_ptr(v) % 1024 = e
    BY <1>1, <1>2, SMT
<1>4. (1047552 + d) % 1024 = d
    BY <1>1, SMT
<1>5. /\ PDE_IDX(pte_ptr(v)) = pte_ptr(v) \div 1048576
      /\ PTE_IDX(pte_ptr(v)) = (pte_ptr(v) \div 1024) % 1024
    BY DEF PDE_IDX, PTE_IDX, Words
<1> QED BY <1>3, <1>4, <1>5 DEF d, e, Words

\* The directory of the loader: entry 768 + q points to table q.
LEMMA Directory ==
    /\ create_kernel_pde[0] = PageDir + 1
    /\ create_kernel_pde[1023] = PageDir
    /\ \A q \in 0 .. 254 : create_kernel_pde[768 + q] = PageDir + 1 + q
<1>1. \A e \in 0 .. 1023 :
        create_kernel_pde[e] = IF e \in 769 .. 1022 THEN 258 + (e - 769)
                               ELSE create_pde[e]
    BY SMT DEF create_kernel_pde, PageDir, Words
<1>2. create_pde[0] = 257 /\ create_pde[768] = 257 /\ create_pde[1023] = 256
    BY SMT DEF create_pde, PageDir, Words
<1>3. create_kernel_pde[0] = 257 /\ create_kernel_pde[1023] = 256
    BY <1>1, <1>2, SMT
<1>4. ASSUME NEW q \in 0 .. 254
      PROVE  create_kernel_pde[768 + q] = 257 + q
    BY <1>1, <1>2, SMT
<1> QED BY <1>3, <1>4, SMT DEF PageDir

-----------------------------------------------------------------------------
(***************************************************************************)
(* The directory and the first quarter of the first table stay as the      *)
(* loader has made them, and the entries of the heap are Memory's.         *)
(***************************************************************************)
FirstMB == 0 .. 255

RamInv ==
    /\ {PageDir, PageDir + 1} \subseteq DOMAIN ram
    /\ DOMAIN ram \subseteq PageDir .. used_mem - 1
    /\ ram[PageDir] = create_kernel_pde
    /\ \A e \in FirstMB : ram[PageDir + 1][e] = e
    /\ \A p \in DOMAIN pte :
          /\ HeapTable(p) \in DOMAIN ram
          /\ ram[HeapTable(p)][HeapEntry(p)] = used_mem + pte[p]

\* The heap is as large as the pool: its pages fall into the first 33 tables.
LEMMA HeapBound ==
    ASSUME MemInv
    PROVE  /\ Pages(all_mem) \in Nat /\ Pages(all_mem) <= 32760
           /\ \A p \in DOMAIN pte : p \in Nat /\ p < Pages(all_mem)
<1>1. PICK v \in Nat, f \in Nat, g \in Nat, o \in Nat : Tally(v, f, g, o)
    BY DEF MemInv
<1>2. all_mem \in Detected /\ all_mem \in Nat
    BY DetectedAssumption DEF MemInv, MemTypes
<1>3. Pages(all_mem) \in Nat /\ Pages(all_mem) <= 32760
    <2>1. kbm_length(all_mem) \in Nat /\ kbm_length(all_mem) <= 4095
        BY <1>2, PoolArithmetic
    <2> QED BY <2>1, SMT DEF Pages
<1>4. g <= v
    <2>1. MemTypes /\ \A u \in Caller : Progress(u, v, f, g, o)
        BY <1>1 DEF MemInv, Tally
    <2>2. CASE Idle
        BY <1>1, <2>2, SMT DEF Tally, Even
    <2>3. CASE ~ Idle
        <3>1. PICK t \in Caller : pc[t] # "idle"
            BY <2>3 DEF Idle
        <3> QED BY <2>1, <3>1, SMT DEF Progress, Even, MemTypes
    <2> QED BY <2>2, <2>3
<1>5. v <= Pages(all_mem) /\ DOMAIN pte = 0 .. g - 1
    BY <1>1 DEF Tally, Taken
<1> QED BY <1>3, <1>4, <1>5, SMT

LEMMA PagingIsMemory == PagingSpec => MemSpec
<1>1. PagingInit => mem_init
    BY DEF PagingInit
<1>2. [PagingNext]_pagingVars => [MemNext]_memVars
    <2>1. PagingNext => MemNext
        BY DEF PagingNext, MemNext
    <2>2. UNCHANGED pagingVars => UNCHANGED memVars
        BY DEF pagingVars
    <2> QED BY <2>1, <2>2
<1> QED BY <1>1, <1>2, PTL DEF PagingSpec, MemSpec

\* The page that page_table_add maps is one of the heap's.
LEMMA PageInHeap ==
    ASSUME MemInv, NEW t \in Caller, pc[t] = "map"
    PROVE  start[t] + done[t] \in Nat /\ start[t] + done[t] < 32760
<1>1. PICK v \in Nat, f \in Nat, g \in Nat, o \in Nat : Tally(v, f, g, o)
    BY DEF MemInv
<1>2. MemTypes /\ Progress(t, v, f, g, o) /\ v <= Pages(all_mem)
    BY <1>1 DEF MemInv, Tally, Taken
<1>3. Pages(all_mem) \in Nat /\ Pages(all_mem) <= 32760
    BY HeapBound
<1> QED BY <1>2, <1>3, SMT DEF Progress, MemTypes

\* page_table_add_entry stores into the entry of the page.
LEMMA EntryStored ==
    ASSUME RamInv, NEW p \in Nat, p < 32760, NEW f,
           page_table_add_entry(Heap(p), f)
    PROVE  ram' = Store(ram, HeapTable(p), HeapEntry(p), f)
<1> PICK v \in Nat : v = Heap(p)
    BY SMT DEF Heap, K_HEAP_START, Words
<1> PICK q \in Nat : q = (256 + p) \div Words
    BY HeapIndex, SMT
<1>1. /\ q <= 32
      /\ PDE_IDX(v) = 768 + q /\ PTE_IDX(v) = HeapEntry(p)
    BY HeapIndex, SMT
<1>2. PDE_IDX(v) \in Nat /\ PDE_IDX(v) < 1024
    BY <1>1, SMT
<1>3. /\ PDE_IDX(pte_ptr(v)) = 1023
      /\ PTE_IDX(pte_ptr(v)) = 768 + q
      /\ pte_ptr(v) % Words = HeapEntry(p)
    BY <1>1, <1>2, PtePtr
<1>4. Frame(ram, pte_ptr(v)) = HeapTable(p)
    <2>1. Table(ram, pte_ptr(v)) = PageDir
        BY <1>3, Directory DEF Table, RamInv
    <2>2. Frame(ram, pte_ptr(v)) = create_kernel_pde[768 + q]
        BY <1>3, <2>1 DEF Frame, RamInv
    <2>3. q \in 0 .. 254
        BY <1>1, SMT
    <2>4. create_kernel_pde[768 + q] = PageDir + 1 + q
        BY <2>3, Directory
    <2> QED BY <2>2, <2>4 DEF HeapTable
<1>5. ram' = Store(ram, Frame(ram, pte_ptr(v)), pte_ptr(v) % Words, f)
    BY DEF page_table_add_entry
<1> QED BY <1>3, <1>4, <1>5

\* No two pages of the heap have the same entry, and none has one of the first
\* 256 of the first table.
LEMMA HeapDistinct ==
    ASSUME NEW p \in Nat, p < 32768
    PROVE  /\ \A r \in Nat : HeapTable(r) = HeapTable(p) /\ HeapEntry(r) = HeapEntry(p)
                                => r = p
           /\ HeapTable(p) = PageDir + 1 => HeapEntry(p) > 255
           /\ HeapTable(p) \in Nat /\ HeapTable(p) > 256 /\ HeapTable(p) < 512
<1>1. (256 + p) \div 1024 \in Nat /\ (256 + p) \div 1024 <= 32
    BY SMT
<1>2. (256 + p) \div 1024 = 0 => (256 + p) % 1024 = 256 + p
    BY SMT
<1>3. ASSUME NEW r \in Nat,
             (256 + r) \div 1024 = (256 + p) \div 1024,
             (256 + r) % 1024 = (256 + p) % 1024
      PROVE  r = p
    <2>1. 256 + r = 256 + p
        <3>1. \A x, y \in Nat : x \div 1024 = y \div 1024 /\ x % 1024 = y % 1024 => x = y
            BY SMT
        <3>2. 256 + r \in Nat /\ 256 + p \in Nat
            BY SMT
        <3> QED BY <1>3, <3>1, <3>2
    <2> QED BY <2>1, SMT
<1>4. ASSUME NEW r \in Nat, HeapTable(r) = HeapTable(p), HeapEntry(r) = HeapEntry(p)
      PROVE  r = p
    <2>1. (256 + r) \div 1024 \in Int /\ (256 + p) \div 1024 \in Int
        BY SMT
    <2> QED BY <1>3, <1>4, <2>1, SMT DEF HeapTable, HeapEntry, PageDir, Words
<1>5. HeapTable(p) = PageDir + 1 => HeapEntry(p) > 255
    BY <1>1, <1>2, SMT DEF HeapTable, HeapEntry, PageDir, Words
<1>6. HeapTable(p) \in Nat /\ HeapTable(p) > 256 /\ HeapTable(p) < 512
    BY <1>1, SMT DEF HeapTable, PageDir, Words
<1> QED BY <1>4, <1>5, <1>6

LEMMA RamInitial == PagingInit => RamInv
<1> SUFFICES ASSUME PagingInit PROVE RamInv
    OBVIOUS
<1>1. PageDir # PageDir + 1
    BY SMT DEF PageDir
<1>2. /\ DOMAIN ram = {PageDir, PageDir + 1}
      /\ ram[PageDir] = create_kernel_pde
      /\ ram[PageDir + 1] = create_pte
    BY <1>1, Zenon DEF PagingInit, setup_page
<1>3. \A e \in FirstMB : create_pte[e] = e
    BY SMT DEF create_pte, Words, FirstMB
<1>4. DOMAIN pte = {}
    BY DEF PagingInit, mem_init
<1>5. {PageDir, PageDir + 1} \subseteq PageDir .. used_mem - 1
    BY SMT DEF PageDir, used_mem
<1> QED BY <1>2, <1>3, <1>4, <1>5, Zenon DEF RamInv

LEMMA RamStep ==
    ASSUME MemInv, RamInv, [PagingNext]_pagingVars
    PROVE  RamInv'
<1>1. CASE UNCHANGED << ram, pte >>
    BY <1>1 DEF RamInv
<1>2. ASSUME NEW t \in Caller, page_table_add(t),
             page_table_add_entry(Heap(start[t] + done[t]), used_mem + frame[t])
      PROVE  RamInv'
    <2>1. pc[t] = "map"
        BY <1>2 DEF page_table_add, At
    <2> PICK p \in Nat : p = start[t] + done[t]
        BY <2>1, PageInHeap, SMT
    <2>0. p < 32760
        BY <2>1, PageInHeap, SMT
    <2> DEFINE T == HeapTable(p)
               E == HeapEntry(p)
               f == used_mem + frame[t]
    <2>2. ram' = Store(ram, T, E, f)
        BY <1>2, <2>0, EntryStored, SMT
    <2>3. /\ DOMAIN pte' = DOMAIN pte \cup {p}
          /\ pte'[p] = frame[t]
          /\ \A r \in DOMAIN pte : r # p => pte'[r] = pte[r]
        BY <1>2 DEF page_table_add
    <2>4. /\ T \in PageDir .. used_mem - 1
          /\ T # PageDir
          /\ T = PageDir + 1 => E \notin FirstMB
          /\ E \in 0 .. Words - 1
        <3>1. /\ T \in Nat /\ T > 256 /\ T < 512
              /\ T = 257 => E > 255
              /\ E \in Nat /\ E < 1024
            BY <2>0, HeapDistinct, HeapIndex, SMT DEF PageDir
        <3> QED BY <3>1, SMT DEF PageDir, used_mem, FirstMB, Words
    <2>5. \A r \in DOMAIN pte : HeapTable(r) = T /\ HeapEntry(r) = E => r = p
        BY <2>0, HeapBound, HeapDistinct, SMT
    <2>6. \A r \in DOMAIN pte : HeapEntry(r) \in 0 .. Words - 1
        <3>1. \A r \in DOMAIN pte : r \in Nat /\ r < 32768
            BY HeapBound, SMT
        <3>2. \A r \in DOMAIN pte : HeapEntry(r) \in Nat /\ HeapEntry(r) < 1024
            BY <3>1, HeapIndex, SMT
        <3> QED BY <3>2, SMT DEF Words
    <2>7. /\ PageDir # PageDir + 1
          /\ FirstMB \subseteq 0 .. Words - 1
        BY SMT DEF PageDir, FirstMB, Words
    <2> HIDE DEF T, E, f
    <2>8. /\ DOMAIN ram' = DOMAIN ram \cup {T}
          /\ ram'[T][E] = f
          /\ \A g \in DOMAIN ram : g # T => ram'[g] = ram[g]
          /\ T \in DOMAIN ram =>
                \A k \in 0 .. Words - 1 : k # E => ram'[T][k] = ram[T][k]
        <3> DEFINE new == [k \in 0 .. Words - 1 |->
                              IF k = E THEN f
                              ELSE IF T \in DOMAIN ram THEN ram[T][k] ELSE Unwritten]
        <3>1. ram' = [g \in DOMAIN ram \cup {T} |-> IF g # T THEN ram[g] ELSE new]
            BY <2>2, Zenon DEF Store
        <3>2. new[E] = f
            BY <2>4, Zenon
        <3>3. ASSUME T \in DOMAIN ram, NEW k \in 0 .. Words - 1, k # E
              PROVE  new[k] = ram[T][k]
            BY <3>3, Zenon
        <3> HIDE DEF new
        <3>4. /\ DOMAIN ram' = DOMAIN ram \cup {T}
              /\ ram'[T] = new
              /\ \A g \in DOMAIN ram : g # T => ram'[g] = ram[g]
            BY <3>1, Zenon
        <3> QED BY <3>2, <3>3, <3>4, Zenon
    <2>9. ram'[PageDir] = create_kernel_pde
        BY <2>4, <2>8, Zenon DEF RamInv
    <2>10. ASSUME NEW e \in FirstMB
           PROVE  ram'[PageDir + 1][e] = e
        <3>1. PageDir + 1 \in DOMAIN ram /\ ram[PageDir + 1][e] = e
            BY Zenon DEF RamInv
        <3>2. CASE T = PageDir + 1
            BY <2>4, <2>7, <2>8, <3>1, <3>2, Zenon
        <3>3. CASE T # PageDir + 1
            BY <2>8, <3>1, <3>3, Zenon
        <3> QED BY <3>2, <3>3
    <2>11. ASSUME NEW r \in DOMAIN pte'
           PROVE  /\ HeapTable(r) \in DOMAIN ram'
                  /\ ram'[HeapTable(r)][HeapEntry(r)] = used_mem + pte'[r]
        <3>1. CASE r = p
            <4>1. HeapTable(r) = T /\ HeapEntry(r) = E /\ used_mem + pte'[r] = f
                BY <2>3, <3>1 DEF T, E, f
            <4> QED BY <2>8, <4>1, Zenon
        <3>2. CASE r # p
            <4>1. r \in DOMAIN pte /\ pte'[r] = pte[r]
                BY <2>3, <3>2
            <4>2. /\ HeapTable(r) \in DOMAIN ram
                  /\ ram[HeapTable(r)][HeapEntry(r)] = used_mem + pte[r]
                BY <4>1 DEF RamInv
            <4>3. HeapEntry(r) \in 0 .. Words - 1
                BY <2>6, <4>1
            <4>4. CASE HeapTable(r) = T
                <5>1. HeapEntry(r) # E
                    BY <2>5, <3>2, <4>1, <4>4
                <5> QED BY <2>8, <4>1, <4>2, <4>3, <4>4, <5>1, Zenon
            <4>5. CASE HeapTable(r) # T
                BY <2>8, <4>1, <4>2, <4>5, Zenon
            <4> QED BY <4>4, <4>5
        <3> QED BY <3>1, <3>2
    <2>12. DOMAIN ram' \subseteq PageDir .. used_mem - 1
        BY <2>4, <2>8, Zenon DEF RamInv
    <2>13. {PageDir, PageDir + 1} \subseteq DOMAIN ram'
        BY <2>8, Zenon DEF RamInv
    <2> QED BY <2>9, <2>10, <2>11, <2>12, <2>13, Zenon DEF RamInv
<1>3. ASSUME NEW t \in Caller,
             \/ \E n \in Request : malloc_page(t, n)
             \/ vaddr_scan(t) \/ vaddr_set(t)
             \/ palloc_scan(t) \/ palloc_set(t),
             UNCHANGED ram
      PROVE  UNCHANGED << ram, pte >>
    BY <1>3 DEF malloc_page, vaddr_scan, vaddr_set, palloc_scan, palloc_set
<1>4. CASE UNCHANGED pagingVars
    BY <1>1, <1>4 DEF pagingVars, memVars
<1>5. CASE PagingNext
    BY <1>1, <1>2, <1>3, <1>5 DEF PagingNext
<1> QED BY <1>4, <1>5

LEMMA PagingInvariant ==
    ASSUME ~ TimerSchedules
    PROVE  PagingSpec => [](MemInv /\ RamInv)
<1>1. PagingInit => RamInv
    BY RamInitial
<1>2. MemInv /\ RamInv /\ [PagingNext]_pagingVars => RamInv'
    BY RamStep
<1>3. PagingSpec => []MemInv
    BY PagingIsMemory, MemInvariant, PTL
<1> QED BY <1>1, <1>2, <1>3, PTL DEF PagingSpec

-----------------------------------------------------------------------------
\* memory.h: whatever is allocated, the first MB stays mapped at 0 and at 3 GB,
\* and the directory and the tables of the kernel at the end of memory.
THEOREM LoaderMapsStay ==
    ASSUME ~ TimerSchedules
    PROVE  PagingSpec => []MapsAsDocumented
<1>1. ASSUME RamInv
      PROVE  MapsAsDocumented
    <2> USE <1>1
    <2>1. /\ {256, 257} \subseteq DOMAIN ram
          /\ ram[256] = create_kernel_pde
          /\ \A e \in 0 .. 255 : ram[257][e] = e
        BY SMT DEF RamInv, PageDir, FirstMB
    <2>2. /\ create_kernel_pde[0] = 257 /\ create_kernel_pde[768] = 257
          /\ create_kernel_pde[1023] = 256
          /\ \A q \in 0 .. 254 : create_kernel_pde[768 + q] = 257 + q
        <3>1. \A q \in 0 .. 254 : create_kernel_pde[768 + q] = 257 + q
            BY Directory, SMT DEF PageDir
        <3>2. create_kernel_pde[768 + 0] = 257 + 0
            BY <3>1, SMT
        <3> QED BY <3>1, <3>2, Directory, SMT DEF PageDir
    <2>3. ASSUME NEW p \in 0 .. 255
          PROVE  MapsTo(ram, p * Words, p) /\ MapsTo(ram, (786432 + p) * Words, p)
        <3>1. /\ (p * 1024) \div 1048576 = 0
              /\ ((p * 1024) \div 1024) % 1024 = p
              /\ ((786432 + p) * 1024) \div 1048576 = 768
              /\ (((786432 + p) * 1024) \div 1024) % 1024 = p
            BY SMT
        <3>2. /\ PDE_IDX(p * Words) = 0 /\ PTE_IDX(p * Words) = p
              /\ PDE_IDX((786432 + p) * Words) = 768
              /\ PTE_IDX((786432 + p) * Words) = p
            BY <3>1, SMT DEF PDE_IDX, PTE_IDX, Words
        <3>3. /\ Table(ram, p * Words) = 257
              /\ Table(ram, (786432 + p) * Words) = 257
            BY <2>1, <2>2, <3>2, SMT DEF Table, PageDir
        <3> QED BY <2>1, <3>2, <3>3, SMT DEF MapsTo, Frame
    <2>4. ASSUME NEW e \in 0 .. 1023
          PROVE  /\ Table(ram, (PageTables + e) * Words) = 256
                 /\ Frame(ram, (PageTables + e) * Words) = create_kernel_pde[e]
        <3>1. /\ ((1047552 + e) * 1024) \div 1048576 = 1023
              /\ (((1047552 + e) * 1024) \div 1024) % 1024 = e
            BY SMT
        <3>2. /\ PDE_IDX((PageTables + e) * Words) = 1023
              /\ PTE_IDX((PageTables + e) * Words) = e
            BY <3>1, SMT DEF PDE_IDX, PTE_IDX, Words, PageTables
        <3>3. Table(ram, (PageTables + e) * Words) = 256
            BY <2>1, <2>2, <3>2, SMT DEF Table, PageDir
        <3> QED BY <2>1, <3>2, <3>3, SMT DEF Frame
    <2>5. MapsTo(ram, PageTables * Words, PageDir + 1)
        <3>1. PageTables = PageTables + 0 /\ 0 \in 0 .. 1023 /\ PageDir + 1 = 257
            BY SMT DEF PageTables, PageDir
        <3> QED BY <2>1, <2>2, <2>4, <3>1, SMT DEF MapsTo
    <2>6. ASSUME NEW e \in 768 .. 1022
          PROVE  MapsTo(ram, (PageTables + e) * Words, PageDir + 1 + (e - 768))
        <3> PICK q \in 0 .. 254 : e = 768 + q
            BY SMT
        <3>1. e \in 0 .. 1023 /\ PageDir + 1 + (e - 768) = 257 + q
            BY SMT DEF PageDir
        <3> QED BY <2>1, <2>2, <2>4, <3>1, SMT DEF MapsTo
    <2>7. MapsTo(ram, 1048575 * Words, PageDir)
        <3>1. 1048575 = PageTables + 1023 /\ 1023 \in 0 .. 1023 /\ PageDir = 256
            BY SMT DEF PageTables, PageDir
        <3> QED BY <2>1, <2>2, <2>4, <3>1, SMT DEF MapsTo
    <2>8. \A p \in 0 .. 255 :
             /\ MapsTo(ram, p * Words, p)
             /\ MapsTo(ram, (786432 + p) * Words, p)
        BY <2>3
    <2>9. \A e \in 768 .. 1022 :
             MapsTo(ram, (PageTables + e) * Words, PageDir + 1 + (e - 768))
        BY <2>6
    <2> QED BY <2>5, <2>7, <2>8, <2>9, SMT DEF MapsAsDocumented, PageDir, PageTables, Words
<1> QED BY <1>1, PagingInvariant, PTL

\* page_table_add: what the processor finds for a page of the heap, in any of
\* its tables, is the frame that was taken for it.
THEOREM HeapStaysMapped ==
    ASSUME ~ TimerSchedules
    PROVE  PagingSpec => []HeapMapped
<1>1. ASSUME MemInv, RamInv
      PROVE  HeapMapped
    <2>1. SUFFICES ASSUME NEW p \in DOMAIN pte
                   PROVE  MapsTo(ram, Heap(p), used_mem + pte[p])
        BY SMT DEF HeapMapped
    <2>2. p \in Nat /\ p < 32768
        BY <1>1, HeapBound, SMT
    <2> PICK q \in Nat : q = (256 + p) \div Words /\ q <= 32
        BY <2>2, HeapIndex, SMT
    <2>3. /\ PDE_IDX(Heap(p)) = 768 + q
          /\ PTE_IDX(Heap(p)) = HeapEntry(p)
        BY <2>2, HeapIndex, SMT
    <2>4. Table(ram, Heap(p)) = HeapTable(p)
        <3>1. q \in 0 .. 254
            BY SMT
        <3>2. create_kernel_pde[768 + q] = PageDir + 1 + q
            BY <3>1, Directory, SMT
        <3> QED BY <1>1, <2>3, <3>2, SMT DEF Table, RamInv, HeapTable
    <2> QED BY <1>1, <2>3, <2>4, SMT DEF MapsTo, Frame, RamInv
<1> QED BY <1>1, PagingInvariant, PTL

=============================================================================
