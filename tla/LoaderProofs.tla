---------------------------- MODULE LoaderProofs ----------------------------
(***************************************************************************)
(* Proofs about Loader, for any machines and kernels that satisfy its      *)
(* assumptions, and any room for areas, size of a block and of the loader. *)
(***************************************************************************)
EXTENDS Loader, SequenceTheorems, TLAPS

-----------------------------------------------------------------------------
\* What a machine is; the quantifiers of MachineAssumption instantiated.
LEMMA MachineFacts ==
    ASSUME NEW m \in Machine
    PROVE  /\ m.top \in Nat /\ 4096 <= m.top /\ m.top < Word
           /\ m.ram \in Nat /\ m.ram <= m.top /\ 3 * m.top <= 4 * m.ram
           /\ Len(m.ards) \in Nat
           /\ \A k \in 1 .. Len(m.ards) :
                 m.ards[k].base \in Nat /\ m.ards[k].len \in Nat
           /\ \E k \in 1 .. Len(m.ards) : End(m.ards[k]) = m.top
           /\ Len(m.ards) > ArdsRoom
                 => m.ards[ArdsRoom + 1].base \div Word < ArdsRoom
<1>1. m.ards \in Seq([base : Nat, len : Nat])
    BY MachineAssumption
<1>2. Len(m.ards) \in Nat
    BY <1>1
<1>3. ASSUME NEW k \in 1 .. Len(m.ards)
      PROVE  m.ards[k].base \in Nat /\ m.ards[k].len \in Nat
    <2>1. m.ards[k] \in [base : Nat, len : Nat]
        BY <1>1, ElementOfSeq
    <2> QED BY <2>1
<1> QED BY <1>2, <1>3, MachineAssumption, ThirteenthAssumption

\* What find_max_mem_area computes from an area: with less than 2 GB, at most
\* the size of memory, and the size from the area that ends there.
LEMMA AreaFound ==
    ASSUME NEW m \in Machine, NEW k \in 1 .. Len(m.ards)
    PROVE  LET eax == Signed(Low(Low(m.ards[k].base) + Low(m.ards[k].len))) IN
           /\ eax \in Int /\ eax < Word \div 2
           /\ m.top < Word \div 2 =>
                 /\ eax <= m.top
                 /\ End(m.ards[k]) = m.top => eax = m.top
<1>0. m.ards[k].base \in Nat /\ m.ards[k].len \in Nat /\ m.top \in Nat
    BY MachineFacts
<1>01. \/ End(m.ards[k]) <= m.top
       \/ Word \div 2 <= End(m.ards[k]) /\ End(m.ards[k]) <= Word
       \/ Word <= m.ards[k].base /\ Word \div 2 <= m.top
    <2>1. Placed(m, m.ards[k])
        BY MachineAssumption
    <2> QED BY <2>1 DEF Placed
<1> DEFINE b == m.ards[k].base
           l == m.ards[k].len
           t == m.top
           e == Low(Low(b) + Low(l))
<1>1. \/ b + l <= t
      \/ 2097152 <= b + l /\ b + l <= 4194304
      \/ 4194304 <= b /\ 2097152 <= t
    BY <1>0, <1>01, SMT DEF End, Word
<1>2. /\ \A x \in Nat : Low(x) \in Nat /\ Low(x) < 4194304
      /\ \A x \in Nat : x < 4194304 => Low(x) = x
      /\ Low(4194304) = 0
    BY SMT DEF Low, Word
<1>3. b \in Nat /\ l \in Nat /\ t \in Nat
    BY <1>0
<1> HIDE DEF b, l, t
<1>4. e \in Nat /\ e < 4194304
    BY <1>2, <1>3, SMT
<1>5. ASSUME t < 2097152
      PROVE  \/ e = b + l /\ (e <= t \/ e >= 2097152)
             \/ e = 0 /\ b + l > t
    <2>1. CASE b + l < 4194304
        <3>1. Low(b) = b /\ Low(l) = l /\ Low(b + l) = b + l
            BY <1>2, <1>3, <2>1, SMT
        <3> QED BY <1>1, <1>3, <1>5, <3>1, SMT
    <2>2. CASE b = 4194304 /\ l = 0
        <3>1. Low(l) = 0 /\ Low(0) = 0
            BY <1>2, <2>2, SMT
        <3>2. e = 0
            BY <1>2, <2>2, <3>1, SMT
        <3> QED BY <1>3, <1>5, <2>2, <3>2, SMT
    <2>3. CASE b = 0 /\ l = 4194304
        <3>1. Low(b) = 0 /\ Low(0) = 0
            BY <1>2, <2>3, SMT
        <3>2. e = 0
            BY <1>2, <2>3, <3>1, SMT
        <3> QED BY <1>3, <1>5, <2>3, <3>2, SMT
    <2>4. CASE b + l = 4194304 /\ b # 0 /\ l # 0
        <3>1. Low(b) = b /\ Low(l) = l /\ Low(b + l) = 0
            BY <1>2, <1>3, <2>4, SMT
        <3> QED BY <1>3, <1>5, <2>4, <3>1, SMT
    <2> QED BY <1>1, <1>3, <1>5, <2>1, <2>2, <2>3, <2>4, SMT
<1> HIDE DEF e
<1>6. /\ Signed(e) \in Int /\ Signed(e) < 2097152
      /\ e < 2097152 => Signed(e) = e
      /\ e >= 2097152 => Signed(e) < 0
    BY <1>4, SMT DEF Signed, Word
<1>7. t < 2097152 => Signed(e) <= t /\ (b + l = t => Signed(e) = t)
    BY <1>3, <1>4, <1>5, <1>6, SMT
<1>8. End(m.ards[k]) = b + l /\ Word \div 2 = 2097152
    BY SMT DEF End, Word, b, l
<1> QED BY <1>6, <1>7, <1>8 DEF e, b, l, t

-----------------------------------------------------------------------------
(***************************************************************************)
(* The size of memory: while the areas are looked at, edx is the largest   *)
(* of those that have been, and it is right when it is stored.             *)
(***************************************************************************)
Found(x) == Fits => RightSize(machine, x)

DetectInv ==
    /\ machine \in Machine
    /\ nr \in Nat /\ i \in Nat
    /\ edx \in Nat /\ edx < Word
    /\ total_mem_bytes \in Nat /\ total_mem_bytes < Word
    /\ pc \in {"mbr", "e820"} => i = 0 /\ edx = 0
    /\ pc = "scan" =>
          /\ nr <= Len(machine.ards) /\ i < nr
          /\ Fits => nr = Len(machine.ards)
          /\ edx < Word \div 2
          /\ machine.top < Word \div 2 =>
                /\ edx <= machine.top
                /\ \A k \in 1 .. i : End(machine.ards[k]) = machine.top
                                        => edx = machine.top
    /\ pc = "mem_get_ok" => Found(edx)
    /\ pc \in {"load", "memcpy", "set_p_mode", "kernel_init", "main"}
          => Found(total_mem_bytes)

LEMMA DetectInitial == LoaderInit => DetectInv
    BY SMT DEF LoaderInit, DetectInv, Word

LEMMA ScanStep ==
    ASSUME DetectInv, find_max_mem_area
    PROVE  DetectInv'
<1> DEFINE area == machine.ards[i + 1]
<1> PICK eax \in Int : eax = Signed(Low(Low(area.base) + Low(area.len)))
    <2>1. i + 1 \in 1 .. Len(machine.ards) /\ machine \in Machine
        BY SMT DEF DetectInv, find_max_mem_area, Goto
    <2> QED BY <2>1, AreaFound, SMT
<1>1. /\ pc = "scan" /\ machine' = machine /\ nr' = nr /\ i' = i + 1
      /\ total_mem_bytes' = total_mem_bytes
      /\ edx' = IF edx >= eax THEN edx ELSE eax
      /\ pc' = IF i + 1 = nr THEN "mem_get_ok" ELSE "scan"
    BY DEF find_max_mem_area, Goto
<1>2. /\ nr <= Len(machine.ards) /\ nr \in Nat /\ i \in Nat /\ i < nr
      /\ Fits => nr = Len(machine.ards)
      /\ machine \in Machine
      /\ edx \in Nat /\ edx < Word \div 2 /\ Word \div 2 < Word
      /\ machine.top < Word \div 2 =>
            /\ edx <= machine.top
            /\ \A k \in 1 .. i : End(machine.ards[k]) = machine.top
                                    => edx = machine.top
    BY <1>1, SMT DEF DetectInv, Word
<1>3. i + 1 \in 1 .. Len(machine.ards)
    BY <1>2, MachineFacts, SMT
<1>4. /\ eax < Word \div 2
      /\ machine.top < Word \div 2 =>
            /\ eax <= machine.top
            /\ End(machine.ards[i + 1]) = machine.top => eax = machine.top
    BY <1>2, <1>3, AreaFound, SMT
<1>5. machine.top \in Nat /\ Len(machine.ards) \in Nat /\ Fits' = Fits
    BY <1>1, <1>2, MachineFacts DEF Fits
<1>6. edx' \in Nat /\ edx' < Word \div 2 /\ edx' < Word
    BY <1>1, <1>2, <1>4, SMT DEF Word
<1>7. ASSUME machine.top < Word \div 2
      PROVE  /\ edx' <= machine.top
             /\ \A k \in 1 .. i + 1 : End(machine.ards[k]) = machine.top
                                         => edx' = machine.top
    <2>1. edx' <= machine.top
        BY <1>1, <1>2, <1>4, <1>7, SMT
    <2>2. ASSUME NEW k \in 1 .. i + 1, End(machine.ards[k]) = machine.top
          PROVE  edx' = machine.top
        <3>1. CASE k = i + 1
            BY <1>1, <1>2, <1>4, <1>5, <1>7, <2>2, <3>1, SMT
        <3>2. CASE k \in 1 .. i
            BY <1>1, <1>2, <1>4, <1>5, <1>7, <2>2, <3>2, SMT
        <3> QED BY <1>2, <3>1, <3>2, SMT
    <2> QED BY <2>1, <2>2
<1>8. CASE i + 1 # nr
    <2>1. pc' = "scan"
        BY <1>1, <1>8
    <2>2. /\ i' < nr' /\ i' \in Nat /\ nr' <= Len(machine'.ards)
          /\ Fits' => nr' = Len(machine'.ards)
        BY <1>1, <1>2, <1>5, <1>8, SMT
    <2> QED BY <1>1, <1>2, <1>6, <1>7, <2>1, <2>2 DEF DetectInv
<1>9. CASE i + 1 = nr
    <2>1. pc' = "mem_get_ok" /\ i' \in Nat
        BY <1>1, <1>2, <1>9, SMT
    <2>2. Found(edx)'
        <3> SUFFICES ASSUME Fits, machine.top < Word \div 2
                     PROVE  machine.top - 64 < edx' /\ edx' <= machine.top
            BY <1>1, <1>5, <1>6, SMT DEF Found, RightSize, Word
        <3>1. PICK k \in 1 .. Len(machine.ards) : End(machine.ards[k]) = machine.top
            BY <1>2, MachineFacts
        <3>2. edx' = machine.top
            <4>1. k \in 1 .. i + 1
                BY <1>2, <1>9
            <4> QED BY <1>7, <3>1, <4>1
        <3> QED BY <1>5, <3>2, SMT
    <2> QED BY <1>1, <1>2, <1>6, <2>1, <2>2 DEF DetectInv
<1> QED BY <1>8, <1>9

LEMMA DetectStep ==
    ASSUME DetectInv, [BootStep \/ halt]_bootVars
    PROVE  DetectInv'
<1>0. machine \in Machine
    BY DEF DetectInv
<1>1. CASE UNCHANGED << machine, pc, detectVars >>
    BY <1>1 DEF DetectInv, Found, Fits, detectVars
<1>2. CASE find_max_mem_area
    BY <1>2, ScanStep
<1>3. ASSUME NEW last \in BOOLEAN, e820_mem_get_loop(last)
      PROVE  DetectInv'
    <2>1. /\ pc = "e820" /\ machine' = machine /\ nr' = nr + 1
          /\ nr < Len(machine.ards)
          /\ last => nr + 1 = Len(machine.ards)
          /\ pc' = (IF last THEN "scan" ELSE "e820")
          /\ i' = 0 /\ edx' = 0 /\ total_mem_bytes' = total_mem_bytes
        BY <1>3, SMT DEF e820_mem_get_loop, Goto, DetectInv
    <2>2. nr \in Nat /\ total_mem_bytes \in Nat /\ total_mem_bytes < Word
        BY DEF DetectInv
    <2>3. machine.top \in Nat
        BY <1>0, MachineFacts
    <2>4. nr' \in Nat /\ (last => i' < nr')
        BY <2>1, <2>2, SMT
    <2>5. \A k \in 1 .. i' : FALSE
        BY <2>1, SMT
    <2> QED BY <1>0, <2>1, <2>2, <2>3, <2>4, <2>5, SMT DEF DetectInv, Word
<1>4. CASE e801
    <2>1. /\ pc = "e801" /\ pc' = "mem_get_ok" /\ machine' = machine
          /\ edx' = Low(ax(machine) + 1024 + 64 * bx(machine))
          /\ nr' = nr /\ i' = i /\ total_mem_bytes' = total_mem_bytes
        BY <1>4 DEF e801, Goto
    <2> PICK t \in Nat : t = machine.top /\ 4096 <= t /\ t < 4194304
        BY <1>0, MachineFacts, SMT DEF Word
    <2>2. /\ edx' \in Nat /\ edx' < 4194304
          /\ t - 64 < edx' /\ edx' <= t
        <3>1. CASE t < 16384
            BY <2>1, <3>1, SMT DEF ax, bx, Low, Word
        <3>2. CASE t >= 16384
            <4> PICK q \in Nat : q = (t - 16384) \div 64
                BY <3>2, SMT
            <4>1. 64 * q <= t - 16384 /\ t - 16384 - 64 < 64 * q
                BY <3>2, SMT
            <4>2. edx' = (15360 + 1024 + 64 * q) % 4194304
                BY <2>1, <3>2, SMT DEF ax, bx, Low, Word
            <4> QED BY <3>2, <4>1, <4>2, SMT
        <3> QED BY <3>1, <3>2, SMT
    <2> QED BY <1>0, <2>1, <2>2, SMT DEF DetectInv, Found, RightSize, Word
<1>5. CASE int15_88
    <2> PICK t \in Nat : t = machine.top /\ 4096 <= t /\ t < 4194304
        BY <1>0, MachineFacts, SMT DEF Word
    <2>1. edx' \in Nat /\ edx' < 4194304
        BY <1>5, SMT DEF int15_88
    <2> QED BY <1>0, <1>5, <2>1, SMT DEF int15_88, Goto, DetectInv, Word
<1>6. CASE mem_get_ok
    BY <1>0, <1>6 DEF mem_get_ok, Goto, DetectInv, Found, Fits
<1>7. CASE load_loader \/ load_loader_failed
    BY <1>0, <1>7 DEF load_loader, load_loader_failed, Goto, DetectInv, detectVars
<1>8. CASE e820_failed \/ e801_failed \/ int15_88_failed
    BY <1>0, <1>8 DEF e820_failed, e801_failed, int15_88_failed,
                      Goto, DetectInv, detectVars
<1>9. CASE load_kernel \/ load_kernel_failed \/ memcpy \/ set_p_mode \/ kernel_init
    <2>1. /\ pc \in {"load", "memcpy", "set_p_mode", "kernel_init"}
          /\ pc' \in {"L", "load", "memcpy", "set_p_mode", "kernel_init", "main"}
          /\ machine' = machine /\ UNCHANGED detectVars
        BY <1>9 DEF load_kernel, load_kernel_failed, memcpy, set_p_mode,
                    kernel_init, Goto
    <2> QED BY <1>0, <2>1 DEF DetectInv, Found, Fits, detectVars
<1>11. ASSUME NEW last \in BOOLEAN, e820_overrun(last)
       PROVE  DetectInv'
    <2> DEFINE b == machine.ards[nr + 1].base
    <2>1. /\ pc = "e820" /\ machine' = machine /\ nr = ArdsRoom
          /\ nr < Len(machine.ards)
          /\ pc' = (IF last THEN "scan" ELSE "wild")
          /\ nr' = b \div Word + 1
          /\ i' = 0 /\ edx' = 0 /\ total_mem_bytes' = total_mem_bytes
        BY <1>11, SMT DEF e820_overrun, Goto, DetectInv
    <2>2. nr \in Nat /\ total_mem_bytes \in Nat /\ total_mem_bytes < Word
        BY DEF DetectInv
    <2>3. /\ machine.top \in Nat /\ Len(machine.ards) \in Nat
          /\ nr + 1 \in 1 .. Len(machine.ards)
        BY <1>0, <2>1, <2>2, MachineFacts, SMT
    <2>4. b \in Nat /\ b \div Word < nr
        BY <1>0, <2>1, <2>2, <2>3, MachineFacts
    <2> HIDE DEF b
    <2>5. nr' \in Nat /\ 0 < nr' /\ nr' <= nr
        BY <2>1, <2>2, <2>4, SMT DEF Word
    <2>6. ~ Fits'
        BY <2>1, <2>2, <2>3, SMT DEF Fits
    <2>7. nr' <= Len(machine'.ards) /\ \A k \in 1 .. i' : FALSE
        BY <2>1, <2>2, <2>3, <2>5, SMT
    <2> QED BY <1>0, <2>1, <2>2, <2>3, <2>5, <2>6, <2>7, SMT DEF DetectInv, Word
<1>10. CASE halt \/ UNCHANGED bootVars
    BY <1>1, <1>10 DEF halt, bootVars
<1> QED
    BY <1>2, <1>3, <1>4, <1>5, <1>6, <1>7, <1>8, <1>9, <1>10, <1>11 DEF BootStep

LEMMA DetectInvariant == LoaderSpec => []DetectInv
    BY DetectInitial, DetectStep, PTL DEF LoaderSpec

-----------------------------------------------------------------------------
\* The pools are half of what is left of a size found: they end within the
\* first three quarters of a memory of 4 MB or more; and they are never larger
\* than 128 MB.
LEMMA PoolEnds ==
    ASSUME NEW x \in Nat, x < Word
    PROVE  /\ 4 * (used_mem + Pages(x \div 4)) <= 133088
           /\ x >= 2048 => 4 * (used_mem + Pages(x \div 4)) <= 1024 + x \div 2
<1> PICK m \in Nat : m = x \div 4 /\ 4 * m <= x
    BY SMT
<1> PICK f \in Nat : f = (m - 512) % 65536 /\ f < 65536
    BY SMT
<1>1. m >= 512 => f <= m - 512
    BY SMT
<1> PICK k \in Nat : k = f \div 2 /\ 2 * k <= f
    BY SMT
<1> PICK l \in Nat : l = k \div 8 /\ 8 * l <= k
    BY SMT
<1>2. Pages(m) = 8 * l
    BY SMT DEF Pages, kbm_length, kernel_free_pages, all_free_pages, used_mem
<1>3. x >= 2048 => m >= 512
    BY SMT
<1>4. 8 * l <= 32767
    BY SMT
<1>5. 8 * l <= 32760
    BY <1>4, SMT
<1>6. x >= 2048 => 2 * (8 * l) <= m - 512
    BY <1>1, <1>3, SMT
<1>7. x >= 2048 => 4 * (512 + 8 * l) <= 1024 + x \div 2
    BY <1>6, SMT
<1> QED BY <1>2, <1>5, <1>7, SMT DEF used_mem

\* loader.asm: whatever the BIOS lists and whichever of its functions fail, the
\* pool of the kernel, if main is reached, is free memory.
THEOREM PoolInRam == LoaderSpec => []PoolIsRam
<1>1. ASSUME DetectInv
      PROVE  PoolIsRam
    <2> SUFFICES ASSUME Fits, pc = "main"
                 PROVE  4 * (used_mem + Pages(total_mem_bytes \div 4)) <= machine.ram
        BY DEF PoolIsRam
    <2> PICK x \in Nat : x = total_mem_bytes /\ x < Word
        BY <1>1 DEF DetectInv
    <2> PICK t \in Nat, r \in Nat :
            /\ t = machine.top /\ r = machine.ram
            /\ 4096 <= t /\ 3 * t <= 4 * r
        BY <1>1, MachineFacts DEF DetectInv
    <2> PICK e \in Int : e = 4 * (used_mem + Pages(x \div 4))
        BY SMT DEF Pages, kbm_length, kernel_free_pages, all_free_pages, used_mem
    <2>1. e <= 133088 /\ (x >= 2048 => e <= 1024 + x \div 2)
        BY PoolEnds
    <2>2. t < 2097152 => t - 64 < x /\ x <= t
        BY <1>1, SMT DEF DetectInv, Found, RightSize, Word
    <2> QED BY <2>1, <2>2, SMT
<1> QED BY <1>1, DetectInvariant, PTL

\* loader.asm: whichever of the BIOS's functions fail, the size main is entered
\* with is that of the memory, up to the 64 KB in which the second way counts, or
\* below 2 GB where there are 2 GB and more.
THEOREM MemorySizeFound == LoaderSpec => []SizeFound
<1>1. DetectInv => SizeFound
    BY DEF DetectInv, SizeFound, Found
<1> QED BY <1>1, DetectInvariant, PTL

-----------------------------------------------------------------------------
\* What a kernel is; the quantifiers of KernelAssumption instantiated.
LEMMA KernelFacts ==
    ASSUME NEW k \in Kernel
    PROVE  /\ Len(k) \in Nat /\ 0 < Len(k)
           /\ \A j \in 1 .. Len(k) :
                 /\ k[j].vaddr \in Int /\ k[j].off \in Nat
                 /\ k[j].filesz \in Nat /\ k[j].memsz \in Nat
                 /\ k[j].filesz <= k[j].memsz
                 /\ Loaded(k[j]) => k[j].vaddr + k[j].memsz <= ElfBase
           /\ \A j, l \in 1 .. Len(k) :
                 j # l /\ Loaded(k[j]) /\ Loaded(k[l])
                    => \/ k[j].vaddr + k[j].memsz <= k[l].vaddr
                       \/ k[l].vaddr + k[l].memsz <= k[j].vaddr
<1> DEFINE Seg == [type : Nat, vaddr : Int, off : Nat, filesz : Nat, memsz : Nat]
<1>1. k \in Seq(Seg) /\ k # << >>
    BY KernelAssumption
<1>2. Len(k) \in Nat /\ 0 < Len(k)
    BY <1>1, EmptySeq, LenProperties, SMT
<1>3. ASSUME NEW j \in 1 .. Len(k)
      PROVE  /\ k[j].vaddr \in Int /\ k[j].off \in Nat
             /\ k[j].filesz \in Nat /\ k[j].memsz \in Nat
    <2>1. k[j] \in Seg
        BY <1>1, ElementOfSeq
    <2> QED BY <2>1
<1> QED BY <1>2, <1>3, KernelAssumption

(***************************************************************************)
(* What the copies leave alone.  The first block of the buffer holds the   *)
(* first block of the file once di has passed it.                          *)
(***************************************************************************)
FirstBlock == \A n \in 0 .. BlockCells - 1 : mem[ElfBase + n] = n

LoadInv ==
    /\ machine \in Machine /\ kernel \in Kernel
    /\ di \in {0, 1, 2, 3}
    /\ LoaderSurvives
    /\ pc = "memcpy" => \A c \in 0 .. BlockCells - 1 : mem[c] = c
    /\ pc \in {"load", "memcpy"} => di = 0 \/ FirstBlock
    /\ pc \in {"mbr", "e820", "e801", "88", "scan", "mem_get_ok"} => di = 0
    /\ pc \in {"set_p_mode", "kernel_init"} => FirstBlock
    /\ pc \notin {"kernel_init", "main"} => seg = 0
    /\ seg \in Nat /\ seg <= Len(kernel)
    /\ pc = "kernel_init" => seg < Len(kernel)
    /\ SegmentsInPlace

\* A step that leaves the loader alone, once it has been read.
LEMMA CodeKept ==
    ASSUME LoaderSurvives, machine' = machine, pc \notin {"mbr", "M"},
           \A c \in LoaderArea : mem'[c] = mem[c]
    PROVE  LoaderSurvives'
    BY DEF LoaderSurvives, Fits

\* What a copy leaves in a cell.
LEMMA CopyCell ==
    ASSUME NEW m, NEW dst \in Int, NEW src \in Int, NEW n \in Int,
           NEW c \in LowMemory
    PROVE  /\ c \in dst .. dst + n - 1 => Copy(m, dst, src, n)[c] = m[src + c - dst]
           /\ c \notin dst .. dst + n - 1 => Copy(m, dst, src, n)[c] = m[c]
    BY DEF Copy

LEMMA Cells ==
    /\ \A c \in LoaderArea : c \in LowMemory /\ c \in Int /\ c < 0
    /\ \A n \in 0 .. BlockCells - 1 :
          /\ n \in LowMemory /\ n \in Nat /\ n < ElfBase
          /\ ElfBase + n \in LowMemory
    /\ \A c \in Nat : c < ElfBase => c \in LowMemory
    /\ BlockCells \in Nat /\ ElfBase \in Nat /\ BlockCells <= ElfBase
    BY RoomAssumption, SMT DEF LoaderArea, LowMemory, Reads

LEMMA LoadInitial == LoaderInit => LoadInv
<1> SUFFICES ASSUME LoaderInit PROVE LoadInv
    OBVIOUS
<1>1. /\ machine \in Machine /\ kernel \in Kernel
      /\ pc = "mbr" /\ di = 0 /\ seg = 0
    BY DEF LoaderInit
<1>2. Len(kernel) \in Nat
    BY <1>1, KernelFacts
<1>3. SegmentsInPlace
    BY <1>1, SMT DEF SegmentsInPlace
<1> QED BY <1>1, <1>2, <1>3, SMT DEF LoadInv, LoaderSurvives

\* A block is copied into the buffer: the loader is below it, and the first
\* block of the buffer is this one or is left alone.
LEMMA MemcpyStep ==
    ASSUME LoadInv, memcpy
    PROVE  LoadInv'
<1>1. /\ pc = "memcpy" /\ seg' = seg /\ seg = 0
      /\ kernel' = kernel /\ machine' = machine
      /\ pc' \in {"load", "set_p_mode"}
      /\ mem' = Copy(mem, ElfBase + di * BlockCells, 0, BlockCells)
      /\ di' = (di + 1) % 4
      /\ di \in {0, 1, 2, 3}
    BY DEF memcpy, Goto, LoadInv, SegBlocks
<1>2. di' \in {0, 1, 2, 3}
    BY <1>1, SMT
<1> PICK d \in Nat : d = ElfBase + di * BlockCells
                     /\ d >= ElfBase
                     /\ (di # 0 => d >= ElfBase + BlockCells)
                     /\ (di = 0 => d = ElfBase)
    BY <1>1, Cells, SMT
<1>3. LoaderSurvives'
    <2>1. ASSUME NEW c \in LoaderArea
          PROVE  mem'[c] = mem[c]
        <3>1. c \in LowMemory /\ c \notin d .. d + BlockCells - 1
            BY Cells, SMT
        <3> QED BY <1>1, <3>1, Cells, CopyCell, SMT
    <2> QED BY <1>1, <2>1, CodeKept DEF LoadInv
<1>4. ASSUME NEW n \in 0 .. BlockCells - 1
      PROVE  mem'[ElfBase + n] = n
    <2>1. ElfBase + n \in LowMemory
        BY Cells
    <2>2. CASE di = 0
        <3>1. ElfBase + n \in d .. d + BlockCells - 1 /\ 0 + (ElfBase + n) - d = n
            BY <2>2, Cells, SMT
        <3>2. mem'[ElfBase + n] = mem[0 + (ElfBase + n) - d]
            BY <1>1, <2>1, <3>1, Cells, CopyCell, SMT
        <3> QED BY <1>1, <3>1, <3>2 DEF LoadInv
    <2>3. CASE di # 0
        <3>1. ElfBase + n \notin d .. d + BlockCells - 1
            BY <2>3, Cells, SMT
        <3>2. mem'[ElfBase + n] = mem[ElfBase + n]
            BY <1>1, <2>1, <3>1, Cells, CopyCell, SMT
        <3> QED BY <1>1, <2>3, <3>2 DEF LoadInv, FirstBlock
    <2> QED BY <2>2, <2>3
<1>5. SegmentsInPlace'
    BY <1>1, SMT DEF SegmentsInPlace
<1>6. seg' \in Nat /\ seg' <= Len(kernel')
    BY <1>1 DEF LoadInv
<1> QED BY <1>1, <1>2, <1>3, <1>4, <1>5, <1>6 DEF LoadInv, FirstBlock

\* A segment is copied to where it is linked, between the loader and the buffer
\* and beside the segments that are there already.
LEMMA SegmentStep ==
    ASSUME LoadInv, kernel_init
    PROVE  LoadInv'
<1> DEFINE s == kernel[seg + 1]
<1>1. /\ pc = "kernel_init" /\ seg' = seg + 1 /\ di' = di
      /\ kernel' = kernel /\ machine' = machine
      /\ pc' = (IF seg + 1 = Len(kernel) THEN "main" ELSE "kernel_init")
      /\ mem' = IF Loaded(s) THEN Copy(mem, s.vaddr, ElfBase + s.off, s.filesz)
                ELSE mem
    BY DEF kernel_init, Goto
<1>2. /\ kernel \in Kernel /\ machine \in Machine /\ seg \in Nat /\ seg < Len(kernel)
      /\ di \in {0, 1, 2, 3} /\ FirstBlock /\ SegmentsInPlace
    BY <1>1 DEF LoadInv
<1>3. Len(kernel) \in Nat /\ seg + 1 \in 1 .. Len(kernel)
    BY <1>2, KernelFacts, SMT
<1>4. /\ s.vaddr \in Int /\ s.off \in Nat /\ s.filesz \in Nat /\ s.memsz \in Nat
      /\ s.filesz <= s.memsz
      /\ Loaded(s) => s.vaddr + s.memsz <= ElfBase /\ s.vaddr >= 0
    BY <1>2, <1>3, KernelFacts, SMT DEF Loaded
<1>5. ASSUME NEW c \in LowMemory, c \in Int, c < 0 \/ c >= ElfBase
      PROVE  mem'[c] = mem[c]
    <2>1. CASE Loaded(s)
        <3>1. c \notin s.vaddr .. s.vaddr + s.filesz - 1
            BY <1>4, <1>5, <2>1, Cells, SMT
        <3>2. Copy(mem, s.vaddr, ElfBase + s.off, s.filesz)[c] = mem[c]
            BY <1>4, <3>1, Cells, CopyCell, SMT
        <3> QED BY <1>1, <2>1, <3>2
    <2>2. CASE ~ Loaded(s)
        BY <1>1, <2>2
    <2> QED BY <2>1, <2>2
<1>6. LoaderSurvives'
    <2>1. \A c \in LoaderArea : mem'[c] = mem[c]
        BY <1>5, Cells
    <2> QED BY <1>1, <2>1, CodeKept DEF LoadInv
<1>7. FirstBlock'
    <2> SUFFICES ASSUME NEW n \in 0 .. BlockCells - 1
                 PROVE  mem'[ElfBase + n] = n
        BY DEF FirstBlock
    <2>1. ElfBase + n \in LowMemory /\ ElfBase + n \in Int /\ ElfBase + n >= ElfBase
        BY Cells, SMT
    <2> QED BY <1>2, <1>5, <2>1 DEF FirstBlock
<1>8. SegmentsInPlace'
    <2> SUFFICES ASSUME NEW k \in 1 .. seg + 1,
                        Loaded(kernel[k]),
                        kernel[k].off + kernel[k].filesz <= BlockCells,
                        NEW n \in 0 .. kernel[k].filesz - 1
                 PROVE  mem'[kernel[k].vaddr + n] = kernel[k].off + n
        BY <1>1 DEF SegmentsInPlace
    <2> DEFINE q == kernel[k]
               c == q.vaddr + n
    <2>1. k \in 1 .. Len(kernel)
        BY <1>2, <1>3, SMT
    <2>2. /\ q.vaddr \in Int /\ q.off \in Nat /\ q.filesz \in Nat /\ q.memsz \in Nat
          /\ q.filesz <= q.memsz /\ q.vaddr + q.memsz <= ElfBase /\ q.vaddr >= 0
        BY <1>2, <2>1, KernelFacts, SMT DEF Loaded
    <2>3. c \in Nat /\ c < ElfBase /\ c < q.vaddr + q.memsz
        BY <2>2, Cells, SMT
    <2>4. c \in LowMemory
        BY <2>3, Cells
    <2>5. CASE k = seg + 1
        <3>1. /\ c \in s.vaddr .. s.vaddr + s.filesz - 1
              /\ q.off + n \in 0 .. BlockCells - 1
              /\ (ElfBase + s.off) + c - s.vaddr = ElfBase + (q.off + n)
            BY <2>2, <2>5, Cells, SMT
        <3>2. mem'[c] = mem[(ElfBase + s.off) + c - s.vaddr]
            <4>1. Copy(mem, s.vaddr, ElfBase + s.off, s.filesz)[c]
                    = mem[(ElfBase + s.off) + c - s.vaddr]
                BY <1>4, <2>4, <3>1, Cells, CopyCell, SMT
            <4> QED BY <1>1, <2>5, <4>1
        <3>3. mem[ElfBase + (q.off + n)] = q.off + n
            <4> PICK x \in 0 .. BlockCells - 1 : x = q.off + n
                BY <3>1
            <4>1. mem[ElfBase + x] = x
                BY <1>2 DEF FirstBlock
            <4> QED BY <4>1
        <3> QED BY <3>1, <3>2, <3>3
    <2>6. CASE k # seg + 1
        <3>1. k \in 1 .. seg
            BY <1>2, <2>6, SMT
        <3>2. mem[c] = q.off + n
            BY <1>2, <3>1 DEF SegmentsInPlace
        <3>3. mem'[c] = mem[c]
            <4>1. CASE Loaded(s)
                <5>1. \/ q.vaddr + q.memsz <= s.vaddr
                      \/ s.vaddr + s.memsz <= q.vaddr
                    BY <1>2, <1>3, <2>1, <2>6, <4>1, KernelFacts
                <5>2. c \notin s.vaddr .. s.vaddr + s.filesz - 1
                    BY <1>4, <2>2, <2>3, <5>1, SMT
                <5>3. Copy(mem, s.vaddr, ElfBase + s.off, s.filesz)[c] = mem[c]
                    BY <1>4, <2>4, <5>2, Cells, CopyCell, SMT
                <5> QED BY <1>1, <4>1, <5>3
            <4>2. CASE ~ Loaded(s)
                BY <1>1, <4>2
            <4> QED BY <4>1, <4>2
        <3> QED BY <3>2, <3>3
    <2> QED BY <2>5, <2>6
<1>9. /\ seg' \in Nat /\ seg' <= Len(kernel')
      /\ pc' = "kernel_init" => seg' < Len(kernel')
      /\ pc' \in {"kernel_init", "main"}
    BY <1>1, <1>2, <1>3, SMT
<1> QED BY <1>1, <1>2, <1>6, <1>7, <1>8, <1>9 DEF LoadInv

LEMMA LoadStep ==
    ASSUME LoadInv, [BootStep \/ halt]_bootVars
    PROVE  LoadInv'
<1>1. CASE memcpy
    BY <1>1, MemcpyStep
<1>2. CASE kernel_init
    BY <1>2, SegmentStep
<1>3. CASE load_loader
    <2>1. /\ pc = "mbr" /\ pc' = "e820" /\ di' = di
          /\ kernel' = kernel /\ machine' = machine
          /\ seg' = seg /\ seg = 0 /\ di = 0
          /\ \A c \in LoaderArea : mem'[c] = Code
        BY <1>3, Cells DEF load_loader, Goto, LoadInv
    <2>2. SegmentsInPlace'
        BY <2>1, SMT DEF SegmentsInPlace
    <2> QED BY <2>1, <2>2 DEF LoadInv, LoaderSurvives
<1>4. CASE load_kernel
    <2>1. /\ pc = "load" /\ pc' = "memcpy" /\ di' = di /\ seg' = seg /\ seg = 0
          /\ kernel' = kernel /\ machine' = machine
          /\ mem' = [c \in LowMemory |-> IF c \in 0 .. BlockCells - 1 THEN c ELSE mem[c]]
        BY <1>4 DEF load_kernel, Goto, LoadInv
    <2>2. SegmentsInPlace'
        BY <2>1, SMT DEF SegmentsInPlace
    <2>3. LoaderSurvives'
        <3>1. ASSUME NEW c \in LoaderArea
              PROVE  mem'[c] = mem[c]
            <4>1. c \in LowMemory /\ c \notin 0 .. BlockCells - 1
                BY Cells, SMT
            <4> QED BY <2>1, <4>1
        <3> QED BY <2>1, <3>1, CodeKept DEF LoadInv
    <2>4. \A c \in 0 .. BlockCells - 1 : mem'[c] = c
        BY <2>1, Cells
    <2>5. ASSUME FirstBlock
          PROVE  FirstBlock'
        <3> SUFFICES ASSUME NEW n \in 0 .. BlockCells - 1
                     PROVE  mem'[ElfBase + n] = n
            BY DEF FirstBlock
        <3>1. ElfBase + n \in LowMemory /\ ElfBase + n \notin 0 .. BlockCells - 1
            BY Cells, SMT
        <3>2. mem'[ElfBase + n] = mem[ElfBase + n]
            BY <2>1, <3>1
        <3> QED BY <2>5, <3>2 DEF FirstBlock
    <2> QED BY <2>1, <2>2, <2>3, <2>4, <2>5 DEF LoadInv
<1>5. ASSUME /\ UNCHANGED << machine, kernel, loadVars >>
             /\ \/ pc' = pc
                \/ pc = "mbr" /\ pc' = "M"
                \/ pc \in {"88", "load"} /\ pc' \in {"hlt", "L"}
                \/ pc \in {"e820", "e801", "88", "scan"}
                   /\ pc' \in {"e820", "e801", "88", "scan", "mem_get_ok"}
                \/ pc = "mem_get_ok" /\ pc' = "load"
                \/ pc = "set_p_mode" /\ pc' = "kernel_init"
      PROVE  LoadInv'
    <2>1. /\ machine' = machine /\ kernel' = kernel
          /\ di' = di /\ seg' = seg /\ mem' = mem
          /\ FirstBlock' = FirstBlock /\ SegmentsInPlace' = SegmentsInPlace
          /\ Fits' = Fits
        BY <1>5 DEF loadVars, FirstBlock, SegmentsInPlace, Fits
    <2>2. 0 < Len(kernel) /\ Len(kernel) \in Nat
        BY KernelFacts DEF LoadInv
    <2>3. LoadInv
        OBVIOUS
    <2>4. CASE pc' = pc
        BY <2>1, <2>3, <2>4 DEF LoadInv, LoaderSurvives
    <2>5. CASE pc = "mbr" /\ pc' = "M"
        BY <2>1, <2>3, <2>5 DEF LoadInv, LoaderSurvives
    <2>6. CASE pc \in {"88", "load"} /\ pc' \in {"hlt", "L"}
        BY <2>1, <2>3, <2>6 DEF LoadInv, LoaderSurvives
    <2>7. CASE /\ pc \in {"e820", "e801", "88", "scan"}
               /\ pc' \in {"e820", "e801", "88", "scan", "mem_get_ok"}
        BY <2>1, <2>3, <2>7 DEF LoadInv, LoaderSurvives
    <2>8. CASE pc = "mem_get_ok" /\ pc' = "load"
        BY <2>1, <2>3, <2>8 DEF LoadInv, LoaderSurvives
    <2>9. CASE pc = "set_p_mode" /\ pc' = "kernel_init"
        BY <2>1, <2>2, <2>3, <2>9, SMT DEF LoadInv, LoaderSurvives
    <2> QED BY <1>5, <2>4, <2>5, <2>6, <2>7, <2>8, <2>9
<1>6. CASE \/ load_loader_failed \/ e820_failed \/ e801_failed
           \/ int15_88_failed \/ load_kernel_failed
    BY <1>5, <1>6 DEF load_loader_failed, e820_failed, e801_failed,
                      int15_88_failed, load_kernel_failed, Goto
<1>7. CASE \/ \E last \in BOOLEAN : e820_mem_get_loop(last)
           \/ find_max_mem_area \/ e801 \/ int15_88
    BY <1>5, <1>7 DEF e820_mem_get_loop, find_max_mem_area, e801, int15_88, Goto
<1>8. CASE mem_get_ok \/ set_p_mode
    BY <1>5, <1>8 DEF mem_get_ok, set_p_mode, Goto
<1>9. CASE halt \/ UNCHANGED bootVars
    BY <1>5, <1>9 DEF halt, bootVars
<1>10. ASSUME NEW last \in BOOLEAN, e820_overrun(last)
       PROVE  LoadInv'
    <2>1. /\ pc = "e820" /\ pc' \in {"scan", "wild"}
          /\ machine' = machine /\ kernel' = kernel
          /\ nr = ArdsRoom /\ nr < Len(machine.ards)
          /\ di' = di /\ seg' = seg /\ di = 0 /\ seg = 0
        BY <1>10 DEF e820_overrun, Goto, LoadInv
    <2>2. ~ Fits'
        <3>1. Len(machine.ards) \in Nat /\ ArdsRoom \in Nat
            BY MachineFacts, RoomAssumption DEF LoadInv
        <3> QED BY <2>1, <3>1, SMT DEF Fits
    <2>3. SegmentsInPlace'
        BY <2>1, SMT DEF SegmentsInPlace
    <2> QED BY <2>1, <2>2, <2>3 DEF LoadInv, LoaderSurvives
<1> QED
    BY <1>1, <1>2, <1>3, <1>4, <1>6, <1>7, <1>8, <1>9, <1>10 DEF BootStep

LEMMA LoadInvariant == LoaderSpec => []LoadInv
    BY LoadInitial, LoadStep, PTL DEF LoaderSpec

\* loader.asm: on a machine whose areas fit into ards_buf nothing is written over
\* the loader, wherever the kernel's segments are linked.
THEOREM LoaderNotOverwritten == LoaderSpec => []LoaderSurvives
<1>1. LoadInv => LoaderSurvives
    BY DEF LoadInv
<1> QED BY <1>1, LoadInvariant, PTL

\* loader.asm, kernel_init: every segment that the first block holds ends up
\* where it is linked, for any order of the program headers.
THEOREM SegmentsLoaded == LoaderSpec => []SegmentsInPlace
<1>1. LoadInv => SegmentsInPlace
    BY DEF LoadInv
<1> QED BY <1>1, LoadInvariant, PTL

=============================================================================
