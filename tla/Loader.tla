------------------------------- MODULE Loader -------------------------------
(***************************************************************************)
(* From the MBR to main: boot/mbr.asm and boot/loader.asm.                 *)
(*                                                                         *)
(* The MBR reads the loader, the loader asks the BIOS for the size of      *)
(* memory in up to three ways, reads the kernel's ELF file in 8 blocks,    *)
(* turns on paging (module Paging) and copies the segments of the file to  *)
(* where they are linked.  Every call of the BIOS may fail.                *)
(*                                                                         *)
(* Sizes of memory are in KB.  The low memory in which files are moved is  *)
(* counted in cells, of which a block has BlockCells: cell 0 is the        *)
(* kernel's entry point (0x1500), the loader (0x900) is in front of it,    *)
(* and ElfBase is the buffer for the file (0x70000).                       *)
(***************************************************************************)
EXTENDS Pools, Sequences

CONSTANTS
    Machine,     \* [ards |-> the areas the BIOS lists, ram, top |-> the ends
                 \* of the free memory and of the memory that begin at 1 MB]
    Kernel,      \* the kernel's ELF file: the sequence of its segments
    ArdsRoom,    \* 12: the structures of 20 bytes ards_buf has room for
    BlockCells,  \* cells of the 16 KB the loader reads at a time
    ElfBase,     \* 0x70000, in cells from the entry point
    LoaderCells  \* the cells of the loader and of the GDT in it

Reads == 8       \* blocks the loader reads
SegBlocks == 4   \* blocks in the 64 KB that di can address

Word == 4194304                         \* 2^32 bytes, in KB
Low(x) == x % Word
Signed(x) == IF x < Word \div 2 THEN x ELSE x - Word
End(area) == area.base + area.len

LoaderArea == (0 - LoaderCells) .. -1
ElfArea    == ElfBase .. ElfBase + Reads * BlockCells - 1
LowMemory  == LoaderArea \cup (0 .. ElfBase + Reads * BlockCells - 1)

\* Contents of a cell that are not a cell of the kernel's file.
Junk == -1
Zero == -2
Code == -3  \* the loader's

ASSUME RoomAssumption ==
    /\ ArdsRoom \in Nat \ {0} /\ BlockCells \in Nat \ {0}
    /\ LoaderCells \in Nat
    /\ ElfBase \in Nat /\ BlockCells <= ElfBase

\* What the BIOS of a PC lists.  Memory begins at 1 MB and its first three
\* quarters at least are free; what follows is kept by the firmware, and one
\* area ends where it ends.  The other areas lie below that, or below 4 GB where
\* devices are; beyond 4 GB only if there are 2 GB below.
Placed(m, area) ==
    \/ End(area) <= m.top
    \/ Word \div 2 <= End(area) /\ End(area) <= Word
    \/ Word <= area.base /\ Word \div 2 <= m.top
ASSUME MachineAssumption ==
    \A m \in Machine :
        /\ m.top \in Nat /\ 4096 <= m.top /\ m.top < Word
        /\ m.ram \in Nat /\ m.ram <= m.top /\ 3 * m.top <= 4 * m.ram
        /\ m.ards \in Seq([base : Nat, len : Nat])
        /\ \E k \in 1 .. Len(m.ards) : End(m.ards[k]) = m.top
        /\ \A k \in 1 .. Len(m.ards) : Placed(m, m.ards[k])

\* The upper half of the base of an area there is no room for, which is then
\* read as a number of areas (e820_overrun), does not lead out of ards_buf.
ASSUME ThirteenthAssumption ==
    \A m \in Machine :
        Len(m.ards) > ArdsRoom
            => m.ards[ArdsRoom + 1].base \div Word < ArdsRoom

\* Loaded segments lie between the entry point and the buffer and do not
\* overlap (memory.h:6).
Loaded(s) == s.type # 0 /\ s.vaddr >= 0
ASSUME KernelAssumption ==
    \A k \in Kernel :
        /\ k # << >>
        /\ k \in Seq([type : Nat, vaddr : Int, off : Nat, filesz : Nat,
                      memsz : Nat])
        /\ \A i \in 1 .. Len(k) :
              /\ k[i].filesz <= k[i].memsz
              /\ k[i].off + k[i].filesz <= Reads * BlockCells
              /\ Loaded(k[i]) => k[i].vaddr + k[i].memsz <= ElfBase
        /\ \A i, j \in 1 .. Len(k) :
              i # j /\ Loaded(k[i]) /\ Loaded(k[j])
                  => \/ k[i].vaddr + k[i].memsz <= k[j].vaddr
                     \/ k[j].vaddr + k[j].memsz <= k[i].vaddr

VARIABLES
    machine,  \* the machine the program runs on
    kernel,   \* the file that usb.sh has written to sector 9
    pc,       \* what is executed next
    nr,       \* ards_nr
    i,        \* the structures find_max_mem_area has looked at
    edx,      \* the size found so far, in KB
    total_mem_bytes,  \* the word at 0xb00, in KB
    cx,       \* blocks still to be read
    di,       \* where the next block goes, in blocks from ElfBase
    mem,      \* the contents of the low memory: a cell of the file, or a name
    seg       \* the program headers kernel_init has passed

detectVars == << nr, i, edx, total_mem_bytes >>
loadVars == << cx, di, mem, seg >>
bootVars == << machine, kernel, pc, detectVars, loadVars >>

-----------------------------------------------------------------------------
\* The BIOS has read the MBR; memory holds what it held before.
LoaderInit ==
    /\ machine \in Machine
    /\ kernel \in Kernel
    /\ pc = "mbr"
    /\ nr = 0 /\ i = 0 /\ edx = 0 /\ total_mem_bytes = 0
    /\ cx = Reads /\ di = 0 /\ seg = 0
    /\ \E fill \in {Junk, Zero} : mem = [c \in LowMemory |-> fill]

Goto(p, q) == pc = p /\ pc' = q /\ UNCHANGED << machine, kernel >>

\* The MBR's read of four sectors: the loader, or 'M' on the screen.
load_loader ==
    /\ Goto("mbr", "e820")
    /\ mem' = [c \in LowMemory |-> IF c \in LoaderArea THEN Code ELSE mem[c]]
    /\ UNCHANGED << detectVars, cx, di, seg >>
load_loader_failed ==
    /\ Goto("mbr", "M")
    /\ UNCHANGED << detectVars, loadVars >>

\* int 0x15, 0xe820.  The last structure comes with ebx = 0, or the BIOS says
\* by an error in the call that follows that there is no more.
e820_mem_get_loop(last) ==
    /\ nr < Len(machine.ards) /\ nr < ArdsRoom
    /\ last => nr + 1 = Len(machine.ards)
    /\ Goto("e820", IF last THEN "scan" ELSE "e820")
    /\ nr' = nr + 1
    /\ UNCHANGED << i, edx, total_mem_bytes, loadVars >>

\* Mutated form: ards_buf is one structure too short.
e820_overrun_early(last) ==
    /\ nr < Len(machine.ards) /\ nr = ArdsRoom - 1
    /\ last => nr + 1 = Len(machine.ards)
    /\ Goto("e820", IF last THEN "scan" ELSE "wild")
    /\ nr' = machine.ards[nr + 1].base \div Word + 1
    /\ mem' = [c \in LowMemory |-> IF c \in LoaderArea THEN Junk ELSE mem[c]]
    /\ UNCHANGED << i, edx, total_mem_bytes, cx, di, seg >>

\* There is no test for the room in ards_buf.  The thirteenth structure is
\* written over ards_nr, which is then one more than the upper half of its base,
\* and over the first 14 bytes of code, among them those the loop goes back to:
\* unless it was the last one, junk is executed.
e820_overrun(last) ==
    /\ nr < Len(machine.ards) /\ nr = ArdsRoom
    /\ last => nr + 1 = Len(machine.ards)
    /\ Goto("e820", IF last THEN "scan" ELSE "wild")
    /\ nr' = machine.ards[nr + 1].base \div Word + 1
    /\ mem' = [c \in LowMemory |-> IF c \in LoaderArea THEN Junk ELSE mem[c]]
    /\ UNCHANGED << i, edx, total_mem_bytes, cx, di, seg >>
e820_failed ==
    /\ Goto("e820", "e801")
    /\ UNCHANGED << detectVars, loadVars >>

\* Mutated form: the comparison is one of unsigned numbers.
find_max_mem_area_unsigned ==
    LET area == machine.ards[i + 1]
        eax == Low(Low(area.base) + Low(area.len)) IN
    /\ Goto("scan", IF i + 1 = nr THEN "mem_get_ok" ELSE "scan")
    /\ i' = i + 1
    /\ edx' = IF edx >= eax THEN edx ELSE eax
    /\ UNCHANGED << nr, total_mem_bytes, loadVars >>

\* The low words of base and length, and jge: a comparison of signed numbers,
\* which passes over areas that end between 2 and 4 GB.
find_max_mem_area ==
    LET area == machine.ards[i + 1]
        eax == Signed(Low(Low(area.base) + Low(area.len))) IN
    /\ Goto("scan", IF i + 1 = nr THEN "mem_get_ok" ELSE "scan")
    /\ i' = i + 1
    /\ edx' = IF edx >= eax THEN edx ELSE eax
    /\ UNCHANGED << nr, total_mem_bytes, loadVars >>

\* What int 0x15, 0xe801 returns: KB between 1 and 16 MB, and 64 KB above.
ax(m) == IF m.top < 16384 THEN m.top - 1024 ELSE 15360
bx(m) == IF m.top < 16384 THEN 0 ELSE (m.top - 16384) \div 64

\* Mutated form: the first MB is forgotten.
e801_short ==
    /\ Goto("e801", "mem_get_ok")
    /\ edx' = Low(ax(machine) + 64 * bx(machine))
    /\ UNCHANGED << nr, i, total_mem_bytes, loadVars >>

e801 ==
    /\ Goto("e801", "mem_get_ok")
    /\ edx' = Low(ax(machine) + 1024 + 64 * bx(machine))
    /\ UNCHANGED << nr, i, total_mem_bytes, loadVars >>
e801_failed ==
    /\ Goto("e801", "88")
    /\ UNCHANGED << detectVars, loadVars >>

\* int 0x15, 0x88: KB above 1 MB in 16 bits.  The code computes edx and runs
\* on into error_hlt, where a failure goes too.
int15_88 ==
    /\ Goto("88", "hlt")
    /\ edx' = 1024 + (IF machine.top - 1024 < 65536 THEN machine.top - 1024 ELSE 65535)
    /\ UNCHANGED << nr, i, total_mem_bytes, loadVars >>
int15_88_failed ==
    /\ Goto("88", "hlt")
    /\ UNCHANGED << detectVars, loadVars >>

mem_get_ok ==
    /\ Goto("mem_get_ok", "load")
    /\ total_mem_bytes' = edx
    /\ UNCHANGED << nr, i, edx, loadVars >>

-----------------------------------------------------------------------------
\* A copy of n cells upwards, within a memory m.
Copy(m, dst, src, n) ==
    [c \in LowMemory |-> IF c \in dst .. dst + n - 1 THEN m[src + c - dst]
                                                     ELSE m[c]]

\* int 0x13, 0x42: 16 KB from startsector to 0x1100, where the first block of
\* the kernel will be.  startsector stays 9, the first sector of the file.
load_kernel ==
    /\ Goto("load", "memcpy")
    /\ mem' = [c \in LowMemory |-> IF c \in 0 .. BlockCells - 1 THEN c ELSE mem[c]]
    /\ UNCHANGED << detectVars, cx, di, seg >>
load_kernel_failed ==
    /\ Goto("load", "L")
    /\ UNCHANGED << detectVars, loadVars >>

\* Mutated forms: half of the block is copied; cx is not restored.
memcpy_half ==
    /\ Goto("memcpy", IF cx = 1 THEN "set_p_mode" ELSE "load")
    /\ mem' = Copy(mem, ElfBase + di * BlockCells, 0, BlockCells \div 2)
    /\ di' = (di + 1) % SegBlocks
    /\ cx' = cx - 1
    /\ UNCHANGED << detectVars, seg >>
memcpy_no_pop ==
    /\ Goto("memcpy", "load")
    /\ mem' = Copy(mem, ElfBase + di * BlockCells, 0, BlockCells)
    /\ di' = (di + 1) % SegBlocks
    /\ UNCHANGED << detectVars, cx, seg >>

\* memcpy to ds:di with ds = 0x7000, and the loop of load_kernel.  di has 16
\* bits: the fifth block goes where the first one went.
memcpy ==
    /\ Goto("memcpy", IF cx = 1 THEN "set_p_mode" ELSE "load")
    /\ mem' = Copy(mem, ElfBase + di * BlockCells, 0, BlockCells)
    /\ di' = (di + 1) % SegBlocks
    /\ cx' = cx - 1
    /\ UNCHANGED << detectVars, seg >>

\* Protected mode and paging (module Paging): the low memory stays where it is.
set_p_mode ==
    /\ Goto("set_p_mode", "kernel_init")
    /\ UNCHANGED << detectVars, loadVars >>

\* One program header; they are read from the first cell of the file.
kernel_init ==
    LET s == kernel[seg + 1] IN
    /\ mem[ElfBase] = 0
    /\ Goto("kernel_init", IF seg + 1 = Len(kernel) THEN "main" ELSE "kernel_init")
    /\ mem' = IF Loaded(s) THEN Copy(mem, s.vaddr, ElfBase + s.off, s.filesz)
              ELSE mem
    /\ seg' = seg + 1
    /\ UNCHANGED << detectVars, cx, di >>

\* jmp $ and the loop of main; of junk that is executed no more is said.
halt == pc \in {"main", "hlt", "M", "L", "wild"} /\ UNCHANGED bootVars

BootStep ==
    \/ load_loader \/ load_loader_failed
    \/ \E last \in BOOLEAN : e820_mem_get_loop(last) \/ e820_overrun(last)
    \/ e820_failed
    \/ find_max_mem_area
    \/ e801 \/ e801_failed
    \/ int15_88 \/ int15_88_failed
    \/ mem_get_ok
    \/ load_kernel \/ load_kernel_failed \/ memcpy
    \/ set_p_mode \/ kernel_init

LoaderSpec ==
    LoaderInit /\ [][BootStep \/ halt]_bootVars /\ WF_bootVars(BootStep)

-----------------------------------------------------------------------------
FileCell == 0 .. Reads * BlockCells - 1

\* The machines whose areas fit into ards_buf.  On others the loader overwrites
\* itself (e820_overrun), and none of what follows is true but the segments.
Fits == Len(machine.ards) <= ArdsRoom

\* If the areas fit, every frame of the pool from which the kernel allocates is
\* free memory: not the firmware's, none of the addresses below 4 GB where devices are, none
\* beyond the memory there is, whatever the BIOS lists and whichever of its
\* functions fail.
PoolIsRam ==
    Fits /\ pc = "main" =>
        4 * (used_mem + Pages(total_mem_bytes \div 4)) <= machine.ram

\* A size x that may be found: the one of the memory, up to the 64 KB in which
\* int 0x15 counts.  Areas that end at 2 GB or more are not seen by the signed
\* comparison: with so much memory it may also be any size below 2 GB.
RightSize(m, x) ==
    \/ m.top - 64 < x /\ x <= m.top
    \/ Word \div 2 <= m.top /\ x < Word \div 2

\* If the areas fit, whichever of the BIOS's functions fail, main is entered
\* with such a size.
SizeFound == Fits /\ pc = "main" => RightSize(machine, total_mem_bytes)

\* If the areas fit (at 12 they just do), nothing is written over the loader,
\* not by the list of areas, not by a block of the kernel or a segment: its code
\* runs until main is entered, and the GDT and the word at 0xb00 in it are used
\* by the kernel.  Thirteen areas are too many: e820_overrun.
LoaderSurvives ==
    Fits /\ pc \notin {"mbr", "M"} => \A c \in LoaderArea : mem[c] = Code

\* The segments in the first block of the file, those that were read, are where
\* they are linked; a later segment is not copied over an earlier one, nor over
\* the part of the file that is still to be copied.
SegmentsInPlace ==
    \A k \in 1 .. seg :
        LET s == kernel[k] IN
        Loaded(s) /\ s.off + s.filesz <= BlockCells
            => \A n \in 0 .. s.filesz - 1 : mem[s.vaddr + n] = s.off + n

\* If the areas fit, the boot comes to main or stops at one of the two messages
\* for a failure, unless the BIOS has refused both 0xe820 and 0xe801.  Nothing is
\* promised of the third way, 0x88: it stops in error_hlt without a message, and
\* does so when it succeeds, too.
BootEnds == Fits => <>(pc \in {"main", "M", "L", "88"})

\* loader.asm:213 (8 blocks of 16 KB are the kernel) and keyboard.c:121 (the
\* flags are 0 at the start): main is entered with the image the ELF file
\* describes, each segment as in the file and the rest of its memory zero.
KernelAsLinked ==
    pc = "main" =>
        \A k \in 1 .. Len(kernel) :
            LET s == kernel[k] IN
            Loaded(s) =>
                \A n \in 0 .. s.memsz - 1 :
                    mem[s.vaddr + n] = IF n < s.filesz THEN s.off + n ELSE Zero

=============================================================================
