------------------------------ MODULE MCLoader ------------------------------
EXTENDS Loader, TLC

Area(b, l) == [base |-> b, len |-> l]
PC(ram, top, areas) ==
    [ram |-> ram, top |-> top, ards |-> << Area(0, 639), Area(639, 1) >> \o areas]

\* 4 MB; the 32 MB of memory.h with tables of the firmware at their end, an APIC
\* and a ROM below 4 GB; 3 GB, devices below 4 GB and 1 GB beyond; 2 GB, of which
\* nothing is found; as many areas as ards_buf has room for, and one more.
Small == PC(4096, 4096, << Area(1024, 3072) >>)
Bochs == PC(32704, 32768, << Area(960, 64), Area(1024, 31680), Area(32704, 64),
                             Area(4173824, 4), Area(4194048, 256) >>)
Large == PC(3145728, 3145728, << Area(1024, 3144704), Area(3670016, 262144),
                                 Area(4194304, 1048576) >>)
Half  == PC(2097152, 2097152, << Area(1024, 2096128), Area(3670016, 262144) >>)
Many(n) == PC(15024, 15024 + 64 * (n - 3),
              << Area(1024, 14000) >> \o [k \in 1 .. n - 3 |-> Area(14960 + 64 * k, 64)])
MCMachine == {Small, Bochs, Large, Half, Many(12), Many(13)}

Segment(t, v, o, f, m) ==
    [type |-> t, vaddr |-> v, off |-> o, filesz |-> f, memsz |-> m]

\* The headers (linked below the entry point), an unused header, the code, and
\* data followed by memory that is not in the file.
Image(code, data, bss) ==
    << Segment(1, -1, 0, 1, 1), Segment(0, 0, 0, 1, 1), Segment(1, 0, 1, code, code),
       Segment(1, code, 1 + code, data, data + bss) >>

\* A kernel of one block, one of two blocks and one of six.
MCKernel == {Image(1, 1, 1), Image(2, 2, 0), Image(10, 6, 2)}

\* A kernel of two blocks.
TwoBlocks == {Image(2, 3, 1)}
=============================================================================
