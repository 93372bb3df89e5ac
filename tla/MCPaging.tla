------------------------------ MODULE MCPaging ------------------------------
EXTENDS Paging, TLC

CONSTANTS t1, t2

\* Two callers; requests that are refused, that fit and that do not, and one that
\* takes the heap into its second table.
MCCaller  == {t1, t2}
MCRequest == {0, 1, 3, 9, 769, 3840}

\* 640 KB, 2 MB, a pool of 8 pages (with a remainder, and after the wrap of 16 bits),
\* the 32 MB of memory.h, the largest pools and the largest memory.
MCDetected == {160, 512, 535, 66064, 8192, 66047, 2^20 - 1}

\* The long request is the first one.
MCMaxTaken == [n \in MCRequest |-> IF n = 769 THEN 0 ELSE 5]

Symmetry == Permutations(MCCaller)

=============================================================================
