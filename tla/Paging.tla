------------------------------- MODULE Paging -------------------------------
(***************************************************************************)
(* The page tables: setup_page of boot/loader.asm builds them, and         *)
(* page_table_add of kernel/memory.c enters the pages that Memory grants.  *)
(* Both the table of Memory (pte) and the words of the page tables are     *)
(* kept here, so that what the processor finds can be compared with what   *)
(* the allocator means.                                                    *)
(*                                                                         *)
(* A virtual address is the number of a word of 4 bytes; a page has Words  *)
(* of them, as a table has entries.  An entry is the frame it points to    *)
(* (all entries allow everybody to write), or NotPresent, or Unwritten if  *)
(* it is still what the memory held before.                                *)
(***************************************************************************)
EXTENDS Memory

Words == 1024
NotPresent == -1
Unwritten == -2

PageDir == 256    \* PAGE_DIR_TABLE_POS, 0x100000, as a frame

VARIABLE ram  \* the frames written as page tables: frame -> entries

pagingVars == << memVars, ram >>

-----------------------------------------------------------------------------
(***************************************************************************)
(* setup_page.  Entries 0 and 768 of the directory point to the first      *)
(* table, which maps the first MB; entry 1023 points to the directory      *)
(* itself, 769 to 1022 to tables that are left as they are.                *)
(***************************************************************************)
create_pde ==
    [[e \in 0 .. Words - 1 |-> NotPresent]
        EXCEPT ![0] = PageDir + 1, ![768] = PageDir + 1, ![1023] = PageDir]

\* Mutated form: the loop begins with the first table.
create_kernel_pde_again ==
    [e \in 0 .. Words - 1 |->
        IF e \in 769 .. 1022 THEN PageDir + 1 + (e - 769) ELSE create_pde[e]]

create_kernel_pde ==
    [e \in 0 .. Words - 1 |->
        IF e \in 769 .. 1022 THEN PageDir + 2 + (e - 769) ELSE create_pde[e]]
create_pte ==
    [e \in 0 .. Words - 1 |-> IF e < 256 THEN e ELSE Unwritten]

setup_page ==
    ram = [f \in {PageDir, PageDir + 1} |->
              IF f = PageDir THEN create_kernel_pde ELSE create_pte]

-----------------------------------------------------------------------------
(***************************************************************************)
(* The processor: cr3 is PageDir, a virtual address v is looked up in r.   *)
(***************************************************************************)
PDE_IDX(v) == v \div (Words * Words)
PTE_IDX(v) == (v \div Words) % Words

Table(r, v) == r[PageDir][PDE_IDX(v)]
Frame(r, v) == r[Table(r, v)][PTE_IDX(v)]

\* v is mapped to frame f.
MapsTo(r, v, f) == Table(r, v) \in DOMAIN r /\ Frame(r, v) = f

-----------------------------------------------------------------------------
(***************************************************************************)
(* page_table_add reaches the tables through entry 1023 of the directory.  *)
(***************************************************************************)
pde_ptr(v) == 1048575 * Words + PDE_IDX(v)

\* Mutated form: the entry of the directory is not taken in.
pte_ptr_low(v) == PageTables * Words + PTE_IDX(v)

pte_ptr(v) == PageTables * Words + PDE_IDX(v) * Words + PTE_IDX(v)

\* The table in frame f, for a store.
Store(r, f, e, x) ==
    [g \in DOMAIN r \cup {f} |->
        IF g # f THEN r[g]
        ELSE [k \in 0 .. Words - 1 |->
                 IF k = e THEN x ELSE IF f \in DOMAIN r THEN r[f][k] ELSE Unwritten]]

\* The tables of the heap exist: palloc is not called for another one.
page_table_add_entry(v, f) ==
    LET pte_v == pte_ptr(v)
        pde_v == pde_ptr(v) IN
    /\ ram[Frame(ram, pde_v)][pde_v % Words] # NotPresent
    /\ ram' = Store(ram, Frame(ram, pte_v), pte_v % Words, f)

PagingInit == mem_init /\ setup_page

Heap(p) == (K_HEAP_START + p) * Words

\* A step of Memory; page_table_add writes the entry.
PagingNext ==
    \E t \in Caller :
        \/ /\ \/ \E n \in Request : malloc_page(t, n)
              \/ vaddr_scan(t) \/ vaddr_set(t)
              \/ palloc_scan(t) \/ palloc_set(t)
           /\ UNCHANGED ram
        \/ /\ page_table_add(t)
           /\ page_table_add_entry(Heap(start[t] + done[t]), used_mem + frame[t])

PagingSpec == PagingInit /\ [][PagingNext]_pagingVars

-----------------------------------------------------------------------------

\* memory.h:16-22, the table of the mappings the loader makes: the first MB at
\* 0 and at 3 GB, the page tables and the directory at the end.  It stays true
\* whatever is allocated; so the tables can still be reached, and nothing that
\* is allocated takes the place of the kernel.
MapsAsDocumented ==
    /\ \A p \in 0 .. 255 :
          /\ MapsTo(ram, p * Words, p)
          /\ MapsTo(ram, (786432 + p) * Words, p)
    /\ MapsTo(ram, PageTables * Words, PageDir + 1)
    /\ \A e \in 768 .. 1022 :
          MapsTo(ram, (PageTables + e) * Words, PageDir + 1 + (e - 768))
    /\ MapsTo(ram, 1048575 * Words, PageDir)

\* Every page of the heap is mapped to the frame that was taken for it, through
\* whichever of the tables it falls into; mapping another one changes nothing.
HeapMapped ==
    \A p \in DOMAIN pte : MapsTo(ram, Heap(p), used_mem + pte[p])

=============================================================================
