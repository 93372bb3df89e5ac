-------------------------------- MODULE Pools --------------------------------
(***************************************************************************)
(* Where mem_pool_init of kernel/memory.c puts the kernel's pool of frames,*)
(* the user's pool and their bitmaps, given the size of memory m that the  *)
(* loader found.  Sizes are in pages of 4 KB.                              *)
(***************************************************************************)
EXTENDS Integers

\* Mutated form: the number of free pages is kept in 32 bits.
used_mem == 512
all_free_pages_32(m) == m - used_mem

\* mem_pool_init.  unsigned short keeps 16 bits of the number of free pages,
\* and the rest of the division by 8 is lost.
all_free_pages(m)    == (m - used_mem) % 65536
kernel_free_pages(m) == all_free_pages(m) \div 2
user_free_pages(m)   == all_free_pages(m) - kernel_free_pages(m)
kbm_length(m)        == kernel_free_pages(m) \div 8
ubm_length(m)        == user_free_pages(m) \div 8

\* The bits of kernel_vaddr's bitmap and of the kernel pool's.
Pages(m) == 8 * kbm_length(m)

MEM_BITMAP_BASE == 630784      \* 0x9a000, in bytes
MainTCB         == 647168      \* 0x9e000: the page of the main thread
K_HEAP_START    == 786688      \* 0xc0100000, in pages
PageTables      == 1047552     \* 0xffc00000, in pages

=============================================================================
