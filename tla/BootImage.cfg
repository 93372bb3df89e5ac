SPECIFICATION LoaderSpec
CONSTANTS
    Machine <- MCMachine
    Kernel <- TwoBlocks
    ArdsRoom = 12
    BlockCells = 3
    ElfBase = 20
    LoaderCells = 1
INVARIANT
    KernelAsLinked
