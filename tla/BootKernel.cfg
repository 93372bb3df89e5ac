SPECIFICATION LoaderSpec
CONSTANTS
    Machine <- MCMachine
    Kernel <- MCKernel
    ArdsRoom = 12
    BlockCells = 3
    ElfBase = 20
    LoaderCells = 1
INVARIANTS
    PoolIsRam
    SizeFound
    LoaderSurvives
    SegmentsInPlace
PROPERTY
    BootEnds
