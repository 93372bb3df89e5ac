CONSTANTS
    main = main
    t1 = t1
    t2 = t2
    t3 = t3
    lock = lock
    disk = disk
    Thread = {main, t1, t2}
    NoThread = NoThread
    MayBlock <- MCMayBlock
    BlockStatus = {"TASK_BLOCKED"}
    Priority <- MCPriority
    TimerSchedules = TRUE
    ElapsedLimit = 1
    Sem = {lock, disk}
    Lock = {lock}
    MayDown = {t1}
    Initial <- MCInitial
    MaxValue = 2
    MaxDepth = 2
SPECIFICATION FairSyncSpec
PROPERTY
    LockProgress
