CONSTANTS
    main = main
    t1 = t1
    t2 = t2
    t3 = t3
    Thread = {main, t1, t2, t3}
    NoThread = NoThread
    MayBlock <- MCMayBlock
    BlockStatus = {"TASK_BLOCKED"}
    Priority <- MCPriority
    TimerSchedules = TRUE
    ElapsedLimit = 1
SPECIFICATION FairSchedSpec
INVARIANTS
    TypeOK
    ReadyNotLost
    OnlyReadyListed
    BlockedStaysOff
    OnlyCurRuns
    ContextSaved
PROPERTIES
    NoOvertaking
    NoStarvation
