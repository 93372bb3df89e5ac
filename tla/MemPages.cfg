SPECIFICATION PagingSpec
CONSTANTS
    t1 = t1
    t2 = t2
    Caller <- MCCaller
    Detected <- MCDetected
    Request <- MCRequest
    TimerSchedules = FALSE
    MaxTaken <- MCMaxTaken
SYMMETRY Symmetry
INVARIANTS
    LayoutOK
    NothingLeaks
    MapsAsDocumented
    HeapMapped
PROPERTY
    GrantsPages
