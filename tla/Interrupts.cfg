SPECIFICATION IntrSpec
CONSTANTS
    Fault <- MCFault
    MaxFaults = 4
INVARIANTS
    FramesWhole
    HandlerMeant
    OneInterrupt
PROPERTY
    KeyboardHeard
