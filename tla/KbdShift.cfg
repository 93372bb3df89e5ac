SPECIFICATION KbdSpec
CONSTANTS
    Key <- ShiftKeys
    Repeating <- ShiftKeys
    MaxDown = 3
    MaxWire = 4
INVARIANT
    FlagsFollowKeys
