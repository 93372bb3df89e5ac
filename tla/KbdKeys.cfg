SPECIFICATION KbdSpec
CONSTANTS
    Key <- MCKey
    Repeating <- MCKey
    MaxDown = 3
    MaxWire = 4
INVARIANTS
    TypedAsMeant
    FlagsFollowKeys
