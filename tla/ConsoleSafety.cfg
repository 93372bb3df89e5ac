SPECIFICATION ConsoleSpec
CONSTANTS
    a = a
    Cols = 3
    Rows = 2
    Glyph <- MCGlyph
    Blank = Blank
    Text <- MCText
INVARIANTS
    NothingBehindCursor
    StringsWhole
    IntrRestored
