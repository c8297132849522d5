SPECIFICATION Spec
CONSTANTS
    Threads = {A, B}
    VGA_WIDTH = 2
    VGA_HEIGHT = 2
    Colors = {4, 7}
    Items <- MCItems
    MaxItems = 2
    Bits = 5
    DIGITS = 2
    HEXDIGITS = 2
SYMMETRY MCSymmetry
CONSTRAINT OneByOne
INVARIANTS
    ScreenShowsText
    PrintedAsMeant
CHECK_DEADLOCK FALSE
