\* A client reads two bytes at a time and cuts a rune.
CONSTANTS
    h1 = h1
    h2 = h2
    Handle = {h1, h2}
    MaxResponses = 1
    ResponseTTL = 2
    MaxClock = 2
    Body <- MCBody
    Reader = {r1}
    Offset = {0}
    MaxBytes = {2}
    MaxReadBytes = 2
    defaultResponseReadBytes = 3
    MaxInt = 15
SPECIFICATION Spec
CHECK_DEADLOCK FALSE
INVARIANTS
    PageWithinLimit
