\* The server allows the largest integer, and a client asks for the rest of a body.
CONSTANTS
    h1 = h1
    h2 = h2
    Handle = {h1, h2}
    MaxResponses = 1
    ResponseTTL = 2
    MaxClock = 2
    Body <- MCBody
    Reader = {r1}
    Offset = {2}
    MaxBytes = {15}
    MaxReadBytes = 15
    defaultResponseReadBytes = 3
    MaxInt = 15
SPECIFICATION Spec
CHECK_DEADLOCK FALSE
INVARIANTS
    ValidRangesServed
