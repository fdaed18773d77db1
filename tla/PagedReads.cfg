\* A client reads while two responses are stored into one place; the reads of
\* others are lookups of the store.  The largest integer is the length of a
\* body, so that the end of a range overflows as with a limit near 2^63.
CONSTANTS
    h1 = h1
    h2 = h2
    Handle = {h1, h2}
    MaxResponses = 1
    ResponseTTL = 2
    MaxClock = 4
    Body <- MCBody
    Reader = {r1}
    Offset <- MCOffset
    MaxBytes <- MCMaxBytes
    MaxReadBytes = 2
    defaultResponseReadBytes = 3
    MaxInt = 5
SPECIFICATION FairSpec
\* All responses are stored, all clients are done and time is up.
CHECK_DEADLOCK FALSE
INVARIANTS
    PagesReassemble
PROPERTIES
    ServedWhileAlive
    ReadingEnds
