\* One call under a server limit of the largest integer.
CONSTANTS
    Call = {c1}
    SessionID = {s1}
    MaxSessions = 1
    SessionTTL = 1
    MaxResponses = 1
    ResponseTTL = 1
    MaxClock = 1
    Bodies <- MCBodies
    Arguments <- MCUnlimited
    MaxResponseBytes = 7
    MaxInt = 7
SPECIFICATION Spec
CHECK_DEADLOCK FALSE
INVARIANTS
    EveryLimitTold
