\* Two calls under two names, one slot in each table.
CONSTANTS
    Call = {c1, c2}
    SessionID = {s1, s2}
    MaxSessions = 1
    SessionTTL = 1
    MaxResponses = 1
    ResponseTTL = 1
    MaxClock = 1
    Bodies <- MCBodies
    Arguments <- MCArguments
    MaxResponseBytes = 7
    MaxInt = 7
SPECIFICATION FairSpec
CHECK_DEADLOCK FALSE
INVARIANTS
    FailureStoresNothing
    FailureRenewsNothing
    SummaryOfOwnSession
    TruncationTold
PROPERTIES
    Returns
