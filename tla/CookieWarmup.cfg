\* A warmup whose request outlasts the lease of its session.
CONSTANTS
    Call = {c1, c2}
    SessionID = {s1}
    MaxSessions = 1
    SessionTTL = 1
    MaxClock = 2
SPECIFICATION Spec
CHECK_DEADLOCK FALSE
PROPERTIES
    WarmupRetains
