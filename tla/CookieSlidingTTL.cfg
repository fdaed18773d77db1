\* A stale clock reading against a later renewal of the same session.
CONSTANTS
    Call = {c1, c2}
    SessionID = {s1}
    MaxSessions = 1
    SessionTTL = 2
    MaxClock = 2
SPECIFICATION Spec
CHECK_DEADLOCK FALSE
PROPERTIES
    SlidingTTL
