\* Three calls compete for one slot under two names; a session lives two ticks.
CONSTANTS
    Call = {c1, c2, c3}
    SessionID = {s1, s2}
    MaxSessions = 1
    SessionTTL = 2
    MaxClock = 3
SPECIFICATION Spec
SYMMETRY Symmetry
CHECK_DEADLOCK FALSE
INVARIANTS
    TableOK
    CookieIsolation
    GoneCookiesStayGone
PROPERTIES
    LiveSessionKeepsJar
    LeaseRefinement
