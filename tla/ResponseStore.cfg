\* Five calls store into three places; a response lives two ticks.
CONSTANTS
    Handle = {h1, h2, h3, h4, h5}
    MaxResponses = 3
    ResponseTTL = 2
    MaxClock = 4
SPECIFICATION Spec
SYMMETRY Symmetry
CHECK_DEADLOCK FALSE
INVARIANTS
    TableOK
    ServedUntilDue
    EvictionNeedsPressure
PROPERTIES
    LeaseRefinement
    ExpiredGoFirst
