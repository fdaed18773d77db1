\* Responses are stored, perhaps late, and nothing else is ever asked.
CONSTANTS
    Handle = {h1, h2}
    MaxResponses = 2
    ResponseTTL = 1
    MaxClock = 3
SPECIFICATION FairSpec
CHECK_DEADLOCK FALSE
PROPERTIES
    DueBodiesGo
