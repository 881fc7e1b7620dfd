SPECIFICATION Spec
CONSTANTS
    Upstreams <- MCUpstreams
    Clients <- MCClients
    MaxFrags = 4
    MaxTools = 2
INVARIANTS
    NothingLost
    EndIsTold
PROPERTIES
    WellFormed
CHECK_DEADLOCK FALSE
