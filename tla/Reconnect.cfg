SPECIFICATION FairSpec
CONSTANTS
    Clients = {c1, c2}
    Generations = {g1, g2, g3}
    None = None
    MaxAttempts = 3
    MaxQueue = 2
CHECK_DEADLOCK FALSE
INVARIANT
    TypeOK
    ListenersHear
    NoOrphans
    OneAttempt
    ReconnectingIsScheduled
    NeverAbandoned
PROPERTY
    LinkReturns
