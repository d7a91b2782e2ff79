SPECIFICATION FairSpec
CONSTANTS
    Payloads = {p1, p2}
    NoPayload = NoPayload
    MaxAttempts = 2
    LeaseLimit = 1
    MaxId = 2
    TooLarge = {p2}
CHECK_DEADLOCK FALSE
INVARIANTS
    NothingLostSilently
    NoLostWakeup
PROPERTIES
    StableLinkDrains
    RecoveredByReconnects
