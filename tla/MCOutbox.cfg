SPECIFICATION Spec
CONSTANTS
    Payloads = {p1, p2, p3}
    NoPayload = NoPayload
    MaxAttempts = 2
    LeaseLimit = 2
    MaxId = 3
SYMMETRY PayloadSymmetry
CHECK_DEADLOCK FALSE
INVARIANTS
    TypeOK
    NoStrandedRow
    NoDuplicateLive
    BoundedLeases
PROPERTIES
    LeaseInOrder
    ImplementsDurableQueue
