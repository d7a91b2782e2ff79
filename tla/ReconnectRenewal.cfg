SPECIFICATION Spec
CONSTANTS
    Clients = {c1, c2}
    Generations = {g1, g2}
    None = None
    MaxAttempts = 3
    MaxQueue = 2
CHECK_DEADLOCK FALSE
INVARIANT
    OneGeneration
