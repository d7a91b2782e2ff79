SPECIFICATION FairSpec
CONSTANTS
    Keys = {"inventory", "compliance", "patch"}
    Policies <- MCPolicies
    Hangs = {"forever", "return"}
    HangsAtBoot = FALSE
    MaxYoung = 2
CHECK_DEADLOCK FALSE
INVARIANTS
    TypeOK
    PlanInForce
    NoScanForgotten
    AtMostOneYoung
PROPERTIES
    PatchWaitsForUptime
    NeverShutOff
    StartupEnds
