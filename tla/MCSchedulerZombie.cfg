SPECIFICATION Spec
CONSTANTS
    Keys = {"inventory", "patch"}
    Policies <- MCPolicies
    Hangs = {"return"}
    HangsAtBoot = FALSE
    MaxYoung = 2
CHECK_DEADLOCK FALSE
INVARIANT
    ZombieEndIsNoOp
