CONSTANTS
  a = a
  b = b
  None = None
  Jobs = {a, b}
  Worlds <- MCWorlds
SPECIFICATION FairSpec
INVARIANTS TypeOK CrossLocks LocksHaveOwners ProgressIsReal DoneTookEffect NotInstalledAgain
PROPERTY EveryJobSettles
CHECK_DEADLOCK FALSE
