CONSTANTS
  a = a
  b = b
  None = None
  Jobs = {a, b}
  Worlds <- Reboots
SPECIFICATION Spec
PROPERTY RebootSpares
CHECK_DEADLOCK FALSE
