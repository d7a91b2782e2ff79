SPECIFICATION Spec
CONSTANTS
    c1 = c1
    c2 = c2
    Certs <- Certificates
    Absent = Absent
    Contents = {Absent, v1, v2}
    Worlds <- OverlapWorlds
    MaxSends = 3
CHECK_DEADLOCK FALSE
INVARIANT
    BaselineIsServers
