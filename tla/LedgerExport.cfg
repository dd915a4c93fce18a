\* Two incidents resolved in the other order than they were opened.
SPECIFICATION LogSpec
CONSTANTS
    Token = {k1, k2, k3}
    Command = {c1}
    Mode = {host}
    MaxIncidents = 2
    MaxTime = 2
    MaxDelay = 0
    None = None
SYMMETRY TokenSymmetry
INVARIANT ExportIsMostRecent
CHECK_DEADLOCK FALSE
