\* Three incidents over a ledger of two: the oldest is evicted, before or after
\* it is resolved. The system stops when every token is drawn and resolved.
SPECIFICATION LogSpec
CONSTANTS
    Token = {k1, k2, k3}
    Command = {c1}
    Mode = {host}
    MaxIncidents = 2
    MaxTime = 2
    MaxDelay = 1
    None = None
SYMMETRY TokenSymmetry
INVARIANT LogTypeOK
INVARIANT LedgerOrder
INVARIANT LatestIsNewest
CHECK_DEADLOCK FALSE
