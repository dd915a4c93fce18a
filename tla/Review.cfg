\* Two requests under review, four fetches, the clock past a deadline.
SPECIFICATION Spec
CONSTANTS
    Token = {k1, k2}
    Command = {c1}
    Mode = {host}
    TTL = 2
    MaxTime = 3
    MaxFetches = 4
    None = None
INVARIANTS
    ReviewTypeOK
    SingleUse
    OneSubmission
    NoUnwantedExecution
    ReviewPinned
PROPERTIES
    DialogFreed
CHECK_DEADLOCK FALSE
