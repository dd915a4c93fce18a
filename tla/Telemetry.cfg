\* Two pages, two mode switches, one fault.
SPECIFICATION Spec
CONSTANTS
    Page = {p1, p2}
    MaxFaults = 1
    MaxSwitches = 2
    None = None
INVARIANTS
    FeedTypeOK
    NoGhosts
PROPERTIES
    PagesFollowMode
CHECK_DEADLOCK FALSE
