\* Kills, dry runs and rollbacks on the host: two handlers on one PID that a
\* protected process may take over. No symmetry, for the liveness property.
SPECIFICATION FairSpec
CONSTANTS
    Token = {k1, k2}
    Request = {r1, r2}
    Previewers = {r1, r2}
    Command <- KillCommands
    Pod = {}
    Gateway = gateway
    Pid = {42}
    Name = {"app", "init"}
    Protected = {"init"}
    Ip = {1}
    Platform = "win32"
    OutsideEdits = FALSE
    Faults = TRUE
    MaxBirths = 1
    MaxRules = 2
    TTL = 1
    MaxTime = 1
    MaxIncidents = 3
    MaxEntries = 2
    None = None
PROPERTY ApprovedOnly
PROPERTY ValidUntilRedeemed
PROPERTY RequestsAnswered
PROPERTY RecordedKillsAreReal
INVARIANT StackSound
