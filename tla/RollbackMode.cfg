\* A rollback gated in one mode, confirmed once the stack ends in the other.
SPECIFICATION Spec
CONSTANTS
    Token = {k1, k2}
    Request = {r1}
    Previewers = {}
    Command <- MixedCommands
    Pod = {gateway}
    Gateway = gateway
    Pid = {42}
    Name = {"app"}
    Protected = {}
    Ip = {1}
    Platform = "linux"
    OutsideEdits = FALSE
    Faults = FALSE
    MaxBirths = 0
    MaxRules = 2
    TTL = 1
    MaxTime = 0
    MaxIncidents = 3
    MaxEntries = 2
    None = None
INVARIANT RollbackKeepsMode
