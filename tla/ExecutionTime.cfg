\* One command, confirmed one tick after its preview.
SPECIFICATION Spec
CONSTANTS
    Token = {k1}
    Request = {r1}
    Previewers = {}
    Command <- ClusterCommands
    Pod = {gateway}
    Gateway = gateway
    Pid = {}
    Name = {}
    Protected = {}
    Ip = {}
    Platform = "linux"
    OutsideEdits = FALSE
    Faults = FALSE
    MaxBirths = 0
    MaxRules = 2
    TTL = 2
    MaxTime = 1
    MaxIncidents = 3
    MaxEntries = 2
    None = None
INVARIANT ExecutionExcludesOperator
