\* Both engines at once: pods and host isolations share one stack and one
\* ledger, with two handlers on the host and tools that fail at will.
SPECIFICATION Spec
CONSTANTS
    Token = {k1, k2, k3}
    Request = {r1, r2}
    Previewers = {}
    Command <- ClusterAndHostCommands
    Pod = {gateway, auth}
    Gateway = gateway
    Pid = {42}
    Name = {"app"}
    Protected = {}
    Ip = {1, 2}
    Platform = "linux"
    OutsideEdits = FALSE
    Faults = TRUE
    MaxBirths = 0
    MaxRules = 2
    TTL = 1
    MaxTime = 0
    MaxIncidents = 2
    MaxEntries = 2
    None = None
SYMMETRY Symmetric
INVARIANT TypeOK
INVARIANT StackSound
INVARIANT RolledBackOnce
INVARIANT SnapshotsNested
INVARIANT FirewallAccounted
PROPERTY ResolutionIsFinal
PROPERTY ApprovedOnly
PROPERTY ImplementsLifecycle
