\* Two threads against one PID that is reused twice; the tools may fail.
SPECIFICATION HostSpec
CONSTANTS
    Worker = {w1, w2}
    Pid = {42}
    Name = {"app", "init"}
    Protected = {"init"}
    Ip = {1}
    Platform = "linux"
    OutsideEdits = TRUE
    Faults = TRUE
    MaxBirths = 2
    MaxRules = 1
    None = None
INVARIANT HostTypeOK
INVARIANT ProtectedSurvive
INVARIANT TerminationIsReal
PROPERTY ThreadsReturn
