\* Three pods, windows of two ticks that close at every point of a handler.
SPECIFICATION Spec
CONSTANTS
    p1 = p1
    p2 = p2
    Pod = {p1, p2, p3}
    None = None
    Pid = {pid1}
    Process = {app}
    Utterance <- SpokenCommands
    Window = 2
    MaxTime = 3
INVARIANT DialogTypeOK
INVARIANT WindowSound
PROPERTY HonoursContract
PROPERTY NeverGuesses
PROPERTY ExpiredForgotten
