\* A voice socket: two frames through a queue of one, two provider messages.
SPECIFICATION Spec
CONSTANTS
    Turn <- MCTurn
    MaxMessages = 2
    AUDIO_QUEUE_MAXSIZE = 1
    MaxFrames = 2
INVARIANTS
    StreamTypeOK
    CleanDrain
    NothingOutlives
PROPERTIES
    TurnsDelivered
    FailureReported
    SocketEnds
CHECK_DEADLOCK FALSE
