CONSTANTS
    MaxServers = 2
    NFrames = 2
    NPixels = 2
    NSelect = 2
    Faults = {"exit", "write", "tardy", "slow"}
    NeedTree = {1, 2}
    Lumps = {1, 2}
    Callers = {"rtsrv"}
    Commands = {"stop", "go", "drop"}
    MaxCalls = 2
    MaxCmds = 1
    MaxFaults = 1
    Checkpoints <- OneFresh
SPECIFICATION Spec
INVARIANTS
    TypeOK
    NoPixelLost
    AnswersMatch
    OwnMatrix
    OwnView
    OneInFlight
    MovieFrameHasOneServer
