CONSTANTS
    MaxServers = 2
    NFrames = 1
    NPixels = 2
    NSelect = 2
    Faults = {"reset", "open", "slow"}
    NeedTree = {}
    Lumps = {1, 2}
    Callers = {"rtsrv"}
    Commands = {"stop", "restart", "restart all", "load", "rdebug", "allocate"}
    MaxCalls = 2
    MaxCmds = 1
    MaxFaults = 1
    Checkpoints <- OneFresh
SPECIFICATION Spec
INVARIANTS
    NoPixelTwice
    NoRework
