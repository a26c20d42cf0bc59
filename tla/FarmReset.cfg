CONSTANTS
    MaxServers = 1
    NFrames = 1
    NPixels = 2
    NSelect = 1
    Faults = {"reset"}
    NeedTree = {}
    Lumps = {1, 2}
    Callers = {"rtsrv"}
    Commands = {}
    MaxCalls = 1
    MaxCmds = 0
    MaxFaults = 1
    Checkpoints <- OneFresh
SPECIFICATION Spec
INVARIANTS
    NoHoles
