CONSTANTS
    MaxServers = 2
    NFrames = 1
    NPixels = 3
    NSelect = 2
    Faults = {"exit"}
    NeedTree = {}
    Lumps = {1, 2}
    Callers = {"rtsrv", "stale"}
    Commands = {}
    MaxCalls = 3
    MaxCmds = 0
    MaxFaults = 2
    Checkpoints <- FreshOrHole
SPECIFICATION Spec
INVARIANTS
    NoPixelTwice
    NoPixelLost
PROPERTIES
    RendersJob
    ClosingIsFinal
