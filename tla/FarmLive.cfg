CONSTANTS
    MaxServers = 2
    NFrames = 1
    NPixels = 2
    NSelect = 2
    Faults = {"exit"}
    NeedTree = {}
    Lumps = {1, 2}
    Callers = {"rtsrv"}
    Commands = {}
    MaxCalls = 2
    MaxCmds = 0
    MaxFaults = 1
    Checkpoints <- OneFresh
SPECIFICATION FairSpec
PROPERTIES
    ScheduleReturns
    DroppedIsClosed
    ConnectedIsHeard
    TaskAccomplished
