CONSTANTS
    client = client
    server = server
    Ends <- Two
    Callers = {client}
    HdrLen = 2
    Lens <- ShortAndLong
    MAXQLEN = 1
    StreamLen = 4
    SizeMod = 64
    KernelBuf = 6
    Buf = 0
    Window <- OneNote
    MaxMsgs <- Notes
    Faults = {"broken"}
SPECIFICATION Spec
INVARIANTS
    QueueFits
CHECK_DEADLOCK FALSE
