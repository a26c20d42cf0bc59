CONSTANTS
    NPixels = 7
    FileMax = 6
SPECIFICATION ScanSpec
INVARIANTS
    ScanTypeOK
    RemainderExact
    TodoAscending
