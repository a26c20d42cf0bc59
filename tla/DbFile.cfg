CONSTANTS
    Users = {u1}
    Names = {"a", "b"}
    Sizes = {1, 2, 3}
    Global = "a"
    EmptyGlobal = 1
    FullGlobal = 2
    FileMax = 8
    WholeFree = 2
    MaxHurt = 1
    Faults = {"write", "crash"}
    Garbage = {"fatal"}
SPECIFICATION Spec
INVARIANTS
    TypeOK
    TablesMatchFile
    SpaceOwnedOnce
    OnlyWindowsHurt
PROPERTY
    KeepsObjects
CHECK_DEADLOCK FALSE
