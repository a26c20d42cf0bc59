CONSTANTS
    Users = {u1}
    Names = {"a", "b"}
    Sizes = {1, 2}
    Global = "none"
    EmptyGlobal = 1
    FullGlobal = 2
    FileMax = 5
    WholeFree = 2
    MaxHurt = 1
    Faults = {"flush"}
    Garbage = {"fatal"}
SPECIFICATION Spec
INVARIANT
    TablesMatchFile
CHECK_DEADLOCK FALSE
