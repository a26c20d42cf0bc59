CONSTANTS
    rt1 = rt1  rt2 = rt2
    t1 = t1  t2 = t2  t3 = t3
    sph = sph
    Procs = {rt1, rt2}
    Workers <- Threads
    ProcOf <- Owner
    Nobody = Nobody
    Names = {sph}
    Work <- Objects
    Size = 2
    Starts = {"none"}
    MaxOpens <- Frames
    Faults = {}
    MaxHurt = 0
SPECIFICATION Spec
INVARIANT EachFindsAll
CHECK_DEADLOCK FALSE
