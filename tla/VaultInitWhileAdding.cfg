\* asb vault init and asb secret add at the same time, nothing fails.
CONSTANTS
    Procs = {p1, p2}
    Ids = {i1}
    Values = {v1}
    NoValue = NoValue
    NoFile = NoFile
    NoProc = NoProc
    Ops = {"init", "set"}
    Provisioned = FALSE
    SameDirectory = TRUE
    MaxOps = 2
    MaxCrashes = 0
    MaxPowerLosses = 0
    MaxFaults = 0
SPECIFICATION Spec
SYMMETRY Symmetry
INVARIANT Readable
CHECK_DEADLOCK FALSE
