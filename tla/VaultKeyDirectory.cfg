\* init, then add, then a power failure; the key has a directory of its own.
CONSTANTS
    Procs = {p1}
    Ids = {i1}
    Values = {v1}
    NoValue = NoValue
    NoFile = NoFile
    NoProc = NoProc
    Ops = {"init", "set"}
    Provisioned = FALSE
    SameDirectory = FALSE
    MaxOps = 2
    MaxCrashes = 0
    MaxPowerLosses = 1
    MaxFaults = 0
SPECIFICATION Spec
SYMMETRY Symmetry
INVARIANT Readable
CHECK_DEADLOCK FALSE
