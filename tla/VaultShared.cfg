\* Two processes run any command on a vault that exists with its key.
CONSTANTS
    Procs = {p1, p2}
    Ids = {i1, i2}
    Values = {v1, v2}
    NoValue = NoValue
    NoFile = NoFile
    NoProc = NoProc
    Ops = {"init", "set", "delete", "get", "validate"}
    Provisioned = TRUE
    SameDirectory = FALSE
    MaxOps = 3
    MaxCrashes = 2
    MaxPowerLosses = 1
    MaxFaults = 1
SPECIFICATION Spec
SYMMETRY Symmetry
INVARIANTS TypeOK ReadableUnlessOverlooked
PROPERTY ImplementsStore
CHECK_DEADLOCK FALSE
