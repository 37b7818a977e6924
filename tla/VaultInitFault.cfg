\* asb vault init, one failing call.
CONSTANTS
    Procs = {p1}
    Ids = {i1}
    Values = {v1}
    NoValue = NoValue
    NoFile = NoFile
    NoProc = NoProc
    Ops = {"init"}
    Provisioned = FALSE
    SameDirectory = TRUE
    MaxOps = 2
    MaxCrashes = 0
    MaxPowerLosses = 0
    MaxFaults = 1
SPECIFICATION Spec
SYMMETRY Symmetry
INVARIANT KeyMatchesVault
CHECK_DEADLOCK FALSE
