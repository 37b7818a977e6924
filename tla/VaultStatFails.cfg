\* asb secret add twice, the second cannot see the vault.
CONSTANTS
    Procs = {p1}
    Ids = {i1, i2}
    Values = {v1}
    NoValue = NoValue
    NoFile = NoFile
    NoProc = NoProc
    Ops = {"set"}
    Provisioned = TRUE
    SameDirectory = TRUE
    MaxOps = 2
    MaxCrashes = 0
    MaxPowerLosses = 0
    MaxFaults = 1
SPECIFICATION Spec
SYMMETRY Symmetry
INVARIANT Readable
CHECK_DEADLOCK FALSE
