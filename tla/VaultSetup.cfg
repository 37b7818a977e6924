\* Two processes set a vault up and use it, from no files; everything may fail.
CONSTANTS
    Procs = {p1, p2}
    Ids = {i1}
    Values = {v1}
    NoValue = NoValue
    NoFile = NoFile
    NoProc = NoProc
    Ops = {"init", "set", "get"}
    Provisioned = FALSE
    SameDirectory = TRUE
    MaxOps = 3
    MaxCrashes = 1
    MaxPowerLosses = 1
    MaxFaults = 1
SPECIFICATION FairSpec
INVARIANT InitializedForGood
PROPERTY Terminates
CHECK_DEADLOCK FALSE
