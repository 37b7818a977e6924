\* The process starts when the clock that gives its Instants is younger than a window.
CONSTANTS
    Tasks = {t1}
    c1 = c1
    c2 = c2
    Caps = {c1, c2}
    Limit <- MCLimit
    Window = 2
    Boot = 0
    Lag = 1
    Horizon = 4
    MaxRestarts = 0
SPECIFICATION Spec
INVARIANT NoOverrun
CHECK_DEADLOCK FALSE
