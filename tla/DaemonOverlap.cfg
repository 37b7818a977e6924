\* Two brokers that interleave freely.
CONSTANTS
    Brokers = {b1, b2}
    Clients = {p1, p2}
    NoSocket = NoSocket
    Settled = FALSE
    MaxStarts = 2
    MaxKills = 0
    MaxLinks = 0
SPECIFICATION SocketSpec
SYMMETRY ProcessSymmetry
INVARIANT ServingIsReachable
CHECK_DEADLOCK FALSE
