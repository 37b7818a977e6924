\* Every body of up to six characters, in any chunks.
CONSTANTS
    BodyChars = {"s", "t", "u"}
    MaxBodyLength = 6
    Secrets <- MCSecrets
    Marker <- MCMarker
SPECIFICATION TextSpec
INVARIANT NoPartShown
CHECK_DEADLOCK FALSE
