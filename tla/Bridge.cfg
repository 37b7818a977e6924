\* Two messages when a call is among them and four when none is, through pipes of
\* one; an ssh client that writes up to twice the output limit, may never exit, and
\* may be left behind.
CONSTANTS
    Kinds = {"call", "note", "big"}
    PipeCap = 1
    MaxMessages = 4
    MaxWithCalls = 2
    OutputLimit = 1
    PipeSize <- MCPipeSize
    BufferSize = 2
    MaxOutput = 2
SPECIFICATION Spec
INVARIANTS TypeOK AnswersInOrder ExecutedOnce CleanEnd CaptureExact NothingLeftBehind
PROPERTIES AnswerArrives BothEnd PipesDrain CallEnds
CHECK_DEADLOCK FALSE
