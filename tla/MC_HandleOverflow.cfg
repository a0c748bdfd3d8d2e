CONSTANTS
    MaxReqs = 2
    NReqs = 3
    HdrLen = 2
    BodyLen = 1
    ReplyHdrLen = 2
    TxCap = 2
    IdInit <- MC_IdOverflow
    CloseWhenIdle = FALSE
SPECIFICATION Spec
INVARIANT CorrectCompletion
