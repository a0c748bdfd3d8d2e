CONSTANTS
    MaxReqs = 2
    NReqs = 2
    HdrLen = 2
    BodyLen = 1
    ReplyHdrLen = 2
    TxCap = 2
    IdInit <- MC_IdInit
    CloseWhenIdle = TRUE
SPECIFICATION FairSpec
INVARIANT ClosedReleasesEvents
PROPERTIES
    AcceptedEventuallyCompleted
    RefinesConnection
    CloseReturns
