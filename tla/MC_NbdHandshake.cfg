CONSTANTS
    NameLen = 1
SPECIFICATION FairSpec
INVARIANTS
    TypeOK
    FailClosesOnce
    SuccessOnlyFromNbdServer
    FailedSendNeverSucceeds
PROPERTY
    NegotiationEndsUnlessPadSpin
