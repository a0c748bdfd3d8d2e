CONSTANTS
    NameLen = 1
SPECIFICATION FairSpec
PROPERTY NegotiationTerminates
