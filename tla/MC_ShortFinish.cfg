CONSTANTS
    NameLen = 1
SPECIFICATION Spec
INVARIANT SuccessAtGreetingEnd
