SPECIFICATION Spec
CONSTANTS
    NumTriggers <- MCNumTriggers
    MaxStarts <- MCMaxStarts
    Invocations = {i1}
CHECK_DEADLOCK FALSE
INVARIANTS
    AlreadyStartedIsRefused
