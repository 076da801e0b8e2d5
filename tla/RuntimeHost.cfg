SPECIFICATION FairSpec
CONSTANTS
    Adapters <- MCAdapters
    Callers = {c1, c2}
    Leases = {r1, r2}
CHECK_DEADLOCK FALSE
INVARIANTS
    TypeOK
    ClosedMeansQuiet
    HooksOffOnceStarted
    ServerNotLost
PROPERTIES
    ServedBeforeShutdown
    UnsafeAnswersPromptly
    EveryoneAnswered
