SPECIFICATION FairSpec
CONSTANTS
    NumTriggers <- MCNumTriggers
    MaxStarts <- MCMaxStarts
    Invocations = {i1}
CHECK_DEADLOCK FALSE
INVARIANTS
    TypeOK
    NoOrphan
    ShutdownMeansIdle
PROPERTIES
    ShutdownCompletes
