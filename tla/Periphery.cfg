SPECIFICATION FairSpec
CONSTANTS
    MaxChanges = 2
    MaxRequests = 1
    NumTargets = 2
    MaxVersions = 2
    Connections = {c1, c2, c3}
    Runs = {r1, r2}
    Commands = {k1, k2}
    NoConnection = NoConnection
    MaxOperations = 3
    OperationIds = {i1}
    MaxLoads = 3
    Keys = {b1}
    Parents = {"object", "number"}
    Primitives = {"number"}
    MaxBatchSize = 2
    MaxMinutes = 3
    MaxFirings = 2
    Concurrency = 2
CHECK_DEADLOCK FALSE
INVARIANTS
    TypeOK
    RunsMirrorConnections
PROPERTIES
    DevFollowsSource
    GenerationsKept
    OperationsImplementLeases
    LoadsAreAnswered
    StoppedTriggersAreQuiet
