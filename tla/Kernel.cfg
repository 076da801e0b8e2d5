SPECIFICATION FairSpec
CONSTANTS
    NumModules = 2
    NumProviders = 4
    Owner <- MCOwner
    Deps <- MCDeps
    HookNeeds <- MCHookNeeds
    Logger = 4
    NumExtensions = 2
    HasDrain = {1, 2}
    HasClose = {1, 2}
    Leases = {l1, l2}
CHECK_DEADLOCK FALSE
INVARIANTS
    TypeOK
    SafeCleanupBoundary
    NoConcurrentDrain
    CallsMadeOnce
    StoppedReleasesAll
    CleanupOrder
    NoLostIdleWakeup
    FailedDrainAborts
PROPERTIES
    CleanupConstructsNothing
    ImplementsLifecycle
    ShutdownEnds
