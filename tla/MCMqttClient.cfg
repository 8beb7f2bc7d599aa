SPECIFICATION FairSpec
CONSTANTS
    runner = runner
    sync = sync
    Runner = runner
    Tasks <- MCTasks
    MaxAttempts = 2
    NetErrors <- MCNetErrors
CHECK_DEADLOCK FALSE
INVARIANTS
    TypeOK
    NoSilentSession
    AttemptCountsTries
PROPERTIES
    GivesUpAfterMaxAttempts
    NestedReconnectNeverReturns
    ImplementsSession
    AbortOnlyAroundConack
    LossReported
