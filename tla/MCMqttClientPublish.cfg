SPECIFICATION Spec
CONSTANTS
    runner = runner
    sync = sync
    Runner = runner
    Tasks <- MCTasks
    MaxAttempts = 2
    NetErrors <- MCMappedErrors
CHECK_DEADLOCK FALSE
PROPERTIES
    PublishNeedsSession
