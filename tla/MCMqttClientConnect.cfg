SPECIFICATION Spec
CONSTANTS
    runner = runner
    sync = sync
    Runner = runner
    Tasks <- MCTasks
    MaxAttempts = 2
    NetErrors <- MCHostDown
CHECK_DEADLOCK FALSE
PROPERTIES
    ConnectFailureIsACode
