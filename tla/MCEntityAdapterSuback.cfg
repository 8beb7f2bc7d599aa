SPECIFICATION Spec
CONSTANTS
    Kinds <- MCKinds
    InitRetryAttempts = 3
    MaxInbox = 3
CHECK_DEADLOCK FALSE
PROPERTIES
    SubackReallyMissing
