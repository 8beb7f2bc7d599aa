SPECIFICATION FairSpec
CONSTANTS
    Kinds <- MCKinds
    InitRetryAttempts = 3
    MaxInbox = 3
CHECK_DEADLOCK FALSE
INVARIANTS
    TypeOK
    OnlineIsUsable
    UnavailableOnlyAfterFailure
PROPERTIES
    ImplementsLink
    InitDecides
    EndShowsUnavailable
    ConfigureMakesAvailable
