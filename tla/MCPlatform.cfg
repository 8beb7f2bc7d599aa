SPECIFICATION FairSpec
CONSTANTS
    Descriptions <- MCDescriptions
CHECK_DEADLOCK FALSE
INVARIANTS
    TypeOK
    LookupsSucceed
    RegisteredIsWired
PROPERTIES
    DescribedIsDecided
    MissingIndicatorIsFatal
