SPECIFICATION Spec
CONSTANTS
    Ids = {1, 2, 3}
INVARIANTS
    TypeOK
    QueriesAgree
PROPERTIES
    CallbackMeansParentRemoved
    LostOnlyUnderKept
