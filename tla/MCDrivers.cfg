SPECIFICATION MCSpec
CONSTANTS
    Levels = {0, 255}
    Temperatures = {"0", "21"}
CHECK_DEADLOCK FALSE
INVARIANTS
    TypeOK
PROPERTIES
    NoFalseAlarm
    StartShowsStatus
    QuietPollIsTrue
    CalmIsReported
