SPECIFICATION Spec
CONSTANTS
    poll = poll
    backup = backup
    report = report
    Generic = {poll}
    Everyday = {backup, report}
    Strict = {poll, backup}
    Period = 2
    Day = 5
    Days = 1
    At <- MCAt
    Zones <- MCZones
    Precision = 2
    MaxTime = 6
INVARIANTS
    TypeOK
    
    NothingForgotten
    EverydayAtItsTime
PROPERTIES
    RestartKeepsExpiry
    FreshExpiryIsNext
