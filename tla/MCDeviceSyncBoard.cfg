SPECIFICATION MCSafetySpec
CONSTANTS
    hatch = hatch
    sensor = sensor
    board = board
    h = h
    t = t
    i1 = i1
    i2 = i2
    btn = btn
    Devices = {board}
    Board = board
    PartsOf <- MCPartsOf
    Silent = {btn}
    Values <- MCValues
    Shown <- MCShown
    InitialSeen <- MCInitialSeen
    MaxSyncs = 2
CHECK_DEADLOCK FALSE
INVARIANTS
    StalenessExplained
    ListedIsComplete
