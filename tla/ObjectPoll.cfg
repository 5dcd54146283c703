SPECIFICATION Spec
CONSTANTS
    Keys = {1, 2, 3, 4}
    LogTime <- MCLogTime
    Malformed = {2}
    Lookback = 1
    InitialBackfill = 1
    MaxObjects = 2
    maxObjectReadAttempts = 2
    MaxTime = 5
    MaxFaults = 2
INVARIANTS GapIsKept RefusalsDropNothing
PROPERTIES EveryObjectSettles
CHECK_DEADLOCK FALSE
