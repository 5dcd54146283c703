SPECIFICATION Spec
CONSTANTS
    Keys = {1, 2, 3, 4}
    LogTime <- MCLogTime
    Malformed = {}
    Lookback = 1
    InitialBackfill = 5
    MaxObjects = 2
    maxObjectReadAttempts = 2
    MaxTime = 5
    MaxFaults = 2
INVARIANT NoObjectLost
CHECK_DEADLOCK FALSE
