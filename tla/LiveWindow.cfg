SPECIFICATION Spec
CONSTANTS
    Flows = {1, 2, 3}
    StartAt <- MCStartAt
    LoggedAt <- MCLoggedAt
    minute = 2
    Lateness = 1
    PollDelay = 1
    maxPollChunk = 2
    Retention = 5
    InitialBackfill = 3
    maxAge = 4
    MaxTime = 8
    MaxFaults = 2
INVARIANTS EachFlowOnce CacheMatchesStore CoveredAnswerIsWhole
PROPERTIES EveryFlowCounted
CHECK_DEADLOCK FALSE
