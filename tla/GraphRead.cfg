SPECIFICATION Spec
CONSTANTS
    Buckets <- MCBuckets
    Keys = {}
    Readers = {r1}
    Windows <- MCWindows
    InitialMarks <- MCInitialMarks
    InitialRows <- MCInitialRows
    Deltas <- MCDeltas
    Ends <- MCEnds
    Cutoffs <- MCCutoffs
    Budget = 1
    MaxBytes = 2
    MaxWrites = 3
CHECK_DEADLOCK FALSE
INVARIANTS CacheIsFresh AnswerIsRecent OpenPartIsOneCommit
