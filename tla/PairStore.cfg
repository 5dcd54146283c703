SPECIFICATION Spec
CONSTANTS
    Buckets <- MCBuckets
    Keys = {"obj"}
    Times <- MCTimes
    Edges <- MCEdges
    Deltas <- MCDeltas
    ObjectDelta <- MCObjects
    Legacy <- MCLegacy
    Retention = 3600
    MaxBytes = 2
    MaxCrashes = 1
    Horizon = 172800
CHECK_DEADLOCK FALSE
INVARIANTS TypeOK PlannedReadMatchesScan HourRowsMatchMinutes RollupAlwaysAdvances OpenMinuteNotRolled
PROPERTIES CursorAndMarkForward BackfillEnds ImplementsLedger
