SPECIFICATION Spec
CONSTANTS
    LastMinute = 1
    Chunk = 1
    MaxRows = 2
    MaxOpens = 4
INVARIANTS CountersAreExact BackupIsWhole
PROPERTIES StartsBecomeReady
CHECK_DEADLOCK FALSE
