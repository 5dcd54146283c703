SPECIFICATION Spec
CONSTANTS
    Callers = {c1, c2}
    MaxRuns = 2
INVARIANTS OneLoop StopMeansStopped NoDoubleClose
PROPERTIES StopEnds TriggerIsServed
CHECK_DEADLOCK FALSE
