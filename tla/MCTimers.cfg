CONSTANTS
    Intervals = {1, 2, 3}
    HeartbeatTime = 2
    MaxTimers = 4
    MaxTime = 4
SPECIFICATION Spec
PROPERTIES RunsTheFirst EveryTimerRuns
CHECK_DEADLOCK FALSE
