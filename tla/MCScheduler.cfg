CONSTANTS
    Handlers <- MCBoth
    MaxSignals = 4
SPECIFICATION FairSpec
INVARIANTS TypeOK StoppedMeansEnded
PROPERTY WorkerEndsUndisturbed
CHECK_DEADLOCK FALSE
