CONSTANTS
    Handlers <- MCMainOnly
    MaxSignals = 1
SPECIFICATION FairSpec
PROPERTY StartReturns
CHECK_DEADLOCK FALSE
