CONSTANTS
    Users = {"u", "v"}
    Managers = {"u"}
    Paths = {"p", "q"}
    Names = {"n"}
    Files = {"long", "short"}
    FileName <- MCFileName
    Size <- MCSize
    MaxCommands = 2
    MaxFaults = 1
SPECIFICATION FairSpec
INVARIANTS TypeOK AckedIsStored FinishedIsWhole CrashNeedsFailure
PROPERTIES GotIsWhole ImplementsStream EveryRequestAnswered
CHECK_DEADLOCK FALSE
