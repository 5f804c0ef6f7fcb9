CONSTANTS
    Users = {"u", "v"}
    Managers = {"u"}
    Paths = {"p", "q"}
    Names = {"n"}
    Files = {"long", "short"}
    FileName <- MCFileName
    Size <- MCSize
    MaxCommands = 2
    MaxFaults = 1
SPECIFICATION Spec
INVARIANT ResumesAtInterruption
CHECK_DEADLOCK FALSE
