CONSTANTS
    MaxUsers = 3
    MaxGroups = 1
    MaxNodes = 1
    MaxConns = 3
    MaxTime = 2
    MaxSilence = 0
SPECIFICATION Spec
INVARIANTS OwnerListed ListedOnce
PROPERTIES NewcomersAreClean ChangedByRight FirstSilentGoes
CHECK_DEADLOCK FALSE
