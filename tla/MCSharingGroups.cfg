CONSTANTS
    MaxUsers = 3
    MaxGroups = 2
    MaxNodes = 2
    MaxConns = 2
    MaxTime = 1
    MaxSilence = 0
SPECIFICATION Spec
INVARIANTS TypeOK GroupsHaveNodes
PROPERTY ImplementsRoles
CHECK_DEADLOCK FALSE
