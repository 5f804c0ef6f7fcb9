CONSTANTS
    Names = {"a", "b"}
    Spellings <- MCSpellings
    Groups = {1, 2}
    Nodes = {1, 2}
    MaxFiles = 5
    MaxSaves = 1
    MaxCrashes = 2
SPECIFICATION Spec
INVARIANT TableIsSound
PROPERTY ImplementsPathStore
CHECK_DEADLOCK FALSE
