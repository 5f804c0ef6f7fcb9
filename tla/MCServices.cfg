CONSTANTS
    Addresses = {"a", "b", "c"}
    Stored <- MCStored
    Configured <- MCConfigured
    MaxConns = 3
    MaxSends = 4
SPECIFICATION Spec
INVARIANTS ServicesMatch AnswersFit
PROPERTY EveryNodeServed
CHECK_DEADLOCK FALSE
