CONSTANTS
    c1 = c1
    n1 = n1
    n2 = n2
    s1 = s1
    None = None
    Conns <- MCConns
    Services <- MCServices
    ServiceOf <- MCServiceOf
    MaxRequests = 2
    MaxPhases = 2
    MaxStrays = 0
SPECIFICATION FairSpec
INVARIANTS TypeOK EveryWaitIsTimed BoundToCurrentPhase OwnedOnce TimersMeetTheirTransaction
PROPERTIES ImplementsRequestReply TransactionsEnd
CHECK_DEADLOCK FALSE
