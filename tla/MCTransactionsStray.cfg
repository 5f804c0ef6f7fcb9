CONSTANTS
    c1 = c1
    n1 = n1
    n2 = n2
    s1 = s1
    None = None
    Conns <- MCOneNode
    Services <- MCServices
    ServiceOf <- MCServiceOfOneNode
    MaxRequests = 2
    MaxPhases = 2
    MaxStrays = 1
SPECIFICATION Spec
INVARIANTS AtMostOneReply
PROPERTY MovedByOwnAnswer
CHECK_DEADLOCK FALSE
