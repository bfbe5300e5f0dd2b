\* Expected violation: see PROJECT.json run for MCQueueConnRace.
CONSTANTS
    u1 = u1
    u2 = u2
    p1 = p1
    p2 = p2
    p3 = p3
    Nil = Nil
    Users <- MCUsers
    Pkts <- MCPkts
    SendChSize = 2
    HasPendingHandler = TRUE
    MaxCalls = 2
SPECIFICATION Spec
INVARIANT OnCloseSeesShutdown
