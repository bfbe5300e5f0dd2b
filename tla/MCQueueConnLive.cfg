\* Liveness: a closed QueueConn always reaches onClose.
CONSTANTS
    u1 = u1
    u2 = u2
    p1 = p1
    p2 = p2
    p3 = p3
    Nil = Nil
    Users <- MCUsers
    Pkts <- MCPkts
    SendChSize = 2
    HasPendingHandler = TRUE
    MaxCalls = 1
SPECIFICATION Spec
PROPERTY ClosedLeadsToOnClose
\* A stuck state is reported by the leads-to property itself; deadlock is checked by MCQueueConn.cfg.
CHECK_DEADLOCK FALSE
