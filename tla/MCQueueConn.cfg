\* Safety of the QueueConn close protocol and packet accounting.
CONSTANTS
    u1 = u1
    u2 = u2
    p1 = p1
    p2 = p2
    p3 = p3
    Nil = Nil
    Users <- MCUsers
    Pkts <- MCPkts
    SendChSize = 2
    HasPendingHandler = TRUE
    MaxCalls = 2
SPECIFICATION Spec
SYMMETRY Symmetry
INVARIANT TypeOK
INVARIANT PacketConservation
INVARIANT OnCloseAtMostOnce
