CONSTANTS
    p1 = p1
    p2 = p2
    p3 = p3
    Nil = Nil
    Procs <- MCProcs3
    MaxCalls = 1
SPECIFICATION Spec
CHECK_DEADLOCK FALSE
PROPERTY GetConnReturns
