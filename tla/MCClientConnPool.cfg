CONSTANTS
    p1 = p1
    p2 = p2
    p3 = p3
    Nil = Nil
    Procs <- MCProcs2
    MaxCalls = 2
SYMMETRY MCSymmetry
SPECIFICATION Spec
INVARIANT TypeOK NoLeakedConn SendOnCreated
