\* Registration sequences of up to MaxOps calls: no chain shares storage.
CONSTANTS
    h1 = h1
    h2 = h2
    k1 = k1
    m1 = m1
    NilFunc = NilFunc
    Handlers <- MCHandlers
    Kinds <- MCKinds
    MsgIds <- MCMsgIds
    HandlerArgs <- MCHandlerArgs
    AbortIndex <- MCAbortIndex
    MaxOps = 5
SPECIFICATION Spec
INVARIANT TypeOK
INVARIANT NoSharedArrays
