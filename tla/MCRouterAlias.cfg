\* Expected violation: Use after UseAfter overwrites the tails in place (router.go:22-25).
CONSTANTS
    h1 = h1
    h2 = h2
    k1 = k1
    m1 = m1
    NilFunc = NilFunc
    Handlers <- MCHandlers
    Kinds <- MCKinds
    MsgIds <- MCMsgIds
    HandlerArgs <- MCHandlerArgs
    AbortIndex <- MCAbortIndex
    MaxOps = 5
SPECIFICATION Spec


PROPERTY UseInsertsAfterHeads
