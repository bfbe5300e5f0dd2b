\* Nested Next, Abort and skips by small counts: each handler at most once.
\* Two packets through the same pooled context, whose handlers Set one key.
CONSTANTS
    ChainLens = {2, 3}
    SkipArgs <- MCSkipArgsSmall
    MaxHandlerOps = 3
    MaxDispatches = 2
    Keys = {1}
SPECIFICATION Spec
INVARIANT TypeOK
INVARIANT AtMostOnce
INVARIANT ValuesOfThisRequest
PROPERTY NoRunAfterAbort
