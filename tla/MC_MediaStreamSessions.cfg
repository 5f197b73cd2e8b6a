CONSTANT InitContexts <- MCInitContexts
INIT Init
NEXT Next
INVARIANT NoDoubleRelease
INVARIANT NoDanglingBackPointer
INVARIANT NoForcedStunUnderIce
INVARIANT IInv
CHECK_DEADLOCK FALSE
PROPERTY ImplementsOwnership
