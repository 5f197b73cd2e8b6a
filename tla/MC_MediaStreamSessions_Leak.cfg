CONSTANT InitContexts <- MCInitContexts
INIT Init
NEXT Next
CHECK_DEADLOCK FALSE
INVARIANT NoLeakAtTeardown
