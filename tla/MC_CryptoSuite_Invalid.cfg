INIT Init
NEXT Next
INVARIANT InvalidRejected
