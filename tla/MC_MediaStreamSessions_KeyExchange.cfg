CONSTANT InitContexts <- MCFreshOrZrtp
INIT Init
NEXT Next
INVARIANT AtMostOneKeyExchange
CHECK_DEADLOCK FALSE
