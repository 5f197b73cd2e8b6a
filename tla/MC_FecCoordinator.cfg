CONSTANT Fmtps <- MCFmtps
CONSTANT MaxCalls = 2
INIT Init
NEXT Next
INVARIANT ParamsFollowFmtp
CHECK_DEADLOCK FALSE
