CONSTANTS
  MaxTime = 4
  Timeout = 1
  MaxPackets = 1
  MaxRecv = 2
  BeginningPeriod <- MCBeginningPeriod
INIT Init
NEXT Next
INVARIANT DeadMeansSilent
INVARIANT QiLocalOncePerSecond
INVARIANT IInv
