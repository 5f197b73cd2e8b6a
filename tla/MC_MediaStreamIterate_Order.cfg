CONSTANTS
  MaxTime = 5
  Timeout = 1
  MaxPackets = 2
  MaxRecv = 2
  BeginningPeriod <- MCBeginningPeriod
INIT Init
NEXT Next
INVARIANT ArrivalOrder
