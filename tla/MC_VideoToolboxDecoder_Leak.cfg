CONSTANTS
  MaxInFlight = 2
  MaxQueue = 2
  MaxFormatDescs = 3
INIT Init
NEXT Next
INVARIANT FormatDescReleased
CHECK_DEADLOCK FALSE
