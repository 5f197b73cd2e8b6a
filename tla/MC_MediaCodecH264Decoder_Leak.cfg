CONSTANTS
  Sizes = {1, 2}
  Variants = {1, 2}
  MaxBlocks = 6
CONSTANT Devices <- MCDevices
CONSTANT TvDevices <- MCTvDevices
INIT Init
NEXT Next
INVARIANT NoOrphanBlock
CHECK_DEADLOCK FALSE
