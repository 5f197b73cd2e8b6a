CONSTANTS
  IntMax = 6
  Tmmbrs = {0, 3, 5, 9}
  Ceilings = {0, 4}
  Targets = {2, 5}
  DupRate = 2
  Setups <- MCSetups
INIT Init
NEXT Next
PROPERTY NoRepeatPush
PROPERTY LimitWithinBounds
