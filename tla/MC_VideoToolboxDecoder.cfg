CONSTANTS
  MaxInFlight = 2
  MaxQueue = 2
  MaxFormatDescs = 3
SPECIFICATION FairSpec
INVARIANT NoCallbackAfterFree
PROPERTY NoOutputDuringTeardown
PROPERTY ImplementsLifecycle
PROPERTY TeardownCompletes
CHECK_DEADLOCK FALSE
