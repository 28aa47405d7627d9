SPECIFICATION FairSpec
CONSTANTS
  MaxHeight = 4
  InitialHeight = 2
  QueueCap = 3
  MaxGoroutines = 2
  MaxCounted = 12
  MaxRestarts <- MCMaxRestarts
  Second = 4
  MaxDuration = 127
  Settings <- MCSettings
  EarlierRuns <- MCEarlierRuns
CHECK_DEADLOCK FALSE
INVARIANTS
  TypeOK
  RangesMeet
PROPERTIES
  WaitsBounded
  RangeFetched
