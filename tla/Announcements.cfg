SPECIFICATION FairSpec
CONSTANTS
  MaxHeight = 1
  HasTxs = {1}
  OldEntries = 3
  ListSize = 2
  MayFail = TRUE
  MaxCrashes = 1
CHECK_DEADLOCK FALSE
INVARIANTS
  TypeOK
  LatestIsNewest
  PagesTile
  CommittedTxsSearchable
  UniqueWhileIndexed
  BlocksHaveHeights
PROPERTIES
  CommittedTxsFound
