SPECIFICATION Spec
CONSTANTS
  MaxHeight = 3
  Configs <- Resuming
  QueueCap = 2
  InitialHeight = 2
  EarliestHeight = 1
  InputFile = {1, 2}
  MsgTypeCount <- TwoInFirst
  Workers = {w1, w2}
  DataChanCap = 1
  HasTxs = {1}
  PagedTxs = {}
  BadHeaders = {}
  BadTxs = {}
  BadEvents = {2}
  MayLoseMessages = TRUE
  MaxCrashes = 1
SYMMETRY WorkerSymmetry
INVARIANTS TypeOK Accounted IndexedIsComplete FailedNotIndexed
PROPERTIES IndexedNotRequeued FailedOnlyLeavesIndexed ImplementsLedger
