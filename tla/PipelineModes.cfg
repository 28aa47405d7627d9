SPECIFICATION Spec
CONSTANTS
  MaxHeight = 2
  Configs <- AllModes
  QueueCap = 2
  InitialHeight = 2
  EarliestHeight = 1
  InputFile = {2, 9}
  MsgTypeCount <- TwoInFirst
  Workers = {w1, w2}
  DataChanCap = 1
  HasTxs = {1}
  PagedTxs = {}
  BadHeaders = {2}
  BadTxs = {}
  BadEvents = {}
  MayLoseMessages = FALSE
  MaxCrashes = 1
SYMMETRY WorkerSymmetry
INVARIANTS Accounted
PROPERTIES FailedOnlyLeavesIndexed
