SPECIFICATION FairSpec
CONSTANTS
  MaxHeight = 3
  Configs <- Endless
  QueueCap = 2
  InitialHeight = 2
  EarliestHeight = 1
  InputFile = {1, 3}
  MsgTypeCount <- TwoInFirst
  Workers = {w1, w2}
  DataChanCap = 1
  HasTxs = {1, 2}
  PagedTxs = {2}
  BadHeaders = {}
  BadTxs = {}
  BadEvents = {2}
  MayLoseMessages = FALSE
  MaxCrashes = 0
PROPERTIES EveryBlockDecided
