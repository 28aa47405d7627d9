SPECIFICATION DeliveredSpec
CONSTANTS
  MaxHeight = 4
  Configs <- Endless
  QueueCap = 2
  InitialHeight = 4
  EarliestHeight = 1
  InputFile = {1, 3}
  MsgTypeCount <- TwoInFirst
  Workers = {w1, w2}
  DataChanCap = 1
  HasTxs = {1, 2}
  PagedTxs = {}
  BadHeaders = {}
  BadTxs = {2}
  BadEvents = {}
  MayLoseMessages = FALSE
  MaxCrashes = 1
PROPERTIES ResumeSkipsOnlyIndexed
