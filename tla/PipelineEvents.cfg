SPECIFICATION Spec
CONSTANTS
  MaxHeight = 3
  Configs <- Endless
  QueueCap = 2
  InitialHeight = 3
  EarliestHeight = 1
  InputFile = {1, 3}
  MsgTypeCount <- TwoInFirst
  Workers = {w1}
  DataChanCap = 1
  HasTxs = {1}
  PagedTxs = {}
  BadHeaders = {}
  BadTxs = {}
  BadEvents = {}
  MayLoseMessages = FALSE
  MaxCrashes = 0
PROPERTIES EventsAreWritten
