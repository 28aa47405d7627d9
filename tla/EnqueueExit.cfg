SPECIFICATION FairSpec
CONSTANTS
  MaxHeight = 3
  Configs <- ExitCaughtUp
  QueueCap = 2
  InitialHeight = 2
  EarliestHeight = 1
  InputFile = {1}
  MsgTypeCount <- TwoInFirst
PROPERTIES ExitsWhenCaughtUp
