SPECIFICATION FairSpec
CONSTANTS
  MaxHeight = 4
  Configs <- EveryConfig
  QueueCap = 2
  InitialHeight = 3
  EarliestHeight = 2
  InputFile = {1, 3, 4, 9}
  MsgTypeCount <- TwoInFirst
INVARIANTS TypeOK SentExists RangeCovered SentInRange
PROPERTIES FailedReattempted RangeProgress
