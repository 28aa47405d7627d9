SPECIFICATION FairSpec
CONSTANTS
  MaxHeight = 2
  DayLength = 2
  OtherDays <- MCOtherDays
  Clock <- MCClock
  Month = 1
  Year = 2
  TextOrder <- MCTextOrder
  Calls = {c1, c2}
  Conns = 4
  Failed = Failed
  Chains <- MCChains
  MigrationFrom <- MCMigrationFrom
  TypeFilters <- MCTypeFilters
  Singles <- MCSingles
  Windows <- MCWindows
  Parsers <- MCParsers
  Accounts <- MCAccounts
  MaxPasses <- MCMaxPasses
  MaxCrashes <- MCMaxCrashes
  Served <- MCServed
CHECK_DEADLOCK FALSE
INVARIANTS
  TypeOK
  RowsMatchChain
  TxRowsOfOneBlock
  EventBlocksHaveSignatures
  AggregatesFromRows
  
PROPERTIES
  RowsOnlyGrow
  TotalsCoverPages
  DBWorkerGoesOn
  AggregatesSaved
  AnswersCatchUp
