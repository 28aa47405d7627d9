----------------------------- MODULE BlockQueries -----------------------------
(***************************************************************************)
(* The queries about blocks (pkg/repository/blocks.go) and what the        *)
(* service and the server (pkg/service, pkg/server) make of both kinds.    *)
(***************************************************************************)
EXTENDS TxQueries

BlockRows == {h \in Heights : flags[h] # {}}

LatestOf(S) == CHOOSE h \in S : \A g \in S : g <= h

LatestBlockHeight == IF BlockRows = {} THEN Failed ELSE LatestOf(BlockRows)

countAllTxs(h) == Cardinality({hash \in DOMAIN txes : txes[hash].block = h})

blockFees(h) == MapThenSumSet(FeeOf, {hash \in DOMAIN txes : txes[hash].block = h})

GetBlockInfo(h) ==
  IF h \notin BlockRows THEN Failed
  ELSE [height |-> h, fees |-> blockFees(h), txs |-> countAllTxs(h)]

\* The signers of the transactions of the block.
GetBlockValidators(h) == UNION {txes[hash].signers : hash \in TxsOfBlock(h)}

\* Variant: the total is taken from the transactions.
BlocksCountedByTxs ==
  Listing(BlockRows, Cardinality({txes[hash].block : hash \in DOMAIN txes}))

Blocks == Listing(BlockRows, Cardinality(BlockRows))

blocksCount(from, to) == Cardinality({h \in BlockRows : Day(h) \in from .. to})

\* blockTime and calculateMedian: twice the median of the times between blocks.
blockTimes ==
  LET newest == SetToSortSeq(BlockRows, >)
  IN  [i \in 1 .. Len(newest) - 1 |-> newest[i] - newest[i + 1]]

twiceMedian ==
  LET times == SortSeq(blockTimes, <)
      n == Len(times)
  IN  IF n = 0 THEN 0
      ELSE IF n % 2 = 1 THEN 2 * times[n \div 2 + 1]
      ELSE times[n \div 2] + times[n \div 2 + 1]

TotalBlocks(day) ==
  [height |-> IF BlockRows = {} THEN 0 ELSE LatestOf(BlockRows),
   count24H |-> blocksCount(day, day),
   blockTime |-> twiceMedian,
   fee24H |-> MapThenSumSet(blockFees, {h \in BlockRows : Day(h) = day})]

BlockSignatures(h, among) ==
  LET rows == {v \in signatures[h] : flags[h] # {} /\ (among = {} \/ v \in among)}
  IN  Listing(rows, Cardinality(rows))

\* Both ends count, so the window is of one block more.
SignedIn(window, h, validator) ==
  {g \in (h - window) .. h : g \in BlockRows /\ validator \in signatures[g]}

\* UptimeByBlocks: the unsigned blocks leave out h itself.
UptimeByBlocks(window, h, validator) ==
  [unsigned |-> ((h - window) .. (h - 1)) \ SignedIn(window, h, validator),
   signed |-> Cardinality(SignedIn(window, h, validator))]

BlockUptime(window, h, validator) == Cardinality(SignedIn(window, h, validator))

-----------------------------------------------------------------------------
(* The service and the server. *)

\* TotalTransactions of the service.
TotalTransactions(day) ==
  IF TransactionsPerPeriod(day) = Failed THEN Failed
  ELSE [counts |-> TransactionsPerPeriod(day), volume |-> VolumePerPeriod(day)]

\* StoreAggregates fails as a whole until every total exists.
AggregatedInfo(day) ==
  IF TotalTransactions(day) = Failed \/ GetWalletsCount(day) = Failed THEN Failed
  ELSE [blocks |-> TotalBlocks(day), transactions |-> TotalTransactions(day),
        wallets |-> GetWalletsCount(day)]

\* GetTxByHash of the service and TxByHash of the server: the row with its events.
TxByHash(hash) ==
  IF TransactionByHash(hash) = Failed THEN Failed
  ELSE [tx |-> TransactionByHash(hash), events |-> GetEvents(hash)]

\* The pages of n rows with a limit.
PageLen(listing, limit, offset) ==
  LET rest == Cardinality(listing.rows) - offset
  IN  IF rest < 0 THEN 0 ELSE IF rest < limit THEN rest ELSE limit

TxsByBlock(h, limit, offset) ==
  IF TransactionsByBlock(h).all = Failed THEN Failed
  ELSE [data |-> PageLen(TransactionsByBlock(h), limit, offset), all |-> TransactionsByBlock(h).all]
=============================================================================
