---------------------------- MODULE BlockContents ----------------------------
(***************************************************************************)
(* What the indexer stores of the blocks and what the server answers about *)
(* them: the DB worker that writes one block at a time (TxTables, with     *)
(* what TxParser makes of its transactions and EventFilter of its events), *)
(* the goroutines and the migration that fill the aggregates (Aggregates), *)
(* the ticker that refreshes the views (MaterializedViews), and the        *)
(* queries (TxQueries, BlockQueries) that share a pool of connections with *)
(* all of them (ConnectionPool).                                           *)
(*                                                                         *)
(* Blocks come to the DB worker in any order and again: after a failure,   *)
(* from the events enqueue function, or when a range is indexed anew, with *)
(* other filters after a restart.                                          *)
(***************************************************************************)
EXTENDS BlockQueries, ConnectionPool, EventFilter

CONSTANTS
  Chains,       \* the chains the node may serve
  Served,       \* those of them whose server is called
  TypeFilters,  \* for each chain the message type filters a process may be
                \* configured with
  Singles,      \* the single filters for begin block events
  Windows,      \* the rolling window filters
  Parsers,      \* the number of custom parsers of an event type
  Accounts,     \* whom the queries ask about
  MaxPasses,    \* bound on the transactions of the DB worker, for each chain
  MaxCrashes    \* bound on the crashes, for each chain

\* What a node can serve: lists, and of a hash no two transactions that succeed,
\* since a transaction uses up the sequence number of its signers.
IsList(s) == s \in Seq(Range(s))

AreEvents(events) ==
  /\ IsList(events)
  /\ \A e \in Range(events) : e = [type |-> e.type, attrs |-> e.attrs] /\ IsList(e.attrs)

IsChain(c) ==
  /\ DOMAIN c = Heights
  /\ \A h \in Heights :
       /\ IsList(c[h].txs) /\ IsList(c[h].signers) /\ IsList(c[h].events)
       /\ \A tx \in Range(c[h].txs) : /\ IsList(tx.msgs)
                                      /\ \A m \in Range(tx.msgs) : AreEvents(m.events)
  /\ \A g, h \in Heights : \A tx \in Range(c[g].txs), other \in Range(c[h].txs) :
       tx.hash = other.hash /\ tx.code = 0 /\ other.code = 0 => tx = other

ASSUME ContentsAssumption ==
  /\ MaxHeight \in Nat
  /\ \A c \in Chains : IsChain(c) /\ MigrationFrom[c] \subseteq 4 .. 6
  /\ IsList(Singles) /\ IsList(Windows)
  /\ \A w \in Range(Windows) : IsList(w.patterns)
  /\ \A event \in DOMAIN Parsers : Parsers[event] \in Nat
  /\ MaxPasses \in [Chains -> Nat]
  /\ MaxCrashes \in [Chains -> Nat]

VARIABLES
  wanted,       \* the message types the process lets through
  indexedDatasets, \* of each block the datasets handed to IndexBlockEvent
  passes,       \* transactions of the DB worker so far
  crashes       \* crashes so far

vars == <<chain, now, tables, aggregates, views, pool, wanted, indexedDatasets, passes,
          crashes>>

\* runIndexer stores the totals before it starts anything else, and panics when
\* it cannot: it runs only on a database whose views have rows.
StartsUp == AggregatedInfo(Today) # Failed

Init ==
  /\ chain \in Chains
  /\ now = Clock[chain]
  /\ wanted \in TypeFilters[chain]
  /\ TxTablesInit
  /\ AggregatesInit
  /\ views = Refreshed
  /\ StartsUp
  /\ PoolInit
  /\ indexedDatasets = [h \in Heights |-> {}]
  /\ passes = 0
  /\ crashes = 0

-----------------------------------------------------------------------------
(* The DB worker: one select, and a loop after each block. *)

\* The case of txDataChan: parsed by the worker before it, written and looped over.
IndexTxs(h, path) ==
  LET wrappers == Parsed(h, wanted, path)
  IN  /\ todo = <<>>
      /\ passes < MaxPasses[chain]
      /\ passes' = passes + 1
      /\ IndexNewBlock(h, wrappers)
      /\ StartLoop(wrappers, passes)
      /\ UNCHANGED <<chain, now, goroutines, delegates, eventVals, eventRows, migration,
                     views, pool, wanted, indexedDatasets, crashes>>

\* The write fails; it is tried once more and then the process ends.
FailTxs(h, path) ==
  /\ todo = <<>>
  /\ passes < MaxPasses[chain]
  /\ passes' = passes + 1
  /\ RolledBack(Parsed(h, wanted, path))
  /\ UNCHANGED <<chain, now, aggregates, views, pool, wanted, indexedDatasets, crashes>>

\* What IndexCustomBlockEvents hands to IndexBlockEvent, each dataset with the
\* event it is stored at, if that one is kept.  No parser fails.
Handed(h) ==
  LET events == chain[h].events
  IN  {d \in Datasets(Parsers, events) : d.at \in FilterRPCBlockEvents(Singles, Windows, events)}

\* The case of blockEventsDataChan: a block indexed by its transactions is ignored.
\* A block whose events made the parser panic has no event data.
IndexEvents(h) ==
  /\ todo = <<>>
  /\ ParsersFit(Parsers, chain[h].events)
  /\ ~BlockAlreadyIndexed(h)
  /\ IndexBlockEvents(h)
  /\ indexedDatasets' = [indexedDatasets EXCEPT ![h] = Handed(h)]
  /\ UNCHANGED <<chain, now, aggregates, views, pool, wanted, passes, crashes>>

\* The loop reads the sender and receiver and starts the goroutine.
LoopOverTxs ==
  /\ UNCHANGED <<chain, now, tables, views, pool, wanted, indexedDatasets, passes, crashes>>
  /\ Free > 0
  /\ Spawn

Read ==
  /\ UNCHANGED <<chain, now, tables, views, pool, wanted, indexedDatasets, passes, crashes>>
  /\ Free > 0
  /\ \E g \in goroutines : ReadEvents(g)

Save ==
  /\ UNCHANGED <<chain, now, tables, views, pool, wanted, indexedDatasets, passes, crashes>>
  /\ \E g \in goroutines :
       SaveAggregated(g) \/ SaveAggregatedEventValues(g) \/ SaveAggregatedEvents(g)

Migrate ==
  /\ Free > 0
  /\ TxEventsValsMigration \/ TxEventsMigration
  /\ UNCHANGED <<chain, now, tables, views, pool, wanted, indexedDatasets, passes, crashes>>

-----------------------------------------------------------------------------
(* The ticker, the server and the process. *)

RefreshMaterializedViews ==
  /\ UNCHANGED <<chain, now, tables, aggregates, pool, wanted, indexedDatasets, passes,
                 crashes>>
  /\ Free > 0
  /\ UpdateViews

\* A query is made for each row of the one around it, so without rows there is none.
Nesting ==
  IF DOMAIN txes = {} THEN 1
  ELSE IF /\ views.votes = {} /\ DOMAIN delegates = {}
          /\ \A e \in AllAttributeRows : e.msgType \notin PowerTypes
  THEN 2 ELSE MaxNesting

Serve ==
  /\ UNCHANGED <<chain, now, tables, aggregates, views, wanted, indexedDatasets, passes,
                 crashes>>
  /\ chain \in Served
  /\ \E c \in Calls : (held[c] < Nesting /\ Query(c)) \/ Acquire(c) \/ Close(c)

CrashAndRestart ==
  /\ crashes < MaxCrashes[chain]
  /\ StartsUp
  /\ crashes' = crashes + 1
  /\ wanted' \in TypeFilters[chain]
  /\ LoseGoroutines
  /\ held' = [c \in Calls |-> 0]
  /\ waiting' = {}
  /\ UNCHANGED <<chain, now, tables, views, indexedDatasets, passes>>

Next ==
  \/ \E h \in Heights, path \in Paths : IndexTxs(h, path)
  \/ \E h \in Heights, path \in Paths : FailTxs(h, path)
  \/ \E h \in Heights : IndexEvents(h)
  \/ LoopOverTxs
  \/ Read
  \/ Save
  \/ Migrate
  \/ RefreshMaterializedViews
  \/ Serve
  \/ CrashAndRestart

Spec == Init /\ [][Next]_vars

\* The pool serves those who wait in turn, goroutines run, the ticker ticks, and
\* a call reads its rows to the end.
Fairness ==
  /\ SF_vars(LoopOverTxs) /\ SF_vars(Read) /\ SF_vars(RefreshMaterializedViews)
  /\ WF_vars(Save)
  /\ \A c \in Calls : WF_pool(Close(c)) /\ SF_pool(Acquire(c))

FairSpec == Spec /\ Fairness

-----------------------------------------------------------------------------
(* Properties. *)

(* The state has its shape: among others the unique indexes of fees (one row for
   a transaction and denomination), of the aggregates and of the pool hold. *)
TypeOK ==
  /\ flags \in [Heights -> SUBSET {"tx", "events"}]
  /\ \A h \in Heights : signatures[h] \subseteq Range(chain[h].signers)
  /\ \A hash \in DOMAIN txes : /\ txes[hash].block \in Heights
                               /\ txes[hash].time \in Heights
                               /\ Cardinality(txes[hash].fees) <= 1
  /\ DOMAIN txes \subseteq Hashes
  /\ \A key \in DOMAIN messages : key[1] \in DOMAIN txes
  /\ \A g \in goroutines : g.at \in {"read", "delegate", "values", "events"}
  /\ migration \in 4 .. 6
  /\ PoolTypeOK
  /\ passes \in 0 .. MaxPasses[chain]

Occurrences(hash) ==
  {tx \in UNION {Range(chain[h].txs) : h \in Heights} : tx.hash = hash}

(* Every message row is the message of its index in a transaction of the chain
   that succeeded, with its own bytes and its own events (or those of the whole
   transaction, when the node reports no logs, or none), and the signers of every
   transaction have an address; whatever was filtered out beside it and however
   often the block was passed (ProcessRPCTXs, ProcessRPCBlockByHeightTXs,
   ProcessMessage; Messages).  Transactions with a message the codec does not know are
   exempt: their logs and bytes shift. *)
RowsMatchChain ==
  /\ \A hash \in {h \in DOMAIN txes : Messages(h) # Failed} : \A m \in Messages(hash) :
       \E tx \in Occurrences(hash) :
         /\ tx.code = 0
         /\ \/ \E i \in DOMAIN tx.msgs : ~tx.msgs[i].decodes
            \/ /\ m.type = tx.msgs[m.index].type
               /\ m.raw = m.index
               /\ LET events == messages[<<hash, m.index>>].events
                  IN  \/ events \in {<<>>, tx.msgs[m.index].events}
                      \/ ~tx.logs /\ events = AllEvents(tx)
  /\ \A h \in Heights : GetBlockValidators(h) \subseteq addresses

(* The block and the code of a row of txes are those of one occurrence of the
   hash: a transaction that failed in one block and succeeded in another is not
   shown as failed in the second (IndexNewBlock, ON CONFLICT (hash)). *)
TxRowsOfOneBlock ==
  \A hash \in DOMAIN txes :
    \E tx \in Range(chain[txes[hash].block].txs) : tx.hash = hash /\ tx.code = txes[hash].code

(* A block whose events are indexed has all its signatures, so the uptime of a
   validator does not count it as unsigned, in whatever order its transactions
   and its events were written (IndexBlockEvents, UptimeByBlocks). *)
EventBlocksHaveSignatures ==
  \A h \in Heights : "events" \in flags[h] =>
    /\ BlockSignatures(h, {}).rows = Range(chain[h].signers)
    /\ \A validator \in Range(chain[h].signers) :
         /\ \A g \in Heights : h \notin UptimeByBlocks(MaxHeight, g, validator).unsigned
         /\ BlockUptime(0, h, validator) = 1

IsPrefixOfEvents(old, new) ==
  /\ Len(old) <= Len(new)
  /\ \A e \in DOMAIN old : old[e].type = new[e].type /\ IsPrefix(old[e].attrs, new[e].attrs)

RowsKept ==
  /\ \A key \in DOMAIN messages :
       /\ key \in DOMAIN messages'
       /\ messages'[key].type = messages[key].type
       /\ messages'[key].raw = messages[key].raw
       /\ IsPrefixOfEvents(messages[key].events, messages'[key].events)
  /\ \A hash \in DOMAIN txes : /\ hash \in DOMAIN txes'
                               /\ txes[hash].signers \subseteq txes'[hash].signers
                               /\ txes[hash].time = txes'[hash].time
  /\ \A h \in Heights : /\ flags[h] \subseteq flags'[h]
                        /\ signatures[h] \subseteq signatures'[h]
  /\ addresses \subseteq addresses'

(* Nothing that was stored is lost or replaced by a later pass over the block,
   with other filters or from the other parser (the ON CONFLICT clauses of
   IndexNewBlock and IndexBlockEvents). *)
RowsOnlyGrow == [][RowsKept]_vars

(* Every row of the aggregates is of an event attribute its transaction has, at
   its place in the message (under swapped indexes, unless the migration wrote
   it), and so are the sender and the receiver that the server shows and the DB
   worker announces (saveAggregated and its like, txEventsMigration, GetSenderAndReceiver and its
   V2). *)
AggregatesFromRows ==
  /\ \A hash \in {k.hash : k \in DOMAIN eventRows} :
       LET events == GetEvents(hash)
       IN  \A k \in GetEventsV2(hash) : \E e \in events :
             /\ k.msgType = e.msgType /\ k.type = e.type /\ k.key = e.key
             /\ eventRows[k] = e.value
             /\ <<k.index1, k.index2>> \in {<<e.attr, e.event>>, <<e.event, e.attr>>}
  /\ \A hash \in {k.hash : k \in DOMAIN eventVals} :
       LET events == GetEvents(hash)
       IN  \A k \in DOMAIN eventVals : k.hash = hash =>
             \E e \in events : k.msgType = e.msgType /\ k.value = e.value
  /\ \A hash \in DOMAIN delegates :
       LET words == {e.value.word : e \in GetEvents(hash)}
       IN  {delegates[hash].validator, delegates[hash].sender} \subseteq words \cup {None}
  /\ \A hash \in DOMAIN txes :
       LET words == {e.value.word : e \in GetEvents(hash)}
           announced == GetSenderAndReceiver(hash)
           shown == GetSenderAndReceiverV2(hash)
       IN  /\ shown.senders \cup shown.receivers \subseteq words
           /\ {announced.sender, announced.receiver} \subseteq words \cup {None}

\* A transaction without an event attribute has nothing to save.
Aggregated(hash) ==
  LET events == GetEvents(hash)
  IN  events # {} =>
        /\ GetEventsV2(hash) # {}
        /\ \E k \in DOMAIN eventVals : k.hash = hash
        /\ Delegates(events) =>
             /\ hash \in DOMAIN delegates
             /\ hash \in DelegatesByValidator(delegates[hash].validator).rows

\* The calls of the server hold all connections and each of them waits for another.
CallsStuck == Free = 0 /\ \A c \in Calls : held[c] > 0 => c \in waiting

(* The DB worker, which needs a connection after each transaction, comes back to
   its channels from every block: of all that share the pool only calls of the
   server that wait for each other can keep it (doDBUpdates, getTransactionsByTypes). *)
DBWorkerGoesOn == todo # <<>> ~> (todo = <<>> \/ CallsStuck)

(* The events of every stored transaction reach the aggregates although the
   goroutines share the pool with the server, unless the process dies first or the
   calls of the server wait for each other (doDBUpdates). *)
AggregatesSaved ==
  DOMAIN txes # {} ~>
    (crashes > 0 \/ CallsStuck \/ \A hash \in DOMAIN txes : Aggregated(hash))

SinglesOf(events, k) == {i \in DOMAIN Singles : events[k] \in Singles[i].matches}

WindowsFrom(events, at, k) ==
  {i \in DOMAIN Windows : Covers(Windows[i], at, k) /\ EventsMatch(Windows[i], events, at)}

LastIncludes(S, filters) == \E i \in S : filters[i].include /\ \A j \in S : j <= i

NoFilters == Singles = <<>> /\ Windows = <<>>

\* A window that starts at an event outranks the single filters, which outrank the
\* windows from before; of those the one from the nearest event counts.
IncludedByLast(events, k) ==
  \/ LastIncludes(WindowsFrom(events, k, k), Windows)
  \/ WindowsFrom(events, k, k) = {} /\ LastIncludes(SinglesOf(events, k), Singles)
  \/ /\ WindowsFrom(events, k, k) = {} /\ SinglesOf(events, k) = {}
     /\ \E at \in 1 .. k - 1 : /\ LastIncludes(WindowsFrom(events, at, k), Windows)
                               /\ \A g \in at + 1 .. k - 1 : WindowsFrom(events, g, k) = {}

(* Of a block whose events are indexed, IndexBlockEvent gets the datasets stored at
   those events which the filters include by their precedence, and no others
   (FilterRPCBlockEvents with its overlapping windows, IndexCustomBlockEvents). *)
LastFilterDecides ==
  \A h \in Heights : "events" \in flags[h] =>
    indexedDatasets[h] = {d \in Datasets(Parsers, chain[h].events) :
                            NoFilters \/ IncludedByLast(chain[h].events, d.at)}

TotalsCovered ==
  /\ Cardinality(Blocks.rows) <= Blocks'.all
  /\ Cardinality(GetWalletsWithTx.rows) <= GetWalletsWithTx'.all
  /\ \A h \in Heights :
       Cardinality(BlockSignatures(h, {}).rows) <= BlockSignatures(h, {})'.all
  /\ \A a \in Accounts :
       /\ Cardinality(GetPowerEvents(a).rows) <= GetPowerEvents(a)'.all
       /\ Cardinality(TransactionsByEventValue({a}, PowerTypes).rows)
            <= TransactionsByEventValue({a}, PowerTypes)'.all
       /\ AccountInfo(a) > 0 => AccountInfo(a) <= TxCountByAccounts({a})'[a]

(* A page and its total are two statements, and blocks are written, goroutines
   save and views are refreshed between them: a total read after its page is
   never less than what the page was taken from, so no client stops short of a
   row it was told of (Blocks, BlockSignatures, GetPowerEvents,
   TransactionsByEventValue, GetWalletsWithTx).  An account has no more
   transactions than roles, whichever is read first. *)
TotalsCoverPages == [][UNCHANGED <<tables, eventVals, views>> \/ TotalsCovered]_vars

\* Who has voted in a transaction of one vote, and who has submitted one proposal
\* in it, finds it.
VotesListed ==
  \A hash \in DOMAIN txes :
    /\ \A v \in VoteValues(hash, "voter") :
         Cardinality(VoteValues(hash, "voter")) = 1 /\ VoteValues(hash, "option") # {} =>
           /\ \E row \in GetVotes(v.word, FALSE).rows :
                /\ row.hash = hash
                /\ row.proposal \in GetVotes(v.word, TRUE).rows
                /\ row \in GetVotesByAccounts({v.word}, FALSE, row.option, row.proposal,
                                               FALSE).rows
    /\ \A p \in Values(hash, {"submit"}, "proposal_id") :
         Cardinality(Values(hash, {"submit"}, "proposal_id")) = 1 =>
           \E row \in ProposalDepositors(p.n).rows : row.hash = hash

AnswersCurrent ==
  LET counts == ChartTxByDay((Today - Month) * DayLength, now)
      hours == ChartTransactionsByHour(now)
      volumes == ChartTransactionsVolume(now)
      perPeriod == TransactionsPerPeriod(Today)
      volume == VolumePerPeriod(Today)
      Sum(chart) == SumOver(chart, DOMAIN chart)
  IN  /\ Transactions.all = MapThenSumSet(CountAt, Within(Year))
      /\ perPeriod # Failed /\ perPeriod.all30D = Sum(counts)
      /\ perPeriod.all24H = SumOver(counts, {Today})
      /\ Sum(hours.points) <= hours.total24H
      /\ volume.total30D = MapThenSumSet(FeesAt, Within(Month))
      /\ volumes # Failed => Sum(volumes) <= volume.total24H
      /\ GetWalletsCountPerPeriod(Today - Year, Today) = GetWalletsCount(Today).total
      /\ \A hash \in DOMAIN txes : TxByHash(hash) # Failed
      /\ \A h \in BlockRows :
           /\ TxsByBlock(h, 10, 0) = [data |-> countAllTxs(h), all |-> countAllTxs(h)]
           /\ GetBlockInfo(h).txs = Cardinality(TransactionsByBlock(h).rows)
      /\ VotesListed
      /\ TotalBlocks(Today).height = LatestBlockHeight
      /\ AggregatedInfo(Today) # Failed

(* A transaction once stored is answered for, and the totals of the server, which
   it takes from the views, agree with the charts, which it takes from the tables,
   and count what is stored of the last year or month (Transactions,
   TransactionsPerPeriod, VolumePerPeriod, GetVotes, StoreAggregates; UpdateViews),
   unless a vote for several options or calls of the server that wait for each other
   keep the views from being refreshed. *)
AnswersCatchUp == DOMAIN txes # {} ~> (~VotesUnique \/ CallsStuck \/ AnswersCurrent)
=============================================================================
