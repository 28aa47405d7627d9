# A TLA+ verification of cosmos-indexer

cosmos-indexer reads the blocks of a Cosmos chain from an RPC node, takes them
apart and writes blocks, transactions, messages and events to PostgreSQL, with
a cache and a pub/sub channel in Redis and a search index in MongoDB. This
directory holds TLA+ modules that model it, TLC configurations that check them
and proofs that TLAPS checks. Paths below are relative to the repository
(`src/` in `PROJECT.json`).

Contents: 1 the system, 2 the modules, 3 the correspondence with the code,
4 the properties, 5 the runs, 6 fairness, 7 the proofs, 8 findings, 9 what is
not modelled, 10 what is left.

## 1. The system

### 1.1 Components

| component | state it keeps | operations | code |
|---|---|---|---|
| enqueue functions | list read at start-up, `currBlock`, `latestBlock`, `blocksInDB` | generate (default, block file, message type), send a height, refresh the latest height, exit | `core/block_enqueue.go` |
| RPC workers (`base.rpc-workers` goroutines) | the block being fetched | take a height, get the block, get its transactions, fall back on block results, record a failure | `core/rpc_worker.go`, `clients/chain_rpc.go` |
| block message | height, `GetTxsResponse`, `BlockResultsData`, two failure flags | JSON out and in | `core/rpc_worker.go` |
| publisher and receiver (`runPipe`) | an unbuffered Go channel at each end of a Redis pub/sub channel | publish, subscribe, receive, forward | `cmd/index.go` |
| parser (`processBlocks`) | the block it works on | parse the header, the events, the transactions; send to the DB worker; record a failure | `cmd/index.go`, `core/processor.go`, `core/block_events.go`, `core/tx/` |
| DB worker (`doDBUpdates`) | two bounded channels | select, `IndexNewBlock`, `IndexBlockEvents`, `IndexCustomBlockEvents`, messages to the caches | `cmd/index.go`, `db/` |
| tables | `blocks` (two flags per row), `txes` and children, `failed_blocks`, `failed_event_blocks` | gorm transactions | `db/db.go`, `db/events.go`, `db/models/` |
| fetcher mode | ranges of blocks, one enqueue function each | divide the range, publish to the topics of several readers | `cmd/index.go` |
| RPC retries | attempts, backoff | retry with exponential backoff | `rpc/blocks.go`, `clients/chain_rpc.go` |
| transaction parser | none | align transactions, responses, messages and logs; signers, fees | `core/tx/` |
| filters | registries; the events of a rolling window | decide which events and messages are kept | `core/block_events.go`, `filter/` |
| latest lists | two Redis lists | push, trim, page | `pkg/consumer/cache.go`, `pkg/repository/cache.go` |
| search index | a Mongo collection, migration version | add a hash (consumers), copy all hashes (migration) | `pkg/consumer/search_*.go`, `db/local_migration.go` |
| aggregates | three tables of events by transaction, the cached totals | a goroutine for each written transaction, migration 4 and 5, a timer | `cmd/index.go`, `pkg/service/aggregates.go` |
| materialized views | normalized votes, deposits, roles; daily sums | refresh every minute | `db/db.go`, `pkg/repository/txs.go` |
| connection pool | connections in use | query, read, close | `cmd/index.go`, `pkg/repository/` |
| gRPC server | none | queries | `pkg/server/`, `pkg/service/`, `pkg/repository/` |

### 1.2 How they interact

    enqueue -> blockEnqueueChan (100000) -> RPC workers -> blockRPCWorkerDataChan (0)
      -> publisher -> Redis PUBLISH ... SUBSCRIBE -> receiver -> pipe (0) -> parser
      -> txDataChan (4 per worker)          -> DB worker -> PostgreSQL
      -> blockEventsDataChan (4 per worker) ->

Every stage is a goroutine of one process. Beside the channels they share the
tables: the enqueue function reads `blocks` and `failed_blocks` once, at
start-up; the workers and the parser write failure rows; the DB worker writes
everything else and reads `blocks` to skip the events of a block that is
indexed already. The parser and the DB worker also feed the latest lists, the
search consumers and the aggregates, none of which feeds anything back:

    parser    -> latest blocks (Redis list), pub/blocks -> search consumer -> MongoDB
    DB worker -> latest transactions,        pub/txs    -> search consumer -> MongoDB
    DB worker -> goroutine per transaction -> tables of aggregates
    migration: PostgreSQL -> MongoDB (1-3), PostgreSQL -> tables of aggregates (4, 5)
    ticker    -> materialized views; server -> tables, views, lists, index

The server, the DB worker, its goroutines, the ticker and the migration share
one pool of PostgreSQL connections. In fetcher mode the process ends at Redis
PUBLISH, and several enqueue goroutines feed its workers.

### 1.3 What is hard

* Workers finish out of order, so the tables of a crashed run have holes, and a
  resumed run starts from the highest row.
* Everything between the enqueue function and the tables is volatile: channels,
  and Redis pub/sub, which delivers at most once.
* A block has two halves (transactions and events) that travel on two channels
  and are written in two transactions in either order; a third transaction
  follows the events.
* Each stage has its own error path, with one or two failure rows, in its own
  transaction; some go on with the block, some drop it.
* A block can be on its way more than once: reattempt of a failed block plus the
  range, reindexing, message types.
* Bounded and unbuffered channels in a row, and one goroutine that drains two.
* The loop of the default enqueue function mixes three bounds (end block, latest
  block, queue level) with strict and non-strict comparisons.
* Nil pointers of a message become empty values on the way through JSON.
* A block is announced before it is committed and a transaction after, while a
  migration drops the index both end up in and fills it from the tables.
* Upserts of one row by several writers, with a unique index or without.
* A block may be written again, with other filters, by the other parser, or with
  a hash another block had already; every table has its own conflict clause.
* A page and its total are two statements; totals come from views that lag.
* Queries nested inside open queries take several connections from a small pool.
* Durations overflow: a power, its conversion from a float, a product.

`PROJECT.json` lists the hazards one by one, each at its line, with the
properties that cover it.

### 1.4 What makes each component correct

* enqueue functions: only existing blocks; nothing outside the range; no hole;
  failed blocks are sent again; the range makes progress; exit when configured.
* workers, pipe, parser: a block that leaves the stage goes to the next stage or
  leaves a failure row; nothing is indexed with transactions missing.
* DB worker: an indexed block stays indexed; the failure row goes with the same
  transaction; events and custom events are both written.
* the whole: every block that was requested is in the end indexed, recorded as
  failed or (by Redis or a crash) lost; nothing stops the pipeline for good.
* fetcher: the ranges cover what was asked, overlap only at their ends, and every
  block is sent. Retries: attempts and waits are bounded as configured, and waits
  never shrink.
* parser and tables: a row is of the message, transaction and block it says; what
  was stored stays; a block with events has its signatures.
* latest lists: the newest entries without a gap; pages tile. Search: a stored
  hash is found, once, with its height.
* aggregates and views: rows are of stored events; every stored transaction
  reaches them; totals cover pages and catch up with the tables.
* pool: whoever shares it gets a connection at last.
* filters: an event is kept when the filter that counts includes it, and nothing
  made of an event that is left out is stored.

## 2. The modules

| module | what it is |
|---|---|
| `IndexerTables` | the tables that decide what is indexed; one operator per gorm transaction or query |
| `BlockEnqueue` (extends `IndexerTables`) | the three enqueue functions as actions over `blockEnqueueChan` |
| `EnqueueRun` (extends `BlockEnqueue`) | one start of the enqueue function over any rows of an earlier run, with workers that only drain |
| `IndexerPipeline` (extends `BlockEnqueue`) | the whole process: workers, pipe, parser, DB worker, crash, shutdown, restart |
| `BlockLedger` | the abstract promise: request, index, fail, lose |
| `RpcRetry` | the backoff and its two overflow guards as operators on short words |
| `FetcherRun` (extends `RpcRetry`) | fetcher mode: the ranges, an enqueue goroutine each, the call for the latest height with its retries |
| `Announcements` | latest lists, search consumers, `LocalMigrator` versions 1 to 3, and the parser and the DB worker as far as they announce |
| `Ascending` | the indexes a loop that skips entries goes through, in order |
| `TxParser` | both transaction parsers and the processor as operators |
| `EventFilter` | the datasets of custom parsers, block event filters and rolling windows as operators |
| `TxTables` (extends `TxParser`) | signatures, `txes`, messages, addresses: the effect of `IndexNewBlock` and `IndexBlockEvents` |
| `MaterializedViews` (extends `TxTables`) | six views and their refresh |
| `Aggregates` (extends `TxTables`) | the goroutines after a write, the three tables, migrations 4 and 5 |
| `TxQueries`, `BlockQueries` | the queries of the repositories as operators over tables and views |
| `ConnectionPool` | the pool and the nesting of queries, as actions the server's calls in `BlockContents` are made of |
| `BlockContents` (extends all of these) | one DB worker, its goroutines, the ticker, the migration, the server, crashes |
| `MCEnqueueRun`, `MCIndexerPipeline`, `MCFetcherRun`, `MCAnnouncements`, `MCBlockContents` | instances for TLC: configurations, chains, symmetry |
| `EnqueueRunProofs`, `IndexerPipelineProofs`, `FetcherRunProofs`, `AnnouncementsProofs` | theorems about the module of that name |
| `BlockContentsProofs` | theorems about `BlockContents` and, as its first section, about `ConnectionPool` |
| `PipelineLedgerProofs` (extends `IndexerPipelineProofs`) | that the pipeline implements `BlockLedger`, and what follows from its invariant |
| `BlockEnqueueProofs` | lemmas on the steps of `BlockEnqueue`, for `EnqueueRun` and `IndexerPipeline` |
| `CommonLemmas` | lemmas on `Range` of a sequence, for the channels, on joined sequences and on finite sets, and induction over the naturals |

`IndexerPipeline` composes the other components through shared variables (the
tables and `blockEnqueueChan`); `BlockLedger` is instantiated in it under the
refinement mapping `pending <- InFlight`, `indexed <- txIndexed`,
`failed <- failedBlocks`, `lost <- lost`. `FetcherRun`, `Announcements` and
`BlockContents` are three closer looks at what the pipeline reduces to a step:
the process in front of it, what leaves the DB worker, and what a block holds.

An operator whose comment starts with "Variant:" is a plausible wrong version of
the definition after it (a dropped guard, a missing row, an off-by-one). No
action uses it: each shows what a property would find if the code were so.

## 3. Correspondence with the code

State. A height stands for a block. `txIndexed` and `eventsIndexed` are the two
flags of a row of `blocks`; a row exists when one of them is set (`BlockRows`).
`failedBlocks` and `failedEventBlocks` are the failure tables. `txsStored` holds
the heights all of whose transactions are in `txes`; the flag and the
transactions differ when a partial answer was taken for a full one.
`blockChan`, `txChan`, `evChan` are the Go channels, `redis` the messages that
were published and not yet taken by the parser. A message keeps what the control
flow tells apart: which of its two answers are nil, empty, partial or complete,
and `TxRequestsFailed`. The `history` variables only record.

Steps. A step is one committed transaction, one channel operation, or one call
of the node with the branch it leads to.

* A failed call of `FetchBlock` writes its two rows in two steps (`fetch`,
  `failBlock`): a crash may come between.
* `FetchTxs`, `FetchBlockResults` and `FetchTxsFails` are the three outcomes of
  the transaction query and its fallback. A node may answer the query with no
  transactions for a block that has some (its index may be off or behind), and
  for a block with several pages a page that fails is skipped
  (`GetTxsByBlockHeight`), so an answer may be partial.
* The publisher takes from an unbuffered channel: `Publish` moves the message of
  a worker in the one step in which worker and publisher meet. What is
  published before `SUBSCRIBE` is in effect is lost whatever the settings of the
  model; with `MayLoseMessages` a publication may fail and a connection break.
* `Decode` is `MarshalJSON` then `UnmarshalJSON`: nil pointers come out as empty
  values, so the nil checks of `processBlocks` pass.
* The parser's loop body is three program counters: the header (`block`), the
  events, and the transactions (`txs`). Sending on a full channel blocks.
* `doDBUpdates` chooses between its channels: `WriteTxs`, `WriteEvents`,
  `IgnoreEvents`; `WriteCustomEvents` is the second transaction of an event
  block.
* `Crash` is a kill or any `config.Log.Fatal`; it may come between any two steps
  and loses all that is volatile. `ShutdownPanic` is what happens once every
  worker has exited (finding 1). `Restart` starts the process with any
  configuration of `Configs`.

Abstractions of the pipeline. What the parsers compute is a set of heights for which they fail
(`BadHeaders`, `BadTxs`, `BadEvents`; `TxParser` and `EventFilter` say the
rest). A retried call is one step (`RpcRetry`). The rows of `txes` and below are
one flag per block (`TxTables`). The hand-over to the latest lists, the search
consumers and the aggregates is left out (`Announcements`, `Aggregates`): their
consumers only drain (`pkg/consumer/cache.go` loops for ever on a channel of
1000), so they never block a stage for good. There is one chain and one process, whose publisher
feeds its own parser; in fetcher mode the publisher is another process and the
same steps apply with that process in its place.

Fetcher mode (`FetcherRun`). `phase` and `started` are the loop of
`runIndexerAsFetcher`; it makes two queries for each range, of `allBlocks` and
of the highest row. `pc` is where a goroutine stands in the enqueue function:
the failed blocks, the head of the loop, the call, the inner loop. What becomes
of a sent height is `Fetch`: indexed by a reader, failed, or lost. The channel is
a bag, because 64 workers take from it in any order. A wait is kept in units of
`1/Second` of a second, and words are as short as `MaxDuration` makes them;
`Converted` is the conversion of a float out of range, which on one processor
gives the least and on another the greatest value.

Announcements. A height stands for the hash of a block and of its one
transaction. The channels to the consumers of the lists hold 1000 entries and
have one reader, so sending, pushing and trimming are one step with the
alternatives that a command fails (the entry is not pushed, or the list is not
trimmed). PUBLISH reaches subscribers only. `AddHash` is two steps inside
MongoDB: find, then insert or update; with the unique index an insert that
meets a document becomes an update (MongoDB tries again). Versions 1 to 3 are a
program counter (`migPc`) with the hashes their query returned; creating the
index and storing version 1 are one step, and so are the last copy and storing
a later version. After a crash blocks without rows are parsed again. The entries
`OldEntries` are those of earlier blocks. Blocks of `IndexBlockEvents` and failed
blocks are announced in the same way and left out.

Contents of a block. A chain gives each height transactions, signers and events;
a transaction has its code, messages with type, signer and events, and whether
the node reports logs. `TxParser` follows the slots of the parsers: a message
that is filtered out leaves a nil in its slot, one that does not decode leaves no
slot, and raw bytes and logs are counted in their own way. `TxTables` applies
the conflict clause of each table: `txes` takes code and block from a later pass
and keeps time and response, messages keep their row and gain events, `FirstOrCreate` without
a condition takes the first row there is. `addAddresses` is on the plain
connection, so its rows stay after a rollback (`FailTxs`). `InsertNew` is
`ON CONFLICT DO NOTHING`. `ContentsAssumption` says what a chain is: lists, and no hash
that succeeds twice. An action of
`BlockContents` is one select of the DB worker with its database transaction, one
round of the loop that follows, one query or save of a goroutine, one refresh,
one migration, or one step of a call of the server on the pool. A query is an operator
over the tables and views; `Failed` is the answer of one that scans a NULL. The bytes
of a message are kept, as with `flags.index-tx-message-raw`; without the flag
`db.go:831` clears them all.

Views. Block h is made at time h, `DayLength` blocks make a day, and `now`, the time at
which a chain is indexed, is the `NOW()` of the views: `daily_tx_counts` and
`daily_wallets_counts` go back `Year` days (360 in the code), `daily_fees_summary`
`Month` (30), to the moment and not to the start of a day (`Within`). `now` does not
advance in a behaviour: what is older than a window is so from the start.
`OtherDays` is the share that days without a block of the model have in the daily
views, and a database whose views have no row is one on which the process does not
start (`StartsUp`, finding 10). The views of votes and deposits are one row for a
transaction, each of whose columns is `max()` over the values in all its messages, in
the order of text (`TextOrder`, `MaxText`). A vote for several options is an option
with a number, the count of the matches of `option:`.

Events of a block. `Datasets` is what the parsers make of the events: `ParseBlockEvent`
is called for every event of its type, before any filter, and what the p-th parser of a
type returns is appended to the p-th event of the block, since the inner loop declares
an index of its own (`block_events.go:85`). An index past the last event is a panic
of the parser worker, and the block's events never come to the DB worker
(`ParsersFit`). `FilterRPCBlockEvents` decides about the events afterwards: `Hits` are
the writes to `filterIndexes`, each with the round of the loop it is made in, and `Kept`
takes the last. `indexedDatasets` is what `IndexCustomBlockEvents` then hands to
`IndexBlockEvent`, with the event each is stored at. Begin and end block events go
through the same code and one of the two is modelled; they differ in that an error of a
parser of end block events is only logged (`db/events.go:133`), and parsers do not fail
in the model.

## 4. The properties

Safety of the pipeline:

* `TypeOK`: types, and no channel exceeds its capacity.
* `Accounted`: every height ever sent to the workers is in flight, indexed, in
  `failed_blocks`, or was dropped by Redis or a dying process. It ties together
  the error paths of all stages: forgetting one row anywhere breaks it.
* `IndexedIsComplete`: `tx_indexed` implies that all transactions are stored, for
  a block whose transactions come in one page. It depends on the comparison of
  lengths in `ProcessRPCBlockByHeightTXs`, since the nil check is of no use.
* `FailedNotIndexed`: when a height is on its way at most once, `failed_blocks`
  lists no indexed block. (With reattempts and reindexing a late failure of one
  copy may follow the success of another; the code has no guard for that and
  claims none.)
* `IndexedNotRequeued`: the default function sends no indexed block, although it
  read the tables once and holds one row.
* `FailedOnlyLeavesIndexed`: a row of `failed_blocks` leaves only with the block
  indexed, and `tx_indexed` is never taken back, in any configuration.
* `ImplementsLedger`: under the mapping of section 2 the pipeline implements
  `BlockLedger!Spec`. A height is therefore decided exactly once per request.

Liveness: `EveryBlockDecided`.

Enqueue function alone: `SentExists`, `RangeCovered`, `SentInRange`,
`FailedReattempted`, `RangeProgress`.

Fetcher mode:

* `RangesMeet`: the ranges together are start to end and one more; a goroutine
  sends heights of its own range; a height sent by two is where their ranges
  meet; nothing is sent that the chain has not passed.
* `RangeFetched` (liveness): every block of the range below the head is sent, or
  has a row, or lies below a row its goroutine resumed from, unless the process
  dies of a call that was out of attempts.
* `WaitsBounded`: a wait is not negative, not above the configured maximum, and
  not shorter than the one before, whatever overflows.

Announcements:

* `LatestIsNewest`, `PagesTile`: the lists are the newest entries without a gap
  and at least `ListSize` of them, and pages of any size return each once.
* `CommittedTxsSearchable`: a committed transaction is in the index, or in a
  topic, in an upsert, or among what the migration will still copy, or lost. It
  depends on two orders: commit before publish, and drop before query.
* `UniqueWhileIndexed`, `BlocksHaveHeights`: what the index and version 3 give
  although the consumers write the same documents.
* `CommittedTxsFound` (liveness): a committed transaction is at last in the index
  for good, or lost.

Contents of a block:

* `RowsMatchChain`, `TxRowsOfOneBlock`, `EventBlocksHaveSignatures`: rows say what
  the chain says, after any order of passes.
* `RowsOnlyGrow`: no pass takes anything away or replaces it, nor the time of a
  transaction.
* `AggregatesFromRows`, `AggregatesSaved` (liveness): no row of the aggregates is
  invented, and none is missing unless the process died or its calls are stuck.
* `LastFilterDecides`: `IndexBlockEvent` gets the datasets stored at the events that
  the filters include, and no others. Which filter counts is said without the loop: a
  window that starts at the event, then a single filter, then the window
  that starts nearest before it, and of several of a kind the last.
* `DBWorkerGoesOn` (liveness): the DB worker, which needs a connection after each
  transaction, comes back to its channels, unless calls of the server hold all
  connections and each waits for another (`CallsStuck`, finding 9). The run reaches
  `CallsStuck`; the property says that nothing else in the pool stops the writes. The
  other two liveness properties have the same exception.
* `TotalsCoverPages`: a total read after its page covers it, whatever is written, saved
  or refreshed between the two statements. Votes and deposits are not claimed: when a
  block is passed again with more of its messages the `max()` of a column may change,
  and a row moves from one account to another.
* `AnswersCatchUp` (liveness): once a transaction is stored the totals of the views
  come to agree with the charts over the tables, for what is of the last year or
  month, and every transaction, vote and proposal is answered for, unless a weighted
  vote blocks the refresh (finding 11). Votes are claimed of transactions with one
  voter and proposals of those that submit one (finding 12).

Statements of comments that the code does not meet (section 8):
`DoneBeforeExit`, `ResumeSkipsOnlyIndexed`, `EventsAreWritten`,
`IndexedHasAllTxs`, `ExitsWhenCaughtUp`.

## 5. The runs

| run | question | bounds |
|---|---|---|
| `PipelineSafety` | does any interleaving of two workers, a lossy Redis, one crash and a resumed run break a safety property? | 3 blocks of which the third appears later, capacities 2 and 1, one block with transactions, one with bad events |
| `PipelineModes` | and when a height is on its way several times: reattempts, reindexing, a block file with a height beyond the chain, two messages of the type in one block? | 2 blocks, 2 workers, one crash, one bad header |
| `PipelineLiveness` | does any block stay undecided for ever? | 3 blocks, 2 workers, capacities 2 and 1, a paged block, no losses |
| `EnqueueRanges` | is the choice of heights right in every configuration over every combination of rows of three blocks? | 4 blocks, queue of 2, 18 configurations; a block may be indexed and have a failure row, and have some of its messages stored |
| `FetcherRanges` | do the goroutines of the fetcher divide the range as they should and finish it, with a node that fails and waits that overflow? | 4 blocks, a head that grows from 2, a channel of 3; two ranges without retries, or one with 2 or endless retries; words of 8 bits, a second of 4 units, waits of 1, 30, 40 (negative product) and 70 seconds (product that overflows to a small wait); 12 attempts counted; rows of earlier runs |
| `Announcements` | do lists and index survive lost messages, failing writes, a crash, and a migration at any moment? | one block with its transaction, lists of 2 that hold 3 already, one crash |
| `BlockContents` | is what is stored and answered right, whatever the order of passes, saves, refreshes and a crash? | five chains of two blocks, each with one difficulty, two passes (one for the chain of votes and for that of the server), one crash for the chain of two messages, two calls of the server and four connections for the chain of one delegation; days of two blocks, a month of one day and a year of two, at a time when all of a chain is of the year or its first block is not; three event filters |
| `PipelineShutdown`, `PipelineResume`, `PipelineEvents`, `PipelinePages`, `EnqueueExit` | one finding each | the smallest that shows it |

Why these bounds are enough to be interesting. Two workers give every order of
two blocks. Capacity 1 makes the parser block on either channel; a queue of 2
makes the enqueue function meet a full queue, an empty one and the level at
which it stops asking for the latest height (2 div 4 = 0). Three blocks give a
resumed run something below, at and above the highest row. One crash suffices
for one resumed run, and a bounded run adds the restart after
`ShutdownPanic`, which needs no crash. Workers are interchangeable, hence the
symmetry of the runs without liveness.

The hazards of `Announcements` are races on one document: one hash with three
writers (two consumers of different types and the migration, which writes both
types) has them all, and the theorems of section 7 cover any number of blocks.
A list of 2 is full, one over, and trimmed, and a page of every size up to it
meets its end. In `FetcherRanges` two ranges have one common end point and one
last range; three places in the channel make it full with a head that is two
ahead; a maximum of one second is raised to two, and 8 bits reach each overflow in
a few attempts. In `BlockContents` each chain
combines what meets in one table: a filter that changes at a restart, undecodable
and filtered messages; a hash that failed and came again; votes, deposits and
payers, two votes in one transaction; a vote for two options, a mint that matches a
filter and a window, a type with more parsers than the block has events; one
delegation while two calls of the server take connections, of which pgx has four at
least, as few as two nested calls need to wait for each other. Of the second chain a
block is beyond the window of the daily counts, so totals and listings differ, and
blocks of the first two are beyond that of the fees. Two passes give every order of two
blocks and each block twice.

Bounds in the guards: `MaxHeight` (the chain stops growing), `MaxCrashes`,
`MaxRestarts`, `MaxPasses`, `MaxCounted` (later attempts wait as long).
Constants that bound the model: `QueueCap` (100000 in the code), `DataChanCap`
(4 per worker), `Workers`. The first `latestBlock`, `math.MaxInt64`, is
`MaxHeight + 1`, which like it is above every height. Deadlock is checked in
every run of the pipeline and of `EnqueueRun`: the process always has a step, if
only the loop of an enqueue function that has caught up; in `EnqueueRun`, where
the workers are a stub, `Finished` is the end of a run.

## 6. Fairness

`IndexerPipeline!Fairness` is used by `PipelineLiveness` alone. Weak fairness of
the enqueue goroutine, the subscription, each worker, each worker's hand-over,
the parser and the second transaction of the DB worker: the Go scheduler runs
every goroutine that can run, and a call returns because retries are finite
(`request-retry-attempts` is not negative). Strong fairness of the two branches
of the `select` in `doDBUpdates`: Go chooses at random among the ready branches.
Nothing is assumed of the chain, of crashes or of losses, and that run has
neither losses nor crashes: with them `lost` is an answer and the property says
less. `EnqueueRun!FairSpec` assumes that the goroutine runs and that workers go
on receiving.

`FetcherRun!Fairness`: the main goroutine, each enqueue goroutine and the workers
run, and the node answers at last when it is asked again and again (strong
fairness of `Answered`, since a call that fails and waits is not always about to
answer). A node that never answers ends the process or is waited for, and
promises nothing about blocks.

`Announcements!Fairness`: the DB worker, the migration, the consumer of
transactions and the calls to MongoDB of these go on; none waits for a lock or for
a turn. Nothing is assumed of subscribing, of crashes or of what is lost.

`BlockContents!Fairness`: goroutines that save run (weak). What takes a
connection (the loop, the reads, the refresh) competes for the pool; pgx serves
those who wait in turn, so each that can be served again and again is served
(strong). A call reads its rows to the end. New blocks and new calls are not
assumed.

Deadlock is not checked in these three runs: a fetcher that has sent its range,
an index that is complete and a database after the last pass have nothing left to
do.

## 7. The proofs

`IndexerPipelineProofs` proves for every chain length, set of workers,
capacity, configuration set and number of crashes:

| theorem | statement |
|---|---|
| `TypeCorrect` | `Spec => []TypeOK` |
| `FailedOnlyLeavesWhenIndexed` | `Spec => FailedOnlyLeavesIndexed` |
| `IndexedOnlyWhenComplete` | `Spec => []IndexedIsComplete` |
| `NoBlockForgotten` | `Spec => []Accounted` |

Assumptions: the named ones on the constants, `MaxHeightAssumption`,
`EnqueueAssumption` and `PipelineAssumption`. TLC evaluates them in every run.

* `TypeOK` is inductive. The lemmas on `Range` of `Append`, `Tail` and a prefix
  (`CommonLemmas`) carry the channels; there is one lemma per component (`EnqueueTypeOK`
  in `BlockEnqueueProofs`, `WorkerTypeOK`, `PipeTypeOK`, `ParserTypeOK`, `DBWriterTypeOK`,
  `ProcessTypeOK`) and `StepTypeOK` puts them together.
* `FailedOnlyLeavesIndexed` follows from what each table operation does, and
  from every step being one such operation or none.
* `IndexedIsComplete` is not inductive: the flag is set from what lies in
  `txChan`. `CompleteInv` adds that every element of `txChan` of a block with
  one page says that it is complete. It is inductive because `TxsParse` and
  `AllTxs` agree on such a block: this is where the comparison of lengths in the
  code is needed.
* `Accounted` is inductive given `TypeOK`. A step may take a height out of
  `InFlight` only into `txIndexed`, `failedBlocks` or `lost`, and each of these
  loses a height only to another of them; the proof shows this for each action.

`PipelineLedgerProofs` proves for the same constants:

| theorem | statement |
|---|---|
| `LedgerImplemented` | `SentOnce => (Spec => ImplementsLedger)` |
| `NoneFailedAndIndexed` | `Spec => []FailedNotIndexed` |
| `NeverIndexedTwice` | `Spec => IndexedNotRequeued` |

`SentOnce` says that every configuration uses the default function and neither
reindexes nor reattempts. The refinement needs it, since the ledger decides each request once; the
other two properties have it as their own condition, and their theorems have no other.

* The invariant is `OnceInv`. Each stage of the process holds a height once
  and no two stages hold the same (`OneCopy`), and none holds an indexed height.
  `Aboard` is what the stages hold. It is more than `InFlight`: a block whose transactions
  could not be fetched is recorded as failed and goes on, with
  `TxRequestsFailed`, to the parser, which may record it again.
  `MarkedFailed` says that such a message is of a failed block.
* That nothing is sent twice is the part `Ahead`: everything aboard is below
  `currBlock`, and an indexed block at or above it is the row that the
  goroutine has found or lies outside the range. It holds again after a crash because
  the process has lost what was aboard, and the new `currBlock` is the highest row.
  That there is a highest row is `HighestExists`, by induction over `MaxHeight`.
* A step then adds a height to `InFlight` that is new (`Request`), takes one out of it
  into `txIndexed` or `failedBlocks`, takes several into `lost`, or leaves all four
  alone (`LedgerRequests`, `LedgerIndexes`, `LedgerFails`, `LedgerLoses`,
  `LedgerStutters`).

`EnqueueRunProofs` proves for every chain length, queue capacity, configuration
set, file of heights and any rows of an earlier run that `EarlierRun` names (any flags,
any failure rows, any blocks whose messages are stored or stored in part):

| theorem | statement |
|---|---|
| `TypeCorrect` | `Spec => []TypeOK` |
| `NothingBeyondHead` | `Spec => []SentExists` |
| `NoHoleInRange` | `Spec => []RangeCovered` |
| `OnlyTheRange` | `Spec => []SentInRange` |

Assumptions: `MaxHeightAssumption` and `EnqueueAssumption`.

* `SentExists` needs `Existing`: rows, failed blocks, what is planned and what lies in
  the channel are of blocks the chain has made, and so is `latestBlock` while the
  goroutine fills the queue. Outside the inner loop it may be the maximal first
  value; that the loop reads the head before it sends anything is the heart of it.
* `RangeCovered` and `SentInRange` need `Ranged`: once the tables are read,
  `currBlock` is at or above the first block, only failed blocks are planned, what
  is skipped (`blocksInDB`) is indexed, and every height below `currBlock` was
  handled. A step hands the current height over to one of the alternatives before it
  goes on. A resumed run jumps to a row it has found, which is the last
  disjunct of `RangeCovered`, the one finding 2 is about.

`FetcherRunProofs` proves for every range, step of a goroutine, chain, capacity,
number of attempts, wait, width and unit of a duration, either conversion of a
float out of range, and whatever rows an earlier run has left:

| theorem | statement |
|---|---|
| `FetcherTypeCorrect` | `Spec => []TypeOK` |
| `RangesMeetAlways` | `Spec => []RangesMeet` |
| `WaitsNeverShrink` | `Spec => WaitsBounded` |

Assumptions: `FetcherAssumption` and `DurationAssumption`.

* `RangesMeet` is arithmetic and a fact about steps. `RangesCover` and
  `RangesOverlap` are the arithmetic of `calculateGoroutines`: the quotient and the
  remainder of the range by the step leave no height out, and two ranges have at most an
  end in common. The fact about steps is in `FetcherInv`: `currBlock` of a goroutine
  never lies below its range (`InOwnRange`), and what it has sent is of its range and below the
  head (`SentOwn`), which it fills up to no further than it has read the head.
* `TypeOK` needs that the channel, a bag, is finite (`ChanBounded`), since its
  capacity is a cardinality, and that the attempts of a call stop at their maximum
  (`AttemptsCounted`).
* `WaitsBounded` relates the wait of a step to that of the step before. `WaitsKnown`
  says what wait a number of attempts stands for; `NextWait`, that the next is
  not shorter. Where no product overflows this is growth of the quotient of powers
  (`BackoffGrows`); where one does, the guards of `getBackoffDurationForAttempts`
  replace it by the maximum. The powers are a recursive function; that it exists,
  and that its values are what the recursion says, is `PowerDefined`.

`AnnouncementsProofs` proves for every number of blocks, set of blocks with
transactions, list size, number of older entries and number of crashes, with
failing writes or without:

| theorem | statement |
|---|---|
| `TypeCorrect` | `Spec => []TypeOK` |
| `CommittedStaySearchable` | `Spec => []CommittedTxsSearchable` |
| `IndexKeepsUnique` | `Spec => []UniqueWhileIndexed` |
| `BlocksKeepHeights` | `Spec => []BlocksHaveHeights` |
| `ListsStayNewest` | `Spec => []LatestIsNewest` |
| `PagesTileAlways` | `Spec => []PagesTile` |

Assumption: `AnnouncementsAssumption`.

* `TypeInv` is `TypeOK` and that the collection is finite, which the copy number
  of a document needs. `Stage` says which values `version` and `migPc` take
  together.
* `CommittedTxsSearchable` is proved in the form `Searchable`: each committed
  transaction is announced, one disjunct for each place it can be in. A step
  moves it from one place to another: the commit to the announcement, the
  publication to the topic or to `lost`, the consumer to its upsert, the upsert
  to the collection; a drop needs that the migration has still to copy, which is
  what `StillToCopy` says of the versions and of the order of drop and query.
* `UniqueWhileIndexed` needs `UniqueInv`. Before version 1 has created the index
  each type has one writer, its consumer, so what it has not found nobody else
  adds, and the collection holds no two documents of a hash when the index is
  created; from then to the drop of version 3 the index refuses a second one.
* `BlocksHaveHeights` needs `HeightsInv`. Only version 2 writes a wrong height, and
  only of blocks that PostgreSQL has; if they survive into version 3 (the drop may
  fail) so does the unique index, version 3 finds their rows and comes to each, and
  there is no second document it could miss.

* `LatestIsNewest` is the meaning of `NewestInv`: each list is the end of what was
  pushed, newest first, all of it or at least `ListSize`. A push and a trim keep it,
  whether both are done or one of them fails.
* `PagesTile` is about one list, of any length. `FlattenIs` says that a sequence whose
  pieces continue each other joins to it, by induction over the number of pieces;
  `PageIs` says which piece a page is.

`BlockContentsProofs` proves for every set of chains a node can serve, every
configuration of filters, bound on the passes over blocks and on crashes, and any pool
of connections:

| theorem | statement |
|---|---|
| `ContentsTypeCorrect` | `Spec => []TypeOK` |
| `RowsGrowAlways` | `Spec => RowsOnlyGrow` |
| `TxRowsStayWhole` | `Spec => []TxRowsOfOneBlock` |
| `SignaturesComplete` | `Spec => []EventBlocksHaveSignatures` |
| `RowsAreOfTheChain` | `Spec => []RowsMatchChain` |
| `LastFilterAlwaysDecides` | `Spec => []LastFilterDecides` |
| `AggregatesAreOfRows` | `Spec => []AggregatesFromRows` |
| `TotalsAlwaysCover` | `Spec => TotalsCoverPages` |
| `PoolTypeCorrect` | `PoolSpec => []PoolTypeOK` |

Assumptions: `ViewsAssumption`, `PoolAssumption` (finitely many calls, at least one
connection) and `ContentsAssumption`. The last says of a
chain that its blocks, messages, events and attributes are lists and that two
transactions of one hash which both succeeded are the same one: a transaction uses
up the sequence number of its signers. A hash may still come in several blocks, failed.

* `TablesInv` is the invariant of the tables. `Signed` says that a block whose events
  are indexed has all its signatures, which is what keeps `IndexNewBlock` from
  adding one to it: it adds one only while the table is empty. `TxRows` and
  `MessageRows` say of each row which transaction it is of. For a message that is
  `Written`: the type and the bytes of message k, and either no events or
  those that `EventsOf` names. Of two passes one may know no events (the
  search parser of a node without logs), but two that know any know the same;
  without the assumption on hashes a second transaction could mix its tail in.
  With an undecodable message `Written` claims nothing, and finding 16 says why.
* The parsers come in through `ProcessTxIs` and `SlotsAre`: when every message decodes,
  slot k is message k, whatever the filters leave out, because a filtered message
  keeps its slot. That an ascending loop over all indexes is the identity is
  `InOrderIs`, by induction over the length (`RankExists`).
* `MergeIs` says what `ON CONFLICT DO NOTHING` leaves of two lists of events,
  `MergeGrows` that the older is a prefix of it and `MergeSame` that of two equal
  lists, or of one and none, nothing is left but the one. `RowsOnlyGrow` is the first
  of these, applied row by row (`TxesWritten`, `MessagesWritten`).
* `AggregatesInv` adds what a goroutine carries (`GoroutinesFrom`): attributes that
  its transaction had when it read them. They stay (`RowsInGrow`, from
  `RowsOnlyGrow`), so what it saves later is still there. Of several attributes with
  one key the first is saved; that there is a first, in the order of message, event and
  attribute, is `FirstExists`.
* `LastFilterDecides` is `KeptIsIncluded` and `FilterInv`. The hit after which there is
  none is compared with the three cases of the precedence: hits are ordered by the event
  their round is at, windows of a round after the single filters, and the filters of
  a kind by their place; a window that covers an event starts at it or before it. In
  the other direction each case names a hit and shows every other one to be earlier.
  `FilterInv` says that what was handed over is `Handed` of the block, and that its
  parsers fit, so no dataset is at an event that does not exist.
* `TotalsAlwaysCover`: what a page was taken from stays (`RowsOnlyGrow`, `RowsInGrow`,
  and the keys of the aggregates), so a later total counts a larger set. That says
  something of its size only for finite sets: `TxesFinite`, `RowsFinite` and
  `DerivedFinite` trace every set back to the chain. `ListedInv` adds that the view of the
  accounts, however old, has no row that the tables would not make now, so a refresh
  takes nothing away; that needs the time of a transaction to stay.

Induction over data is in these proofs an argument about sets: `SetInduction`
(`CommonLemmas`) says that a set of naturals with 0 and with the successor of each of its
members is all of them, from the least element that `WellFoundedInduction` gives;
the set is that of the numbers for which the statement holds.

Only model-checked: liveness
(`EveryBlockDecided`, `FailedReattempted`, `RangeProgress`,
`RangeFetched`, `CommittedTxsFound`, `AggregatesSaved`, `AnswersCatchUp`),
which is out of the prover's reach with `ENABLED`.

## 8. Findings

1. **Shutdown** (`PipelineShutdown`). The `WaitGroup` of `runIndexer` is there
   "to ensure we are done processing transactions and events before returning"
   (`cmd/index.go:420`). When the workers exit, their channel is closed; the
   publisher receives the zero message and dereferences its nil `BlockData`
   (`cmd/index.go:678`). The process dies with blocks in flight.
2. **Resume** (`PipelineResume`). The default function should "pick up where we
   last left off ... and skip already indexed blocks" (`core/block_enqueue.go:207`).
   It starts at the highest row of `blocks` (`db/db.go:466`), whichever flag it has.
   In the run two workers hold blocks 1 and 2 and Redis delivers everything; block 2
   is published first and its event row is written, the process is killed while block
   1 is still being fetched, and the next run starts at height 2.
3. **Events** (`PipelineEvents`). When the `select` takes the transactions of a
   block first, its events are dropped as "already indexed" (`cmd/index.go:1013`).
4. **Pages** (`PipelinePages`). A page of the transaction query that fails is
   skipped (`clients/chain_rpc.go:66`), and the block is marked as indexed.
5. **Exit** (`EnqueueExit`). With `exit-when-caught-up` the default function
   never returns: the inner loop sends heights below the latest one, the exit
   asks for a height above it (`core/block_enqueue.go:255` and `:277`). For the
   same reason the newest block is sent only when the next one exists, and
   a bounded run whose end block is the head waits for the next block.

The following came up while the code was translated. They have no run of their
own; the model states what the code does, and the property named is stated so
that it holds.

6. **Parsed events** (`core/block_events.go:85`). With filters the code should "only include
   block events that match the filters and are allowed" (`core/block_events.go:110`).
   What the p-th parser of a type makes of an event is stored with the p-th event of
   the block, so data of an event that is left out reaches
   `IndexBlockEvent` with one that is kept; with more parsers than events the parser
   worker panics (`Datasets`, `ParsersFit`).
7. **Order of filters** (`core/block_events.go:124`). "The first filter that matches is the one
   that is used. Single block event filters are preferred in ordering"
   (`core/block_events.go:111`). The last is used, and a window that starts at the
   event comes after the single filters (`LastFilterDecides`).
8. **Totals since genesis** (`db/db.go:308`). `README.md:18` promises "Index since
   Genesis", and the total of `Transactions` was a count of `txes`
   (`pkg/repository/txs.go:448`). It is now the sum of a view that goes back 360 days,
   so older transactions are listed and not counted (`Within`, `AnswersCatchUp`).
9. **Pool** (`pkg/repository/txs.go:838`). `doDBUpdates` "will read the data out of the db data chan"
   (`cmd/index.go:910`). Its loop over a written block takes a connection of the pool
   in which `getTransactionsByTypes`, `GetVotes` and `DelegatesByValidator` hold up to
   two and wait for a third. Two such calls in a
   pool of four wait for each other for ever, and the DB worker with them. Nothing bounds
   the calls by the size of the pool (`cmd/index.go:736`; `CallsStuck`).
10. **Fresh database** (`cmd/index.go:512`). `StoreAggregates` scans sums over
    empty views, which are NULL, and `runIndexer` panics; the views are refreshed
    only by a goroutine started later. `README.md:18` promises "Index since
    Genesis" (`StartsUp`).
11. **Weighted votes** (`db/db.go:244`). The view of votes makes a row of each
    option, the unique index refuses them, and `UpdateViews` stops there for ever
    (`VotesUnique`).
12. **Several votes** (`db/db.go:216`). A transaction with several votes is one row of
    the view with the `max()` of each column, so it shows the voter of one vote with the
    option or proposal of another (`MaxText`; `VotesListed` claims only transactions of
    one voter).
13. **Fetcher** (`cmd/index.go:367`, `core/block_enqueue.go:308`). The block after
    the end block is sent as well, and `base.reindex` has no effect, because
    `allBlocks` is looked at regardless (`RangesMeet`, `SkipKnown`). The names of
    the retry settings in `config.toml.example:26-27` are not those that are read.
14. **Search migration** (`db/local_migration.go:112`, `:126`). Version 3 drops the
    unique index of version 1 with the collection; transactions get height 0
    (`UniqueWhileIndexed`, `BlocksHaveHeights`). The lists keep 51 entries for a
    size of 50 (`pkg/repository/cache.go:131`).
15. **Signatures and indexes**. Signatures are stored by `IndexNewBlock` only while there
    are none at all (`db/db.go:605`, `EventBlocksHaveSignatures`); the two index columns
    of `tx_events_aggregateds` are swapped between the DB worker and migration 5
    (`cmd/index.go:1075`), so `AggregatesFromRows` admits both orders.
16. **Undecodable messages**. One that cannot be unpacked shifts the bytes and events of its
    neighbours (`core/tx/parser.go:332`); `RowsMatchChain` exempts its transaction.
17. **Queries**. `blockGas` swaps used and wanted (`pkg/repository/blocks.go:358`)
    and `TransactionSigners` joins on the wrong column
    (`pkg/repository/txs.go:238`).

## 9. Not modelled

* Several chains in one database; the double insert of a failure row (an upsert
  is one step, its failure a crash).
* An error of a database transaction other than the fatal ones: it changes
  nothing and ends the process, which is `Crash`. `FailTxs` of `BlockContents` is
  the one that leaves rows behind.
* A failing read of a start-up query: the process does not start.
* Rows of block events and of custom parsers: `indexedDatasets` is what the parsers
  are handed to store, the rest is theirs.
* Queries that convert or filter one row: `TransactionSigners`,
  `TransactionRawLog`, `GetValidatorHistory`, `TotalRewardByAccount`, `blockGas`,
  and the conversions of `pkg/server`. Pages beyond the first differ by LIMIT and
  OFFSET only. The text search is MongoDB's.
* The captured variable `err` of the goroutines of `runIndexer` (`cmd/index.go:598`):
  its effect is a panic at any point, which is a crash.
* Reading of filter files and settings, generated code, scripts and deployment.
* Decoding of messages, which belongs to the Cosmos SDK.

## 10. What is left

1. Two chains in one database.
2. The queries of rewards and validator history.
