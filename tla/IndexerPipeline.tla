--------------------------- MODULE IndexerPipeline ---------------------------
(***************************************************************************)
(* One indexer process (runIndexer in src/cmd/index.go) from the enqueue   *)
(* goroutine to the tables:                                                *)
(*                                                                         *)
(*   enqueue -> blockChan -> RPC workers -> publisher -> Redis pub/sub     *)
(*     -> receiver -> parser -> txDataChan        -> DB worker -> tables   *)
(*                           -> blockEventsChan   ->                       *)
(*                                                                         *)
(* with the failed-block rows every stage writes, crashes and restarts of  *)
(* the process, and at-most-once delivery by Redis.  Everything but the    *)
(* tables and the chain is lost when the process goes down.                *)
(***************************************************************************)
EXTENDS BlockEnqueue

CONSTANTS
  Workers,        \* the RPC worker goroutines (base.rpc-workers)
  DataChanCap,    \* capacity of txDataChan and blockEventsDataChan, 4 per worker
  HasTxs,         \* heights of blocks with transactions
  PagedTxs,       \* those whose transactions take more than one page of 100
  BadHeaders,     \* heights whose proposer address does not parse
  BadTxs,         \* heights with a transaction, in the first page, that does not decode
  BadEvents,      \* heights whose block events do not parse or filter
  MayLoseMessages,\* whether Redis may lose what was published
  MaxCrashes      \* bound of the model on crashes of the process

ASSUME PipelineAssumption ==
  /\ DataChanCap \in Nat \ {0}
  /\ HasTxs \subseteq Heights
  /\ PagedTxs \subseteq HasTxs
  /\ BadHeaders \subseteq Heights
  /\ BadTxs \subseteq HasTxs
  /\ BadEvents \subseteq Heights
  /\ MayLoseMessages \in BOOLEAN
  /\ MaxCrashes \in Nat

VARIABLES
  proc,        \* "up" or "down"
  crashes,     \* crashes so far, at most MaxCrashes
  workPc,      \* where each RPC worker is
  workMsg,     \* the IndexerBlockEventData each RPC worker is building
  subscribed,  \* whether the SUBSCRIBE of runPipe is in effect
  redis,       \* messages published and not yet received by the parser
  prsPc,       \* where processBlocks is in its loop
  prsMsg,      \* the block it is working on
  txChan,      \* txDataChan
  evChan,      \* blockEventsDataChan
  wrPc,        \* where doDBUpdates is
  wrHeight,    \* the block whose custom events it has still to write
  requested,   \* history: heights ever sent to the RPC workers
  lost,        \* history: heights dropped in flight, by Redis or with the process
  eventsFetched \* history: heights whose event rows came from fetched block results

workVars == <<workPc, workMsg>>
pipeVars == <<subscribed, redis>>
prsVars  == <<prsPc, prsMsg>>
wrVars   == <<wrPc, wrHeight>>
history  == <<requested, lost, eventsFetched>>
vars == <<tables, config, head, enqVars, proc, crashes, workVars, pipeVars, prsVars,
          txChan, evChan, wrVars, history>>

-----------------------------------------------------------------------------
(* IndexerBlockEventData: BlockData stands for the height; GetTxsResponse  *)
(* and BlockResultsData are nil pointers, empty values or real answers,    *)
(* and GetTxsResponse may hold a part of the transactions.                 *)
(* BlockEventRequestsFailed is never set.                                  *)

TxAnswers == {"nil", "empty", "part", "some"}

Messages == {m \in [h : Heights,
                    txs : TxAnswers,
                    results : {"nil", "zero", "full"},
                    txFailed : BOOLEAN] : m.txs = "part" => m.h \in PagedTxs}

NewMessage(h) == [h |-> h, txs |-> "nil", results |-> "nil", txFailed |-> FALSE]

\* A message no process holds, to give an idle goroutine's variable one value.
NoMessage == NewMessage(1)

\* MarshalJSON and then UnmarshalJSON: both nil pointers come out as pointers
\* to empty values.
Decode(m) ==
  [m EXCEPT !.txs = IF @ = "nil" THEN "empty" ELSE @,
            !.results = IF @ = "nil" THEN "zero" ELSE @]

WorkPcs == {"idle", "fetch", "failBlock", "send", "exited"}
PrsPcs  == {"idle", "block", "events", "txs"}
WrPcs   == {"idle", "custom"}
TxData  == [h : Heights, complete : BOOLEAN]
EvData  == [h : Heights, fetched : BOOLEAN]

VolatileInit ==
  /\ workPc = [w \in Workers |-> "idle"]
  /\ workMsg = [w \in Workers |-> NoMessage]
  /\ subscribed = FALSE
  /\ redis = <<>>
  /\ prsPc = "idle" /\ prsMsg = NoMessage
  /\ txChan = <<>> /\ evChan = <<>>
  /\ wrPc = "idle" /\ wrHeight = 1

Init ==
  /\ TablesInit
  /\ EnqInit
  /\ VolatileInit
  /\ proc = "up"
  /\ crashes = 0
  /\ requested = {} /\ lost = {} /\ eventsFetched = {}

-----------------------------------------------------------------------------
(* Heights in flight whose transactions have still to be written or given  *)
(* up.  A message with TxRequestsFailed is no longer one of them: its row  *)
(* of failed_blocks exists already.                                        *)

Undecided(m) == ~m.txFailed

QueuedHeights  == Range(blockChan)
WorkerHeights  == {workMsg[w].h : w \in {v \in Workers :
                     workPc[v] \in {"fetch", "failBlock", "send"} /\ Undecided(workMsg[v])}}
RedisHeights   == {m.h : m \in {x \in Range(redis) : Undecided(x)}}
ParserHeights  == IF prsPc # "idle" /\ Undecided(prsMsg) THEN {prsMsg.h} ELSE {}
TxChanHeights  == {d.h : d \in Range(txChan)}

InFlight == QueuedHeights \cup WorkerHeights \cup RedisHeights
              \cup ParserHeights \cup TxChanHeights

-----------------------------------------------------------------------------
(* Enqueue goroutine, in the process.                                      *)

Enqueue ==
  /\ proc = "up"
  /\ EnqueueStep
  /\ requested' = requested \cup Range(blockChan')
  /\ UNCHANGED <<proc, crashes, workVars, pipeVars, prsVars, txChan, evChan,
                 wrVars, lost, eventsFetched>>

Grow ==
  /\ ChainGrows
  /\ UNCHANGED <<proc, crashes, workVars, pipeVars, prsVars, txChan, evChan,
                 wrVars, history>>

-----------------------------------------------------------------------------
(* RPC workers.                                                            *)

workFrame == <<config, head, proc, crashes, pipeVars, prsVars, txChan, evChan, wrVars, history>>

SetWorker(w, pc, m) ==
  /\ workPc' = [workPc EXCEPT ![w] = pc]
  /\ workMsg' = [workMsg EXCEPT ![w] = m]

\* block, open := <-blockEnqueueChan
TakeBlock(w) ==
  /\ proc = "up"
  /\ workPc[w] = "idle"
  /\ blockChan # <<>>
  /\ SetWorker(w, "fetch", NewMessage(Head(blockChan)))
  /\ blockChan' = Tail(blockChan)
  /\ UNCHANGED <<tables, enqPc, planned, currBlock, latestBlock, blocksInDB, workFrame>>

\* Variant: an empty channel is taken for a closed one.
WorkerExitsWhenEmpty(w) ==
  /\ proc = "up"
  /\ workPc[w] = "idle"
  /\ blockChan = <<>>
  /\ SetWorker(w, "exited", NoMessage)
  /\ UNCHANGED <<tables, enqVars, workFrame>>

\* The channel is closed and drained.
WorkerExits(w) ==
  /\ proc = "up"
  /\ workPc[w] = "idle"
  /\ blockChan = <<>>
  /\ enqPc = "done"
  /\ SetWorker(w, "exited", NoMessage)
  /\ UNCHANGED <<tables, enqVars, workFrame>>

\* GetBlock fails: the first of the two rows FetchBlock then writes.
FetchGetBlockFails(w) ==
  /\ proc = "up"
  /\ workPc[w] = "fetch"
  /\ UpsertFailedEventBlock(workMsg[w].h)
  /\ SetWorker(w, "failBlock", workMsg[w])
  /\ UNCHANGED <<enqVars, workFrame>>

\* Variant: only the first row is written.
FetchFailBlockUnrecorded(w) ==
  /\ proc = "up"
  /\ workPc[w] = "failBlock"
  /\ SetWorker(w, "idle", NoMessage)
  /\ UNCHANGED <<tables, enqVars, workFrame>>

\* The second row; FetchBlock returns nil and the worker goes on.
FetchFailBlock(w) ==
  /\ proc = "up"
  /\ workPc[w] = "failBlock"
  /\ UpsertFailedBlock(workMsg[w].h)
  /\ SetWorker(w, "idle", NoMessage)
  /\ UNCHANGED <<enqVars, workFrame>>

\* What GetTxsByBlockHeight may answer for a block.  A node whose transaction
\* index is behind or off answers with no transactions for a block that has
\* some; a page after the first that fails is passed over.
AnswersFor(h) ==
  {"empty"} \cup (IF h \in HasTxs THEN {"some"} ELSE {})
            \cup (IF h \in PagedTxs THEN {"part"} ELSE {})

FetchTxs(w) ==
  /\ proc = "up"
  /\ workPc[w] = "fetch"
  /\ \E answer \in AnswersFor(workMsg[w].h) :
       SetWorker(w, "send", [workMsg[w] EXCEPT !.txs = answer])
  /\ UNCHANGED <<tables, enqVars, workFrame>>

\* It fails and GetBlockResultWithRetry answers instead.
FetchBlockResults(w) ==
  /\ proc = "up"
  /\ workPc[w] = "fetch"
  /\ SetWorker(w, "send", [workMsg[w] EXCEPT !.results = "full"])
  /\ UNCHANGED <<tables, enqVars, workFrame>>

\* Both fail: the block is recorded as failed and still passed on, marked.
FetchTxsFails(w) ==
  /\ proc = "up"
  /\ workPc[w] = "fetch"
  /\ UpsertFailedBlock(workMsg[w].h)
  /\ SetWorker(w, "send", [workMsg[w] EXCEPT !.txFailed = TRUE])
  /\ UNCHANGED <<enqVars, workFrame>>

Worker(w) ==
  \/ TakeBlock(w) \/ WorkerExits(w)
  \/ FetchGetBlockFails(w) \/ FetchFailBlock(w)
  \/ FetchTxs(w) \/ FetchBlockResults(w) \/ FetchTxsFails(w)

-----------------------------------------------------------------------------
(* runPipe: the publisher goroutine, the subscription and the receiver.    *)

pipeFrame == <<tables, config, head, enqVars, proc, crashes, prsVars, txChan, evChan, wrVars,
               requested, eventsFetched>>

\* Redis forgets a message that is published while nobody is subscribed.
Subscribe ==
  /\ proc = "up"
  /\ ~subscribed
  /\ subscribed' = TRUE
  /\ UNCHANGED <<pipeFrame, redis, workVars, lost>>

\* blockRPCWorkerDataChan is unbuffered: the publisher takes the worker's
\* message, encodes it and publishes it.
PublishDelivered(w) ==
  /\ proc = "up"
  /\ workPc[w] = "send"
  /\ subscribed
  /\ redis' = Append(redis, workMsg[w])
  /\ SetWorker(w, "idle", NoMessage)
  /\ UNCHANGED <<pipeFrame, subscribed, lost>>

\* Nobody is subscribed yet, or MarshalJSON or PUBLISH returns an error, which
\* is logged: the block is gone.
PublishLost(w) ==
  /\ proc = "up"
  /\ workPc[w] = "send"
  /\ MayLoseMessages \/ ~subscribed
  /\ lost' = lost \cup (IF Undecided(workMsg[w]) THEN {workMsg[w].h} ELSE {})
  /\ SetWorker(w, "idle", NoMessage)
  /\ UNCHANGED <<pipeFrame, pipeVars>>

Publish(w) == PublishDelivered(w) \/ PublishLost(w)

\* The subscriber's connection breaks and go-redis subscribes anew: what Redis
\* held for it is gone.  The receiver and the forwarder hold at most one message
\* each, and these stay.
ConnectionLost ==
  /\ proc = "up"
  /\ MayLoseMessages
  /\ \E k \in 0 .. 2 :
       /\ k < Len(redis)
       /\ redis' = SubSeq(redis, 1, k)
       /\ lost' = lost \cup {redis[i].h : i \in {j \in k + 1 .. Len(redis) : Undecided(redis[j])}}
  /\ UNCHANGED <<pipeFrame, subscribed, workVars>>

-----------------------------------------------------------------------------
(* processBlocks.                                                          *)

prsFrame == <<config, head, enqVars, proc, crashes, workVars, subscribed, wrVars, history>>

PrsDone == prsPc' = "idle" /\ prsMsg' = NoMessage

\* for blockData := range pipe
Receive ==
  /\ proc = "up"
  /\ prsPc = "idle"
  /\ redis # <<>>
  /\ prsPc' = "block"
  /\ prsMsg' = Decode(Head(redis))
  /\ redis' = Tail(redis)
  /\ UNCHANGED <<tables, prsFrame, txChan, evChan>>

\* Variant: the block is dropped without its row.
ProcessBlockFailsUnrecorded ==
  /\ proc = "up"
  /\ prsPc = "block"
  /\ prsMsg.h \in BadHeaders
  /\ PrsDone
  /\ UNCHANGED <<tables, prsFrame, redis, txChan, evChan>>

\* ProcessBlock returns an error: failed_blocks, and on to the next block.
ProcessBlockFails ==
  /\ proc = "up"
  /\ prsPc = "block"
  /\ prsMsg.h \in BadHeaders
  /\ UpsertFailedBlock(prsMsg.h)
  /\ PrsDone
  /\ UNCHANGED <<prsFrame, redis, txChan, evChan>>

EventsParse(m) == m.results = "full" => m.h \notin BadEvents

\* blockEventsDataChan <- ...: blocks while the channel is full.
SendBlockEvents ==
  /\ proc = "up"
  /\ prsPc = "block"
  /\ prsMsg.h \notin BadHeaders
  /\ EventsParse(prsMsg)
  /\ Len(evChan) < DataChanCap
  /\ evChan' = Append(evChan, [h |-> prsMsg.h, fetched |-> prsMsg.results = "full"])
  /\ prsPc' = "txs"
  /\ UNCHANGED <<tables, prsFrame, prsMsg, redis, txChan>>

\* ProcessRPCBlockResults or a filter returns an error.
ProcessEventsFails ==
  /\ proc = "up"
  /\ prsPc = "block"
  /\ prsMsg.h \notin BadHeaders
  /\ ~EventsParse(prsMsg)
  /\ UpsertFailedEventBlock(prsMsg.h)
  /\ prsPc' = "txs"
  /\ UNCHANGED <<prsFrame, prsMsg, redis, txChan, evChan>>

\* Variant: the numbers of transactions are not compared.
TxsParseUnchecked(m) == m.h \notin BadTxs

\* ProcessRPCTXs when there is a non-empty GetTxsResponse, else
\* ProcessRPCBlockByHeightTXs, which first compares the number of transactions
\* of the block with that of its results.
TxsParse(m) ==
  /\ m.h \notin BadTxs
  /\ m.txs \in {"part", "some"} \/ m.results = "full" \/ m.h \notin HasTxs

\* Whether the parsed list holds all transactions of the block.
AllTxs(m) ==
  \/ m.txs = "some"
  \/ m.txs # "part" /\ (m.results = "full" \/ m.h \notin HasTxs)

SendTxs ==
  /\ proc = "up"
  /\ prsPc = "txs"
  /\ ~prsMsg.txFailed
  /\ TxsParse(prsMsg)
  /\ Len(txChan) < DataChanCap
  /\ txChan' = Append(txChan, [h |-> prsMsg.h, complete |-> AllTxs(prsMsg)])
  /\ PrsDone
  /\ UNCHANGED <<tables, prsFrame, redis, evChan>>

\* Variant: the error is logged and no row is written.
ProcessTxsFailsUnrecorded ==
  /\ proc = "up"
  /\ prsPc = "txs"
  /\ ~prsMsg.txFailed
  /\ ~TxsParse(prsMsg)
  /\ PrsDone
  /\ UNCHANGED <<tables, prsFrame, redis, txChan, evChan>>

ProcessTxsFails ==
  /\ proc = "up"
  /\ prsPc = "txs"
  /\ ~prsMsg.txFailed
  /\ ~TxsParse(prsMsg)
  /\ UpsertFailedBlock(prsMsg.h)
  /\ PrsDone
  /\ UNCHANGED <<prsFrame, redis, txChan, evChan>>

\* TxRequestsFailed: the transactions are passed over.
SkipTxs ==
  /\ proc = "up"
  /\ prsPc = "txs"
  /\ prsMsg.txFailed
  /\ PrsDone
  /\ UNCHANGED <<tables, prsFrame, redis, txChan, evChan>>

Parser ==
  \/ Receive \/ ProcessBlockFails
  \/ SendBlockEvents \/ ProcessEventsFails
  \/ SendTxs \/ ProcessTxsFails \/ SkipTxs

-----------------------------------------------------------------------------
(* doDBUpdates: select takes whichever of its two channels is ready.       *)

wrFrame == <<config, head, enqVars, proc, crashes, workVars, pipeVars, prsVars, requested, lost>>

\* IndexNewBlock, at the first attempt or the second.  A second failure is
\* fatal, which is Crash.
WriteTxs ==
  /\ proc = "up"
  /\ wrPc = "idle"
  /\ txChan # <<>>
  /\ IndexNewBlock(Head(txChan).h, Head(txChan).complete)
  /\ txChan' = Tail(txChan)
  /\ UNCHANGED <<wrFrame, wrVars, evChan, eventsFetched>>

\* Variant: the loop goes on before the custom events.
WriteEventsOnly ==
  /\ proc = "up"
  /\ wrPc = "idle"
  /\ evChan # <<>>
  /\ ~BlockAlreadyIndexed(Head(evChan).h)
  /\ IndexBlockEvents(Head(evChan).h)
  /\ eventsFetched' = IF Head(evChan).fetched THEN eventsFetched \cup {Head(evChan).h}
                                              ELSE eventsFetched
  /\ evChan' = Tail(evChan)
  /\ UNCHANGED <<wrFrame, wrVars, txChan>>

\* GetBlockByHeight finds no block with tx_indexed.
WriteEvents ==
  /\ proc = "up"
  /\ wrPc = "idle"
  /\ evChan # <<>>
  /\ ~BlockAlreadyIndexed(Head(evChan).h)
  /\ IndexBlockEvents(Head(evChan).h)
  /\ eventsFetched' = IF Head(evChan).fetched THEN eventsFetched \cup {Head(evChan).h}
                                              ELSE eventsFetched
  /\ wrPc' = "custom"
  /\ wrHeight' = Head(evChan).h
  /\ evChan' = Tail(evChan)
  /\ UNCHANGED <<wrFrame, txChan>>

\* "Block already indexed, ignoring"
IgnoreEvents ==
  /\ proc = "up"
  /\ wrPc = "idle"
  /\ evChan # <<>>
  /\ BlockAlreadyIndexed(Head(evChan).h)
  /\ evChan' = Tail(evChan)
  /\ UNCHANGED <<tables, wrFrame, wrVars, txChan, eventsFetched>>

\* IndexCustomBlockEvents, a transaction of its own.
WriteCustomEvents ==
  /\ proc = "up"
  /\ wrPc = "custom"
  /\ IndexCustomBlockEvents(wrHeight)
  /\ wrPc' = "idle"
  /\ wrHeight' = 1
  /\ UNCHANGED <<wrFrame, txChan, evChan, eventsFetched>>

DBWriter == WriteTxs \/ WriteEvents \/ IgnoreEvents \/ WriteCustomEvents

-----------------------------------------------------------------------------
(* The process goes down and is started again.                             *)

\* Everything volatile is lost, with the blocks in flight.
ProcessDies ==
  /\ proc = "up"
  /\ proc' = "down"
  /\ lost' = lost \cup InFlight
  /\ EnqReset
  /\ workPc' = [w \in Workers |-> "idle"]
  /\ workMsg' = [w \in Workers |-> NoMessage]
  /\ subscribed' = FALSE
  /\ redis' = <<>>
  /\ prsPc' = "idle" /\ prsMsg' = NoMessage
  /\ txChan' = <<>> /\ evChan' = <<>>
  /\ wrPc' = "idle" /\ wrHeight' = 1
  /\ UNCHANGED <<tables, config, head, requested, eventsFetched>>

\* A kill, or any config.Log.Fatal: a failed upsert, a second failure of
\* IndexNewBlock, a failure of IndexBlockEvents or of GetLatestBlockHeight.
Crash ==
  /\ crashes < MaxCrashes
  /\ crashes' = crashes + 1
  /\ ProcessDies

\* All workers have exited, so blockRPCWorkerDataChan is closed.  The publisher
\* has no ok-check: it receives the zero IndexerBlockEventData and dereferences
\* its nil BlockData.
ShutdownPanic ==
  /\ \A w \in Workers : workPc[w] = "exited"
  /\ UNCHANGED crashes
  /\ ProcessDies

\* With the same configuration or another: resuming, reindexing, or the heights
\* of a file such as tools/dump-failed-block-heights writes.
Restart ==
  /\ proc = "down"
  /\ proc' = "up"
  /\ config' \in Configs
  /\ UNCHANGED <<tables, head, enqVars, crashes, workVars, pipeVars, prsVars,
                 txChan, evChan, wrVars, history>>

-----------------------------------------------------------------------------

Next ==
  \/ Enqueue
  \/ Grow
  \/ \E w \in Workers : Worker(w) \/ Publish(w)
  \/ Subscribe \/ ConnectionLost
  \/ Parser
  \/ DBWriter
  \/ Crash \/ ShutdownPanic \/ Restart

Spec == Init /\ [][Next]_vars

\* Every goroutine that can take a step takes one.  Retries against the node
\* and Redis are finite, so a worker's call returns.  The select of doDBUpdates
\* picks at random among its ready channels, so neither is passed over for ever.
Fairness ==
  /\ WF_vars(Enqueue)
  /\ WF_vars(Subscribe)
  /\ \A w \in Workers : WF_vars(Worker(w)) /\ WF_vars(Publish(w))
  /\ WF_vars(Parser)
  /\ WF_vars(WriteCustomEvents)
  /\ SF_vars(WriteTxs)
  /\ SF_vars(WriteEvents \/ IgnoreEvents)
  /\ WF_vars(Restart)

FairSpec == Spec /\ Fairness
-----------------------------------------------------------------------------
(* Properties.                                                             *)

\* Every variable has its type.
TypeOK ==
  /\ TablesTypeOK
  /\ EnqTypeOK
  /\ proc \in {"up", "down"}
  /\ crashes \in 0 .. MaxCrashes
  /\ workPc \in [Workers -> WorkPcs]
  /\ workMsg \in [Workers -> Messages]
  /\ subscribed \in BOOLEAN
  /\ redis \in Seq(Messages)
  /\ prsPc \in PrsPcs
  /\ prsMsg \in Messages
  /\ txChan \in Seq(TxData)
  /\ evChan \in Seq(EvData)
  /\ Len(txChan) <= DataChanCap
  /\ Len(evChan) <= DataChanCap
  /\ wrPc \in WrPcs
  /\ wrHeight \in Heights
  /\ requested \subseteq Heights
  /\ lost \subseteq Heights
  /\ eventsFetched \subseteq Heights

\* No stage forgets a block: every height that was ever put on blockEnqueueChan
\* is on its way, indexed, in failed_blocks, or was dropped by Redis or with the
\* process.  It spans the error path of every handler from FetchBlock to
\* doDBUpdates.
Accounted == requested \subseteq InFlight \cup txIndexed \cup failedBlocks \cup lost

\* tx_indexed is the truth for a block whose transactions come in one page: its
\* row has the flag only when all of the transactions are in txes, although a
\* node may answer the transaction query with nothing and the nil
\* BlockResultsData of that answer reaches processBlocks as an empty value.
IndexedIsComplete == txIndexed \ PagedTxs \subseteq txsStored

\* The default function with neither reindexing nor reattempts, under which a
\* height is on its way at most once.
SentOnce == \A c \in Configs :
              c.mode = "default" /\ ~c.reIndex /\ ~c.reattemptFailedBlocks

\* failed_blocks lists no block that is indexed: no late failure of one attempt
\* overwrites the success of another.
FailedNotIndexed == SentOnce => failedBlocks \cap txIndexed = {}

\* A block that is indexed is never fetched again, although blocksInDB is read
\* once at start-up and holds one block.
IndexedNotRequeued ==
  [][SentOnce =>
       \A h \in Heights : blockChan' = Append(blockChan, h) => h \notin txIndexed]_vars

\* What is indexed stays indexed, and a row of failed_blocks goes only in the
\* transaction that indexes the block: across crashes and restarts too.
FailedOnlyLeavesIndexed ==
  [][/\ txIndexed \subseteq txIndexed'
     /\ failedBlocks \ failedBlocks' \subseteq txIndexed']_vars

\* The pipeline implements the ledger.
Ledger == INSTANCE BlockLedger WITH
            Blocks <- Heights, pending <- InFlight, indexed <- txIndexed,
            failed <- failedBlocks, lost <- lost

ImplementsLedger == Ledger!Spec

\* Every block sent to the workers is eventually decided: indexed, recorded as
\* failed, or dropped.  Channels that fill up, the select of doDBUpdates and the
\* unbuffered hand-over to the publisher never stop it for good.
EveryBlockDecided == \A h \in Heights : h \in InFlight ~> h \notin InFlight

-----------------------------------------------------------------------------
(* What comments of the code say and the code does not do.                 *)

\* The WaitGroup of runIndexer is there "to ensure we are done processing
\* transactions and events before returning".
DoneBeforeExit ==
  [][proc = "up" /\ proc' = "down" /\ crashes' = crashes => InFlight = {}]_vars

\* The default function will "pick up where we last left off, find blocks after
\* start and skip already indexed blocks": what is skipped is indexed, or at
\* least recorded as failed.
ResumeSkipsOnlyIndexed ==
  [][enqPc = "init" /\ enqPc' = "planned" =>
       \A h \in FirstBlock .. currBlock' - 1 : h \in txIndexed \cup failedBlocks]_vars

\* "The indexer relies on a number of RPC endpoints for full block data": a block
\* that is indexed has all of its transactions, however many pages they take.
IndexedHasAllTxs == txIndexed \subseteq txsStored

\* doDBUpdates "Indexes block events that took place in the BeginBlock and
\* EndBlock state transitions": event data it takes from its channel is written.
EventsAreWritten ==
  [][\A h \in Heights :
       /\ wrPc = "idle" /\ proc' = "up"
       /\ evChan # <<>> /\ evChan' = Tail(evChan) /\ Head(evChan).h = h
       => h \in eventsIndexed']_vars
=============================================================================
