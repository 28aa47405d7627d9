------------------------ MODULE IndexerPipelineProofs ------------------------
(***************************************************************************)
(* Theorems about IndexerPipeline, for every chain height, every number of *)
(* RPC workers, every channel capacity, every set of configurations and    *)
(* any number of crashes.                                                  *)
(***************************************************************************)
EXTENDS IndexerPipeline, BlockEnqueueProofs, TLAPS

-----------------------------------------------------------------------------
(* Types.                                                                  *)

\* The message of a worker that has none.
LEMMA NoMessageType == NoMessage \in Messages
  BY OneIsAHeight DEF NoMessage, NewMessage, TxAnswers, Messages

\* The messages the stages make.
LEMMA MessageTypes ==
  /\ \A h \in Heights : NewMessage(h) \in Messages
  /\ \A m \in Messages : Decode(m) \in Messages /\ m.h \in Heights
  /\ \A m \in Messages : \A a \in AnswersFor(m.h) : [m EXCEPT !.txs = a] \in Messages
  /\ \A m \in Messages : [m EXCEPT !.results = "full"] \in Messages
  /\ \A m \in Messages : [m EXCEPT !.txFailed = TRUE] \in Messages
<1>1. \A m \in Messages : Decode(m) \in Messages
  BY DEF Decode, TxAnswers, Messages
<1>2. QED
  BY <1>1 DEF NewMessage, AnswersFor, TxAnswers, Messages

\* Sending on and receiving from a bounded channel of elements of S.
LEMMA ChannelTypes ==
  ASSUME NEW S, NEW s \in Seq(S), NEW cap \in Nat, Len(s) <= cap
  PROVE  /\ \A x \in S : Append(s, x) \in Seq(S) /\ (Len(s) < cap => Len(Append(s, x)) <= cap)
         /\ s # <<>> => Head(s) \in S /\ Tail(s) \in Seq(S) /\ Len(Tail(s)) <= cap
<1>1. Len(s) \in Nat
  OBVIOUS
<1>2. ASSUME NEW x \in S
      PROVE  Append(s, x) \in Seq(S) /\ (Len(s) < cap => Len(Append(s, x)) <= cap)
  BY <1>1
<1>3. ASSUME s # <<>>
      PROVE  Head(s) \in S /\ Tail(s) \in Seq(S) /\ Len(Tail(s)) <= cap
  BY <1>1, <1>3
<1>4. QED
  BY <1>2, <1>3

\* The RPC workers.
LEMMA WorkerTypeOK ==
  ASSUME TypeOK, NEW w \in Workers, Worker(w)
  PROVE  TypeOK'
<1> USE OneIsAHeight, NoMessageType, MessageTypes
<1> USE DEF TypeOK, workFrame, pipeVars, prsVars, wrVars, history
<1>m. workMsg[w] \in Messages /\ workMsg[w].h \in Heights
  OBVIOUS
<1>s. ASSUME NEW pc \in WorkPcs, NEW m \in Messages, SetWorker(w, pc, m)
      PROVE  workPc' \in [Workers -> WorkPcs] /\ workMsg' \in [Workers -> Messages]
  BY <1>s DEF SetWorker
<1>p. {"idle", "fetch", "failBlock", "send", "exited"} = WorkPcs
  BY DEF WorkPcs
<1>1. CASE TakeBlock(w)
  <2>1. Head(blockChan) \in Heights /\ Tail(blockChan) \in Seq(Heights) /\ Len(Tail(blockChan)) <= QueueCap
    BY <1>1, ChannelTypes, EnqueueAssumption DEF TakeBlock, EnqTypeOK
  <2>2. workPc' \in [Workers -> WorkPcs] /\ workMsg' \in [Workers -> Messages]
    BY <1>1, <1>p, <1>s, <2>1 DEF TakeBlock
  <2>3. QED
    BY <1>1, <2>1, <2>2 DEF TakeBlock, EnqTypeOK, TablesTypeOK, tables
<1>2. CASE WorkerExits(w)
  <2>1. workPc' \in [Workers -> WorkPcs] /\ workMsg' \in [Workers -> Messages]
    BY <1>2, <1>p, <1>s DEF WorkerExits
  <2>2. QED
    BY <1>2, <2>1 DEF WorkerExits, EnqTypeOK, TablesTypeOK, tables, enqVars
<1>3. CASE FetchGetBlockFails(w)
  <2>1. workPc' \in [Workers -> WorkPcs] /\ workMsg' \in [Workers -> Messages]
    BY <1>3, <1>m, <1>p, <1>s DEF FetchGetBlockFails
  <2>2. QED
    BY <1>3, <1>m, <2>1
    DEF FetchGetBlockFails, EnqTypeOK, TablesTypeOK, enqVars, UpsertFailedEventBlock
<1>4. CASE FetchFailBlock(w)
  <2>1. workPc' \in [Workers -> WorkPcs] /\ workMsg' \in [Workers -> Messages]
    BY <1>4, <1>p, <1>s DEF FetchFailBlock
  <2>2. QED
    BY <1>4, <1>m, <2>1
    DEF FetchFailBlock, EnqTypeOK, TablesTypeOK, enqVars, UpsertFailedBlock
<1>5. CASE FetchTxs(w)
  <2>1. PICK answer \in AnswersFor(workMsg[w].h) :
          SetWorker(w, "send", [workMsg[w] EXCEPT !.txs = answer])
    BY <1>5 DEF FetchTxs
  <2>2. workPc' \in [Workers -> WorkPcs] /\ workMsg' \in [Workers -> Messages]
    BY <1>m, <1>p, <1>s, <2>1
  <2>3. QED
    BY <1>5, <2>2 DEF FetchTxs, EnqTypeOK, TablesTypeOK, enqVars, tables
<1>6. CASE FetchBlockResults(w)
  <2>1. workPc' \in [Workers -> WorkPcs] /\ workMsg' \in [Workers -> Messages]
    BY <1>6, <1>m, <1>p, <1>s DEF FetchBlockResults
  <2>2. QED
    BY <1>6, <2>1 DEF FetchBlockResults, EnqTypeOK, TablesTypeOK, enqVars, tables
<1>7. CASE FetchTxsFails(w)
  <2>1. workPc' \in [Workers -> WorkPcs] /\ workMsg' \in [Workers -> Messages]
    BY <1>7, <1>m, <1>p, <1>s DEF FetchTxsFails
  <2>2. QED
    BY <1>7, <1>m, <2>1
    DEF FetchTxsFails, EnqTypeOK, TablesTypeOK, enqVars, UpsertFailedBlock
<1>8. QED
  BY <1>1, <1>2, <1>3, <1>4, <1>5, <1>6, <1>7 DEF Worker

\* The publisher, the subscription and Redis.
LEMMA PipeTypeOK ==
  ASSUME TypeOK, Subscribe \/ ConnectionLost \/ \E w \in Workers : Publish(w)
  PROVE  TypeOK'
<1> USE OneIsAHeight, NoMessageType, MessageTypes
<1> USE DEF TypeOK, pipeFrame, pipeVars, prsVars, workVars, wrVars, EnqTypeOK, TablesTypeOK,
            tables, enqVars
<1>1. CASE Subscribe
  BY <1>1 DEF Subscribe
<1>2. CASE ConnectionLost
  <2>1. PICK k \in 0 .. 2 :
          /\ k < Len(redis)
          /\ redis' = SubSeq(redis, 1, k)
          /\ lost' = lost \cup {redis[i].h : i \in {j \in k + 1 .. Len(redis) : Undecided(redis[j])}}
    BY <1>2 DEF ConnectionLost
  <2>2. redis' \in Seq(Messages)
    BY <2>1, k \in Nat /\ k <= Len(redis), RangePrefix
  <2>3. \A i \in 1 .. Len(redis) : redis[i].h \in Heights
    <3>1. \A i \in 1 .. Len(redis) : redis[i] \in Messages
      BY redis \in Seq(Messages)
    <3>2. QED
      BY <3>1, MessageTypes
  <2>4. lost' \subseteq Heights
    <3>1. \A i \in k + 1 .. Len(redis) : i \in 1 .. Len(redis)
      OBVIOUS
    <3>2. lost \subseteq Heights
      OBVIOUS
    <3> HIDE DEF TypeOK
    <3>3. {redis[i].h : i \in {j \in k + 1 .. Len(redis) : Undecided(redis[j])}} \subseteq Heights
      BY <2>3, <3>1
    <3>4. QED
      BY <2>1, <3>2, <3>3
  <2>5. QED
    BY <1>2, <2>2, <2>4 DEF ConnectionLost
<1>3. ASSUME NEW w \in Workers, Publish(w) PROVE TypeOK'
  <2>1. workMsg[w] \in Messages /\ workMsg[w].h \in Heights
    OBVIOUS
  <2>2. SetWorker(w, "idle", NoMessage)
    BY <1>3 DEF Publish, PublishDelivered, PublishLost
  <2>3. workPc' \in [Workers -> WorkPcs] /\ workMsg' \in [Workers -> Messages]
    BY <2>2 DEF SetWorker, WorkPcs
  <2>4. CASE PublishDelivered(w)
    <3>1. redis' \in Seq(Messages)
      BY <2>1, <2>4 DEF PublishDelivered
    <3>2. QED
      BY <2>3, <2>4, <3>1 DEF PublishDelivered
  <2>5. CASE PublishLost(w)
    <3>1. lost' \subseteq Heights
      BY <2>1, <2>5 DEF PublishLost
    <3>2. QED
      BY <2>3, <2>5, <3>1 DEF PublishLost
  <2>6. QED
    BY <1>3, <2>4, <2>5 DEF Publish
<1>4. QED
  BY <1>1, <1>2, <1>3

\* processBlocks.
LEMMA ParserTypeOK ==
  ASSUME TypeOK, Parser
  PROVE  TypeOK'
<1> USE OneIsAHeight, NoMessageType, MessageTypes
<1> USE DEF TypeOK, prsFrame, workVars, wrVars, history, enqVars, PrsPcs, PrsDone, EnqTypeOK
<1>m. prsMsg.h \in Heights
  OBVIOUS
<1>c. DataChanCap \in Nat
  BY PipelineAssumption
<1>1. CASE Receive
  <2>1. Head(redis) \in Messages /\ Tail(redis) \in Seq(Messages)
    BY <1>1 DEF Receive
  <2>2. QED
    BY <1>1, <2>1 DEF Receive, TablesTypeOK, tables
<1>2. CASE ProcessBlockFails
  BY <1>2, <1>m DEF ProcessBlockFails, TablesTypeOK, UpsertFailedBlock
<1>3. CASE SendBlockEvents
  <2>1. [h |-> prsMsg.h, fetched |-> prsMsg.results = "full"] \in EvData
    BY <1>m DEF EvData
  <2>2. evChan' \in Seq(EvData) /\ Len(evChan') <= DataChanCap
    BY <1>3, <1>c, <2>1, ChannelTypes DEF SendBlockEvents
  <2>3. QED
    BY <1>3, <2>2 DEF SendBlockEvents, TablesTypeOK, tables
<1>4. CASE ProcessEventsFails
  BY <1>4, <1>m DEF ProcessEventsFails, TablesTypeOK, UpsertFailedEventBlock
<1>5. CASE SendTxs
  <2>1. [h |-> prsMsg.h, complete |-> AllTxs(prsMsg)] \in TxData
    BY <1>m DEF TxData, AllTxs
  <2>2. txChan' \in Seq(TxData) /\ Len(txChan') <= DataChanCap
    BY <1>5, <1>c, <2>1, ChannelTypes DEF SendTxs
  <2>3. QED
    BY <1>5, <2>2 DEF SendTxs, TablesTypeOK, tables
<1>6. CASE ProcessTxsFails
  BY <1>6, <1>m DEF ProcessTxsFails, TablesTypeOK, UpsertFailedBlock
<1>7. CASE SkipTxs
  BY <1>7 DEF SkipTxs, TablesTypeOK, tables
<1>8. QED
  BY <1>1, <1>2, <1>3, <1>4, <1>5, <1>6, <1>7 DEF Parser

\* doDBUpdates.
LEMMA DBWriterTypeOK ==
  ASSUME TypeOK, DBWriter
  PROVE  TypeOK'
<1> USE OneIsAHeight, NoMessageType
<1> USE DEF TypeOK, wrFrame, workVars, pipeVars, prsVars, wrVars, enqVars, WrPcs, EnqTypeOK
<1>c. DataChanCap \in Nat
  BY PipelineAssumption
<1>1. CASE WriteTxs
  <2>1. Head(txChan) \in TxData /\ Tail(txChan) \in Seq(TxData) /\ Len(Tail(txChan)) <= DataChanCap
    BY <1>1, <1>c, ChannelTypes DEF WriteTxs
  <2>2. Head(txChan).h \in Heights
    BY <2>1 DEF TxData
  <2>3. QED
    BY <1>1, <2>1, <2>2 DEF WriteTxs, TablesTypeOK, IndexNewBlock
<1>2. CASE WriteEvents \/ IgnoreEvents
  <2>1. Head(evChan) \in EvData /\ Tail(evChan) \in Seq(EvData) /\ Len(Tail(evChan)) <= DataChanCap
    BY <1>2, <1>c, ChannelTypes DEF WriteEvents, IgnoreEvents
  <2>2. Head(evChan).h \in Heights
    BY <2>1 DEF EvData
  <2>3. CASE WriteEvents
    BY <2>1, <2>2, <2>3 DEF WriteEvents, TablesTypeOK, IndexBlockEvents
  <2>4. CASE IgnoreEvents
    BY <2>1, <2>4 DEF IgnoreEvents, TablesTypeOK, tables
  <2>5. QED
    BY <1>2, <2>3, <2>4
<1>3. CASE WriteCustomEvents
  BY <1>3 DEF WriteCustomEvents, TablesTypeOK, IndexCustomBlockEvents
<1>4. QED
  BY <1>1, <1>2, <1>3 DEF DBWriter

\* The values everything volatile starts with.
LEMMA VolatileTypeOK ==
  /\ [w \in Workers |-> "idle"] \in [Workers -> WorkPcs]
  /\ [w \in Workers |-> NoMessage] \in [Workers -> Messages]
  /\ "idle" \in PrsPcs /\ "idle" \in WrPcs
  /\ \A S, s : s = <<>> => s \in Seq(S) /\ Len(s) <= DataChanCap
<1>1. DataChanCap \in Nat
  BY PipelineAssumption
<1>2. ASSUME NEW S, NEW s, s = <<>> PROVE s \in Seq(S) /\ Len(s) <= DataChanCap
  <2>1. <<>> \in Seq(S) /\ Len(<<>>) = 0
    OBVIOUS
  <2>2. QED
    BY <1>1, <1>2, <2>1
<1>3. QED
  BY <1>2, OneIsAHeight, NoMessageType DEF WorkPcs, PrsPcs, WrPcs

\* Init starts everything at a value of its type.
LEMMA InitTypeOK == Init => TypeOK
<1> SUFFICES ASSUME Init PROVE TypeOK
  OBVIOUS
<1>1. EnqTypeOK
  BY EnqInitTypeOK DEF Init
<1>2. TablesTypeOK
  BY DEF Init, TablesInit, TablesTypeOK
<1>3. redis = <<>> /\ txChan = <<>> /\ evChan = <<>>
  BY DEF Init, VolatileInit
<1>4. 0 \in 0 .. MaxCrashes
  BY PipelineAssumption
<1>5. redis \in Seq(Messages) /\ txChan \in Seq(TxData) /\ evChan \in Seq(EvData)
  BY <1>3, VolatileTypeOK
<1>6. Len(txChan) <= DataChanCap /\ Len(evChan) <= DataChanCap
  BY <1>3, VolatileTypeOK
<1>7. QED
  BY <1>1, <1>2, <1>4, <1>5, <1>6, OneIsAHeight, NoMessageType, VolatileTypeOK
  DEF Init, VolatileInit, TypeOK

\* Going down and coming up again.
LEMMA ProcessTypeOK ==
  ASSUME TypeOK, Crash \/ ShutdownPanic \/ Restart
  PROVE  TypeOK'
<1>1. CASE Restart
  BY <1>1 DEF Restart, TypeOK, TablesTypeOK, tables, EnqTypeOK, enqVars, workVars, pipeVars,
              prsVars, wrVars, history
<1>2. CASE ProcessDies /\ crashes' \in 0 .. MaxCrashes
  <2>1. EnqTypeOK'
    <3>1. <<>> \in Seq(Heights) /\ Len(<<>>) = 0
      OBVIOUS
    <3>2. QED
      BY <1>2, <3>1, OneIsAHeight, EnqueueAssumption
      DEF ProcessDies, EnqReset, TypeOK, EnqTypeOK, EnqPcs, NothingPlanned
  <2>2. TablesTypeOK'
    BY <1>2 DEF ProcessDies, TypeOK, TablesTypeOK, tables
  <2>3. InFlight \subseteq Heights
    <3>1. ASSUME NEW S, NEW s \in Seq(S) PROVE Range(s) \subseteq S
      BY DEF Range
    <3>2. QueuedHeights \subseteq Heights
      BY <3>1 DEF QueuedHeights, TypeOK, EnqTypeOK
    <3>3. Range(redis) \subseteq Messages /\ Range(txChan) \subseteq TxData
      BY <3>1 DEF TypeOK
    <3>4. RedisHeights \subseteq Heights /\ TxChanHeights \subseteq Heights
      BY <3>3 DEF RedisHeights, TxChanHeights, Messages, TxData
    <3>5. WorkerHeights \subseteq Heights /\ ParserHeights \subseteq Heights
      BY DEF WorkerHeights, ParserHeights, TypeOK, Messages
    <3>6. QED
      BY <3>2, <3>4, <3>5 DEF InFlight
  <2>4. redis' = <<>> /\ txChan' = <<>> /\ evChan' = <<>>
    BY <1>2 DEF ProcessDies
  <2>5. /\ redis' \in Seq(Messages) /\ txChan' \in Seq(TxData) /\ evChan' \in Seq(EvData)
        /\ Len(txChan') <= DataChanCap /\ Len(evChan') <= DataChanCap
    BY <2>4, VolatileTypeOK
  <2>6. lost' \subseteq Heights
    BY <1>2, <2>3 DEF ProcessDies, TypeOK
  <2>7. QED
    BY <1>2, <2>1, <2>2, <2>5, <2>6, OneIsAHeight, NoMessageType, VolatileTypeOK
    DEF ProcessDies, TypeOK
<1>3. Crash \/ ShutdownPanic => ProcessDies /\ crashes' \in 0 .. MaxCrashes
  BY PipelineAssumption DEF Crash, ShutdownPanic, TypeOK
<1>4. QED
  BY <1>1, <1>2, <1>3

\* Every step preserves the types.
LEMMA StepTypeOK == TypeOK /\ [Next]_vars => TypeOK'
<1> SUFFICES ASSUME TypeOK, [Next]_vars PROVE TypeOK'
  OBVIOUS
<1>1. CASE Enqueue
  <2>1. EnqTypeOK' /\ UNCHANGED tables
    BY <1>1, EnqueueTypeOK DEF Enqueue, TypeOK
  <2>2. Range(blockChan') \subseteq Heights
    BY <2>1 DEF EnqTypeOK, Range
  <2>3. QED
    BY <1>1, <2>1, <2>2
    DEF Enqueue, TypeOK, TablesTypeOK, tables, workVars, pipeVars, prsVars, wrVars
<1>2. CASE Grow
  <2>1. head' \in Heights
    BY <1>2, MaxHeightAssumption DEF Grow, ChainGrows, TypeOK, EnqTypeOK, Heights
  <2>2. QED
    BY <1>2, <2>1
    DEF Grow, ChainGrows, TypeOK, TablesTypeOK, tables, EnqTypeOK, enqVars, workVars, pipeVars,
        prsVars, wrVars, history
<1>3. ASSUME NEW w \in Workers, Worker(w) PROVE TypeOK'
  BY <1>3, WorkerTypeOK
<1>4. CASE Subscribe \/ ConnectionLost \/ \E w \in Workers : Publish(w)
  BY <1>4, PipeTypeOK
<1>5. CASE Parser
  BY <1>5, ParserTypeOK
<1>6. CASE DBWriter
  BY <1>6, DBWriterTypeOK
<1>7. CASE Crash \/ ShutdownPanic \/ Restart
  BY <1>7, ProcessTypeOK
<1>8. CASE UNCHANGED vars
  BY <1>8 DEF vars, TypeOK, TablesTypeOK, tables, EnqTypeOK, enqVars, workVars, pipeVars,
              prsVars, wrVars, history
<1>9. QED
  BY <1>1, <1>2, <1>3, <1>4, <1>5, <1>6, <1>7, <1>8 DEF Next

\* Every variable always has its type; in particular no bounded channel ever
\* holds more than its capacity and only heights of the chain are indexed,
\* failed or enqueued.
THEOREM TypeCorrect == Spec => []TypeOK
  BY InitTypeOK, StepTypeOK, PTL DEF Spec

-----------------------------------------------------------------------------
(* The tables.                                                             *)

\* The transactions a step may commit.
TableStep ==
  \/ UNCHANGED tables
  \/ \E h \in Heights : \/ UpsertFailedBlock(h) \/ UpsertFailedEventBlock(h)
                        \/ IndexBlockEvents(h) \/ IndexCustomBlockEvents(h)
                        \/ \E complete \in BOOLEAN : IndexNewBlock(h, complete)

\* A step of any goroutine commits at most one of them.
LEMMA OneTransaction == TypeOK /\ [Next]_vars => TableStep
<1> SUFFICES ASSUME TypeOK, [Next]_vars PROVE TableStep
  OBVIOUS
<1>1. CASE Enqueue
  BY <1>1, EnqueueTypeOK DEF Enqueue, TypeOK, TableStep
<1>2. CASE Grow \/ Subscribe \/ ConnectionLost \/ Crash \/ ShutdownPanic \/ Restart
  BY <1>2 DEF Grow, ChainGrows, Subscribe, ConnectionLost, pipeFrame, Crash, ShutdownPanic,
              ProcessDies, Restart, TableStep
<1>3. ASSUME NEW w \in Workers, Worker(w) \/ Publish(w) PROVE TableStep
  <2>1. workMsg[w].h \in Heights
    BY DEF TypeOK, Messages
  <2>2. QED
    BY <1>3, <2>1
    DEF Worker, TakeBlock, WorkerExits, FetchGetBlockFails, FetchFailBlock, FetchTxs,
        FetchBlockResults, FetchTxsFails, Publish, PublishDelivered, PublishLost, pipeFrame,
        TableStep
<1>4. CASE Parser
  <2>1. prsMsg.h \in Heights
    BY DEF TypeOK, Messages
  <2>2. QED
    BY <1>4, <2>1
    DEF Parser, Receive, ProcessBlockFails, SendBlockEvents, ProcessEventsFails, SendTxs,
        ProcessTxsFails, SkipTxs, TableStep
<1>5. CASE DBWriter
  <2>1. CASE WriteTxs
    <3>1. Head(txChan) \in TxData
      BY <2>1 DEF WriteTxs, TypeOK
    <3>2. QED
      BY <2>1, <3>1 DEF WriteTxs, TableStep, TxData
  <2>2. CASE WriteEvents \/ IgnoreEvents
    <3>1. Head(evChan) \in EvData
      BY <2>2 DEF WriteEvents, IgnoreEvents, TypeOK
    <3>2. QED
      BY <2>2, <3>1 DEF WriteEvents, IgnoreEvents, TableStep, EvData
  <2>3. CASE WriteCustomEvents
    BY <2>3 DEF WriteCustomEvents, TypeOK, TableStep
  <2>4. QED
    BY <1>5, <2>1, <2>2, <2>3 DEF DBWriter
<1>6. CASE UNCHANGED vars
  BY <1>6 DEF vars, TableStep
<1>7. QED
  BY <1>1, <1>2, <1>3, <1>4, <1>5, <1>6 DEF Next

\* What such a transaction may do to the two tables.
LEMMA TransactionKeeps ==
  ASSUME TableStep
  PROVE  /\ txIndexed \subseteq txIndexed'
         /\ failedBlocks \ failedBlocks' \subseteq txIndexed'
  BY DEF TableStep, tables, UpsertFailedBlock, UpsertFailedEventBlock, IndexBlockEvents,
         IndexCustomBlockEvents, IndexNewBlock

\* No step of any goroutine, no crash and no restart takes tx_indexed from a
\* block, and a row of failed_blocks goes only in the transaction that sets it.
THEOREM FailedOnlyLeavesWhenIndexed == Spec => FailedOnlyLeavesIndexed
<1>1. TypeOK /\ [Next]_vars =>
        [/\ txIndexed \subseteq txIndexed'
         /\ failedBlocks \ failedBlocks' \subseteq txIndexed']_vars
  BY OneTransaction, TransactionKeeps
<1>2. QED
  BY <1>1, TypeCorrect, PTL DEF Spec, FailedOnlyLeavesIndexed

-----------------------------------------------------------------------------
(* tx_indexed is the truth.                                                *)

\* The strengthening: what waits for doDBUpdates is complete already, so the
\* check that matters is the one ProcessRPCBlockByHeightTXs makes.
CompleteInv ==
  /\ \A d \in Range(txChan) : d.complete \/ d.h \in PagedTxs
  /\ IndexedIsComplete

\* What the parsers accept has all transactions of the block, or of a block with
\* several pages.
LEMMA ParsedIsAll ==
  ASSUME NEW m \in Messages, TxsParse(m)
  PROVE  AllTxs(m) \/ m.h \in PagedTxs
  BY DEF TxsParse, AllTxs, Messages

\* Only the parser adds to txDataChan and only doDBUpdates sets tx_indexed.
LEMMA TxStep ==
  ASSUME TypeOK, [Next]_vars
  PROVE  \/ SendTxs
         \/ WriteTxs
         \/ (txChan' = <<>> \/ txChan' = txChan) /\ UNCHANGED <<txIndexed, txsStored>>
<1> USE DEF tables, UpsertFailedBlock, UpsertFailedEventBlock
<1>1. CASE Enqueue
  BY <1>1, EnqueueTypeOK DEF Enqueue, TypeOK
<1>2. CASE Grow \/ Subscribe \/ ConnectionLost \/ Restart
  BY <1>2 DEF Grow, ChainGrows, Subscribe, ConnectionLost, pipeFrame, Restart
<1>3. CASE Crash \/ ShutdownPanic
  BY <1>3 DEF Crash, ShutdownPanic, ProcessDies
<1>4. ASSUME NEW w \in Workers, Worker(w) \/ Publish(w)
      PROVE  txChan' = txChan /\ UNCHANGED <<txIndexed, txsStored>>
  BY <1>4
  DEF Worker, TakeBlock, WorkerExits, FetchGetBlockFails, FetchFailBlock, FetchTxs,
      FetchBlockResults, FetchTxsFails, Publish, PublishDelivered, PublishLost, pipeFrame,
      workFrame
<1>5. CASE Parser
  BY <1>5 DEF Parser, Receive, ProcessBlockFails, SendBlockEvents, ProcessEventsFails,
              ProcessTxsFails, SkipTxs
<1>6. CASE DBWriter
  BY <1>6 DEF DBWriter, WriteEvents, IgnoreEvents, WriteCustomEvents, IndexBlockEvents,
              IndexCustomBlockEvents, wrFrame
<1>7. CASE UNCHANGED vars
  BY <1>7 DEF vars
<1>8. QED
  BY <1>1, <1>2, <1>3, <1>4, <1>5, <1>6, <1>7 DEF Next

\* Every step preserves the strengthening.
LEMMA StepComplete == TypeOK /\ CompleteInv /\ [Next]_vars => CompleteInv'
<1> SUFFICES ASSUME TypeOK, CompleteInv, [Next]_vars PROVE CompleteInv'
  OBVIOUS
<1>1. CASE SendTxs
  <2> DEFINE new == [h |-> prsMsg.h, complete |-> AllTxs(prsMsg)]
  <2>1. new \in TxData
    BY DEF TxData, AllTxs, TypeOK, Messages
  <2>2. Range(txChan') = Range(txChan) \cup {new}
    BY <1>1, <2>1, RangeAppend DEF SendTxs, TypeOK
  <2>3. new.complete \/ new.h \in PagedTxs
    BY <1>1, ParsedIsAll DEF SendTxs, TypeOK
  <2> HIDE DEF new
  <2>4. \A d \in Range(txChan') : d.complete \/ d.h \in PagedTxs
    BY <2>2, <2>3 DEF CompleteInv
  <2>5. QED
    BY <1>1, <2>4 DEF SendTxs, tables, CompleteInv, IndexedIsComplete
<1>2. CASE WriteTxs
  <2>1. /\ Range(txChan) = Range(Tail(txChan)) \cup {Head(txChan)}
        /\ txChan' = Tail(txChan)
    BY <1>2, RangeTail DEF WriteTxs, TypeOK
  <2>2. Head(txChan).complete \/ Head(txChan).h \in PagedTxs
    BY <2>1 DEF CompleteInv
  <2>3. QED
    BY <1>2, <2>1, <2>2 DEF WriteTxs, IndexNewBlock, CompleteInv, IndexedIsComplete
<1>3. CASE ~SendTxs /\ ~WriteTxs
  <2>1. Range(txChan') \subseteq Range(txChan)
    <3>1. txChan' = <<>> \/ txChan' = txChan
      BY <1>3, TxStep
    <3>2. QED
      BY <3>1, RangeEmpty
  <2>2. IndexedIsComplete'
    BY <1>3, TxStep DEF CompleteInv, IndexedIsComplete
  <2>3. QED
    BY <2>1, <2>2 DEF CompleteInv
<1>4. QED
  BY <1>1, <1>2, <1>3

\* A block whose transactions take one page has tx_indexed only when all of them
\* are stored, with any number of workers and whatever the node answers, Redis loses or the parsers
\* refuse.
THEOREM IndexedOnlyWhenComplete == Spec => []IndexedIsComplete
<1>1. Init => CompleteInv
  BY RangeEmpty DEF Init, VolatileInit, TablesInit, CompleteInv, IndexedIsComplete
<1>2. CompleteInv => IndexedIsComplete
  BY DEF CompleteInv
<1>3. QED
  BY <1>1, <1>2, StepComplete, TypeCorrect, PTL DEF Spec

-----------------------------------------------------------------------------
(* No block is forgotten.                                                  *)

\* Heights that need no attention any more.
Settled == txIndexed \cup failedBlocks \cup lost

\* Where a worker holds a block.
Carrying == {"fetch", "failBlock", "send"}

\* What a step of one worker does to the heights the workers hold.
LEMMA WorkerMoves ==
  ASSUME TypeOK, NEW w \in Workers, NEW pc, NEW m, SetWorker(w, pc, m)
  PROVE  /\ WorkerHeights \subseteq WorkerHeights' \cup {workMsg[w].h}
         /\ workPc[w] \notin Carrying \/ ~Undecided(workMsg[w])
              => WorkerHeights \subseteq WorkerHeights'
         /\ pc \in Carrying /\ Undecided(m) => m.h \in WorkerHeights'
<1>1. /\ workPc'[w] = pc /\ workMsg'[w] = m
      /\ \A v \in Workers \ {w} : workPc'[v] = workPc[v] /\ workMsg'[v] = workMsg[v]
  BY DEF SetWorker, TypeOK
<1>2. ASSUME NEW h \in WorkerHeights
      PROVE  \/ h \in WorkerHeights'
             \/ h = workMsg[w].h /\ workPc[w] \in Carrying /\ Undecided(workMsg[w])
  <2>1. PICK v \in Workers : workPc[v] \in Carrying /\ Undecided(workMsg[v]) /\ h = workMsg[v].h
    BY <1>2 DEF WorkerHeights, Carrying
  <2>2. CASE v # w
    BY <1>1, <2>1, <2>2 DEF WorkerHeights, Carrying, Undecided
  <2>3. QED
    BY <2>1, <2>2
<1>3. pc \in Carrying /\ Undecided(m) => m.h \in WorkerHeights'
  BY <1>1 DEF WorkerHeights, Carrying, Undecided
<1>4. QED
  BY <1>2, <1>3

\* The enqueue goroutine only adds to blockEnqueueChan.
LEMMA EnqueueAdds ==
  ASSUME TypeOK, EnqueueStep
  PROVE  Range(blockChan) \subseteq Range(blockChan')
<1>1. ASSUME NEW h \in Heights, SendHeight(h) PROVE Range(blockChan) \subseteq Range(blockChan')
  BY <1>1, SendTypeOK DEF TypeOK
<1>2. EnqueueNext => currBlock \in Heights
  BY MaxHeightAssumption DEF EnqueueNext, MoreToFill, TypeOK, EnqTypeOK, MaxInt64, Heights
<1>3. CASE EnqueuePlanned \/ EnqueueNext
  BY <1>1, <1>2, <1>3 DEF EnqueuePlanned, EnqueueNext
<1>4. CASE ~EnqueuePlanned /\ ~EnqueueNext
  BY <1>4 DEF EnqueueStep, Generate, PlannedSent, ExitEnqueue, RefreshLatest, SkipIndexed,
              StopFilling
<1>5. QED
  BY <1>3, <1>4

\* What is dropped stays dropped, and only the enqueue goroutine requests blocks.
LEMMA HistoryStep ==
  ASSUME TypeOK, [Next]_vars
  PROVE  lost \subseteq lost' /\ (Enqueue \/ requested' = requested)
<1>1. CASE Enqueue \/ Grow \/ Subscribe \/ ConnectionLost \/ Restart
  BY <1>1 DEF Enqueue, Grow, Subscribe, ConnectionLost, pipeFrame, Restart, history
<1>2. CASE Crash \/ ShutdownPanic
  BY <1>2 DEF Crash, ShutdownPanic, ProcessDies
<1>3. ASSUME NEW w \in Workers, Worker(w) \/ Publish(w)
      PROVE  lost \subseteq lost' /\ requested' = requested
  BY <1>3
  DEF Worker, TakeBlock, WorkerExits, FetchGetBlockFails, FetchFailBlock, FetchTxs,
      FetchBlockResults, FetchTxsFails, Publish, PublishDelivered, PublishLost, pipeFrame,
      workFrame, history
<1>4. CASE Parser
  BY <1>4 DEF Parser, Receive, ProcessBlockFails, SendBlockEvents, ProcessEventsFails,
              SendTxs, ProcessTxsFails, SkipTxs, prsFrame, history
<1>5. CASE DBWriter
  BY <1>5 DEF DBWriter, WriteTxs, WriteEvents, IgnoreEvents, WriteCustomEvents, wrFrame
<1>6. CASE UNCHANGED vars
  BY <1>6 DEF vars, history
<1>7. QED
  BY <1>1, <1>2, <1>3, <1>4, <1>5, <1>6 DEF Next

\* A worker's step hands its block on or records it.
LEMMA WorkerForgetsNothing ==
  ASSUME TypeOK, NEW w \in Workers, Worker(w)
  PROVE  InFlight \subseteq InFlight' \cup Settled'
<1>1. /\ RedisHeights' = RedisHeights /\ ParserHeights' = ParserHeights
      /\ TxChanHeights' = TxChanHeights
  BY DEF Worker, TakeBlock, WorkerExits, FetchGetBlockFails, FetchFailBlock, FetchTxs,
         FetchBlockResults, FetchTxsFails, workFrame, pipeVars, prsVars, RedisHeights,
         ParserHeights, TxChanHeights
<1>2. CASE TakeBlock(w)
  <2>1. /\ Range(blockChan) = Range(blockChan') \cup {Head(blockChan)}
        /\ SetWorker(w, "fetch", NewMessage(Head(blockChan))) /\ workPc[w] = "idle"
    BY <1>2, RangeTail DEF TakeBlock, TypeOK, EnqTypeOK
  <2>2. NewMessage(Head(blockChan)).h = Head(blockChan) /\ Undecided(NewMessage(Head(blockChan)))
    BY DEF NewMessage, Undecided
  <2>3. WorkerHeights \subseteq WorkerHeights' /\ Head(blockChan) \in WorkerHeights'
    BY <2>1, <2>2, WorkerMoves DEF Carrying
  <2>4. QED
    BY <1>1, <2>1, <2>3 DEF InFlight, QueuedHeights
<1>3. CASE ~TakeBlock(w)
  <2>1. QueuedHeights' = QueuedHeights
    BY <1>3 DEF Worker, WorkerExits, FetchGetBlockFails, FetchFailBlock, FetchTxs,
                FetchBlockResults, FetchTxsFails, enqVars, QueuedHeights
  <2>2. CASE WorkerExits(w)
    <3>1. SetWorker(w, "exited", NoMessage) /\ workPc[w] = "idle"
      BY <2>2 DEF WorkerExits
    <3>2. WorkerHeights \subseteq WorkerHeights'
      BY <3>1, WorkerMoves DEF Carrying
    <3>3. QED
      BY <1>1, <2>1, <3>2 DEF InFlight
  <2>3. ASSUME NEW pc \in Carrying, NEW m, SetWorker(w, pc, m), m.h = workMsg[w].h,
               Undecided(workMsg[w]) => Undecided(m) \/ workMsg[w].h \in failedBlocks'
        PROVE  InFlight \subseteq InFlight' \cup Settled'
    BY <1>1, <2>1, <2>3, WorkerMoves DEF InFlight, Settled
  <2>4. CASE FetchGetBlockFails(w)
    BY <2>3, <2>4 DEF FetchGetBlockFails, Carrying
  <2>5. CASE FetchFailBlock(w)
    <3>1. SetWorker(w, "idle", NoMessage) /\ workMsg[w].h \in failedBlocks'
      BY <2>5 DEF FetchFailBlock, UpsertFailedBlock
    <3>2. QED
      BY <1>1, <2>1, <3>1, WorkerMoves DEF InFlight, Settled
  <2>6. CASE FetchTxs(w)
    <3>1. PICK a : SetWorker(w, "send", [workMsg[w] EXCEPT !.txs = a])
      BY <2>6 DEF FetchTxs
    <3>2. /\ [workMsg[w] EXCEPT !.txs = a].h = workMsg[w].h
          /\ [workMsg[w] EXCEPT !.txs = a].txFailed = workMsg[w].txFailed
      BY DEF TypeOK, Messages
    <3>3. QED
      BY <2>3, <3>1, <3>2 DEF Carrying, Undecided
  <2>7. CASE FetchBlockResults(w)
    <3>1. /\ [workMsg[w] EXCEPT !.results = "full"].h = workMsg[w].h
          /\ [workMsg[w] EXCEPT !.results = "full"].txFailed = workMsg[w].txFailed
      BY DEF TypeOK, Messages
    <3>2. QED
      BY <2>3, <2>7, <3>1 DEF FetchBlockResults, Carrying, Undecided
  <2>8. CASE FetchTxsFails(w)
    <3>1. [workMsg[w] EXCEPT !.txFailed = TRUE].h = workMsg[w].h
      BY DEF TypeOK, Messages
    <3>2. QED
      BY <2>3, <2>8, <3>1 DEF FetchTxsFails, UpsertFailedBlock, Carrying
  <2>9. QED
    BY <1>3, <2>2, <2>4, <2>5, <2>6, <2>7, <2>8 DEF Worker
<1>4. QED
  BY <1>2, <1>3

\* Publishing delivers a block or drops it on record.
LEMMA PipeForgetsNothing ==
  ASSUME TypeOK, Subscribe \/ ConnectionLost \/ \E w \in Workers : Publish(w)
  PROVE  InFlight \subseteq InFlight' \cup Settled'
<1>1. /\ QueuedHeights' = QueuedHeights /\ ParserHeights' = ParserHeights
      /\ TxChanHeights' = TxChanHeights
  BY DEF Subscribe, ConnectionLost, Publish, PublishDelivered, PublishLost, pipeFrame, enqVars,
         prsVars, QueuedHeights, ParserHeights, TxChanHeights
<1>2. CASE Subscribe
  BY <1>1, <1>2 DEF Subscribe, workVars, WorkerHeights, RedisHeights, InFlight
<1>3. CASE ConnectionLost
  <2>1. WorkerHeights' = WorkerHeights
    BY <1>3 DEF ConnectionLost, workVars, WorkerHeights
  <2>2. PICK k \in 0 .. 2 :
          /\ k < Len(redis)
          /\ redis' = SubSeq(redis, 1, k)
          /\ lost' = lost \cup {redis[i].h : i \in {j \in k + 1 .. Len(redis) : Undecided(redis[j])}}
    BY <1>3 DEF ConnectionLost
  <2>3. k \in Nat /\ k <= Len(redis) /\ redis \in Seq(Messages)
    BY <2>2 DEF TypeOK
  <2>4. Range(redis) = Range(redis') \cup {redis[i] : i \in k + 1 .. Len(redis)}
    BY <2>2, <2>3, RangePrefix
  <2>5. RedisHeights \subseteq RedisHeights' \cup lost'
    BY <2>2, <2>4 DEF RedisHeights, Undecided
  <2>6. QED
    BY <1>1, <2>1, <2>5 DEF InFlight, Settled
<1>4. ASSUME NEW w \in Workers, Publish(w)
      PROVE  InFlight \subseteq InFlight' \cup Settled'
  <2>1. SetWorker(w, "idle", NoMessage)
    BY <1>4 DEF Publish, PublishDelivered, PublishLost
  <2>2. /\ WorkerHeights \subseteq WorkerHeights' \cup {workMsg[w].h}
        /\ ~Undecided(workMsg[w]) => WorkerHeights \subseteq WorkerHeights'
    BY <2>1, WorkerMoves
  <2>3. CASE PublishDelivered(w)
    <3>1. redis \in Seq(Messages) /\ workMsg[w] \in Messages
      BY DEF TypeOK
    <3>2. Range(redis') = Range(redis) \cup {workMsg[w]}
      BY <2>3, <3>1, RangeAppend DEF PublishDelivered
    <3>3. /\ RedisHeights \subseteq RedisHeights'
          /\ Undecided(workMsg[w]) => workMsg[w].h \in RedisHeights'
      BY <3>2 DEF RedisHeights, Undecided
    <3>4. QED
      BY <1>1, <2>2, <3>3 DEF InFlight
  <2>4. CASE PublishLost(w)
    <3>1. RedisHeights' = RedisHeights /\ (Undecided(workMsg[w]) => workMsg[w].h \in lost')
      BY <2>4 DEF PublishLost, pipeVars, RedisHeights
    <3>2. QED
      BY <1>1, <2>2, <3>1 DEF InFlight, Settled
  <2>5. QED
    BY <1>4, <2>3, <2>4 DEF Publish
<1>5. QED
  BY <1>2, <1>3, <1>4

\* processBlocks passes a block's transactions on or records the block.
LEMMA ParserForgetsNothing ==
  ASSUME TypeOK, Parser
  PROVE  InFlight \subseteq InFlight' \cup Settled'
<1>1. QueuedHeights' = QueuedHeights /\ WorkerHeights' = WorkerHeights
  BY DEF Parser, Receive, ProcessBlockFails, SendBlockEvents, ProcessEventsFails, SendTxs,
         ProcessTxsFails, SkipTxs, prsFrame, enqVars, workVars, QueuedHeights, WorkerHeights
<1>2. CASE Receive
  <2>1. /\ Range(redis) = Range(redis') \cup {Head(redis)}
        /\ prsMsg' = Decode(Head(redis)) /\ prsPc' = "block" /\ txChan' = txChan
        /\ prsPc = "idle" /\ Head(redis) \in Messages
    BY <1>2, RangeTail DEF Receive, TypeOK
  <2>2. prsMsg'.h = Head(redis).h /\ prsMsg'.txFailed = Head(redis).txFailed
    BY <2>1 DEF Decode, Messages
  <2>3. RedisHeights \subseteq RedisHeights' \cup ParserHeights'
    BY <2>1, <2>2 DEF RedisHeights, ParserHeights, Undecided
  <2>4. ParserHeights = {} /\ TxChanHeights' = TxChanHeights
    BY <2>1 DEF ParserHeights, TxChanHeights
  <2>5. QED
    BY <1>1, <2>3, <2>4 DEF InFlight
<1>3. CASE SendTxs
  <2> DEFINE new == [h |-> prsMsg.h, complete |-> AllTxs(prsMsg)]
  <2>1. new \in TxData /\ new.h = prsMsg.h
    BY DEF TxData, AllTxs, TypeOK, Messages
  <2>2. Range(txChan') = Range(txChan) \cup {new}
    BY <1>3, <2>1, RangeAppend DEF SendTxs, TypeOK
  <2> HIDE DEF new
  <2>3. TxChanHeights \cup {prsMsg.h} \subseteq TxChanHeights'
    BY <2>1, <2>2 DEF TxChanHeights
  <2>4. RedisHeights' = RedisHeights /\ ParserHeights \subseteq {prsMsg.h}
    BY <1>3 DEF SendTxs, RedisHeights, ParserHeights
  <2>5. QED
    BY <1>1, <2>3, <2>4 DEF InFlight
<1>4. CASE ~Receive /\ ~SendTxs
  <2>1. RedisHeights' = RedisHeights /\ TxChanHeights' = TxChanHeights
    BY <1>4 DEF Parser, ProcessBlockFails, SendBlockEvents, ProcessEventsFails, ProcessTxsFails,
                SkipTxs, RedisHeights, TxChanHeights
  <2>2. CASE SendBlockEvents \/ ProcessEventsFails
    <3>1. ParserHeights' = ParserHeights
      BY <2>2 DEF SendBlockEvents, ProcessEventsFails, ParserHeights
    <3>2. QED
      BY <1>1, <2>1, <3>1 DEF InFlight
  <2>3. CASE ProcessBlockFails \/ ProcessTxsFails
    <3>1. ParserHeights \subseteq failedBlocks'
      BY <2>3 DEF ProcessBlockFails, ProcessTxsFails, UpsertFailedBlock, ParserHeights
    <3>2. QED
      BY <1>1, <2>1, <3>1 DEF InFlight, Settled
  <2>4. CASE SkipTxs
    <3>1. ParserHeights = {}
      BY <2>4 DEF SkipTxs, ParserHeights, Undecided
    <3>2. QED
      BY <1>1, <2>1, <3>1 DEF InFlight
  <2>5. QED
    BY <1>4, <2>2, <2>3, <2>4 DEF Parser
<1>5. QED
  BY <1>2, <1>3, <1>4

\* doDBUpdates writes a block's transactions or still has them to write.
LEMMA DBWriterForgetsNothing ==
  ASSUME TypeOK, DBWriter
  PROVE  InFlight \subseteq InFlight' \cup Settled'
<1>1. /\ QueuedHeights' = QueuedHeights /\ WorkerHeights' = WorkerHeights
      /\ RedisHeights' = RedisHeights /\ ParserHeights' = ParserHeights
  BY DEF DBWriter, WriteTxs, WriteEvents, IgnoreEvents, WriteCustomEvents, wrFrame, enqVars,
         workVars, pipeVars, prsVars, QueuedHeights, WorkerHeights, RedisHeights, ParserHeights
<1>2. CASE WriteTxs
  <2>1. Range(txChan) = Range(txChan') \cup {Head(txChan)}
    BY <1>2, RangeTail DEF WriteTxs, TypeOK
  <2>2. Head(txChan).h \in txIndexed'
    BY <1>2 DEF WriteTxs, IndexNewBlock
  <2>3. TxChanHeights \subseteq TxChanHeights' \cup txIndexed'
    BY <2>1, <2>2 DEF TxChanHeights
  <2>4. QED
    BY <1>1, <2>3 DEF InFlight, Settled
<1>3. CASE ~WriteTxs
  <2>1. TxChanHeights' = TxChanHeights
    BY <1>3 DEF DBWriter, WriteEvents, IgnoreEvents, WriteCustomEvents, TxChanHeights
  <2>2. QED
    BY <1>1, <2>1 DEF InFlight
<1>4. QED
  BY <1>2, <1>3

\* No step forgets a block, and a block that is requested is in flight.
LEMMA StepForgetsNothing ==
  ASSUME TypeOK, [Next]_vars
  PROVE  /\ InFlight \subseteq InFlight' \cup Settled'
         /\ requested' \subseteq requested \cup InFlight'
<1>1. CASE Enqueue
  <2>1. /\ WorkerHeights' = WorkerHeights /\ RedisHeights' = RedisHeights
        /\ ParserHeights' = ParserHeights /\ TxChanHeights' = TxChanHeights
    BY <1>1 DEF Enqueue, workVars, pipeVars, prsVars, WorkerHeights, RedisHeights,
                ParserHeights, TxChanHeights
  <2>2. QueuedHeights \subseteq QueuedHeights'
    BY <1>1, EnqueueAdds DEF Enqueue, QueuedHeights
  <2>3. requested' \subseteq requested \cup QueuedHeights'
    BY <1>1 DEF Enqueue, QueuedHeights
  <2>4. QED
    BY <2>1, <2>2, <2>3 DEF InFlight
<1>2. CASE ~Enqueue
  <2>1. requested' = requested
    BY <1>2, HistoryStep
  <2>2. CASE Crash \/ ShutdownPanic
    BY <2>1, <2>2 DEF Crash, ShutdownPanic, ProcessDies, Settled
  <2>3. CASE Grow \/ Restart \/ UNCHANGED vars
    <3>1. InFlight' = InFlight
      BY <2>3 DEF Grow, ChainGrows, Restart, vars, enqVars, workVars, pipeVars, prsVars, InFlight,
                  QueuedHeights, WorkerHeights, RedisHeights, ParserHeights, TxChanHeights
    <3>2. QED
      BY <2>1, <3>1
  <2>4. QED
    BY <1>2, <2>1, <2>2, <2>3, WorkerForgetsNothing, PipeForgetsNothing, ParserForgetsNothing,
       DBWriterForgetsNothing DEF Next
<1>3. QED
  BY <1>1, <1>2

\* Every height ever put on blockEnqueueChan is on its way, indexed, recorded as
\* failed or dropped, for any number of workers, losses and crashes.
THEOREM NoBlockForgotten == Spec => []Accounted
<1>1. Init => Accounted
  BY DEF Init, Accounted
<1>2. TypeOK /\ Accounted /\ [Next]_vars => Accounted'
  <2> SUFFICES ASSUME TypeOK, Accounted, [Next]_vars PROVE Accounted'
    OBVIOUS
  <2>1. Settled \subseteq Settled'
    BY OneTransaction, TransactionKeeps, HistoryStep DEF Settled
  <2>2. requested' \subseteq InFlight' \cup Settled'
    BY <2>1, StepForgetsNothing DEF Accounted, Settled
  <2>3. QED
    BY <2>2 DEF Accounted, Settled
<1>3. QED
  BY <1>1, <1>2, TypeCorrect, PTL DEF Spec
=============================================================================
