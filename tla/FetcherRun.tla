------------------------------ MODULE FetcherRun ------------------------------
(***************************************************************************)
(* Fetcher mode (runIndexerAsFetcher, cmd/index.go): the process that only *)
(* fetches blocks and publishes them for others to index.  It divides its  *)
(* range among goroutines, each of which runs the default enqueue function *)
(* (core/block_enqueue.go) over its part, with the rows of that part as    *)
(* allBlocks, and all of them send to one blockEnqueueChan.                *)
(*                                                                         *)
(* IndexerPipeline models what becomes of a height that is sent.  Here     *)
(* that is one step, Fetch: an indexer that subscribes gets the block and  *)
(* writes it, or the RPC worker records a failure, or it is lost.  With 64 *)
(* workers heights leave the channel in any order, so it is kept as a bag. *)
(***************************************************************************)
EXTENDS RpcRetry, FiniteSets

CONSTANTS
  MaxHeight,      \* bound of the model: the highest block the chain makes
  InitialHeight,  \* the latest height when the process starts
  Settings,       \* the configurations it may be started with
  EarlierRuns,    \* what it may find: rows by height, and failed blocks
  QueueCap,       \* cap(blockEnqueueChan), 1000000
  MaxGoroutines,  \* bound on the goroutines of a configuration
  MaxCounted,     \* bound on the attempts of a call that are counted
  MaxRestarts     \* bound on the restarts after a fatal error, by configuration

Heights == 1 .. MaxHeight
Goroutines == 1 .. MaxGoroutines

\* A row of blocks: none, of a block with only its events, or with its transactions.
Rows == {"none", "events", "tx"}

\* IndexConfig.Base as fetcher mode reads it; index() refuses an end below the
\* start and takes a step of 5000 for 0.
Setting == [startBlock : Nat \ {0}, endBlock : Nat, steps : Nat \ {0}, reIndex : BOOLEAN,
            reattempt : BOOLEAN, exitCaughtUp : BOOLEAN, maxAttempts : Int, maxWait : Nat]

ASSUME FetcherAssumption ==
  /\ MaxHeight \in Nat /\ InitialHeight \in Heights
  /\ QueueCap \in Nat \ {0} /\ MaxGoroutines \in Nat
  /\ MaxCounted \in Nat /\ MaxRestarts \in [Settings -> Nat]
  /\ Settings \subseteq Setting
  /\ \A s \in Settings : s.startBlock <= s.endBlock
  /\ EarlierRuns \subseteq [rows : [Heights -> Rows], failed : SUBSET Heights]

-----------------------------------------------------------------------------
(* calculateGoroutines. *)

TotalBlocks(s) == s.endBlock - s.startBlock + 1

numGoroutines(s) == (TotalBlocks(s) + s.steps - 1) \div s.steps

\* Blocks left when goroutine i gets its share.
BlocksLeft(s, i) == TotalBlocks(s) - (i - 1) * s.steps

\* Variant: the last goroutine gets a full step as well.
FullStep(s, i) == s.steps

blocksPerGoroutine(s, i) == IF BlocksLeft(s, i) >= s.steps THEN s.steps ELSE BlocksLeft(s, i)

\* counter when goroutine i is started.
FirstOf(s, i) == s.startBlock + (i - 1) * s.steps

\* endBlockInternal: one past its own blocks, where the next range begins.
EndOf(s, i) == FirstOf(s, i) + blocksPerGoroutine(s, i)

RangeOf(s, i) == FirstOf(s, i) .. EndOf(s, i)

-----------------------------------------------------------------------------
VARIABLES
  settings,     \* the configuration
  head,         \* the latest height of the chain
  rows,         \* blocks
  failed,       \* failed_blocks
  phase,        \* the main goroutine: "range", "generate", "wait", or "dead"
  started,      \* goroutines it has started
  pc,           \* where each of them is
  allBlocks,    \* allBlocks of each
  blocksInDB,   \* blocksInDB of each: at most one row
  reattempts,   \* failed blocks each has still to send
  currBlock,    \* currBlock of each
  latestBlock,  \* latestBlock of each
  call,         \* the call of each for the latest height
  blockChan,    \* how often each height is on blockEnqueueChan
  sentBy,       \* history: the goroutines that sent a height of their range
  restarts      \* restarts so far

tables == <<rows, failed>>
main == <<phase, started>>
goroutine == <<pc, allBlocks, blocksInDB, reattempts, currBlock, latestBlock, call>>
vars == <<settings, head, tables, main, goroutine, blockChan, sentBy, restarts>>

\* math.MaxInt64 as the first latestBlock: above every height.
MaxInt64 == MaxHeight + 2

NoCall == [attempts |-> 0, slept |-> 0, wait |-> 0, maxReached |-> FALSE]

All(value) == [i \in Goroutines |-> value]

Reset ==
  /\ phase' = "range"
  /\ started' = 0
  /\ pc' = All("off")
  /\ allBlocks' = All({})
  /\ blocksInDB' = All({})
  /\ reattempts' = All({})
  /\ currBlock' = All(1)
  /\ latestBlock' = All(MaxInt64)
  /\ call' = All(NoCall)
  /\ blockChan' = [h \in Heights |-> 0]
  /\ sentBy' = [h \in Heights |-> {}]

Init ==
  /\ settings \in Settings
  /\ head = InitialHeight
  /\ \E run \in EarlierRuns : rows = run.rows /\ failed = run.failed
  /\ phase = "range"
  /\ started = 0
  /\ pc = All("off")
  /\ allBlocks = All({})
  /\ blocksInDB = All({})
  /\ reattempts = All({})
  /\ currBlock = All(1)
  /\ latestBlock = All(MaxInt64)
  /\ call = All(NoCall)
  /\ blockChan = [h \in Heights |-> 0]
  /\ sentBy = [h \in Heights |-> {}]
  /\ restarts = 0

RowsIn(i) == {h \in RangeOf(settings, i) \cap Heights : rows[h] # "none"}

-----------------------------------------------------------------------------
(* The main goroutine: for each range two queries, and a goroutine. *)

\* GetBlocksInRange; when it fails allBlocks stays empty.
ReadRange ==
  /\ phase = "range"
  /\ started < numGoroutines(settings)
  /\ \E known \in {RowsIn(started + 1), {}} :
       allBlocks' = [allBlocks EXCEPT ![started + 1] = known]
  /\ phase' = "generate"
  /\ UNCHANGED <<settings, head, tables, started, pc, blocksInDB, reattempts, currBlock,
                 latestBlock, call, blockChan, sentBy, restarts>>

\* GenerateDefaultEnqueueFunction and go: of the failed blocks every goroutine
\* gets all, of the rows of its range the highest.
StartGoroutine ==
  LET i == started + 1
      found == IF settings.reIndex THEN {} ELSE {h \in RowsIn(i) : \A g \in RowsIn(i) : g <= h}
  IN  /\ phase = "generate"
      /\ reattempts' = [reattempts EXCEPT ![i] = IF settings.reattempt THEN failed ELSE {}]
      /\ blocksInDB' = [blocksInDB EXCEPT
                          ![i] = {[height |-> h, txIndexed |-> rows[h] = "tx"] : h \in found}]
      /\ \E first \in IF found = {} THEN {FirstOf(settings, i)} ELSE found :
           currBlock' = [currBlock EXCEPT ![i] = first]
      /\ pc' = [pc EXCEPT ![i] = "failed"]
      /\ started' = i
      /\ phase' = "range"
      /\ UNCHANGED <<settings, head, tables, allBlocks, latestBlock, call, blockChan, sentBy,
                     restarts>>

\* <-ctx.Done() of the background context: the process goes on forever.
WaitForever ==
  /\ phase = "range"
  /\ started = numGoroutines(settings)
  /\ phase' = "wait"
  /\ UNCHANGED <<settings, head, tables, started, goroutine, blockChan, sentBy, restarts>>

-----------------------------------------------------------------------------
(* Goroutine i: the function GenerateDefaultEnqueueFunction returns. *)

Alive == phase # "dead"

\* What is on the channel: each height as often as it is there.
Copies == UNION {{h} \X (1 .. blockChan[h]) : h \in Heights}

Queued == Cardinality(Copies)

Send(h) ==
  /\ Queued < QueueCap
  /\ blockChan' = [blockChan EXCEPT ![h] = @ + 1]

Goto(i, at) == pc' = [pc EXCEPT ![i] = at]

\* The failed blocks by height.
SendFailed(i) ==
  /\ pc[i] = "failed"
  /\ \E h \in reattempts[i] :
       /\ \A g \in reattempts[i] : h <= g
       /\ Send(h)
       /\ reattempts' = [reattempts EXCEPT ![i] = @ \ {h}]
  /\ UNCHANGED <<pc, allBlocks, blocksInDB, currBlock, latestBlock, call, sentBy>>

FailedSent(i) ==
  /\ pc[i] = "failed"
  /\ reattempts[i] = {}
  /\ Goto(i, "check")
  /\ UNCHANGED <<allBlocks, blocksInDB, reattempts, currBlock, latestBlock, call, blockChan, sentBy>>

PastEnd(i) ==
  \/ currBlock[i] > EndOf(settings, i)
  \/ settings.exitCaughtUp /\ currBlock[i] > latestBlock[i]

Return(i) ==
  /\ pc[i] = "check"
  /\ PastEnd(i)
  /\ Goto(i, "done")
  /\ UNCHANGED <<allBlocks, blocksInDB, reattempts, currBlock, latestBlock, call, blockChan, sentBy>>

\* GetLatestBlockHeightWithRetry, when the channel is at most a quarter full.
AskLatest(i) ==
  /\ pc[i] = "check"
  /\ ~PastEnd(i)
  /\ Queued <= QueueCap \div 4
  /\ \E backoff \in GetBackoffDurationForAttempts(0, MaxRetryTime(settings.maxWait)) :
       call' = [call EXCEPT ![i] = [attempts |-> 0, slept |-> 0, wait |-> backoff.wait,
                                    maxReached |-> backoff.maxReached]]
  /\ Goto(i, "ask")
  /\ UNCHANGED <<allBlocks, blocksInDB, reattempts, currBlock, latestBlock, blockChan, sentBy>>

\* Variant: a range asks for the latest height once.
AnswerOnce(i) ==
  /\ pc[i] = "ask"
  /\ latestBlock' = [latestBlock EXCEPT ![i] = IF @ = MaxInt64 THEN head ELSE @]
  /\ call' = [call EXCEPT ![i] = NoCall]
  /\ Goto(i, "fill")
  /\ UNCHANGED <<allBlocks, blocksInDB, reattempts, currBlock, blockChan, sentBy>>

Answer(i) ==
  /\ pc[i] = "ask"
  /\ latestBlock' = [latestBlock EXCEPT ![i] = head]
  /\ call' = [call EXCEPT ![i] = NoCall]
  /\ Goto(i, "fill")
  /\ UNCHANGED <<allBlocks, blocksInDB, reattempts, currBlock, blockChan, sentBy>>

\* The node fails and the query waits before the next attempt.  Attempts beyond
\* MaxCounted are not counted: their wait is the longest.
RetryLater(i) ==
  LET c == call[i]
      attempts == c.attempts + 1
  IN  /\ pc[i] = "ask"
      /\ MayRetry(attempts, settings.maxAttempts)
      /\ \E next \in IF c.maxReached THEN {[wait |-> c.wait, maxReached |-> TRUE]}
                     ELSE GetBackoffDurationForAttempts(attempts, MaxRetryTime(settings.maxWait)) :
           call' = [call EXCEPT ![i] =
                      [attempts |-> IF attempts > MaxCounted THEN MaxCounted ELSE attempts,
                       slept |-> c.wait, wait |-> next.wait, maxReached |-> next.maxReached]]
      /\ UNCHANGED <<pc, allBlocks, blocksInDB, reattempts, currBlock, latestBlock, blockChan, sentBy>>

MoreToFill(i) ==
  /\ currBlock[i] < latestBlock[i]
  /\ currBlock[i] <= EndOf(settings, i)
  /\ Queued # QueueCap

InDB(i) == {b \in blocksInDB[i] : ~settings.reIndex /\ b.height = currBlock[i]}

Advance(i) == currBlock' = [currBlock EXCEPT ![i] = @ + 1]

SendCurrent(i) ==
  /\ Send(currBlock[i])
  /\ sentBy' = [sentBy EXCEPT ![currBlock[i]] = @ \cup {i}]
  /\ Advance(i)

SkipIndexed(i) ==
  /\ pc[i] = "fill" /\ MoreToFill(i)
  /\ \E b \in InDB(i) : b.txIndexed
  /\ Advance(i)
  /\ UNCHANGED <<pc, allBlocks, blocksInDB, reattempts, latestBlock, call, blockChan, sentBy>>

\* The row of blocksInDB is looked at before allBlocks, so it is sent although
\* it is in both.
SendUnindexed(i) ==
  /\ pc[i] = "fill" /\ MoreToFill(i)
  /\ \E b \in InDB(i) : ~b.txIndexed
  /\ SendCurrent(i)
  /\ blocksInDB' = [blocksInDB EXCEPT ![i] = {}]
  /\ UNCHANGED <<pc, allBlocks, reattempts, latestBlock, call>>

\* Any row counts here, and reindexing does not matter.
SkipKnown(i) ==
  /\ pc[i] = "fill" /\ MoreToFill(i)
  /\ InDB(i) = {}
  /\ currBlock[i] \in allBlocks[i]
  /\ Advance(i)
  /\ UNCHANGED <<pc, allBlocks, blocksInDB, reattempts, latestBlock, call, blockChan, sentBy>>

SendNew(i) ==
  /\ pc[i] = "fill" /\ MoreToFill(i)
  /\ InDB(i) = {}
  /\ currBlock[i] \notin allBlocks[i]
  /\ SendCurrent(i)
  /\ UNCHANGED <<pc, allBlocks, blocksInDB, reattempts, latestBlock, call>>

StopFilling(i) ==
  /\ pc[i] = "fill"
  /\ ~MoreToFill(i)
  /\ Goto(i, "check")
  /\ UNCHANGED <<allBlocks, blocksInDB, reattempts, currBlock, latestBlock, call, blockChan, sentBy>>

Step(i) ==
  /\ Alive
  /\ \/ SendFailed(i) \/ FailedSent(i) \/ Return(i) \/ AskLatest(i) \/ RetryLater(i)
     \/ SkipIndexed(i) \/ SendUnindexed(i) \/ SkipKnown(i) \/ SendNew(i) \/ StopFilling(i)
  /\ UNCHANGED <<settings, head, tables, main, restarts>>

Answered(i) ==
  /\ Alive
  /\ Answer(i)
  /\ UNCHANGED <<settings, head, tables, main, restarts>>

\* The last attempt fails: the function returns the error, and Fatal.
Die(i) ==
  /\ Alive
  /\ pc[i] = "ask"
  /\ ~MayRetry(call[i].attempts + 1, settings.maxAttempts)
  /\ phase' = "dead"
  /\ UNCHANGED <<settings, head, tables, started, goroutine, blockChan, sentBy, restarts>>

-----------------------------------------------------------------------------
(* The RPC workers, the indexers, the chain, and who restarts the process. *)

\* A height leaves the channel: its block is indexed, fails, or is lost.
Fetch(h) ==
  /\ Alive
  /\ blockChan[h] > 0
  /\ blockChan' = [blockChan EXCEPT ![h] = @ - 1]
  /\ \/ rows' = [rows EXCEPT ![h] = "tx"] /\ failed' = failed \ {h}
     \/ failed' = failed \cup {h} /\ UNCHANGED rows
     \/ UNCHANGED tables
  /\ UNCHANGED <<settings, head, main, goroutine, sentBy, restarts>>

Grow ==
  /\ head < MaxHeight
  /\ head' = head + 1
  /\ UNCHANGED <<settings, tables, main, goroutine, blockChan, sentBy, restarts>>

Restart ==
  /\ phase = "dead"
  /\ restarts < MaxRestarts[settings]
  /\ restarts' = restarts + 1
  /\ Reset
  /\ UNCHANGED <<settings, head, tables>>

Next ==
  \/ ReadRange \/ StartGoroutine \/ WaitForever
  \/ \E i \in Goroutines : Step(i) \/ Answered(i) \/ Die(i)
  \/ \E h \in Heights : Fetch(h)
  \/ Grow
  \/ Restart

Spec == Init /\ [][Next]_vars

\* Goroutines and workers run, and a node asked again and again answers at last.
\* Nothing is assumed of the chain.
Fairness ==
  /\ WF_vars(ReadRange) /\ WF_vars(StartGoroutine)
  /\ \A i \in Goroutines : WF_vars(Step(i)) /\ SF_vars(Answered(i))
  /\ \A h \in Heights : WF_vars(Fetch(h))

FairSpec == Spec /\ Fairness

-----------------------------------------------------------------------------
(* Properties. *)

(* The state has its shape; a call for the latest height is made once more than
   base.request-retry-attempts at most. *)
TypeOK ==
  /\ rows \in [Heights -> Rows]
  /\ failed \subseteq Heights
  /\ phase \in {"range", "generate", "wait", "dead"}
  /\ started \in 0 .. numGoroutines(settings)
  /\ pc \in [Goroutines -> {"off", "failed", "check", "ask", "fill", "done"}]
  /\ \A i \in Goroutines :
       /\ allBlocks[i] \subseteq Heights /\ reattempts[i] \subseteq Heights
       /\ blocksInDB[i] \subseteq [height : Heights, txIndexed : BOOLEAN]
       /\ currBlock[i] \in Nat /\ latestBlock[i] \in Nat
       /\ settings.maxAttempts >= 0 => call[i].attempts <= settings.maxAttempts
  /\ Queued <= QueueCap

(* The ranges of the goroutines together are the range of the configuration and
   the block after it, each goroutine sends heights of its own range only, and a
   height is sent twice only where one range ends and the next begins
   (calculateGoroutines, runIndexerAsFetcher). *)
RangesMeet ==
  /\ UNION {RangeOf(settings, i) : i \in 1 .. numGoroutines(settings)}
       = settings.startBlock .. settings.endBlock + 1
  /\ \A h \in Heights :
       /\ \A i \in sentBy[h] : h \in RangeOf(settings, i)
       /\ \A i, j \in sentBy[h] : i < j => h = EndOf(settings, i) /\ h = FirstOf(settings, j)
       /\ sentBy[h] # {} => h < head

\* Goroutine i, or the one before it, leaves out what is below the highest row
\* it found in its range.
Resumed(h) ==
  \E i \in 1 .. numGoroutines(settings) :
    h \in RangeOf(settings, i) /\ \E g \in RowsIn(i) : g > h

(* Every block of the range below the head is sent at last, or has a row, or lies
   below a row of its range the goroutine resumed from, however little room there
   is in the channel and however often the node fails to tell its height, unless
   the process dies of it (GenerateDefaultEnqueueFunction). *)
RangeFetched ==
  \A h \in Heights :
    (h \in settings.startBlock .. settings.endBlock /\ h < head)
      ~> \/ sentBy[h] # {} \/ rows[h] # "none"
         \/ ~settings.reIndex /\ Resumed(h)
         \/ phase = "dead"

(* The wait between two attempts is never negative, never longer than
   base.request-retry-max-wait and never shorter than the one before, although
   the power and the product overflow (GetBackoffDurationForAttempts and its
   callers). *)
WaitsBounded ==
  [][\A i \in Goroutines :
       (pc[i] = "ask" /\ pc'[i] = "ask") =>
         /\ call'[i].slept >= call[i].slept
         /\ call'[i].slept <= AtLeastTwo(settings.maxWait) * Second]_vars
=============================================================================
