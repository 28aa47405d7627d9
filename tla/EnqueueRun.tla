------------------------------ MODULE EnqueueRun ------------------------------
(***************************************************************************)
(* BlockEnqueue on its own: one start of the process over tables an        *)
(* earlier run has left, RPC workers that only drain blockEnqueueChan, and *)
(* a chain that keeps growing.  IndexerPipeline has the same goroutine     *)
(* with the real workers; here it is checked in every configuration and    *)
(* over every combination of rows.                                         *)
(***************************************************************************)
EXTENDS BlockEnqueue

VARIABLE sent     \* history: heights put on blockEnqueueChan

runVars == <<tables, config, head, enqVars, sent>>

\* Rows that runs over the first InitialHeight blocks can leave behind.  A block may
\* be indexed and in failed_blocks, when one that indexed it anew has failed, and be
\* indexed without some of its transactions, which only GenerateMsgType looks for.
EarlierRun ==
  /\ txIndexed \in SUBSET (1 .. InitialHeight)
  /\ eventsIndexed \in SUBSET (1 .. InitialHeight)
  /\ failedBlocks \in SUBSET (1 .. InitialHeight)
  /\ txsStored \in IF config.mode = "msgType" THEN SUBSET txIndexed ELSE {txIndexed}
  /\ customIndexed = eventsIndexed
  /\ failedEventBlocks = {}

Init ==
  /\ EnqInit
  /\ EarlierRun
  /\ sent = {}

Enqueue ==
  /\ EnqueueStep
  /\ sent' = sent \cup Range(blockChan')

\* An RPC worker receives.
Drain ==
  /\ blockChan # <<>>
  /\ blockChan' = Tail(blockChan)
  /\ UNCHANGED <<tables, config, head, enqPc, planned, currBlock, latestBlock, blocksInDB, sent>>

Grow == ChainGrows /\ UNCHANGED sent

\* The channel is closed and drained and the model's chain has its last block.
Finished ==
  /\ enqPc = "done" /\ blockChan = <<>> /\ head = MaxHeight
  /\ UNCHANGED runVars

Next == Enqueue \/ Drain \/ Grow \/ Finished

Spec == Init /\ [][Next]_runVars

\* The goroutine runs and the workers go on receiving.  Nothing is assumed of
\* the chain: it may stop at any height.
FairSpec == Spec /\ WF_runVars(Enqueue) /\ WF_runVars(Drain)

-----------------------------------------------------------------------------
(* Properties. *)

\* The types of the goroutine's variables.
TypeOK == TablesTypeOK /\ EnqTypeOK /\ sent \subseteq Heights

\* The node is only ever asked for blocks the chain has made: neither a file of
\* heights, nor a failed block, nor the maximal first latestBlock sends a height
\* above the head.
SentExists == sent \subseteq 1 .. head

\* The default function leaves no hole: every height it has passed was sent or
\* is indexed, except what lies below the highest row it resumed from; and when
\* it reindexes there is no exception.
RangeCovered ==
  config.mode = "default" /\ enqPc \in {"check", "fill", "done"} =>
    \A h \in FirstBlock .. currBlock - 1 :
      \/ h \in sent
      \/ /\ ~config.reIndex
         /\ h \in txIndexed \/ \E g \in BlockRows : g > h /\ g >= FirstBlock /\ InRange(g)

\* It sends nothing above base.end-block or below base.start-block, other than
\* the failed blocks it is told to reattempt.
SentInRange ==
  config.mode = "default" =>
    \A h \in sent :
      \/ FirstBlock <= h /\ InRange(h)
      \/ config.reattemptFailedBlocks /\ h \in failedBlocks

\* Every failed block is sent again when reattempts are on, whatever the range,
\* and however little room the workers leave in the channel.
FailedReattempted ==
  \A h \in Heights :
    (config.mode = "default" /\ config.reattemptFailedBlocks /\ h \in failedBlocks) ~> h \in sent

\* The range makes progress: once it has come to a height, every later one in
\* the range that the chain has outgrown is sent or is indexed, although the
\* latest height is read only when the queue is at most a quarter full.
RangeProgress ==
  \A h \in Heights :
    (enqPc = "check" /\ currBlock <= h /\ InRange(h) /\ h < head) ~> h \in sent \cup txIndexed

\* base.exit-when-caught-up = true: the function returns once it has caught up
\* with a chain that makes no more blocks.
ExitsWhenCaughtUp == config.exitWhenCaughtUp ~> enqPc = "done"
=============================================================================
