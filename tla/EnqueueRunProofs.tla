--------------------------- MODULE EnqueueRunProofs ---------------------------
(***************************************************************************)
(* The safety of the enqueue functions for every configuration, every      *)
(* chain, every queue and whatever rows an earlier run has left.  Two      *)
(* invariants strengthen the properties: Existing says that everything the *)
(* goroutine knows of is below the head, Ranged where the default function *)
(* stands in its range.                                                    *)
(***************************************************************************)
EXTENDS EnqueueRun, BlockEnqueueProofs

(* The rows, the list read at start-up and the channel hold blocks that exist, and
   while the goroutine fills the queue its latest height is one the chain had. *)
Existing ==
  /\ BlockRows \cup failedBlocks \cup txsStored \subseteq 1 .. head
  /\ Range(blockChan) \subseteq sent
  /\ SentExists
  /\ \A h \in Heights : planned[h] > 0 => h <= head
  /\ enqPc = "fill" => latestBlock <= head

\* Height h was sent or needs not be, once the default function is past it.
Handled(h) ==
  \/ h \in sent
  \/ /\ ~config.reIndex
     /\ h \in txIndexed \/ \E g \in BlockRows : g > h /\ g >= FirstBlock /\ InRange(g)

(* Once the default function has read the tables: it is in its range, plans failed
   blocks only, and every height it is past was handled. *)
Ranged ==
  /\ blocksInDB \subseteq txIndexed
  /\ SentInRange
  /\ (config.mode = "default" /\ enqPc # "init") =>
       /\ FirstBlock <= currBlock
       /\ \A h \in Heights : planned[h] > 0 => config.reattemptFailedBlocks /\ h \in failedBlocks
       /\ \A h \in FirstBlock .. currBlock - 1 : Handled(h)

-----------------------------------------------------------------------------
(* Types. *)

\* What an earlier run left and the start of the goroutine are well typed.
LEMMA InitType == Init => TypeOK
<1> SUFFICES ASSUME Init PROVE TypeOK
  OBVIOUS
<1>1. 1 .. InitialHeight \subseteq Heights
  BY MaxHeightAssumption, EnqueueAssumption DEF Heights
<1>2. TablesTypeOK
  BY <1>1 DEF Init, EarlierRun, TablesTypeOK
<1> QED
  BY <1>2, EnqInitTypeOK DEF Init, TypeOK

\* What one step of the goroutine puts on the channel, if anything, is a height.
LEMMA SentType ==
  ASSUME TypeOK, EnqTypeOK'
  PROVE  Range(blockChan') \subseteq Heights
<1>1. blockChan' \in Seq(Heights)
  BY DEF EnqTypeOK
<1>2. \A i \in DOMAIN blockChan' : blockChan'[i] \in Heights
  BY <1>1
<1> QED
  BY <1>2 DEF Range

\* Every step keeps the types.
LEMMA NextType == TypeOK /\ [Next]_runVars => TypeOK'
<1> SUFFICES ASSUME TypeOK, [Next]_runVars PROVE TypeOK'
  OBVIOUS
<1>1. CASE Enqueue
  <2>1. EnqTypeOK' /\ UNCHANGED tables
    BY <1>1, EnqueueTypeOK DEF Enqueue, TypeOK
  <2>2. sent' \subseteq Heights
    BY <1>1, <2>1, SentType DEF Enqueue, TypeOK
  <2> QED
    BY <2>1, <2>2 DEF TypeOK, TablesTypeOK, tables
<1>2. CASE Drain
  <2>1. Tail(blockChan) \in Seq(Heights) /\ Len(Tail(blockChan)) = Len(blockChan) - 1
    BY <1>2, RangeTail DEF Drain, TypeOK, EnqTypeOK
  <2>2. QueueCap \in Nat /\ Len(blockChan) \in Nat
    BY EnqueueAssumption DEF TypeOK, EnqTypeOK
  <2>3. blockChan' \in Seq(Heights) /\ Len(blockChan') <= QueueCap
    BY <1>2, <2>1, <2>2 DEF Drain, TypeOK, EnqTypeOK
  <2> QED
    BY <1>2, <2>3 DEF Drain, TypeOK, TablesTypeOK, tables, EnqTypeOK
<1>3. CASE Grow
  <2>1. head' \in Heights
    BY <1>3, MaxHeightAssumption DEF Grow, ChainGrows, TypeOK, EnqTypeOK, Heights
  <2> QED
    BY <1>3, <2>1 DEF Grow, ChainGrows, TypeOK, TablesTypeOK, tables, EnqTypeOK, enqVars
<1>4. CASE UNCHANGED runVars
  BY <1>4 DEF runVars, TypeOK, TablesTypeOK, tables, EnqTypeOK, enqVars
<1> QED
  BY <1>1, <1>2, <1>3, <1>4 DEF Next, Finished

(* The variables of the enqueue goroutine keep their types, and blockEnqueueChan
   holds no more than its capacity (core/block_enqueue.go). *)
THEOREM TypeCorrect == Spec => []TypeOK
<1>1. Init => TypeOK
  BY InitType
<1>2. TypeOK /\ [Next]_runVars => TypeOK'
  BY NextType
<1> QED
  BY <1>1, <1>2, PTL DEF Spec

-----------------------------------------------------------------------------
(* What is sent. *)

\* A step that sends h records h, and a step that sends nothing records nothing.
LEMMA SendRecords ==
  ASSUME TypeOK, Existing, sent' = sent \cup Range(blockChan')
  PROVE  /\ \A h \in Heights : SendHeight(h) => sent' = sent \cup {h} /\ Range(blockChan') \subseteq sent'
         /\ UNCHANGED blockChan => UNCHANGED sent
<1>1. ASSUME NEW h \in Heights, SendHeight(h)
      PROVE  Range(blockChan') = Range(blockChan) \cup {h}
  BY <1>1, SendTypeOK DEF TypeOK
<1> QED
  BY <1>1 DEF Existing

\* The current height is one of the chain while the queue is filled.
LEMMA CurrentExists ==
  ASSUME TypeOK, Existing, enqPc = "fill", MoreToFill
  PROVE  currBlock \in Heights /\ currBlock <= head
BY MaxHeightAssumption DEF TypeOK, EnqTypeOK, Existing, MoreToFill, Heights, MaxInt64

-----------------------------------------------------------------------------
(* Nothing beyond the head. *)

\* At the start nothing was sent, and the rows are of the first blocks.
LEMMA InitExisting == Init => Existing
<1> SUFFICES ASSUME Init PROVE Existing
  OBVIOUS
<1>1. BlockRows \cup failedBlocks \cup txsStored \subseteq 1 .. head
  BY DEF Init, EarlierRun, EnqInit, BlockRows
<1>2. \A h \in Heights : ~(planned[h] > 0)
  BY DEF Init, EnqInit, NothingPlanned
<1> QED
  BY <1>1, <1>2, RangeEmpty DEF Init, EnqInit, Existing, SentExists

\* Each generator plans blocks that exist: the file's heights are compared with
\* the head, the others come from rows.
LEMMA GenerateExisting ==
  ASSUME TypeOK, Existing, Generate
  PROVE  \A h \in Heights : planned'[h] > 0 => h <= head
<1> SUFFICES ASSUME NEW h \in Heights, planned'[h] > 0 PROVE h <= head
  OBVIOUS
<1> USE DEF Once
<1>h. head \in Nat /\ Heights \subseteq Nat
  BY DEF TypeOK, EnqTypeOK, Heights
<1>1. CASE GenerateDefault
  <2>1. h \in failedBlocks
    BY <1>1 DEF GenerateDefault
  <2> QED
    BY <1>h, <2>1 DEF Existing
<1>2. CASE GenerateBlockFile
  <2>1. h \in EarliestHeight .. head
    BY <1>2 DEF GenerateBlockFile
  <2> QED
    BY <1>h, <2>1, EnqueueAssumption DEF Heights
<1>3. CASE GenerateMsgType
  <2>1. planned'[h] \in StoredOfMsgType(h) \/ planned'[h] \in {0}
    BY <1>3 DEF GenerateMsgType
  <2>2. h \in txsStored \cup txIndexed
    BY <2>1 DEF StoredOfMsgType
  <2> QED
    BY <1>h, <2>2 DEF Existing, BlockRows
<1> QED
  BY <1>1, <1>2, <1>3 DEF Generate

\* A step of the goroutine sends blocks that exist.
LEMMA EnqueueExisting ==
  ASSUME TypeOK, Existing, Enqueue
  PROVE  Existing'
<1> USE DEF Existing, SentExists, BlockRows
<1>0. sent' = sent \cup Range(blockChan') /\ EnqTypeOK' /\ UNCHANGED tables
  BY EnqueueTypeOK DEF Enqueue, TypeOK
<1>t. UNCHANGED <<txIndexed, eventsIndexed, failedBlocks, txsStored>>
  BY <1>0 DEF tables
<1>h. head \in Nat /\ Heights \subseteq Nat /\ sent \subseteq Heights
  BY DEF TypeOK, EnqTypeOK, Heights
<1>1. CASE Generate
  BY <1>0, <1>1, <1>t, GenerateExisting, SendRecords DEF Generate
<1>2. CASE EnqueuePlanned
  <2>1. PICK h \in Heights : /\ planned[h] > 0 /\ SendHeight(h)
                             /\ planned' = [planned EXCEPT ![h] = @ - 1]
    BY <1>2 DEF EnqueuePlanned
  <2>2. sent' = sent \cup {h} /\ Range(blockChan') \subseteq sent' /\ h \in 1 .. head
    BY <1>0, <1>h, <2>1, SendRecords DEF Heights
  <2>3. \A g \in Heights : planned'[g] > 0 => planned[g] > 0
    BY <2>1 DEF TypeOK, EnqTypeOK
  <2> QED
    BY <1>2, <1>t, <2>2, <2>3 DEF EnqueuePlanned
<1>3. CASE PlannedSent
  BY <1>0, <1>3, <1>t, SendRecords DEF PlannedSent
<1>4. CASE ExitEnqueue
  BY <1>0, <1>4, <1>t, SendRecords DEF ExitEnqueue
<1>5. CASE RefreshLatest
  <2>1. UNCHANGED <<head, blockChan, planned, sent>> /\ latestBlock' = head
    BY <1>0, <1>5, SendRecords DEF RefreshLatest
  <2>2. latestBlock' <= head'
    BY <1>h, <2>1
  <2> QED
    BY <1>t, <2>1, <2>2
<1>6. CASE SkipIndexed
  BY <1>0, <1>6, <1>t, SendRecords DEF SkipIndexed
<1>7. CASE EnqueueNext
  <2>1. currBlock \in Heights /\ currBlock <= head
    BY <1>7, CurrentExists DEF EnqueueNext
  <2>2. sent' = sent \cup {currBlock} /\ Range(blockChan') \subseteq sent' /\ currBlock \in 1 .. head
    BY <1>0, <1>7, <1>h, <2>1, SendRecords DEF EnqueueNext, Heights
  <2> QED
    BY <1>7, <1>t, <2>2 DEF EnqueueNext
<1>8. CASE StopFilling
  BY <1>0, <1>8, <1>t, SendRecords DEF StopFilling
<1> QED
  BY <1>1, <1>2, <1>3, <1>4, <1>5, <1>6, <1>7, <1>8 DEF Enqueue, EnqueueStep

\* So do the workers and the chain.
LEMMA NextExisting == TypeOK /\ Existing /\ [Next]_runVars => Existing'
<1> SUFFICES ASSUME TypeOK, Existing, [Next]_runVars PROVE Existing'
  OBVIOUS
<1> USE DEF Existing, SentExists, BlockRows
<1>1. CASE Enqueue
  BY <1>1, EnqueueExisting
<1>2. CASE Drain
  <2>1. Range(blockChan') \subseteq Range(blockChan)
    BY <1>2, RangeTail DEF Drain, TypeOK, EnqTypeOK
  <2> QED
    BY <1>2, <2>1 DEF Drain, tables
<1>3. CASE Grow
  <2>1. head \in Nat /\ head' = head + 1
    BY <1>3 DEF Grow, ChainGrows, TypeOK, EnqTypeOK, Heights
  <2>2. 1 .. head \subseteq 1 .. head'
    BY <2>1
  <2>3. \A n \in Nat : n <= head => n <= head'
    BY <2>1
  <2>4. latestBlock \in Nat /\ Heights \subseteq Nat
    BY MaxHeightAssumption DEF TypeOK, EnqTypeOK, Heights, MaxInt64
  <2> QED
    BY <1>3, <2>2, <2>3, <2>4 DEF Grow, ChainGrows, tables, enqVars
<1>4. CASE UNCHANGED runVars
  BY <1>4 DEF runVars, tables, enqVars
<1> QED
  BY <1>1, <1>2, <1>3, <1>4 DEF Next, Finished

(* No enqueue function sends a height the chain has not made, although the first
   latestBlock is math.MaxInt64 and a file names heights as it likes. *)
THEOREM NothingBeyondHead == Spec => []SentExists
<1>1. Init => TypeOK /\ Existing
  BY InitType, InitExisting
<1>2. (TypeOK /\ Existing) /\ [Next]_runVars => (TypeOK /\ Existing)'
  BY NextType, NextExisting
<1>3. TypeOK /\ Existing => SentExists
  BY DEF Existing
<1> QED
  BY <1>1, <1>2, <1>3, PTL DEF Spec

-----------------------------------------------------------------------------
(* The range of the default function. *)

\* base.start-block after the check of its sign.
LEMMA FirstBlockType == TypeOK => FirstBlock \in Nat \ {0}
BY EnqueueAssumption DEF TypeOK, EnqTypeOK, FirstBlock, Config

\* At the start there is nothing to say.
LEMMA InitRanged == Init => Ranged
BY DEF Init, EnqInit, Ranged, SentInRange

\* A step that leaves the configuration and the tables alone and sends more or
\* nothing leaves what was handled handled.
LEMMA HandledStays ==
  ASSUME UNCHANGED <<config, tables>>, sent \subseteq sent', NEW h, Handled(h)
  PROVE  Handled(h)'
BY DEF Handled, tables, BlockRows, FirstBlock, InRange

\* The default function starts at its first block or at the highest row.
LEMMA GenerateRanged ==
  ASSUME TypeOK, Existing, Ranged, Generate, UNCHANGED <<tables, sent>>
  PROVE  Ranged'
<1>0. UNCHANGED <<config, txIndexed, eventsIndexed, failedBlocks>>
  BY DEF Generate, tables
<1>1. SentInRange'
  BY <1>0 DEF Ranged, SentInRange, FirstBlock, InRange
<1>2. CASE config.mode = "default"
  <2> DEFINE found == IF config.reIndex THEN {} ELSE GetBlocksFromStart(FirstBlock, config.endBlock)
  <2>1. /\ planned' = Once(IF config.reattemptFailedBlocks THEN failedBlocks ELSE {})
        /\ currBlock' \in IF found = {} THEN {FirstBlock} ELSE found
        /\ blocksInDB' = found \cap txIndexed
    BY <1>2 DEF Generate, GenerateDefault, GenerateBlockFile, GenerateMsgType
  <2>2. \A g \in found : ~config.reIndex /\ g \in BlockRows /\ g >= FirstBlock /\ InRange(g)
    BY DEF GetBlocksFromStart, InRange
  <2>3. FirstBlock' = FirstBlock /\ FirstBlock \in Nat \ {0}
    BY <1>0, FirstBlockType DEF FirstBlock
  <2>4. BlockRows \subseteq Nat
    BY DEF TypeOK, TablesTypeOK, BlockRows, Heights
  <2>5. FirstBlock <= currBlock' /\ currBlock' \in Nat
    BY <2>1, <2>2, <2>3, <2>4
  <2>c. PICK c \in Nat : c = currBlock'
    BY <2>5
  <2>6. ASSUME NEW h \in FirstBlock .. c - 1
        PROVE  Handled(h)
    <3>1. c # FirstBlock /\ c > h
      BY <2>3, <2>6
    <3>2. c \in found
      BY <2>1, <2>c, <3>1
    <3> QED
      BY <2>2, <3>1, <3>2 DEF Handled
  <2>7. \A h \in FirstBlock .. currBlock' - 1 : Handled(h)'
    BY <1>0, <2>6, <2>c, HandledStays DEF Generate
  <2>8. \A h \in Heights : planned'[h] > 0 => config.reattemptFailedBlocks /\ h \in failedBlocks
    BY <2>1 DEF Once
  <2> QED
    BY <1>0, <1>1, <2>1, <2>3, <2>5, <2>7, <2>8 DEF Ranged
<1>3. CASE config.mode # "default"
  <2>1. UNCHANGED blocksInDB
    BY <1>3 DEF Generate, GenerateDefault, GenerateBlockFile, GenerateMsgType
  <2> QED
    BY <1>0, <1>1, <1>3, <2>1 DEF Ranged
<1> QED
  BY <1>2, <1>3

\* A failed block is sent because it is to be reattempted.
LEMMA EnqueuePlannedRanged ==
  ASSUME TypeOK, Existing, Ranged, EnqueuePlanned, sent' = sent \cup Range(blockChan')
  PROVE  Ranged'
<1>1. PICK h \in Heights : /\ planned[h] > 0 /\ SendHeight(h)
                           /\ planned' = [planned EXCEPT ![h] = @ - 1]
  BY DEF EnqueuePlanned
<1>2. sent' = sent \cup {h}
  BY <1>1, SendRecords
<1>3. /\ UNCHANGED <<config, tables, enqPc, currBlock, blocksInDB>> /\ enqPc = "planned"
      /\ UNCHANGED <<txIndexed, failedBlocks>>
  BY DEF EnqueuePlanned, tables
<1>4. FirstBlock' = FirstBlock /\ \A g : InRange(g)' = InRange(g)
  BY <1>3 DEF FirstBlock, InRange
<1>5. \A g \in Heights : planned'[g] > 0 => planned[g] > 0
  BY <1>1 DEF TypeOK, EnqTypeOK
<1>6. SentInRange'
  BY <1>1, <1>2, <1>3, <1>4 DEF Ranged, SentInRange
<1>7. \A g : Handled(g) => Handled(g)'
  BY <1>2, <1>3, HandledStays
<1> QED
  BY <1>3, <1>4, <1>5, <1>6, <1>7 DEF Ranged

\* The next height of the range is sent, or is in blocksInDB and so is indexed.
LEMMA AdvanceRanged ==
  ASSUME TypeOK, Existing, Ranged, SkipIndexed \/ EnqueueNext,
         sent' = sent \cup Range(blockChan')
  PROVE  Ranged'
<1>1. /\ UNCHANGED <<config, tables, enqPc, planned, blocksInDB>> /\ enqPc = "fill"
      /\ UNCHANGED <<txIndexed, failedBlocks>>
      /\ currBlock' = currBlock + 1 /\ MoreToFill
  BY DEF SkipIndexed, EnqueueNext, tables
<1>2. currBlock \in Heights /\ currBlock \in Nat
  BY <1>1, CurrentExists DEF Heights
<1>3. FirstBlock' = FirstBlock /\ FirstBlock \in Nat /\ \A g : InRange(g)' = InRange(g)
  BY <1>1, FirstBlockType DEF FirstBlock, InRange
<1>4. sent \subseteq sent' /\ sent' \subseteq sent \cup {currBlock}
  BY <1>2, SendRecords DEF SkipIndexed, EnqueueNext
<1>5. ASSUME NEW h, h = currBlock
      PROVE  Handled(h)'
  <2>1. CASE SkipIndexed
    <3>1. ~config'.reIndex /\ h \in txIndexed'
      BY <1>1, <1>5, <2>1 DEF SkipIndexed, Ranged
    <3> QED
      BY <3>1 DEF Handled
  <2>2. CASE EnqueueNext
    <3>1. h \in sent'
      BY <1>2, <1>5, <2>2, SendRecords DEF EnqueueNext
    <3> QED
      BY <3>1 DEF Handled
  <2> QED
    BY <2>1, <2>2
<1>6. CASE config.mode = "default"
  <2>1. FirstBlock <= currBlock /\ InRange(currBlock)
    BY <1>1, <1>6 DEF Ranged, MoreToFill
  <2>2. SentInRange'
    BY <1>1, <1>3, <1>4, <2>1 DEF Ranged, SentInRange
  <2>3. ASSUME NEW h \in FirstBlock .. currBlock' - 1
        PROVE  Handled(h)'
    <3>1. h = currBlock \/ h \in FirstBlock .. currBlock - 1
      BY <1>1, <1>2, <1>3
    <3>2. CASE h = currBlock
      BY <1>5, <3>2
    <3>3. CASE h \in FirstBlock .. currBlock - 1
      <4>1. Handled(h)
        BY <1>1, <1>6, <3>3 DEF Ranged
      <4> QED
        BY <1>1, <1>4, <4>1, HandledStays
    <3> QED
      BY <3>1, <3>2, <3>3
  <2>4. FirstBlock <= currBlock'
    BY <1>1, <1>2, <1>3, <2>1
  <2> QED
    BY <1>1, <1>3, <1>6, <2>2, <2>3, <2>4 DEF Ranged
<1>7. CASE config.mode # "default"
  BY <1>1, <1>7 DEF Ranged, SentInRange
<1> QED
  BY <1>6, <1>7

\* A step that neither sends nor moves on.
LEMMA StandsRanged ==
  ASSUME Ranged, UNCHANGED <<config, tables, planned, currBlock, blocksInDB, sent>>,
         enqPc # "init"
  PROVE  Ranged'
<1>1. UNCHANGED <<txIndexed, failedBlocks>>
  BY DEF tables
<1>2. FirstBlock' = FirstBlock /\ \A g : InRange(g)' = InRange(g)
  BY DEF FirstBlock, InRange
<1>3. \A g : Handled(g) => Handled(g)'
  BY HandledStays
<1> QED
  BY <1>1, <1>2, <1>3 DEF Ranged, SentInRange

\* Every step keeps the default function in its range.
LEMMA NextRanged == TypeOK /\ Existing /\ Ranged /\ [Next]_runVars => Ranged'
<1> SUFFICES ASSUME TypeOK, Existing, Ranged, [Next]_runVars PROVE Ranged'
  OBVIOUS
<1>1. CASE Enqueue
  <2>0. EnqueueStep /\ sent' = sent \cup Range(blockChan')
    BY <1>1 DEF Enqueue
  <2>1. CASE Generate
    BY <2>0, <2>1, GenerateRanged, SendRecords DEF Generate
  <2>2. CASE EnqueuePlanned
    BY <2>0, <2>2, EnqueuePlannedRanged
  <2>3. CASE PlannedSent \/ ExitEnqueue \/ RefreshLatest \/ StopFilling
    <3>1. /\ UNCHANGED <<config, tables, planned, currBlock, blocksInDB, blockChan>>
          /\ enqPc # "init"
      BY <2>3 DEF PlannedSent, ExitEnqueue, RefreshLatest, StopFilling
    <3> QED
      BY <2>0, <3>1, SendRecords, StandsRanged
  <2>4. CASE SkipIndexed \/ EnqueueNext
    BY <2>0, <2>4, AdvanceRanged
  <2> QED
    BY <2>0, <2>1, <2>2, <2>3, <2>4 DEF EnqueueStep
<1>2. CASE Drain \/ Grow \/ UNCHANGED runVars
  <2>1. UNCHANGED <<config, tables, planned, currBlock, blocksInDB, sent, enqPc>>
    BY <1>2 DEF Drain, Grow, ChainGrows, runVars, enqVars
  <2>2. CASE enqPc # "init"
    BY <2>1, <2>2, StandsRanged
  <2>3. CASE enqPc = "init"
    BY <2>1, <2>3 DEF Ranged, SentInRange, FirstBlock, InRange, tables
  <2> QED
    BY <2>2, <2>3
<1> QED
  BY <1>1, <1>2 DEF Next, Finished

\* The invariant of the two theorems.
LEMMA RangedAlways == Spec => [](TypeOK /\ Existing /\ Ranged)
<1>1. Init => TypeOK /\ Existing /\ Ranged
  BY InitType, InitExisting, InitRanged
<1>2. (TypeOK /\ Existing /\ Ranged) /\ [Next]_runVars => (TypeOK /\ Existing /\ Ranged)'
  BY NextType, NextExisting, NextRanged
<1> QED
  BY <1>1, <1>2, PTL DEF Spec

(* The default function leaves no hole: what it has passed was sent, is indexed, or
   lies below the row it resumed from (GenerateDefaultEnqueueFunction). *)
THEOREM NoHoleInRange == Spec => []RangeCovered
<1>1. Ranged => RangeCovered
  BY DEF Ranged, RangeCovered, Handled
<1> QED
  BY <1>1, RangedAlways, PTL

(* The default function sends nothing outside base.start-block to base.end-block
   but the failed blocks it is told to reattempt. *)
THEOREM OnlyTheRange == Spec => []SentInRange
<1>1. Ranged => SentInRange
  BY DEF Ranged
<1> QED
  BY <1>1, RangedAlways, PTL
=============================================================================
