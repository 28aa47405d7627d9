-------------------------- MODULE BlockEnqueueProofs --------------------------
(***************************************************************************)
(* Lemmas about the enqueue goroutine of BlockEnqueue, for the modules     *)
(* that run it: EnqueueRun and IndexerPipeline.                            *)
(***************************************************************************)
EXTENDS BlockEnqueue, CommonLemmas, TLAPS

\* A start value of the model is a height: the chain has a first block.
LEMMA OneIsAHeight ==
  /\ MaxHeight \in Nat \ {0} /\ 1 \in Heights
  /\ MaxInt64 \in 1 .. MaxInt64
  /\ Heights \subseteq 1 .. MaxInt64
<1>1. MaxHeight \in Nat \ {0} /\ 1 \in Heights
  BY MaxHeightAssumption, EnqueueAssumption DEF Heights
<1>2. QED
  BY <1>1 DEF Heights, MaxInt64

\* The enqueue goroutine's own state at start-up.
LEMMA EnqInitTypeOK == EnqInit => EnqTypeOK
<1>1. <<>> \in Seq(Heights) /\ Len(<<>>) = 0
  OBVIOUS
<1>2. QED
  BY <1>1, OneIsAHeight, EnqueueAssumption
  DEF EnqInit, EnqTypeOK, EnqPcs, NothingPlanned

\* Whichever of the three generators runs, it leaves the goroutine well typed.
LEMMA GenerateTypeOK ==
  ASSUME TablesTypeOK, EnqTypeOK, Generate
  PROVE  EnqTypeOK'
<1> USE OneIsAHeight
<1>1. config \in Config
  BY EnqueueAssumption DEF EnqTypeOK
<1>2. FirstBlock \in Nat \ {0}
  BY <1>1 DEF FirstBlock, Config
<1>3. ASSUME NEW S PROVE Once(S) \in [Heights -> Nat]
  BY DEF Once
<1>4. planned' \in [Heights -> Nat] /\ currBlock' \in Nat \ {0} /\ blocksInDB' \subseteq Heights
  <2>1. CASE GenerateDefault
    <3>1. GetBlocksFromStart(FirstBlock, config.endBlock) \subseteq Heights
      BY DEF GetBlocksFromStart, BlockRows, TablesTypeOK
    <3>2. Heights \subseteq Nat \ {0}
      BY DEF Heights
    <3>3. QED
      BY <1>2, <1>3, <2>1, <3>1, <3>2 DEF GenerateDefault
  <2>2. CASE GenerateBlockFile
    BY <1>3, <2>2 DEF GenerateBlockFile, EnqTypeOK
  <2>3. CASE GenerateMsgType
    <3>1. UNION {0 .. MsgTypeCount[h] : h \in Heights} \subseteq Nat
      BY EnqueueAssumption
    <3>2. planned' \in [Heights -> UNION {0 .. MsgTypeCount[h] : h \in Heights}]
      BY <2>3 DEF GenerateMsgType
    <3>3. QED
      BY <2>3, <3>1, <3>2 DEF GenerateMsgType, EnqTypeOK
  <2>4. QED
    BY <2>1, <2>2, <2>3 DEF Generate
<1>5. QED
  BY <1>4 DEF Generate, EnqTypeOK, EnqPcs

\* A height sent on blockEnqueueChan is one of the chain and there is room for it.
LEMMA SendTypeOK ==
  ASSUME EnqTypeOK, NEW h \in Heights, SendHeight(h)
  PROVE  /\ blockChan' \in Seq(Heights) /\ Len(blockChan') <= QueueCap
         /\ Range(blockChan') = Range(blockChan) \cup {h}
<1>1. blockChan' = Append(blockChan, h) /\ Len(blockChan) < QueueCap /\ QueueCap \in Nat
  BY EnqueueAssumption DEF SendHeight
<1>2. blockChan' \in Seq(Heights) /\ Len(blockChan') = Len(blockChan) + 1
  BY <1>1 DEF EnqTypeOK
<1>3. Len(blockChan) \in Nat
  BY DEF EnqTypeOK
<1>4. QED
  BY <1>1, <1>2, <1>3, RangeAppend DEF EnqTypeOK

\* Every step of the enqueue goroutine leaves it well typed and the tables alone.
LEMMA EnqueueTypeOK ==
  ASSUME TablesTypeOK, EnqTypeOK, EnqueueStep
  PROVE  EnqTypeOK' /\ UNCHANGED tables
<1> USE OneIsAHeight
<1>1. CASE Generate
  BY <1>1, GenerateTypeOK DEF Generate
<1>2. CASE EnqueuePlanned
  <2>1. PICK h \in Heights : SendHeight(h) /\ planned[h] > 0 /\ planned' = [planned EXCEPT ![h] = @ - 1]
    BY <1>2 DEF EnqueuePlanned
  <2>2. planned' \in [Heights -> Nat]
    BY <2>1 DEF EnqTypeOK
  <2>3. QED
    BY <1>2, <2>1, <2>2, SendTypeOK DEF EnqueuePlanned, EnqTypeOK
<1>3. CASE PlannedSent
  BY <1>3 DEF PlannedSent, EnqTypeOK, EnqPcs
<1>4. CASE ExitEnqueue
  BY <1>4 DEF ExitEnqueue, EnqTypeOK, EnqPcs
<1>5. CASE RefreshLatest
  BY <1>5 DEF RefreshLatest, EnqTypeOK, EnqPcs
<1>6. CASE SkipIndexed
  BY <1>6 DEF SkipIndexed, EnqTypeOK, EnqPcs
<1>7. CASE EnqueueNext
  <2>1. currBlock \in Heights
    BY <1>7 DEF EnqueueNext, MoreToFill, EnqTypeOK, MaxInt64, Heights
  <2>2. currBlock' \in Nat \ {0}
    BY <1>7 DEF EnqueueNext, EnqTypeOK
  <2>3. QED
    BY <1>7, <2>1, <2>2, SendTypeOK DEF EnqueueNext, EnqTypeOK
<1>8. CASE StopFilling
  BY <1>8 DEF StopFilling, EnqTypeOK, EnqPcs
<1>9. QED
  BY <1>1, <1>2, <1>3, <1>4, <1>5, <1>6, <1>7, <1>8 DEF EnqueueStep
=============================================================================
