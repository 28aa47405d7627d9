------------------------- MODULE PipelineLedgerProofs -------------------------
(***************************************************************************)
(* IndexerPipeline implements BlockLedger, for every chain, worker set,    *)
(* capacity, loss and crash, when each configuration sends a height at     *)
(* most once (SentOnce: the default function, with neither reindexing nor  *)
(* reattempts).                                                            *)
(*                                                                         *)
(* Everything follows from one fact: of each height there is at most one   *)
(* copy on board the process, and none of a height that is indexed.        *)
(* Aboard is more than InFlight: it has the blocks whose transactions the  *)
(* worker could not get as well, which processBlocks may record once more. *)
(***************************************************************************)
EXTENDS IndexerPipelineProofs, FiniteSetTheorems, WellFoundedInduction

\* Workers that hold a block.
Busy == {w \in Workers : workPc[w] \in Carrying}

\* The heights of a channel of records, in order.
HeightsOf(s) == [i \in DOMAIN s |-> s[i].h]

\* No element twice.
Distinct(s) == \A i, j \in DOMAIN s : s[i] = s[j] => i = j

\* The heights each stage holds, whether undecided or not.
Carried == {workMsg[w].h : w \in Busy}
Published == Range(HeightsOf(redis))
Parsing == IF prsPc = "idle" THEN {} ELSE {prsMsg.h}
ToWrite == Range(HeightsOf(txChan))

Aboard == QueuedHeights \cup Carried \cup Published \cup Parsing \cup ToWrite

\* What one worker holds.
Held(w) == IF workPc[w] \in Carrying THEN {workMsg[w].h} ELSE {}

(* Of each height at most one copy: none twice in a stage and none in two. *)
WorkersApart == \A v, w \in Busy : workMsg[v].h = workMsg[w].h => v = w

StagesApart ==
  /\ QueuedHeights \cap (Carried \cup Published \cup Parsing \cup ToWrite) = {}
  /\ Carried \cap (Published \cup Parsing \cup ToWrite) = {}
  /\ Published \cap (Parsing \cup ToWrite) = {}
  /\ Parsing \cap ToWrite = {}

OneCopy ==
  /\ Distinct(blockChan) /\ Distinct(HeightsOf(redis)) /\ Distinct(HeightsOf(txChan))
  /\ WorkersApart
  /\ StagesApart

(* A message with TxRequestsFailed is of a block recorded as failed, and a worker
   sets it last. *)
WorkersMarked ==
  \A w \in Busy : /\ workMsg[w].txFailed => workMsg[w].h \in failedBlocks
                  /\ workPc[w] \in {"fetch", "failBlock"} => ~workMsg[w].txFailed

RedisMarked == \A m \in Range(redis) : m.txFailed => m.h \in failedBlocks

ParserMarked == prsPc # "idle" => (prsMsg.txFailed => prsMsg.h \in failedBlocks)

MarkedFailed == WorkersMarked /\ RedisMarked /\ ParserMarked

(* Where the enqueue goroutine stands: everything aboard is below currBlock, and
   what is indexed above it is the row it has found or out of its range. *)
Ahead ==
  /\ planned = NothingPlanned
  /\ proc = "down" => enqPc = "init"
  /\ enqPc = "init" => currBlock = 1
  /\ \A h \in Aboard : h < currBlock
  /\ enqPc # "init" =>
       \A h \in txIndexed : h >= currBlock => ~InRange(h) \/ h \in blocksInDB

OnceInv ==
  /\ OneCopy
  /\ MarkedFailed
  /\ Ahead
  /\ Aboard \cap txIndexed = {}
  /\ failedBlocks \cap txIndexed = {}

-----------------------------------------------------------------------------
(* Channels without repetitions. *)

\* Sending something new.
LEMMA DistinctAppend ==
  ASSUME NEW S, NEW s \in Seq(S), NEW x \in S, Distinct(s), x \notin Range(s)
  PROVE  Distinct(Append(s, x))
<1>1. /\ DOMAIN s = 1 .. Len(s) /\ DOMAIN Append(s, x) = 1 .. Len(s) + 1
      /\ Len(s) \in Nat /\ Append(s, x)[Len(s) + 1] = x
      /\ \A i \in 1 .. Len(s) : Append(s, x)[i] = s[i]
  OBVIOUS
<1>2. \A i \in 1 .. Len(s) : s[i] # x
  BY <1>1 DEF Range
<1>3. \A i \in 1 .. Len(s) + 1 : i \in 1 .. Len(s) \/ i = Len(s) + 1
  BY <1>1
<1> QED
  BY <1>1, <1>2, <1>3 DEF Distinct

\* Receiving takes the only copy.
LEMMA DistinctTail ==
  ASSUME NEW S, NEW s \in Seq(S), s # <<>>, Distinct(s)
  PROVE  /\ Distinct(Tail(s))
         /\ Head(s) \in Range(s)
         /\ Range(Tail(s)) = Range(s) \ {Head(s)}
<1>1. /\ Tail(s) \in Seq(S) /\ Len(Tail(s)) = Len(s) - 1 /\ Len(s) \in Nat \ {0}
      /\ Head(s) = s[1]
      /\ DOMAIN s = 1 .. Len(s) /\ DOMAIN Tail(s) = 1 .. Len(s) - 1
  OBVIOUS
<1>2. \A i \in 1 .. Len(s) - 1 : Tail(s)[i] = s[i + 1] /\ i + 1 \in 1 .. Len(s) /\ i + 1 # 1
  BY <1>1
<1>3. 1 \in 1 .. Len(s)
  BY <1>1
<1>4. Distinct(Tail(s))
  <2> SUFFICES ASSUME NEW i \in 1 .. Len(s) - 1, NEW j \in 1 .. Len(s) - 1,
                      Tail(s)[i] = Tail(s)[j]
               PROVE  i = j
    BY <1>1 DEF Distinct
  <2>1. i + 1 = j + 1
    BY <1>1, <1>2 DEF Distinct
  <2> QED
    BY <1>1, <2>1
<1>5. Head(s) \notin Range(Tail(s))
  <2> SUFFICES ASSUME NEW i \in 1 .. Len(s) - 1, Tail(s)[i] = Head(s) PROVE FALSE
    BY <1>1 DEF Range
  <2> QED
    BY <1>1, <1>2, <1>3 DEF Distinct
<1>6. Range(s) = Range(Tail(s)) \cup {Head(s)}
  BY RangeTail
<1> QED
  BY <1>4, <1>5, <1>6

\* Keeping a prefix.
LEMMA DistinctPrefix ==
  ASSUME NEW S, NEW s \in Seq(S), NEW k \in Nat, k <= Len(s), Distinct(s)
  PROVE  /\ Distinct(SubSeq(s, 1, k))
         /\ Range(SubSeq(s, 1, k)) \cap {s[i] : i \in k + 1 .. Len(s)} = {}
<1>1. /\ Len(s) \in Nat /\ DOMAIN s = 1 .. Len(s) /\ DOMAIN SubSeq(s, 1, k) = 1 .. k
      /\ \A i \in 1 .. k : SubSeq(s, 1, k)[i] = s[i]
  OBVIOUS
<1>2. \A i \in 1 .. k : i \in 1 .. Len(s)
  BY <1>1
<1>3. \A i \in 1 .. k, j \in k + 1 .. Len(s) : j \in 1 .. Len(s) /\ i # j
  BY <1>1
<1>4. Distinct(SubSeq(s, 1, k))
  BY <1>1, <1>2 DEF Distinct
<1>5. \A i \in 1 .. k, j \in k + 1 .. Len(s) : s[i] # s[j]
  BY <1>1, <1>2, <1>3 DEF Distinct
<1>6. Range(SubSeq(s, 1, k)) = {s[i] : i \in 1 .. k}
  BY RangePrefix
<1> QED
  BY <1>4, <1>5, <1>6

\* The heights of a channel of records.
LEMMA HeightsType ==
  ASSUME NEW S, \A x \in S : x.h \in Heights, NEW s \in Seq(S)
  PROVE  /\ HeightsOf(s) \in Seq(Heights)
         /\ DOMAIN HeightsOf(s) = DOMAIN s /\ Len(HeightsOf(s)) = Len(s)
         /\ Range(HeightsOf(s)) = {x.h : x \in Range(s)}
<1>1. DOMAIN s = 1 .. Len(s) /\ Len(s) \in Nat /\ \A i \in 1 .. Len(s) : s[i] \in S
  OBVIOUS
<1>2. HeightsOf(s) \in [1 .. Len(s) -> Heights]
  BY <1>1 DEF HeightsOf
<1>3. HeightsOf(s) \in Seq(Heights) /\ Len(HeightsOf(s)) = Len(s)
  BY <1>1, <1>2
<1> QED
  BY <1>1, <1>3 DEF Range, HeightsOf

\* Those after a send,
LEMMA HeightsAppend ==
  ASSUME NEW S, \A x \in S : x.h \in Heights, NEW s \in Seq(S), NEW x \in S
  PROVE  HeightsOf(Append(s, x)) = Append(HeightsOf(s), x.h)
<1>1. /\ DOMAIN s = 1 .. Len(s) /\ DOMAIN Append(s, x) = 1 .. Len(s) + 1
      /\ Len(s) \in Nat /\ Append(s, x)[Len(s) + 1] = x /\ Append(s, x) \in Seq(S)
      /\ \A i \in 1 .. Len(s) : Append(s, x)[i] = s[i]
  OBVIOUS
<1>2. HeightsOf(s) \in Seq(Heights) /\ Len(HeightsOf(s)) = Len(s)
  BY HeightsType
<1>3. \A i \in 1 .. Len(s) + 1 : i \in 1 .. Len(s) \/ i = Len(s) + 1
  BY <1>1
<1> DEFINE a == HeightsOf(Append(s, x))
           b == Append(HeightsOf(s), x.h)
<1>a. Append(s, x) \in Seq(S) /\ Len(Append(s, x)) = Len(s) + 1
  OBVIOUS
<1>4. a \in Seq(Heights) /\ Len(a) = Len(s) + 1
  BY <1>a, HeightsType
<1>5. b \in Seq(Heights) /\ Len(b) = Len(s) + 1
  BY <1>2
<1>6. \A i \in 1 .. Len(s) + 1 : a[i] = b[i]
  BY <1>1, <1>2, <1>3 DEF HeightsOf
<1> HIDE DEF a, b
<1>7. a = b
  BY <1>4, <1>5, <1>6
<1> QED
  BY <1>7 DEF a, b

\* before a receive
LEMMA HeightsTail ==
  ASSUME NEW S, \A x \in S : x.h \in Heights, NEW s \in Seq(S), s # <<>>
  PROVE  /\ HeightsOf(Tail(s)) = Tail(HeightsOf(s))
         /\ HeightsOf(s) # <<>> /\ Head(HeightsOf(s)) = Head(s).h
<1>1. /\ Tail(s) \in Seq(S) /\ Len(Tail(s)) = Len(s) - 1 /\ Len(s) \in Nat \ {0}
      /\ Head(s) = s[1]
      /\ DOMAIN s = 1 .. Len(s) /\ DOMAIN Tail(s) = 1 .. Len(s) - 1
  OBVIOUS
<1>2. \A i \in 1 .. Len(s) - 1 : Tail(s)[i] = s[i + 1] /\ i + 1 \in 1 .. Len(s)
  BY <1>1
<1>3. HeightsOf(s) \in Seq(Heights) /\ Len(HeightsOf(s)) = Len(s)
  BY HeightsType
<1> DEFINE a == HeightsOf(Tail(s))
           b == Tail(HeightsOf(s))
<1>4. a \in Seq(Heights) /\ Len(a) = Len(s) - 1
  BY <1>1, HeightsType
<1>5. b \in Seq(Heights) /\ Len(b) = Len(s) - 1
  BY <1>1, <1>3
<1>6. \A i \in 1 .. Len(s) - 1 : b[i] = HeightsOf(s)[i + 1]
  BY <1>1, <1>3
<1>7. \A i \in 1 .. Len(s) - 1 : a[i] = b[i]
  BY <1>1, <1>2, <1>6 DEF HeightsOf
<1>8. HeightsOf(s) # <<>> /\ Head(HeightsOf(s)) = HeightsOf(s)[1]
  BY <1>1, <1>3
<1>9. HeightsOf(s)[1] = s[1].h
  BY <1>1 DEF HeightsOf
<1> HIDE DEF a, b
<1>10. a = b
  BY <1>4, <1>5, <1>7
<1> QED
  BY <1>1, <1>8, <1>9, <1>10 DEF a, b

\* and of a prefix.
LEMMA HeightsPrefix ==
  ASSUME NEW S, \A x \in S : x.h \in Heights, NEW s \in Seq(S), NEW k \in Nat, k <= Len(s)
  PROVE  HeightsOf(SubSeq(s, 1, k)) = SubSeq(HeightsOf(s), 1, k)
<1>1. /\ Len(s) \in Nat /\ DOMAIN s = 1 .. Len(s) /\ DOMAIN SubSeq(s, 1, k) = 1 .. k
      /\ SubSeq(s, 1, k) \in Seq(S) /\ Len(SubSeq(s, 1, k)) = k
      /\ \A i \in 1 .. k : SubSeq(s, 1, k)[i] = s[i] /\ i \in 1 .. Len(s)
  OBVIOUS
<1>2. HeightsOf(s) \in Seq(Heights) /\ Len(HeightsOf(s)) = Len(s)
  BY HeightsType
<1> DEFINE a == HeightsOf(SubSeq(s, 1, k))
           b == SubSeq(HeightsOf(s), 1, k)
<1>3. a \in Seq(Heights) /\ Len(a) = k
  BY <1>1, HeightsType
<1>4. b \in Seq(Heights) /\ Len(b) = k
  BY <1>1, <1>2
<1>5. \A i \in 1 .. k : b[i] = HeightsOf(s)[i]
  BY <1>1, <1>2
<1>6. \A i \in 1 .. k : a[i] = b[i]
  BY <1>1, <1>5 DEF HeightsOf
<1> HIDE DEF a, b
<1>7. a = b
  BY <1>3, <1>4, <1>6
<1> QED
  BY <1>7 DEF a, b

-----------------------------------------------------------------------------
(* The stages.                                                             *)

\* The undecided heights of a stage are among those it holds.
StagesHold ==
  /\ QueuedHeights \subseteq Heights
  /\ WorkerHeights \subseteq Carried /\ Carried \subseteq Heights
  /\ RedisHeights \subseteq Published /\ Published = {m.h : m \in Range(redis)}
  /\ Published \subseteq Heights
  /\ ParserHeights \subseteq Parsing /\ Parsing \subseteq Heights
  /\ TxChanHeights = ToWrite /\ ToWrite \subseteq Heights
  /\ InFlight \subseteq Aboard /\ Aboard \subseteq Heights

\* They do in every well-typed state.
LEMMA StagesType == TypeOK => StagesHold
<1> SUFFICES ASSUME TypeOK PROVE StagesHold
  OBVIOUS
<1>1. QueuedHeights \subseteq Heights
  BY DEF QueuedHeights, Range, TypeOK, EnqTypeOK
<1>2. WorkerHeights \subseteq Carried /\ Carried \subseteq Heights
  BY DEF WorkerHeights, Carried, Busy, Carrying, TypeOK, Messages
<1>3. /\ HeightsOf(redis) \in Seq(Heights)
      /\ Range(HeightsOf(redis)) = {m.h : m \in Range(redis)}
  BY HeightsType, MessageTypes DEF TypeOK
<1>4. RedisHeights \subseteq Published /\ Published = {m.h : m \in Range(redis)}
  BY <1>3 DEF RedisHeights, Published
<1>5. /\ HeightsOf(txChan) \in Seq(Heights)
      /\ Range(HeightsOf(txChan)) = {d.h : d \in Range(txChan)}
  BY HeightsType DEF TypeOK, TxData
<1>6. Published \subseteq Heights /\ ToWrite \subseteq Heights
  BY <1>3, <1>5 DEF Range, Published, ToWrite
<1>7. ParserHeights \subseteq Parsing /\ Parsing \subseteq Heights
  BY DEF ParserHeights, Parsing, TypeOK, Messages
<1>8. TxChanHeights = ToWrite
  BY <1>5 DEF TxChanHeights, ToWrite
<1> QED
  BY <1>1, <1>2, <1>4, <1>6, <1>7, <1>8 DEF StagesHold, InFlight, Aboard

\* And in the next.
LEMMA StagesNext == TypeOK' => StagesHold'
  BY StagesType, PTL

\* What a step of one worker does to what the workers hold.
LEMMA WorkerSets ==
  ASSUME TypeOK, WorkersApart, NEW w \in Workers, NEW pc, NEW m, SetWorker(w, pc, m)
  PROVE  /\ Held(w) \subseteq Carried
         /\ Held(w)' = (IF pc \in Carrying THEN {m.h} ELSE {})
         /\ Carried' = (Carried \ Held(w)) \cup Held(w)'
         /\ WorkerHeights' = (WorkerHeights \ Held(w))
                               \cup (IF Undecided(m) THEN Held(w)' ELSE {})
         /\ Held(w) \cap WorkerHeights = IF Undecided(workMsg[w]) THEN Held(w) ELSE {}
         /\ Held(w)' \cap (Carried \ Held(w)) = {} => WorkersApart'
<1>1. /\ workPc'[w] = pc /\ workMsg'[w] = m
      /\ \A v \in Workers \ {w} : workPc'[v] = workPc[v] /\ workMsg'[v] = workMsg[v]
  BY DEF SetWorker, TypeOK
<1>2. /\ Held(w) \subseteq Carried
      /\ Held(w)' = (IF pc \in Carrying THEN {m.h} ELSE {})
  BY <1>1 DEF Held, Carried, Busy
<1>3. \A h : h \in Carried \ Held(w) <=>
               \E v \in Workers \ {w} : workPc[v] \in Carrying /\ workMsg[v].h = h
  BY DEF Held, Carried, Busy, WorkersApart
<1>4. \A h : h \in Carried' <=> \/ h \in Held(w)'
                                \/ \E v \in Workers \ {w} : workPc[v] \in Carrying /\ workMsg[v].h = h
  BY <1>1 DEF Held, Carried, Busy
<1>5. Carried' = (Carried \ Held(w)) \cup Held(w)'
  BY <1>3, <1>4
<1>6. \A h : h \in WorkerHeights \ Held(w) <=>
               \E v \in Workers \ {w} :
                 workPc[v] \in Carrying /\ Undecided(workMsg[v]) /\ workMsg[v].h = h
  BY DEF Held, WorkerHeights, Busy, Carrying, WorkersApart
<1>7. \A h : h \in WorkerHeights' <=>
               \/ h \in Held(w)' /\ Undecided(m)
               \/ \E v \in Workers \ {w} :
                    workPc[v] \in Carrying /\ Undecided(workMsg[v]) /\ workMsg[v].h = h
  BY <1>1 DEF Held, WorkerHeights, Carrying, Undecided
<1>8. WorkerHeights' = (WorkerHeights \ Held(w)) \cup (IF Undecided(m) THEN Held(w)' ELSE {})
  BY <1>6, <1>7
<1>9. Held(w) \cap WorkerHeights = IF Undecided(workMsg[w]) THEN Held(w) ELSE {}
  BY DEF Held, WorkerHeights, Busy, Carrying, WorkersApart
<1>10. ASSUME Held(w)' \cap (Carried \ Held(w)) = {}
       PROVE  WorkersApart'
  <2> SUFFICES ASSUME NEW u \in Workers, NEW v \in Workers, workPc'[u] \in Carrying,
                      workPc'[v] \in Carrying, workMsg'[u].h = workMsg'[v].h, u # v
               PROVE  FALSE
    BY DEF WorkersApart, Busy
  <2>1. CASE u # w /\ v # w
    BY <1>1, <2>1 DEF WorkersApart, Busy
  <2>2. CASE u = w
    BY <1>1, <1>2, <1>3, <1>10, <2>2
  <2>3. CASE v = w
    BY <1>1, <1>2, <1>3, <1>10, <2>3
  <2> QED
    BY <2>1, <2>2, <2>3
<1> QED
  BY <1>2, <1>5, <1>8, <1>9, <1>10

\* What it does to the marks.
LEMMA WorkerMarks ==
  ASSUME TypeOK, WorkersMarked, NEW w \in Workers, NEW pc, NEW m, SetWorker(w, pc, m),
         failedBlocks \subseteq failedBlocks',
         pc \in Carrying => /\ m.txFailed => m.h \in failedBlocks'
                            /\ pc \in {"fetch", "failBlock"} => ~m.txFailed
  PROVE  WorkersMarked'
<1>1. /\ workPc'[w] = pc /\ workMsg'[w] = m
      /\ \A v \in Workers \ {w} : workPc'[v] = workPc[v] /\ workMsg'[v] = workMsg[v]
  BY DEF SetWorker, TypeOK
<1> SUFFICES ASSUME NEW v \in Workers, workPc'[v] \in Carrying
             PROVE  /\ workMsg'[v].txFailed => workMsg'[v].h \in failedBlocks'
                    /\ workPc'[v] \in {"fetch", "failBlock"} => ~workMsg'[v].txFailed
  BY DEF WorkersMarked, Busy
<1>2. CASE v = w
  BY <1>1, <1>2
<1>3. CASE v # w
  BY <1>1, <1>3 DEF WorkersMarked, Busy
<1> QED
  BY <1>2, <1>3

\* The position of the enqueue goroutine is right as long as nothing new is on
\* board and only what was on board is indexed.
LEMMA AheadStays ==
  ASSUME Ahead, UNCHANGED <<config, enqPc, planned, currBlock, blocksInDB, proc>>,
         Aboard' \subseteq Aboard, txIndexed' \subseteq txIndexed \cup Aboard, TypeOK,
         StagesHold
  PROVE  Ahead'
<1>1. Aboard \subseteq Int /\ currBlock \in Int
  BY DEF StagesHold, Heights, TypeOK, EnqTypeOK
<1>2. \A h : InRange(h)' = InRange(h)
  BY DEF InRange
<1>3. \A h \in Aboard : ~(h >= currBlock)
  BY <1>1 DEF Ahead
<1> QED
  BY <1>2, <1>3 DEF Ahead

-----------------------------------------------------------------------------
(* The steps of the ledger.                                                *)

LedgerStep == [Ledger!Next]_(Ledger!ledger)

\* A step of the pipeline that changes none of the four.
LEMMA LedgerStutters ==
  ASSUME UNCHANGED <<InFlight, txIndexed, failedBlocks, lost>>
  PROVE  LedgerStep
  BY DEF LedgerStep, Ledger!ledger

\* One that puts a height on blockEnqueueChan,
LEMMA LedgerRequests ==
  ASSUME NEW h \in Heights, h \notin InFlight \cup txIndexed,
         InFlight' = InFlight \cup {h}, UNCHANGED <<txIndexed, failedBlocks, lost>>
  PROVE  LedgerStep
<1>1. Ledger!Request(h)
  BY DEF Ledger!Request
<1> QED
  BY <1>1 DEF LedgerStep, Ledger!Next

\* writes a block's transactions,
LEMMA LedgerIndexes ==
  ASSUME NEW h \in Heights, h \in InFlight, InFlight' = InFlight \ {h},
         txIndexed' = txIndexed \cup {h}, failedBlocks' = failedBlocks \ {h}, UNCHANGED lost
  PROVE  LedgerStep
<1>1. Ledger!Index(h)
  BY DEF Ledger!Index
<1> QED
  BY <1>1 DEF LedgerStep, Ledger!Next

\* records a block as failed
LEMMA LedgerFails ==
  ASSUME NEW h \in Heights, h \in InFlight, InFlight' = InFlight \ {h},
         failedBlocks' = failedBlocks \cup {h}, UNCHANGED <<txIndexed, lost>>
  PROVE  LedgerStep
<1>1. Ledger!Fail(h)
  BY DEF Ledger!Fail
<1> QED
  BY <1>1 DEF LedgerStep, Ledger!Next

\* or drops some.
LEMMA LedgerLoses ==
  ASSUME NEW S, S \subseteq InFlight, InFlight' = InFlight \ S, lost' = lost \cup S,
         UNCHANGED <<txIndexed, failedBlocks>>
  PROVE  LedgerStep
<1>1. Ledger!Lose(S) /\ S \in SUBSET InFlight
  BY DEF Ledger!Lose
<1> QED
  BY <1>1 DEF LedgerStep, Ledger!Next

-----------------------------------------------------------------------------
(* The RPC workers.                                                        *)

\* A worker that keeps its block, or records it as failed.
LEMMA WorkerKeeps ==
  ASSUME TypeOK, StagesHold, OnceInv, NEW w \in Workers, NEW pc \in Carrying, NEW m,
         workPc[w] \in Carrying, SetWorker(w, pc, m), m.h = workMsg[w].h,
         UNCHANGED <<blockChan, redis, prsPc, prsMsg, txChan, lost, txIndexed, config, enqPc,
                     planned, currBlock, blocksInDB, proc>>,
         \/ failedBlocks' = failedBlocks /\ m.txFailed = workMsg[w].txFailed
         \/ failedBlocks' = failedBlocks \cup {m.h} /\ m.txFailed /\ ~workMsg[w].txFailed,
         pc \in {"fetch", "failBlock"} => ~m.txFailed
  PROVE  OnceInv' /\ LedgerStep
<1> DEFINE h == workMsg[w].h
<1>1. /\ QueuedHeights' = QueuedHeights /\ Published' = Published /\ Parsing' = Parsing
      /\ ToWrite' = ToWrite /\ RedisHeights' = RedisHeights /\ ParserHeights' = ParserHeights
      /\ TxChanHeights' = TxChanHeights /\ HeightsOf(redis)' = HeightsOf(redis)
      /\ HeightsOf(txChan)' = HeightsOf(txChan)
  BY DEF QueuedHeights, Published, Parsing, ToWrite, RedisHeights, ParserHeights, TxChanHeights,
         HeightsOf
<1>2. /\ Held(w) = {h} /\ Held(w)' = {h} /\ h \in Carried /\ h \in Heights
      /\ Carried' = (Carried \ {h}) \cup {h}
      /\ WorkerHeights' = (WorkerHeights \ {h}) \cup (IF Undecided(m) THEN {h} ELSE {})
      /\ {h} \cap WorkerHeights = IF Undecided(workMsg[w]) THEN {h} ELSE {}
      /\ WorkersApart'
  BY WorkerSets DEF Held, OnceInv, OneCopy, StagesHold
<1> HIDE DEF h
<1>3. Carried' = Carried
  BY <1>2
<1>4. OneCopy'
  BY <1>1, <1>2, <1>3 DEF OnceInv, OneCopy, StagesApart
<1>5. Aboard' = Aboard
  BY <1>1, <1>3 DEF Aboard
<1>6. Ahead'
  BY <1>5, AheadStays DEF OnceInv
<1>7. /\ m.txFailed => m.h \in failedBlocks'
      /\ failedBlocks' \subseteq failedBlocks \cup {h}
      /\ failedBlocks \subseteq failedBlocks'
  BY DEF OnceInv, MarkedFailed, WorkersMarked, Busy, h
<1>8. WorkersMarked'
  BY <1>7, WorkerMarks DEF OnceInv, MarkedFailed
<1>9. MarkedFailed'
  BY <1>7, <1>8 DEF OnceInv, MarkedFailed, RedisMarked, ParserMarked
<1>10. h \in Aboard /\ h \notin txIndexed
  BY <1>2 DEF Aboard, OnceInv
<1>11. OnceInv'
  BY <1>4, <1>5, <1>6, <1>7, <1>9, <1>10 DEF OnceInv
<1>12. CASE failedBlocks' = failedBlocks /\ m.txFailed = workMsg[w].txFailed
  <2>1. WorkerHeights' = WorkerHeights
    BY <1>2, <1>12 DEF Undecided
  <2>2. InFlight' = InFlight
    BY <1>1, <2>1 DEF InFlight
  <2> QED
    BY <1>11, <1>12, <2>2, LedgerStutters
<1>13. CASE failedBlocks' = failedBlocks \cup {m.h} /\ m.txFailed /\ ~workMsg[w].txFailed
  <2>1. WorkerHeights' = WorkerHeights \ {h} /\ h \in WorkerHeights
    BY <1>2, <1>13 DEF Undecided
  <2>2. InFlight' = InFlight \ {h} /\ h \in InFlight
    BY <1>1, <1>2, <2>1 DEF InFlight, OnceInv, OneCopy, StagesApart, StagesHold
  <2>3. m.h = h
    BY DEF h
  <2> QED
    BY <1>2, <1>11, <1>13, <2>2, <2>3, LedgerFails
<1> QED
  BY <1>12, <1>13

\* A worker that takes nothing and leaves nothing.
LEMMA WorkerEnds ==
  ASSUME TypeOK, StagesHold, OnceInv, NEW w \in Workers, NEW pc, NEW m,
         workPc[w] \notin Carrying, pc \notin Carrying, SetWorker(w, pc, m),
         UNCHANGED <<blockChan, redis, prsPc, prsMsg, txChan, lost, txIndexed, failedBlocks,
                     config, enqPc, planned, currBlock, blocksInDB, proc>>
  PROVE  OnceInv' /\ LedgerStep
<1>1. /\ QueuedHeights' = QueuedHeights /\ Published' = Published /\ Parsing' = Parsing
      /\ ToWrite' = ToWrite /\ RedisHeights' = RedisHeights /\ ParserHeights' = ParserHeights
      /\ TxChanHeights' = TxChanHeights /\ HeightsOf(redis)' = HeightsOf(redis)
      /\ HeightsOf(txChan)' = HeightsOf(txChan)
  BY DEF QueuedHeights, Published, Parsing, ToWrite, RedisHeights, ParserHeights, TxChanHeights,
         HeightsOf
<1>2. /\ Held(w) = {} /\ Held(w)' = {} /\ WorkersApart'
      /\ Carried' = Carried /\ WorkerHeights' = WorkerHeights
  BY WorkerSets DEF Held, OnceInv, OneCopy
<1>3. OneCopy'
  BY <1>1, <1>2 DEF OnceInv, OneCopy, StagesApart
<1>4. Aboard' = Aboard /\ InFlight' = InFlight
  BY <1>1, <1>2 DEF Aboard, InFlight
<1>5. Ahead'
  BY <1>4, AheadStays DEF OnceInv
<1>6. WorkersMarked'
  BY WorkerMarks DEF OnceInv, MarkedFailed
<1>7. MarkedFailed'
  BY <1>6 DEF OnceInv, MarkedFailed, RedisMarked, ParserMarked
<1> QED
  BY <1>3, <1>4, <1>5, <1>7, LedgerStutters DEF OnceInv

\* A worker that takes a block from the channel.
LEMMA TakeOnce ==
  ASSUME TypeOK, StagesHold, OnceInv, NEW w \in Workers, TakeBlock(w)
  PROVE  OnceInv' /\ LedgerStep
<1> DEFINE h == Head(blockChan)
           m == NewMessage(h)
<1>0. /\ workPc[w] = "idle" /\ blockChan # <<>> /\ SetWorker(w, "fetch", m)
      /\ blockChan' = Tail(blockChan)
      /\ UNCHANGED <<redis, prsPc, prsMsg, txChan, lost, config, enqPc, planned, currBlock,
                     blocksInDB, proc>>
      /\ UNCHANGED <<txIndexed, failedBlocks>>
  BY DEF TakeBlock, workFrame, pipeVars, prsVars, history, tables
<1>m. m.h = h /\ ~m.txFailed /\ Undecided(m)
  BY DEF NewMessage, Undecided
<1>q. /\ Distinct(blockChan') /\ h \in QueuedHeights
      /\ QueuedHeights' = QueuedHeights \ {h}
  BY <1>0, DistinctTail DEF OnceInv, OneCopy, TypeOK, EnqTypeOK, QueuedHeights
<1> HIDE DEF h, m
<1>1. /\ Published' = Published /\ Parsing' = Parsing
      /\ ToWrite' = ToWrite /\ RedisHeights' = RedisHeights /\ ParserHeights' = ParserHeights
      /\ TxChanHeights' = TxChanHeights /\ HeightsOf(redis)' = HeightsOf(redis)
      /\ HeightsOf(txChan)' = HeightsOf(txChan)
  BY <1>0 DEF Published, Parsing, ToWrite, RedisHeights, ParserHeights, TxChanHeights, HeightsOf
<1>2. h \notin Carried
  BY <1>q DEF OnceInv, OneCopy, StagesApart
<1>w. /\ Held(w)' = {h} /\ Carried' = (Carried \ Held(w)) \cup Held(w)'
      /\ WorkerHeights' = (WorkerHeights \ Held(w)) \cup Held(w)'
      /\ Held(w)' \cap (Carried \ Held(w)) = {} => WorkersApart'
  <2>1. WorkersApart /\ "fetch" \in Carrying
    BY DEF OnceInv, OneCopy, Carrying
  <2> QED
    BY <1>0, <1>m, <2>1, WorkerSets
<1>3. /\ Held(w) = {} /\ Held(w)' = {h} /\ WorkersApart'
      /\ Carried' = Carried \cup {h} /\ WorkerHeights' = WorkerHeights \cup {h}
  <2>1. Held(w) = {}
    BY <1>0 DEF Held, Carrying
  <2> QED
    BY <1>w, <1>2, <2>1
<1>4. OneCopy'
  BY <1>q, <1>1, <1>2, <1>3 DEF OnceInv, OneCopy, StagesApart
<1>5. Aboard' = Aboard /\ InFlight' = InFlight
  BY <1>q, <1>1, <1>3 DEF Aboard, InFlight
<1>6. Ahead'
  BY <1>0, <1>5, AheadStays DEF OnceInv
<1>7. WorkersMarked'
  BY <1>0, <1>m, WorkerMarks DEF OnceInv, MarkedFailed, Carrying
<1>8. MarkedFailed'
  BY <1>0, <1>7 DEF OnceInv, MarkedFailed, RedisMarked, ParserMarked
<1> QED
  BY <1>0, <1>4, <1>5, <1>6, <1>8, LedgerStutters DEF OnceInv

\* A worker that gives its block up and records it.
LEMMA FailBlockOnce ==
  ASSUME TypeOK, StagesHold, OnceInv, NEW w \in Workers, FetchFailBlock(w)
  PROVE  OnceInv' /\ LedgerStep
<1> DEFINE h == workMsg[w].h
<1>0. /\ workPc[w] = "failBlock" /\ SetWorker(w, "idle", NoMessage)
      /\ failedBlocks' = failedBlocks \cup {h}
      /\ UNCHANGED <<blockChan, redis, prsPc, prsMsg, txChan, lost, config, enqPc, planned,
                     currBlock, blocksInDB, proc, txIndexed>>
  BY DEF FetchFailBlock, UpsertFailedBlock, workFrame, pipeVars, prsVars, history, enqVars
<1>1. /\ QueuedHeights' = QueuedHeights /\ Published' = Published /\ Parsing' = Parsing
      /\ ToWrite' = ToWrite /\ RedisHeights' = RedisHeights /\ ParserHeights' = ParserHeights
      /\ TxChanHeights' = TxChanHeights /\ HeightsOf(redis)' = HeightsOf(redis)
      /\ HeightsOf(txChan)' = HeightsOf(txChan)
  BY <1>0 DEF QueuedHeights, Published, Parsing, ToWrite, RedisHeights, ParserHeights,
              TxChanHeights, HeightsOf
<1>u. Undecided(workMsg[w])
  BY <1>0 DEF OnceInv, MarkedFailed, WorkersMarked, Busy, Carrying, Undecided
<1>w. /\ Held(w)' = {} /\ Carried' = (Carried \ Held(w)) \cup Held(w)'
      /\ WorkerHeights' \subseteq (WorkerHeights \ Held(w)) \cup Held(w)'
      /\ WorkerHeights \ Held(w) \subseteq WorkerHeights'
      /\ Held(w) \subseteq Carried /\ Held(w) \cap WorkerHeights = Held(w)
      /\ Held(w)' \cap (Carried \ Held(w)) = {} => WorkersApart'
  <2>1. WorkersApart /\ "idle" \notin Carrying
    BY DEF OnceInv, OneCopy, Carrying
  <2> QED
    BY <1>0, <1>u, <2>1, WorkerSets
<1>h. Held(w) = {h}
  BY <1>0 DEF Held, Carrying
<1> HIDE DEF h
<1>2. /\ WorkersApart' /\ Carried' = Carried \ {h} /\ WorkerHeights' = WorkerHeights \ {h}
      /\ h \in WorkerHeights /\ h \in Carried /\ h \in Heights
  BY <1>w, <1>h DEF StagesHold
<1>3. OneCopy'
  <2>1. StagesApart'
    BY <1>1, <1>2 DEF OnceInv, OneCopy, StagesApart
  <2> QED
    BY <1>0, <1>1, <1>2, <2>1 DEF OnceInv, OneCopy
<1>4. Aboard' \subseteq Aboard /\ h \in Aboard /\ h \notin txIndexed
  BY <1>1, <1>2 DEF Aboard, OnceInv
<1>5. InFlight' = InFlight \ {h} /\ h \in InFlight
  BY <1>1, <1>2 DEF InFlight, OnceInv, OneCopy, StagesApart, StagesHold
<1>6. Ahead'
  BY <1>0, <1>4, AheadStays DEF OnceInv
<1>7. WorkersMarked'
  BY <1>0, WorkerMarks DEF OnceInv, MarkedFailed, Carrying
<1>8. MarkedFailed'
  BY <1>0, <1>7 DEF OnceInv, MarkedFailed, RedisMarked, ParserMarked
<1>9. LedgerStep
  BY <1>0, <1>2, <1>5, LedgerFails
<1> QED
  BY <1>0, <1>3, <1>4, <1>6, <1>8, <1>9 DEF OnceInv

\* Every step of a worker.
LEMMA WorkerOnce ==
  ASSUME TypeOK, StagesHold, OnceInv, NEW w \in Workers, Worker(w)
  PROVE  OnceInv' /\ LedgerStep
<1> USE DEF Carrying
<1>1. CASE WorkerExits(w)
  BY <1>1, WorkerEnds
  DEF WorkerExits, workFrame, pipeVars, prsVars, history, enqVars, tables
<1>2. ASSUME workPc[w] = "fetch"
      PROVE  ~workMsg[w].txFailed /\ w \in Busy
  BY <1>2 DEF OnceInv, MarkedFailed, WorkersMarked, Busy
<1>3. ASSUME UNCHANGED <<enqVars, workFrame>>
      PROVE  UNCHANGED <<blockChan, redis, prsPc, prsMsg, txChan, lost, config, enqPc, planned,
                         currBlock, blocksInDB, proc>>
  BY <1>3 DEF workFrame, pipeVars, prsVars, history, enqVars
<1>k. ASSUME NEW m, workPc[w] = "fetch", SetWorker(w, "send", m), m.h = workMsg[w].h,
             UNCHANGED <<enqVars, workFrame, txIndexed>>,
             \/ failedBlocks' = failedBlocks /\ m.txFailed = workMsg[w].txFailed
             \/ failedBlocks' = failedBlocks \cup {m.h} /\ m.txFailed
      PROVE  OnceInv' /\ LedgerStep
  BY <1>2, <1>3, <1>k, "send" \in Carrying, WorkerKeeps
<1>4. CASE FetchGetBlockFails(w)
  BY <1>2, <1>3, <1>4, WorkerKeeps DEF FetchGetBlockFails, UpsertFailedEventBlock
<1>5. CASE FetchTxs(w)
  <2>1. PICK a : SetWorker(w, "send", [workMsg[w] EXCEPT !.txs = a])
    BY <1>5 DEF FetchTxs
  <2>2. /\ [workMsg[w] EXCEPT !.txs = a].h = workMsg[w].h
        /\ [workMsg[w] EXCEPT !.txs = a].txFailed = workMsg[w].txFailed
    BY DEF TypeOK, Messages
  <2>3. UNCHANGED <<txIndexed, failedBlocks>> /\ workPc[w] = "fetch"
    BY <1>5 DEF FetchTxs, tables
  <2> QED
    BY <1>5, <1>k, <2>1, <2>2, <2>3 DEF FetchTxs
<1>6. CASE FetchBlockResults(w)
  <2>1. /\ [workMsg[w] EXCEPT !.results = "full"].h = workMsg[w].h
        /\ [workMsg[w] EXCEPT !.results = "full"].txFailed = workMsg[w].txFailed
    BY DEF TypeOK, Messages
  <2>2. UNCHANGED <<txIndexed, failedBlocks>> /\ workPc[w] = "fetch"
    BY <1>6 DEF FetchBlockResults, tables
  <2> QED
    BY <1>6, <1>k, <2>1, <2>2 DEF FetchBlockResults
<1>7. CASE FetchTxsFails(w)
  <2>1. /\ [workMsg[w] EXCEPT !.txFailed = TRUE].h = workMsg[w].h
        /\ [workMsg[w] EXCEPT !.txFailed = TRUE].txFailed
    BY DEF TypeOK, Messages
  <2> QED
    BY <1>7, <1>k, <2>1 DEF FetchTxsFails, UpsertFailedBlock
<1> QED
  BY <1>1, <1>4, <1>5, <1>6, <1>7, TakeOnce, FailBlockOnce DEF Worker

-----------------------------------------------------------------------------
(* The publisher and Redis.                                                *)

\* A worker hands its message over, and is left with none.
LEMMA HandsOver ==
  ASSUME TypeOK, StagesHold, OnceInv, NEW w \in Workers, Publish(w)
  PROVE  /\ workMsg[w].h \in Carried /\ workMsg[w].h \in Heights
         /\ Carried' = Carried \ {workMsg[w].h}
         /\ WorkerHeights' = WorkerHeights \ {workMsg[w].h}
         /\ workMsg[w].h \in WorkerHeights <=> Undecided(workMsg[w])
         /\ WorkersApart'
         /\ failedBlocks' = failedBlocks => WorkersMarked'
<1>1. workPc[w] = "send" /\ SetWorker(w, "idle", NoMessage)
  BY DEF Publish, PublishDelivered, PublishLost
<1>2. WorkersApart /\ WorkersMarked /\ "idle" \notin Carrying
  BY DEF OnceInv, OneCopy, MarkedFailed, Carrying
<1>3. Held(w) = {workMsg[w].h}
  BY <1>1 DEF Held, Carrying
<1>4. /\ Held(w) \subseteq Carried /\ Held(w)' = {} /\ Carried' = (Carried \ Held(w)) \cup Held(w)'
      /\ WorkerHeights' \subseteq (WorkerHeights \ Held(w)) \cup Held(w)'
      /\ WorkerHeights \ Held(w) \subseteq WorkerHeights'
      /\ Held(w) \cap WorkerHeights = IF Undecided(workMsg[w]) THEN Held(w) ELSE {}
      /\ Held(w)' \cap (Carried \ Held(w)) = {} => WorkersApart'
  BY <1>1, <1>2, WorkerSets
<1>5. failedBlocks' = failedBlocks => WorkersMarked'
  BY <1>1, <1>2, WorkerMarks
<1> QED
  BY <1>3, <1>4, <1>5 DEF StagesHold

\* The publisher delivers it,
LEMMA DeliverOnce ==
  ASSUME TypeOK, StagesHold, OnceInv, NEW w \in Workers, PublishDelivered(w)
  PROVE  OnceInv' /\ LedgerStep
<1> DEFINE m == workMsg[w]
<1>0. /\ redis' = Append(redis, m) /\ workPc[w] = "send"
      /\ UNCHANGED <<blockChan, prsPc, prsMsg, txChan, lost, config, enqPc, planned,
                     currBlock, blocksInDB, proc>>
      /\ UNCHANGED <<txIndexed, failedBlocks>>
  BY DEF PublishDelivered, pipeFrame, prsVars, enqVars, tables
<1>1. /\ QueuedHeights' = QueuedHeights /\ Parsing' = Parsing /\ ToWrite' = ToWrite
      /\ ParserHeights' = ParserHeights /\ TxChanHeights' = TxChanHeights
      /\ HeightsOf(txChan)' = HeightsOf(txChan)
  BY <1>0 DEF QueuedHeights, Parsing, ToWrite, ParserHeights, TxChanHeights, HeightsOf
<1>2. /\ m.h \in Carried /\ m.h \in Heights
      /\ Carried' = Carried \ {m.h} /\ WorkerHeights' = WorkerHeights \ {m.h}
      /\ m.h \in WorkerHeights <=> Undecided(m)
      /\ WorkersApart' /\ WorkersMarked'
  BY <1>0, HandsOver DEF Publish
<1>3. redis \in Seq(Messages) /\ m \in Messages /\ \A x \in Messages : x.h \in Heights
  BY MessageTypes DEF TypeOK
<1>f. m.txFailed => m.h \in failedBlocks
  BY <1>0 DEF OnceInv, MarkedFailed, WorkersMarked, Busy, Carrying
<1> HIDE DEF m
<1>4. Range(redis') = Range(redis) \cup {m}
  BY <1>0, <1>3, RangeAppend
<1>5. /\ HeightsOf(redis) \in Seq(Heights) /\ HeightsOf(redis)' = Append(HeightsOf(redis), m.h)
  BY <1>0, <1>3, HeightsType, HeightsAppend DEF HeightsOf
<1>6. Published' = Published \cup {m.h} /\ m.h \notin Published
  BY <1>2, <1>5, RangeAppend DEF Published, OnceInv, OneCopy, StagesApart
<1>7. RedisHeights' = RedisHeights \cup (IF Undecided(m) THEN {m.h} ELSE {})
  BY <1>4 DEF RedisHeights, Undecided
<1>8. Distinct(HeightsOf(redis)')
  BY <1>2, <1>5, <1>6, DistinctAppend DEF Published, OnceInv, OneCopy
<1>9. OneCopy'
  <2>1. StagesApart'
    BY <1>1, <1>2, <1>6 DEF OnceInv, OneCopy, StagesApart
  <2> QED
    BY <1>0, <1>1, <1>2, <1>8, <2>1 DEF OnceInv, OneCopy
<1>10. Aboard' = Aboard
  BY <1>1, <1>2, <1>6 DEF Aboard
<1>11. InFlight' = InFlight
  <2>1. m.h \notin QueuedHeights \cup RedisHeights \cup ParserHeights \cup TxChanHeights
    BY <1>2 DEF OnceInv, OneCopy, StagesApart, StagesHold
  <2> QED
    BY <1>1, <1>2, <1>7, <2>1 DEF InFlight
<1>12. Ahead'
  BY <1>0, <1>10, AheadStays DEF OnceInv
<1>13. MarkedFailed'
  BY <1>0, <1>2, <1>4, <1>f DEF OnceInv, MarkedFailed, RedisMarked, ParserMarked
<1> QED
  BY <1>0, <1>9, <1>10, <1>11, <1>12, <1>13, LedgerStutters DEF OnceInv

\* or drops it.
LEMMA DropOnce ==
  ASSUME TypeOK, StagesHold, OnceInv, NEW w \in Workers, PublishLost(w)
  PROVE  OnceInv' /\ LedgerStep
<1> DEFINE m == workMsg[w]
           S == IF Undecided(m) THEN {m.h} ELSE {}
<1>0. /\ lost' = lost \cup S
      /\ UNCHANGED <<blockChan, redis, prsPc, prsMsg, txChan, config, enqPc, planned,
                     currBlock, blocksInDB, proc>>
      /\ UNCHANGED <<txIndexed, failedBlocks>>
  BY DEF PublishLost, pipeFrame, pipeVars, prsVars, enqVars, tables
<1>1. /\ QueuedHeights' = QueuedHeights /\ Published' = Published /\ Parsing' = Parsing
      /\ ToWrite' = ToWrite /\ RedisHeights' = RedisHeights /\ ParserHeights' = ParserHeights
      /\ TxChanHeights' = TxChanHeights /\ HeightsOf(redis)' = HeightsOf(redis)
      /\ HeightsOf(txChan)' = HeightsOf(txChan)
  BY <1>0 DEF QueuedHeights, Published, Parsing, ToWrite, RedisHeights, ParserHeights,
              TxChanHeights, HeightsOf
<1>2. /\ m.h \in Carried /\ m.h \in Heights
      /\ Carried' = Carried \ {m.h} /\ WorkerHeights' = WorkerHeights \ {m.h}
      /\ m.h \in WorkerHeights <=> Undecided(m)
      /\ WorkersApart' /\ WorkersMarked'
  BY <1>0, HandsOver DEF Publish
<1> HIDE DEF m
<1>3. OneCopy'
  <2>1. StagesApart'
    BY <1>1, <1>2 DEF OnceInv, OneCopy, StagesApart
  <2> QED
    BY <1>0, <1>1, <1>2, <2>1 DEF OnceInv, OneCopy
<1>4. Aboard' \subseteq Aboard
  BY <1>1, <1>2 DEF Aboard
<1>5. S \subseteq InFlight /\ InFlight' = InFlight \ S
  <2>1. m.h \notin QueuedHeights \cup RedisHeights \cup ParserHeights \cup TxChanHeights
    BY <1>2 DEF OnceInv, OneCopy, StagesApart, StagesHold
  <2> QED
    BY <1>1, <1>2, <2>1 DEF InFlight
<1> HIDE DEF S
<1>6. Ahead'
  BY <1>0, <1>4, AheadStays DEF OnceInv
<1>7. MarkedFailed'
  BY <1>0, <1>2 DEF OnceInv, MarkedFailed, RedisMarked, ParserMarked
<1> QED
  BY <1>0, <1>3, <1>4, <1>5, <1>6, <1>7, LedgerLoses DEF OnceInv

\* A broken connection loses what lies beyond the first messages.
LEMMA ConnectionOnce ==
  ASSUME TypeOK, StagesHold, OnceInv, ConnectionLost
  PROVE  OnceInv' /\ LedgerStep
<1>1. PICK k \in 0 .. 2 :
        /\ k < Len(redis)
        /\ redis' = SubSeq(redis, 1, k)
        /\ lost' = lost \cup {redis[i].h : i \in {j \in k + 1 .. Len(redis) : Undecided(redis[j])}}
  BY DEF ConnectionLost
<1> DEFINE S == {redis[i].h : i \in {j \in k + 1 .. Len(redis) : Undecided(redis[j])}}
<1>0. /\ UNCHANGED <<blockChan, prsPc, prsMsg, txChan, config, enqPc, planned,
                     currBlock, blocksInDB, proc, workPc, workMsg>>
      /\ UNCHANGED <<txIndexed, failedBlocks>>
  BY DEF ConnectionLost, pipeFrame, workVars, prsVars, enqVars, tables
<1>2. /\ QueuedHeights' = QueuedHeights /\ Parsing' = Parsing /\ ToWrite' = ToWrite
      /\ ParserHeights' = ParserHeights /\ TxChanHeights' = TxChanHeights
      /\ HeightsOf(txChan)' = HeightsOf(txChan)
      /\ Carried' = Carried /\ WorkerHeights' = WorkerHeights
  BY <1>0 DEF QueuedHeights, Parsing, ToWrite, ParserHeights, TxChanHeights, HeightsOf, Carried,
              WorkerHeights, Busy, Undecided
<1>3. /\ redis \in Seq(Messages) /\ k \in Nat /\ k <= Len(redis)
      /\ \A x \in Messages : x.h \in Heights
  BY <1>1, MessageTypes DEF TypeOK
<1>4. /\ HeightsOf(redis) \in Seq(Heights) /\ Len(HeightsOf(redis)) = Len(redis)
      /\ DOMAIN HeightsOf(redis) = DOMAIN redis
      /\ HeightsOf(redis)' = SubSeq(HeightsOf(redis), 1, k)
  BY <1>1, <1>3, HeightsType, HeightsPrefix DEF HeightsOf
<1>5. /\ Distinct(HeightsOf(redis)')
      /\ Published' \cap {HeightsOf(redis)[i] : i \in k + 1 .. Len(redis)} = {}
  BY <1>3, <1>4, DistinctPrefix DEF Published, OnceInv, OneCopy
<1>6. /\ Range(redis') \subseteq Range(redis)
      /\ Range(redis) = Range(redis') \cup {redis[i] : i \in k + 1 .. Len(redis)}
  BY <1>1, <1>3, RangePrefix
<1>7. \A i \in k + 1 .. Len(redis) : HeightsOf(redis)[i] = redis[i].h /\ redis[i] \in Range(redis)
  BY <1>3 DEF HeightsOf, Range
<1>p. Published' = {m.h : m \in Range(redis')} /\ Published = {m.h : m \in Range(redis)}
  <2>1. redis' \in Seq(Messages)
    BY <1>1, <1>3, RangePrefix
  <2>2. Range(HeightsOf(redis)') = {m.h : m \in Range(redis')}
    BY <1>3, <2>1, HeightsType DEF HeightsOf
  <2> QED
    BY <2>2 DEF Published, StagesHold
<1>8. Published' \subseteq Published
  BY <1>6, <1>p
<1>9. Published' \cap S = {}
  BY <1>5, <1>7
<1>10. S \subseteq RedisHeights /\ RedisHeights \subseteq RedisHeights' \cup S
  BY <1>6, <1>7 DEF RedisHeights
<1>11. RedisHeights' \subseteq RedisHeights /\ RedisHeights' \subseteq Published'
  BY <1>6, <1>p DEF RedisHeights, Undecided
<1> HIDE DEF S
<1>12. RedisHeights' = RedisHeights \ S
  BY <1>9, <1>10, <1>11
<1>13. InFlight' = InFlight \ S /\ S \subseteq InFlight
  <2>1. S \cap (QueuedHeights \cup WorkerHeights \cup ParserHeights \cup TxChanHeights) = {}
    BY <1>10 DEF OnceInv, OneCopy, StagesApart, StagesHold
  <2> QED
    BY <1>2, <1>10, <1>12, <2>1 DEF InFlight
<1>14. OneCopy'
  <2>1. StagesApart'
    BY <1>2, <1>8 DEF OnceInv, OneCopy, StagesApart
  <2>2. WorkersApart'
    BY <1>0 DEF OnceInv, OneCopy, WorkersApart, Busy
  <2> QED
    BY <1>0, <1>2, <1>5, <2>1, <2>2 DEF OnceInv, OneCopy
<1>15. Aboard' \subseteq Aboard
  BY <1>2, <1>8 DEF Aboard
<1>16. Ahead'
  BY <1>0, <1>15, AheadStays DEF OnceInv
<1>17. MarkedFailed'
  BY <1>0, <1>6 DEF OnceInv, MarkedFailed, WorkersMarked, RedisMarked, ParserMarked, Busy
<1>18. LedgerStep
  BY <1>0, <1>1, <1>13, LedgerLoses DEF S
<1> QED
  BY <1>0, <1>14, <1>15, <1>16, <1>17, <1>18 DEF OnceInv

-----------------------------------------------------------------------------
(* processBlocks.                                                          *)

\* It takes a message from Redis.
LEMMA ReceiveOnce ==
  ASSUME TypeOK, StagesHold, OnceInv, Receive
  PROVE  OnceInv' /\ LedgerStep
<1> DEFINE m == Head(redis)
<1>0. /\ redis # <<>> /\ redis' = Tail(redis) /\ prsPc = "idle" /\ prsPc' = "block"
      /\ prsMsg' = Decode(m)
      /\ UNCHANGED <<blockChan, txChan, config, enqPc, planned, currBlock, blocksInDB, proc,
                     workPc, workMsg, lost>>
      /\ UNCHANGED <<txIndexed, failedBlocks>>
  BY DEF Receive, prsFrame, workVars, enqVars, history, tables
<1>1. /\ redis \in Seq(Messages) /\ Tail(redis) \in Seq(Messages) /\ m \in Messages
      /\ \A x \in Messages : x.h \in Heights
      /\ Range(redis) = Range(Tail(redis)) \cup {m}
  BY <1>0, MessageTypes, RangeTail DEF TypeOK
<1>2. Decode(m).h = m.h /\ Decode(m).txFailed = m.txFailed
  BY <1>1 DEF Decode, Messages
<1>3. /\ HeightsOf(redis) \in Seq(Heights) /\ HeightsOf(redis) # <<>>
      /\ Head(HeightsOf(redis)) = m.h
      /\ HeightsOf(redis)' = Tail(HeightsOf(redis))
      /\ Range(HeightsOf(redis)') = {x.h : x \in Range(redis')}
  BY <1>0, <1>1, HeightsType, HeightsTail DEF HeightsOf
<1> HIDE DEF m
<1>4. /\ Distinct(HeightsOf(redis)') /\ m.h \in Published /\ Published' = Published \ {m.h}
  BY <1>3, DistinctTail DEF Published, OnceInv, OneCopy
<1>5. Published' = {x.h : x \in Range(redis')}
  BY <1>3 DEF Published
<1>6. /\ QueuedHeights' = QueuedHeights /\ ToWrite' = ToWrite /\ TxChanHeights' = TxChanHeights
      /\ HeightsOf(txChan)' = HeightsOf(txChan)
      /\ Carried' = Carried /\ WorkerHeights' = WorkerHeights
  BY <1>0 DEF QueuedHeights, ToWrite, TxChanHeights, HeightsOf, Carried, WorkerHeights, Busy,
              Undecided
<1>7. Parsing = {} /\ Parsing' = {m.h}
  BY <1>0, <1>2 DEF Parsing
<1>8. /\ RedisHeights = (RedisHeights \ {m.h}) \cup ParserHeights'
      /\ RedisHeights' = RedisHeights \ {m.h} /\ ParserHeights = {}
  <2>1. \A x \in Range(redis') : x.h # m.h
    BY <1>4, <1>5
  <2>2. RedisHeights' = RedisHeights \ {m.h}
    BY <1>0, <1>1, <2>1 DEF RedisHeights, Undecided
  <2>3. ParserHeights' = IF Undecided(m) THEN {m.h} ELSE {}
    BY <1>0, <1>2 DEF ParserHeights, Undecided
  <2>4. RedisHeights = RedisHeights' \cup (IF Undecided(m) THEN {m.h} ELSE {})
    BY <1>0, <1>1 DEF RedisHeights, Undecided
  <2> QED
    BY <1>0, <2>2, <2>3, <2>4 DEF ParserHeights
<1>9. InFlight' = InFlight
  BY <1>6, <1>8 DEF InFlight
<1>10. Aboard' = Aboard
  BY <1>4, <1>6, <1>7 DEF Aboard
<1>11. OneCopy'
  <2>1. StagesApart'
    BY <1>4, <1>6, <1>7 DEF OnceInv, OneCopy, StagesApart
  <2>2. WorkersApart'
    BY <1>0 DEF OnceInv, OneCopy, WorkersApart, Busy
  <2> QED
    BY <1>0, <1>4, <1>6, <2>1, <2>2 DEF OnceInv, OneCopy
<1>12. Ahead'
  BY <1>0, <1>10, AheadStays DEF OnceInv
<1>13. MarkedFailed'
  BY <1>0, <1>1, <1>2
  DEF OnceInv, MarkedFailed, WorkersMarked, RedisMarked, ParserMarked, Busy
<1> QED
  BY <1>0, <1>9, <1>10, <1>11, <1>12, <1>13, LedgerStutters DEF OnceInv

\* It goes on to the transactions of the block.
LEMMA EventsOnce ==
  ASSUME TypeOK, StagesHold, OnceInv, SendBlockEvents \/ ProcessEventsFails
  PROVE  OnceInv' /\ LedgerStep
<1>0. /\ prsPc = "block" /\ prsPc' = "txs"
      /\ UNCHANGED <<blockChan, redis, txChan, config, enqPc, planned, currBlock, blocksInDB,
                     proc, workPc, workMsg, prsMsg, lost>>
      /\ UNCHANGED <<txIndexed, failedBlocks>>
  BY DEF SendBlockEvents, ProcessEventsFails, UpsertFailedEventBlock, prsFrame, workVars, enqVars,
         history, tables
<1>1. /\ QueuedHeights' = QueuedHeights /\ ToWrite' = ToWrite /\ TxChanHeights' = TxChanHeights
      /\ HeightsOf(txChan)' = HeightsOf(txChan) /\ HeightsOf(redis)' = HeightsOf(redis)
      /\ Carried' = Carried /\ WorkerHeights' = WorkerHeights
      /\ Published' = Published /\ RedisHeights' = RedisHeights
      /\ Parsing' = Parsing /\ ParserHeights' = ParserHeights
  BY <1>0 DEF QueuedHeights, ToWrite, TxChanHeights, HeightsOf, Carried, WorkerHeights, Busy,
              Undecided, Published, RedisHeights, Parsing, ParserHeights
<1>2. InFlight' = InFlight /\ Aboard' = Aboard
  BY <1>1 DEF InFlight, Aboard
<1>3. OneCopy'
  BY <1>0, <1>1 DEF OnceInv, OneCopy, StagesApart, WorkersApart, Busy
<1>4. Ahead'
  BY <1>0, <1>2, AheadStays DEF OnceInv
<1>5. MarkedFailed'
  BY <1>0 DEF OnceInv, MarkedFailed, WorkersMarked, RedisMarked, ParserMarked, Busy
<1> QED
  BY <1>0, <1>2, <1>3, <1>4, <1>5, LedgerStutters DEF OnceInv

\* It sends the transactions to doDBUpdates.
LEMMA SendTxsOnce ==
  ASSUME TypeOK, StagesHold, OnceInv, SendTxs
  PROVE  OnceInv' /\ LedgerStep
<1> DEFINE h == prsMsg.h
           d == [h |-> prsMsg.h, complete |-> AllTxs(prsMsg)]
<1>0. /\ prsPc = "txs" /\ ~prsMsg.txFailed /\ prsPc' = "idle" /\ txChan' = Append(txChan, d)
      /\ UNCHANGED <<blockChan, redis, config, enqPc, planned, currBlock, blocksInDB,
                     proc, workPc, workMsg, lost>>
      /\ UNCHANGED <<txIndexed, failedBlocks>>
  BY DEF SendTxs, PrsDone, prsFrame, workVars, enqVars, history, tables
<1>1. /\ txChan \in Seq(TxData) /\ d \in TxData /\ d.h = h /\ h \in Heights
      /\ \A x \in TxData : x.h \in Heights
  BY DEF TypeOK, TxData, AllTxs, Messages
<1> HIDE DEF d
<1>2. /\ QueuedHeights' = QueuedHeights /\ HeightsOf(redis)' = HeightsOf(redis)
      /\ Carried' = Carried /\ WorkerHeights' = WorkerHeights
      /\ Published' = Published /\ RedisHeights' = RedisHeights
  BY <1>0 DEF QueuedHeights, HeightsOf, Carried, WorkerHeights, Busy, Undecided, Published,
              RedisHeights
<1>3. Parsing = {h} /\ Parsing' = {} /\ ParserHeights = {h} /\ ParserHeights' = {}
  BY <1>0 DEF Parsing, ParserHeights, Undecided
<1> HIDE DEF h
<1>4. /\ HeightsOf(txChan) \in Seq(Heights) /\ HeightsOf(txChan)' = Append(HeightsOf(txChan), h)
  BY <1>0, <1>1, HeightsType, HeightsAppend DEF HeightsOf
<1>5. ToWrite' = ToWrite \cup {h} /\ h \notin ToWrite
  BY <1>1, <1>3, <1>4, RangeAppend DEF ToWrite, OnceInv, OneCopy, StagesApart
<1>6. Distinct(HeightsOf(txChan)')
  BY <1>1, <1>4, <1>5, DistinctAppend DEF ToWrite, OnceInv, OneCopy
<1>7. TxChanHeights' = TxChanHeights \cup {h}
  <2>1. Range(txChan') = Range(txChan) \cup {d}
    BY <1>0, <1>1, RangeAppend
  <2> QED
    BY <1>1, <2>1 DEF TxChanHeights
<1>8. InFlight' = InFlight /\ Aboard' = Aboard
  BY <1>2, <1>3, <1>5, <1>7 DEF InFlight, Aboard
<1>9. OneCopy'
  <2>1. StagesApart'
    BY <1>2, <1>3, <1>5 DEF OnceInv, OneCopy, StagesApart
  <2>2. WorkersApart'
    BY <1>0 DEF OnceInv, OneCopy, WorkersApart, Busy
  <2> QED
    BY <1>0, <1>2, <1>6, <2>1, <2>2 DEF OnceInv, OneCopy
<1>10. Ahead'
  BY <1>0, <1>8, AheadStays DEF OnceInv
<1>11. MarkedFailed'
  BY <1>0 DEF OnceInv, MarkedFailed, WorkersMarked, RedisMarked, ParserMarked, Busy
<1> QED
  BY <1>0, <1>8, <1>9, <1>10, <1>11, LedgerStutters DEF OnceInv

\* It is done with a block that it records as failed, or that is recorded.
LEMMA GiveUpOnce ==
  ASSUME TypeOK, StagesHold, OnceInv, ProcessBlockFails \/ ProcessTxsFails \/ SkipTxs
  PROVE  OnceInv' /\ LedgerStep
<1> DEFINE h == prsMsg.h
<1>0. /\ prsPc # "idle" /\ prsPc' = "idle"
      /\ UNCHANGED <<blockChan, redis, txChan, config, enqPc, planned, currBlock, blocksInDB,
                     proc, workPc, workMsg, lost, txIndexed>>
      /\ failedBlocks' = failedBlocks \cup {h}
  <2>1. CASE SkipTxs
    BY <2>1 DEF SkipTxs, PrsDone, prsFrame, workVars, enqVars, history, tables, OnceInv,
                MarkedFailed, ParserMarked
  <2>2. CASE ProcessBlockFails \/ ProcessTxsFails
    BY <2>2 DEF ProcessBlockFails, ProcessTxsFails, UpsertFailedBlock, PrsDone, prsFrame, workVars,
                enqVars, history
  <2> QED
    BY <2>1, <2>2
<1>1. h \in Heights
  BY DEF TypeOK, Messages
<1>2. /\ QueuedHeights' = QueuedHeights /\ ToWrite' = ToWrite /\ TxChanHeights' = TxChanHeights
      /\ HeightsOf(txChan)' = HeightsOf(txChan) /\ HeightsOf(redis)' = HeightsOf(redis)
      /\ Carried' = Carried /\ WorkerHeights' = WorkerHeights
      /\ Published' = Published /\ RedisHeights' = RedisHeights
  BY <1>0 DEF QueuedHeights, ToWrite, TxChanHeights, HeightsOf, Carried, WorkerHeights, Busy,
              Undecided, Published, RedisHeights
<1>3. /\ Parsing = {h} /\ Parsing' = {} /\ ParserHeights' = {}
      /\ ParserHeights = IF prsMsg.txFailed THEN {} ELSE {h}
  BY <1>0 DEF Parsing, ParserHeights, Undecided
<1>4. prsMsg.txFailed => h \in failedBlocks
  BY <1>0 DEF OnceInv, MarkedFailed, ParserMarked
<1> HIDE DEF h
<1>5. h \in Aboard /\ h \notin txIndexed /\ Aboard' \subseteq Aboard
  BY <1>2, <1>3 DEF Aboard, OnceInv
<1>6. h \notin QueuedHeights \cup WorkerHeights \cup RedisHeights \cup TxChanHeights
  BY <1>3 DEF OnceInv, OneCopy, StagesApart, StagesHold
<1>7. InFlight' = InFlight \ {h} /\ (h \in InFlight <=> ~prsMsg.txFailed)
  BY <1>2, <1>3, <1>6 DEF InFlight
<1>8. LedgerStep
  <2>1. CASE prsMsg.txFailed
    <3>1. InFlight' = InFlight /\ failedBlocks' = failedBlocks
      BY <1>0, <1>4, <1>7, <2>1
    <3> QED
      BY <1>0, <3>1, LedgerStutters
  <2>2. CASE ~prsMsg.txFailed
    BY <1>0, <1>1, <1>7, <2>2, LedgerFails
  <2> QED
    BY <2>1, <2>2
<1>9. OneCopy'
  <2>1. StagesApart'
    BY <1>2, <1>3 DEF OnceInv, OneCopy, StagesApart
  <2>2. WorkersApart'
    BY <1>0 DEF OnceInv, OneCopy, WorkersApart, Busy
  <2> QED
    BY <1>0, <1>2, <2>1, <2>2 DEF OnceInv, OneCopy
<1>10. Ahead'
  BY <1>0, <1>5, AheadStays DEF OnceInv
<1>11. MarkedFailed'
  BY <1>0 DEF OnceInv, MarkedFailed, WorkersMarked, RedisMarked, ParserMarked, Busy
<1> QED
  BY <1>0, <1>5, <1>8, <1>9, <1>10, <1>11 DEF OnceInv

-----------------------------------------------------------------------------
(* doDBUpdates.                                                            *)

\* It writes the transactions of a block.
LEMMA WriteOnce ==
  ASSUME TypeOK, StagesHold, OnceInv, WriteTxs
  PROVE  OnceInv' /\ LedgerStep
<1> DEFINE h == Head(txChan).h
<1>0. /\ txChan # <<>> /\ txChan' = Tail(txChan)
      /\ txIndexed' = txIndexed \cup {h} /\ failedBlocks' = failedBlocks \ {h}
      /\ UNCHANGED <<blockChan, redis, config, enqPc, planned, currBlock, blocksInDB,
                     proc, workPc, workMsg, prsPc, prsMsg, lost>>
  BY DEF WriteTxs, IndexNewBlock, wrFrame, workVars, enqVars, pipeVars, prsVars
<1>1. /\ txChan \in Seq(TxData) /\ Head(txChan) \in TxData /\ h \in Heights
      /\ \A x \in TxData : x.h \in Heights
      /\ Range(txChan) = Range(txChan') \cup {Head(txChan)} /\ txChan' \in Seq(TxData)
  <2>1. txChan \in Seq(TxData)
    BY DEF TypeOK
  <2>2. /\ Head(txChan) \in TxData /\ txChan' \in Seq(TxData)
        /\ Range(txChan) = Range(txChan') \cup {Head(txChan)}
    BY <1>0, <2>1, RangeTail
  <2>3. \A x \in TxData : x.h \in Heights
    BY DEF TxData
  <2> QED
    BY <2>1, <2>2, <2>3
<1>2. /\ HeightsOf(txChan) \in Seq(Heights) /\ HeightsOf(txChan) # <<>>
      /\ Head(HeightsOf(txChan)) = h /\ HeightsOf(txChan)' = Tail(HeightsOf(txChan))
      /\ Range(HeightsOf(txChan)') = {x.h : x \in Range(txChan')}
  BY <1>0, <1>1, HeightsType, HeightsTail DEF HeightsOf
<1> HIDE DEF h
<1>3. /\ Distinct(HeightsOf(txChan)') /\ h \in ToWrite /\ ToWrite' = ToWrite \ {h}
  BY <1>2, DistinctTail DEF ToWrite, OnceInv, OneCopy
<1>4. TxChanHeights' = ToWrite' /\ TxChanHeights = ToWrite
  BY <1>2 DEF TxChanHeights, ToWrite, StagesHold
<1>5. /\ QueuedHeights' = QueuedHeights /\ HeightsOf(redis)' = HeightsOf(redis)
      /\ Carried' = Carried /\ WorkerHeights' = WorkerHeights
      /\ Published' = Published /\ RedisHeights' = RedisHeights
      /\ Parsing' = Parsing /\ ParserHeights' = ParserHeights
  BY <1>0 DEF QueuedHeights, HeightsOf, Carried, WorkerHeights, Busy, Undecided, Published,
              RedisHeights, Parsing, ParserHeights
<1>6. h \notin QueuedHeights \cup Carried \cup Published \cup Parsing
  BY <1>3 DEF OnceInv, OneCopy, StagesApart
<1>7. InFlight' = InFlight \ {h} /\ h \in InFlight
  BY <1>3, <1>4, <1>5, <1>6 DEF InFlight, StagesHold
<1>8. Aboard' = Aboard \ {h} /\ h \in Aboard
  BY <1>3, <1>5, <1>6 DEF Aboard
<1>9. OneCopy'
  <2>1. StagesApart'
    BY <1>3, <1>5 DEF OnceInv, OneCopy, StagesApart
  <2>2. WorkersApart'
    BY <1>0 DEF OnceInv, OneCopy, WorkersApart, Busy
  <2> QED
    BY <1>0, <1>3, <1>5, <2>1, <2>2 DEF OnceInv, OneCopy
<1>10. Ahead'
  BY <1>0, <1>8, AheadStays DEF OnceInv
<1>11. MarkedFailed'
  <2>1. WorkersMarked'
    BY <1>0, <1>6 DEF OnceInv, MarkedFailed, WorkersMarked, Busy, Carried
  <2>2. RedisMarked'
    BY <1>0, <1>6 DEF OnceInv, MarkedFailed, RedisMarked, StagesHold
  <2>3. ParserMarked'
    BY <1>0, <1>6 DEF OnceInv, MarkedFailed, ParserMarked, Parsing
  <2> QED
    BY <2>1, <2>2, <2>3 DEF MarkedFailed
<1>12. LedgerStep
  BY <1>0, <1>1, <1>7, LedgerIndexes
<1> QED
  BY <1>0, <1>8, <1>9, <1>10, <1>11, <1>12 DEF OnceInv

-----------------------------------------------------------------------------
(* The enqueue goroutine.                                                  *)

\* What its steps leave alone.
LEMMA EnqueueFrame ==
  ASSUME TypeOK, Enqueue
  PROVE  /\ UNCHANGED <<config, txIndexed, failedBlocks, lost, redis, txChan, prsPc, prsMsg,
                        workPc, workMsg, proc>>
         /\ Carried' = Carried /\ Published' = Published /\ Parsing' = Parsing
         /\ ToWrite' = ToWrite /\ WorkerHeights' = WorkerHeights /\ RedisHeights' = RedisHeights
         /\ ParserHeights' = ParserHeights /\ TxChanHeights' = TxChanHeights
         /\ HeightsOf(redis)' = HeightsOf(redis) /\ HeightsOf(txChan)' = HeightsOf(txChan)
<1>1. UNCHANGED tables
  BY EnqueueTypeOK DEF Enqueue, TypeOK
<1>2. UNCHANGED <<config, txIndexed, failedBlocks, lost, redis, txChan, prsPc, prsMsg, workPc,
                  workMsg, proc>>
  BY <1>1 DEF Enqueue, EnqueueStep, Generate, EnqueuePlanned, PlannedSent, ExitEnqueue,
              RefreshLatest, SkipIndexed, EnqueueNext, StopFilling, workVars, pipeVars, prsVars,
              tables
<1> QED
  BY <1>2 DEF Carried, Published, Parsing, ToWrite, WorkerHeights, RedisHeights, ParserHeights,
              TxChanHeights, HeightsOf, Busy, Undecided

\* The generator: what lies above the row it finds is not indexed.
LEMMA GenerateAhead ==
  ASSUME SentOnce, TypeOK, StagesHold, Ahead, Generate, UNCHANGED <<txIndexed, proc>>,
         Aboard' = Aboard, proc = "up"
  PROVE  Ahead'
<1>1. config \in Configs /\ config \in Config
  BY EnqueueAssumption DEF TypeOK, EnqTypeOK
<1>2. config.mode = "default" /\ ~config.reIndex /\ ~config.reattemptFailedBlocks
  BY <1>1 DEF SentOnce
<1> DEFINE found == GetBlocksFromStart(FirstBlock, config.endBlock)
<1>3. /\ planned' = Once({}) /\ currBlock' \in IF found = {} THEN {FirstBlock} ELSE found
      /\ blocksInDB' = found \cap txIndexed
      /\ enqPc = "init" /\ enqPc' = "planned" /\ UNCHANGED config
  BY <1>2 DEF Generate, GenerateDefault, GenerateBlockFile, GenerateMsgType
<1>4. planned' = NothingPlanned
  BY <1>3 DEF Once, NothingPlanned
<1>5. Aboard = {}
  BY <1>3 DEF Ahead, StagesHold, Heights
<1>6. \A h : InRange(h)' = InRange(h)
  BY <1>3 DEF InRange
<1>f. FirstBlock \in Nat \ {0}
  BY <1>1 DEF FirstBlock, Config
<1> DEFINE above == {h \in BlockRows : h >= FirstBlock /\ InRange(h)}
<1>7. /\ found = {h \in above : \A g \in above : g <= h}
      /\ above \subseteq 1 .. MaxHeight /\ MaxHeight \in Nat
      /\ txIndexed \subseteq BlockRows /\ BlockRows \subseteq 1 .. MaxHeight
  BY OneIsAHeight DEF GetBlocksFromStart, InRange, BlockRows, TypeOK, TablesTypeOK, Heights
<1>8. ASSUME NEW h \in txIndexed, h >= currBlock', InRange(h)
      PROVE  h \in blocksInDB'
  <2>1. CASE found = {}
    <3>1. h \in above
      BY <1>3, <1>7, <1>8, <2>1
    <3> HIDE DEF above, found
    <3>2. PICK x \in above : \A y \in above : y <= x
      BY <1>7, <3>1, HighestExists
    <3> QED
      BY <1>7, <2>1, <3>2
  <2>2. CASE found # {}
    <3>1. PICK c \in Int : c = currBlock' /\ c \in found
      BY <1>3, <1>7, <2>2
    <3>2. h \in Int /\ h >= c /\ c >= FirstBlock
      BY <1>7, <1>8, <3>1
    <3>3. h \in above
      BY <1>7, <1>8, <1>f, <3>2
    <3>4. h = c
      BY <1>7, <3>1, <3>2, <3>3
    <3> QED
      BY <1>3, <3>1, <3>4
  <2> QED
    BY <2>1, <2>2
<1> QED
  BY <1>3, <1>4, <1>5, <1>6, <1>8 DEF Ahead

\* Every step of the goroutine: a height it sends is not on board and not indexed.
LEMMA EnqueueOnce ==
  ASSUME SentOnce, TypeOK, StagesHold, OnceInv, Enqueue
  PROVE  /\ OnceInv' /\ LedgerStep
         /\ \A h : blockChan' = Append(blockChan, h) => h \notin txIndexed
<1> USE EnqueueFrame
<1>r. config.reIndex = FALSE
  BY EnqueueAssumption DEF SentOnce, TypeOK, EnqTypeOK, Config
<1>m. MarkedFailed'
  BY DEF OnceInv, MarkedFailed, WorkersMarked, RedisMarked, ParserMarked, Busy
<1>w. WorkersApart'
  BY DEF OnceInv, OneCopy, WorkersApart, Busy
<1>1. ASSUME UNCHANGED blockChan, Ahead'
      PROVE  /\ OnceInv' /\ LedgerStep
             /\ \A h : blockChan' # Append(blockChan, h)
  <2>1. QueuedHeights' = QueuedHeights
    BY <1>1 DEF QueuedHeights
  <2>2. InFlight' = InFlight /\ Aboard' = Aboard
    BY <2>1 DEF InFlight, Aboard
  <2>3. OneCopy'
    BY <1>1, <1>w, <2>1 DEF OnceInv, OneCopy, StagesApart
  <2>4. \A h : Len(Append(blockChan, h)) = Len(blockChan) + 1 /\ Len(blockChan) \in Nat
    BY DEF TypeOK, EnqTypeOK
  <2>5. \A h : blockChan' # Append(blockChan, h)
    <3> SUFFICES ASSUME NEW h, blockChan' = Append(blockChan, h) PROVE FALSE
      OBVIOUS
    <3>1. Len(blockChan) = Len(blockChan) + 1
      BY <1>1, <2>4
    <3> QED
      BY <2>4, <3>1
  <2> QED
    BY <1>1, <1>m, <2>2, <2>3, <2>5, LedgerStutters DEF OnceInv
<1>2. CASE Generate
  <2>1. UNCHANGED blockChan
    BY <1>2 DEF Generate
  <2>2. Aboard' = Aboard
    BY <2>1 DEF Aboard, QueuedHeights
  <2>3. Ahead'
    BY <1>2, <2>2, GenerateAhead DEF OnceInv, Enqueue
  <2> QED
    BY <1>1, <2>1, <2>3
<1>3. CASE EnqueuePlanned
  BY <1>3 DEF EnqueuePlanned, OnceInv, Ahead, NothingPlanned
<1>4. CASE PlannedSent \/ ExitEnqueue \/ RefreshLatest \/ StopFilling \/ SkipIndexed
  <2>1. /\ UNCHANGED <<blockChan, planned, blocksInDB>>
        /\ enqPc # "init" /\ enqPc' # "init" /\ proc = "up"
        /\ \/ currBlock' = currBlock
           \/ currBlock' = currBlock + 1 /\ currBlock \in blocksInDB
    BY <1>4, <1>r DEF PlannedSent, ExitEnqueue, RefreshLatest, StopFilling, SkipIndexed, Enqueue
  <2>2. Aboard' = Aboard
    BY <2>1 DEF Aboard, QueuedHeights
  <2>3. \A h : InRange(h)' = InRange(h)
    BY DEF InRange
  <2>4. Aboard \subseteq Int /\ txIndexed \subseteq Int /\ currBlock \in Int
    BY DEF StagesHold, Heights, TypeOK, EnqTypeOK, TablesTypeOK
  <2>5. Ahead'
    <3>1. PICK c \in Int : c = currBlock'
      BY <2>1, <2>4
    <3>2. c >= currBlock /\ (c # currBlock => c = currBlock + 1 /\ currBlock \in blocksInDB)
      BY <2>1, <2>4, <3>1
    <3>3. \A h \in Aboard : h < c
      BY <2>4, <3>2 DEF OnceInv, Ahead
    <3>4. \A h \in txIndexed : h >= c => ~InRange(h) \/ h \in blocksInDB
      BY <2>1, <2>4, <3>2 DEF OnceInv, Ahead
    <3> QED
      BY <2>1, <2>2, <2>3, <3>1, <3>3, <3>4 DEF OnceInv, Ahead
  <2> QED
    BY <1>1, <2>1, <2>5
<1>5. CASE EnqueueNext
  <2>0. /\ enqPc = "fill" /\ currBlock < latestBlock /\ InRange(currBlock)
        /\ currBlock \notin blocksInDB /\ SendHeight(currBlock) /\ currBlock' = currBlock + 1
        /\ UNCHANGED <<enqPc, planned, blocksInDB>> /\ proc = "up"
    BY <1>5, <1>r DEF EnqueueNext, MoreToFill, Enqueue
  <2>1. currBlock \in Heights /\ currBlock \in Int
    BY <2>0, MaxHeightAssumption DEF TypeOK, EnqTypeOK, MaxInt64, Heights
  <2>2. currBlock \notin Aboard
    BY <2>1 DEF OnceInv, Ahead
  <2>3. currBlock \notin txIndexed
    BY <2>0, <2>1 DEF OnceInv, Ahead
  <2>4. /\ blockChan \in Seq(Heights) /\ blockChan' = Append(blockChan, currBlock)
        /\ QueuedHeights' = QueuedHeights \cup {currBlock}
    BY <2>0, <2>1, SendTypeOK DEF SendHeight, TypeOK, EnqTypeOK, QueuedHeights
  <2>5. Distinct(blockChan')
    BY <2>1, <2>2, <2>4, DistinctAppend DEF OnceInv, OneCopy, Aboard, QueuedHeights
  <2>6. OneCopy'
    <3>1. StagesApart'
      BY <2>2, <2>4 DEF OnceInv, OneCopy, StagesApart, Aboard
    <3> QED
      BY <1>w, <2>5, <3>1 DEF OnceInv, OneCopy
  <2>7. Aboard' = Aboard \cup {currBlock}
    BY <2>4 DEF Aboard
  <2>8. InFlight' = InFlight \cup {currBlock} /\ currBlock \notin InFlight
    BY <2>2, <2>4 DEF InFlight, StagesHold
  <2>9. \A h : InRange(h)' = InRange(h)
    BY DEF InRange
  <2>10. Aboard \subseteq Int /\ txIndexed \subseteq Int
    BY DEF StagesHold, Heights, TypeOK, TablesTypeOK
  <2>11. Ahead'
    <3>1. PICK c \in Int : c = currBlock' /\ c = currBlock + 1
      BY <2>0, <2>1
    <3>2. \A h \in Aboard \cup {currBlock} : h < c
      BY <2>1, <2>10, <3>1 DEF OnceInv, Ahead
    <3>3. \A h \in txIndexed : h >= c => ~InRange(h) \/ h \in blocksInDB
      BY <2>0, <2>1, <2>10, <3>1 DEF OnceInv, Ahead
    <3> QED
      BY <2>0, <2>7, <2>9, <3>1, <3>2, <3>3 DEF OnceInv, Ahead
  <2>12. LedgerStep
    BY <2>1, <2>3, <2>8, LedgerRequests
  <2>13. \A h : blockChan' = Append(blockChan, h) => h = currBlock
    <3> SUFFICES ASSUME NEW h, Append(blockChan, h) = Append(blockChan, currBlock)
                 PROVE  h = currBlock
      BY <2>4
    <3> QED
      BY <2>4
  <2> QED
    BY <1>m, <2>3, <2>6, <2>7, <2>11, <2>12, <2>13 DEF OnceInv
<1> QED
  BY <1>2, <1>3, <1>4, <1>5 DEF Enqueue, EnqueueStep

-----------------------------------------------------------------------------
(* The process and the rest.                                               *)

\* A step that moves no block.
LEMMA OnceStutters ==
  ASSUME TypeOK, StagesHold, OnceInv,
         UNCHANGED <<blockChan, redis, txChan, enqPc, planned, currBlock, blocksInDB, workPc,
                     workMsg, prsPc, prsMsg, lost, txIndexed, failedBlocks>>,
         UNCHANGED <<config, proc>> \/ enqPc = "init"
  PROVE  OnceInv' /\ LedgerStep
<1>1. /\ QueuedHeights' = QueuedHeights /\ ToWrite' = ToWrite /\ TxChanHeights' = TxChanHeights
      /\ HeightsOf(txChan)' = HeightsOf(txChan) /\ HeightsOf(redis)' = HeightsOf(redis)
      /\ Carried' = Carried /\ WorkerHeights' = WorkerHeights
      /\ Published' = Published /\ RedisHeights' = RedisHeights
      /\ Parsing' = Parsing /\ ParserHeights' = ParserHeights
  BY DEF QueuedHeights, ToWrite, TxChanHeights, HeightsOf, Carried, WorkerHeights, Busy,
         Undecided, Published, RedisHeights, Parsing, ParserHeights
<1>2. InFlight' = InFlight /\ Aboard' = Aboard
  BY <1>1 DEF InFlight, Aboard
<1>3. OneCopy'
  BY <1>1 DEF OnceInv, OneCopy, StagesApart, WorkersApart, Busy
<1>4. MarkedFailed'
  BY DEF OnceInv, MarkedFailed, WorkersMarked, RedisMarked, ParserMarked, Busy
<1>5. Ahead'
  <2>1. CASE UNCHANGED <<config, proc>>
    BY <1>2, <2>1, AheadStays DEF OnceInv
  <2>2. CASE enqPc = "init"
    BY <1>2, <2>2 DEF OnceInv, Ahead
  <2> QED
    BY <2>1, <2>2
<1> QED
  BY <1>2, <1>3, <1>4, <1>5, LedgerStutters DEF OnceInv

\* An empty process.
Empty ==
  /\ blockChan = <<>> /\ redis = <<>> /\ txChan = <<>> /\ prsPc = "idle"
  /\ workPc = [w \in Workers |-> "idle"]

NothingTwice == OneCopy /\ MarkedFailed /\ Aboard = {} /\ InFlight = {}

\* With nothing on board there is nothing twice.
LEMMA EmptyOnce == Empty => NothingTwice
<1> SUFFICES ASSUME Empty PROVE NothingTwice
  OBVIOUS
<1> USE DEF Empty
<1>1. HeightsOf(<<>>) = <<>> /\ Range(<<>>) = {} /\ Distinct(<<>>)
  BY RangeEmpty DEF HeightsOf, Distinct
<1>2. Busy = {} /\ Carried = {} /\ WorkerHeights = {}
  BY DEF Busy, Carried, WorkerHeights, Carrying
<1>3. Parsing = {} /\ ParserHeights = {}
  BY DEF Parsing, ParserHeights
<1>4. Published = {} /\ ToWrite = {} /\ QueuedHeights = {}
  BY <1>1 DEF Published, ToWrite, QueuedHeights
<1>5. RedisHeights = {} /\ TxChanHeights = {}
  BY <1>1 DEF RedisHeights, TxChanHeights
<1>6. OneCopy
  BY <1>1, <1>2, <1>3, <1>4 DEF OneCopy, StagesApart, WorkersApart
<1>7. MarkedFailed
  BY <1>1, <1>2 DEF MarkedFailed, WorkersMarked, RedisMarked, ParserMarked
<1> QED
  BY <1>2, <1>3, <1>4, <1>5, <1>6, <1>7 DEF NothingTwice, Aboard, InFlight

\* Nor in a next state with nothing on board.
LEMMA EmptyNext == Empty' => NothingTwice'
  BY EmptyOnce, PTL

\* Going down drops everything that is on board.
LEMMA DiesOnce ==
  ASSUME TypeOK, OnceInv, ProcessDies
  PROVE  OnceInv' /\ LedgerStep
<1>1. /\ Empty' /\ lost' = lost \cup InFlight
      /\ enqPc' = "init" /\ currBlock' = 1 /\ planned' = NothingPlanned
      /\ UNCHANGED <<txIndexed, failedBlocks>>
  BY DEF ProcessDies, EnqReset, tables, Empty
<1>2. OneCopy' /\ MarkedFailed' /\ Aboard' = {} /\ InFlight' = {}
  BY <1>1, EmptyNext DEF NothingTwice
<1>3. Ahead'
  BY <1>1, <1>2 DEF Ahead, NothingPlanned
<1>4. LedgerStep
  BY <1>1, <1>2, LedgerLoses
<1> QED
  BY <1>1, <1>2, <1>3, <1>4 DEF OnceInv

\* Nothing has been requested at the start.
LEMMA InitOnce == Init => OnceInv /\ Ledger!Init
<1> SUFFICES ASSUME Init PROVE OnceInv /\ Ledger!Init
  OBVIOUS
<1>1. OneCopy /\ MarkedFailed /\ Aboard = {} /\ InFlight = {}
  BY EmptyOnce DEF Init, EnqInit, VolatileInit, Empty, NothingTwice
<1>2. Ahead
  BY <1>1 DEF Init, EnqInit, Ahead
<1> QED
  BY <1>1, <1>2 DEF Init, TablesInit, OnceInv, Ledger!Init

\* Only the enqueue goroutine adds to blockEnqueueChan.
LEMMA OnlyEnqueueSends ==
  ASSUME TypeOK, [Next]_vars, ~Enqueue, NEW h
  PROVE  blockChan' # Append(blockChan, h)
<1>1. blockChan \in Seq(Heights) /\ Len(blockChan) \in Nat
  BY DEF TypeOK, EnqTypeOK
<1>2. Len(Append(blockChan, h)) = Len(blockChan) + 1
  BY <1>1
<1>3. /\ Len(<<>>) = 0
      /\ blockChan # <<>> => Len(Tail(blockChan)) = Len(blockChan) - 1
  BY <1>1
<1>4. \/ blockChan' = blockChan \/ blockChan' = <<>>
      \/ blockChan # <<>> /\ blockChan' = Tail(blockChan)
  <2>1. CASE Grow \/ Subscribe \/ ConnectionLost \/ Restart \/ UNCHANGED vars
    BY <2>1 DEF Grow, ChainGrows, Subscribe, ConnectionLost, pipeFrame, Restart, vars, enqVars
  <2>2. CASE Crash \/ ShutdownPanic
    BY <2>2 DEF Crash, ShutdownPanic, ProcessDies, EnqReset
  <2>3. ASSUME NEW w \in Workers, Worker(w) \/ Publish(w)
        PROVE  \/ blockChan' = blockChan
               \/ blockChan # <<>> /\ blockChan' = Tail(blockChan)
    <3>1. CASE TakeBlock(w)
      BY <3>1 DEF TakeBlock
    <3>2. CASE Worker(w) /\ ~TakeBlock(w)
      BY <3>2 DEF Worker, WorkerExits, FetchGetBlockFails, FetchFailBlock, FetchTxs,
                  FetchBlockResults, FetchTxsFails, enqVars
    <3>3. CASE Publish(w)
      BY <3>3 DEF Publish, PublishDelivered, PublishLost, pipeFrame, enqVars
    <3> QED
      BY <2>3, <3>1, <3>2, <3>3
  <2>4. CASE Parser
    BY <2>4 DEF Parser, Receive, ProcessBlockFails, SendBlockEvents, ProcessEventsFails, SendTxs,
                ProcessTxsFails, SkipTxs, prsFrame, enqVars
  <2>5. CASE DBWriter
    BY <2>5 DEF DBWriter, WriteTxs, WriteEvents, IgnoreEvents, WriteCustomEvents, wrFrame, enqVars
  <2> QED
    BY <2>1, <2>2, <2>3, <2>4, <2>5 DEF Next
<1> QED
  BY <1>1, <1>2, <1>3, <1>4

\* Every step keeps one copy at most, is a step of the ledger, and sends no
\* height that is indexed.
LEMMA StepOnce ==
  ASSUME SentOnce, TypeOK, OnceInv, [Next]_vars
  PROVE  /\ OnceInv' /\ LedgerStep
         /\ \A h : blockChan' = Append(blockChan, h) => h \notin txIndexed
<1>1. StagesHold
  BY StagesType
<1>2. CASE Enqueue
  BY <1>1, <1>2, EnqueueOnce
<1>3. CASE ~Enqueue
  <2>1. OnceInv' /\ LedgerStep
    <3>1. CASE Grow \/ Subscribe \/ UNCHANGED vars
      BY <1>1, <3>1, OnceStutters
      DEF Grow, ChainGrows, Subscribe, pipeFrame, vars, enqVars, workVars, prsVars, pipeVars,
          tables, history
    <3>2. CASE Restart
      <4>1. enqPc = "init"
        BY <3>2 DEF Restart, OnceInv, Ahead
      <4> QED
        BY <1>1, <3>2, <4>1, OnceStutters
        DEF Restart, enqVars, workVars, prsVars, pipeVars, tables, history
    <3>3. CASE Crash \/ ShutdownPanic
      BY <3>3, DiesOnce DEF Crash, ShutdownPanic
    <3>4. CASE ConnectionLost
      BY <1>1, <3>4, ConnectionOnce
    <3>5. ASSUME NEW w \in Workers, Worker(w) \/ Publish(w)
          PROVE  OnceInv' /\ LedgerStep
      BY <1>1, <3>5, WorkerOnce, DeliverOnce, DropOnce DEF Publish
    <3>6. CASE Parser
      BY <1>1, <3>6, ReceiveOnce, EventsOnce, SendTxsOnce, GiveUpOnce DEF Parser
    <3>7. CASE WriteTxs
      BY <1>1, <3>7, WriteOnce
    <3>8. CASE WriteEvents \/ IgnoreEvents \/ WriteCustomEvents
      BY <1>1, <3>8, OnceStutters
      DEF WriteEvents, IgnoreEvents, WriteCustomEvents, IndexBlockEvents, IndexCustomBlockEvents,
          wrFrame, enqVars, workVars, pipeVars, prsVars, tables
    <3> QED
      BY <1>3, <3>1, <3>2, <3>3, <3>4, <3>5, <3>6, <3>7, <3>8 DEF Next, DBWriter
  <2> QED
    BY <1>3, <2>1, OnlyEnqueueSends
<1> QED
  BY <1>2, <1>3

-----------------------------------------------------------------------------
(* The theorems.                                                           *)

\* With the default function and neither reindexing nor reattempts, every height
\* has at most one copy on board and none when it is indexed.
LEMMA OnceAlways ==
  ASSUME SentOnce
  PROVE  Spec => [](TypeOK /\ OnceInv)
<1>1. Init => TypeOK /\ OnceInv
  BY InitTypeOK, InitOnce
<1>2. TypeOK /\ OnceInv /\ [Next]_vars => (TypeOK /\ OnceInv)'
  BY StepTypeOK, StepOnce
<1> QED
  BY <1>1, <1>2, PTL DEF Spec

\* The pipeline implements the ledger: a block on its way is indexed, recorded as
\* failed or dropped, and once indexed it is never failed, dropped or requested
\* again, with any number of workers and over any crashes and restarts.
THEOREM LedgerImplemented ==
  ASSUME SentOnce
  PROVE  Spec => ImplementsLedger
<1>1. Init => Ledger!Init
  BY InitOnce
<1>2. TypeOK /\ OnceInv /\ [Next]_vars => [Ledger!Next]_(Ledger!ledger)
  BY StepOnce DEF LedgerStep
<1> QED
  BY <1>1, <1>2, OnceAlways, PTL DEF Spec, ImplementsLedger, Ledger!Spec

\* failed_blocks lists no block that is indexed: no late failure of one stage
\* overwrites the success of another.
THEOREM NoneFailedAndIndexed == Spec => []FailedNotIndexed
<1>1. CASE SentOnce
  <2>1. OnceInv => FailedNotIndexed
    BY DEF OnceInv, FailedNotIndexed
  <2> QED
    BY <1>1, <2>1, OnceAlways, PTL
<1>2. CASE ~SentOnce
  <2>1. FailedNotIndexed
    BY <1>2 DEF FailedNotIndexed
  <2> QED
    BY <2>1, PTL
<1> QED
  BY <1>1, <1>2

\* No block that is indexed is put on blockEnqueueChan, although blocksInDB is read
\* once at start-up and holds one block.
THEOREM NeverIndexedTwice == Spec => IndexedNotRequeued
<1> DEFINE Fresh == SentOnce =>
             \A h \in Heights : blockChan' = Append(blockChan, h) => h \notin txIndexed
<1>1. CASE SentOnce
  <2>1. TypeOK /\ OnceInv /\ [Next]_vars => [Fresh]_vars
    BY <1>1, StepOnce
  <2> QED
    BY <1>1, <2>1, OnceAlways, PTL DEF Spec, IndexedNotRequeued
<1>2. CASE ~SentOnce
  <2>1. [Next]_vars => [Fresh]_vars
    BY <1>2
  <2> QED
    BY <2>1, PTL DEF Spec, IndexedNotRequeued
<1> QED
  BY <1>1, <1>2
=============================================================================
