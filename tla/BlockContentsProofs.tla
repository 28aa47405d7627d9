-------------------------- MODULE BlockContentsProofs --------------------------
(***************************************************************************)
(* Theorems about what the database holds (BlockContents), for every chain *)
(* a node can serve, every configuration of filters, any number of passes  *)
(* over a block and of crashes.                                            *)
(*                                                                         *)
(* First what a parser hands over for a transaction, what the conflict     *)
(* clauses leave of two passes, and the invariant of the tables:           *)
(*   TablesInv      of which transaction each row is                       *)
(*   RunInv         the goroutines, the migration, the pool                *)
(*   FilterInv      which datasets the custom parsers are handed           *)
(*   AggregatesInv  of which attributes the rows of the aggregates and     *)
(*                  what the goroutines carry are                          *)
(*   ListedInv      that the queries count finite sets, and old views have  *)
(*                  no row that the tables would not make                  *)
(***************************************************************************)
EXTENDS BlockContents, CommonLemmas

-----------------------------------------------------------------------------
(* The pool. *)

(* A call that waits is not at the innermost level. *)
WaitsAbove == \A c \in waiting : held[c] < MaxNesting

PoolInv == PoolTypeOK /\ WaitsAbove

\* Each call starts with nothing.
LEMMA InitPoolInv == PoolInit => PoolInv
  BY DEF PoolInit, PoolInv, PoolTypeOK, WaitsAbove, MaxNesting

\* Query, Acquire and Close keep the bounds of a call.
LEMMA NextPoolInv == PoolInv /\ [PoolNext]_pool => PoolInv'
<1> SUFFICES ASSUME PoolInv, [PoolNext]_pool PROVE PoolInv'
  OBVIOUS
<1> USE DEF PoolInv, PoolTypeOK, WaitsAbove, MaxNesting
<1>1. ASSUME NEW c \in Calls, Query(c) PROVE PoolInv'
  BY <1>1 DEF Query
<1>2. ASSUME NEW c \in Calls, Acquire(c) PROVE PoolInv'
  BY <1>2 DEF Acquire
<1>3. ASSUME NEW c \in Calls, Close(c) PROVE PoolInv'
  BY <1>3 DEF Close
<1>4. CASE UNCHANGED pool
  BY <1>4 DEF pool
<1> QED
  BY <1>1, <1>2, <1>3, <1>4 DEF PoolNext

(* connectPgxPool: the counts of the calls and their levels stay in bounds. *)
THEOREM PoolTypeCorrect == PoolSpec => []PoolTypeOK
<1>1. PoolInv => PoolTypeOK
  BY DEF PoolInv
<1> QED
  BY InitPoolInv, NextPoolInv, <1>1, PTL DEF PoolSpec

-----------------------------------------------------------------------------
(* Lists. *)

\* A list is a function on the numbers from 1 to its length.
LEMMA ListIs ==
  ASSUME NEW s, IsList(s)
  PROVE  /\ Len(s) \in Nat /\ DOMAIN s = 1 .. Len(s)
         /\ s = [i \in 1 .. Len(s) |-> s[i]]
         /\ \A i \in 1 .. Len(s) : s[i] \in Range(s)
         /\ \A x \in Range(s) : \E i \in 1 .. Len(s) : x = s[i]
<1>1. s \in Seq(Range(s))
  BY DEF IsList
<1> QED
  BY <1>1 DEF Range

\* The members of S up to i.
UpTo(S, i) == {j \in S : j <= i}

\* Every rank up to the number of members has a member.
LEMMA RankExists ==
  ASSUME NEW n \in Nat
  PROVE  \A S \in SUBSET (1 .. n) :
           /\ IsFiniteSet(S) /\ Cardinality(S) \in 0 .. n
           /\ \A k \in 1 .. Cardinality(S) : \E i \in S : Cardinality(UpTo(S, i)) = k
<1> DEFINE Ranked(S) == \A k \in 1 .. Cardinality(S) : \E i \in S : Cardinality(UpTo(S, i)) = k
           N == {m \in Nat : \A S \in SUBSET (1 .. m) : Ranked(S)}
<1>1. ASSUME NEW m \in Nat, NEW S \in SUBSET (1 .. m)
      PROVE  IsFiniteSet(S) /\ Cardinality(S) \in 0 .. m
  <2>1. IsFiniteSet(1 .. m) /\ Cardinality(1 .. m) = m
    BY FS_Interval
  <2>2. IsFiniteSet(S) /\ Cardinality(S) <= m
    BY <2>1, FS_Subset
  <2>3. Cardinality(S) \in Nat
    BY <2>2, FS_CardinalityType
  <2> QED
    BY <2>2, <2>3
<1>2. 0 \in N
  <2>1. ASSUME NEW S \in SUBSET (1 .. 0) PROVE Ranked(S)
    <3>1. Cardinality(S) = 0
      BY <1>1
    <3> QED
      BY <3>1
  <2> HIDE DEF Ranked
  <2> QED
    BY <2>1
<1>3. ASSUME NEW m \in N PROVE m + 1 \in N
  <2> SUFFICES ASSUME NEW S \in SUBSET (1 .. m + 1) PROVE Ranked(S)
    <3> HIDE DEF Ranked
    <3> QED
      OBVIOUS
  <2> DEFINE T == S \ {m + 1}
  <2>1. T \in SUBSET (1 .. m) /\ IsFiniteSet(T) /\ IsFiniteSet(S)
        /\ Cardinality(S) \in Nat /\ Cardinality(T) \in Nat
    <3>1. T \in SUBSET (1 .. m)
      OBVIOUS
    <3>2. IsFiniteSet(T) /\ Cardinality(T) \in 0 .. m
      BY <1>1, <3>1
    <3>3. IsFiniteSet(S) /\ Cardinality(S) \in 0 .. m + 1
      BY <1>1
    <3> QED
      BY <3>1, <3>2, <3>3
  <2>2. Ranked(T)
    BY <2>1
  <2>3. CASE m + 1 \notin S
    <3>1. T = S
      BY <2>3
    <3> QED
      BY <2>2, <3>1
  <2>4. CASE m + 1 \in S
    <3>1. Cardinality(T) = Cardinality(S) - 1
      BY <2>1, <2>4, FS_RemoveElement
    <3>2. ASSUME NEW i \in T PROVE UpTo(S, i) = UpTo(T, i)
      <4>1. i < m + 1
        BY <2>1
      <4> QED
        BY <4>1 DEF UpTo
    <3>3. UpTo(S, m + 1) = S
      <4>1. \A j \in S : j <= m + 1
        OBVIOUS
      <4> QED
        BY <4>1 DEF UpTo
    <3> SUFFICES ASSUME NEW k \in 1 .. Cardinality(S)
                 PROVE  \E i \in S : Cardinality(UpTo(S, i)) = k
      OBVIOUS
    <3>4. CASE k = Cardinality(S)
      BY <2>4, <3>3, <3>4
    <3>5. CASE k # Cardinality(S)
      <4>1. k \in 1 .. Cardinality(T)
        BY <2>1, <3>1, <3>5
      <4>2. PICK i \in T : Cardinality(UpTo(T, i)) = k
        BY <2>2, <4>1
      <4>3. i \in S /\ UpTo(S, i) = UpTo(T, i)
        BY <3>2
      <4> QED
        BY <4>2, <4>3
    <3> QED
      BY <3>4, <3>5
  <2> QED
    BY <2>3, <2>4
<1> HIDE DEF N, Ranked
<1>4. N = Nat
  <2>1. N \in SUBSET Nat
    BY DEF N
  <2> QED
    BY <1>2, <1>3, <2>1, SetInduction
<1> QED
  BY <1>1, <1>4 DEF N, Ranked

\* The indexes a loop goes through are the ones it does not skip, and all of them
\* when it skips none.
LEMMA InOrderIs ==
  ASSUME NEW n \in Nat, NEW S \in SUBSET (1 .. n)
  PROVE  /\ DOMAIN InOrder(S) = 1 .. Cardinality(S) /\ Cardinality(S) \in 0 .. n
         /\ \A k \in DOMAIN InOrder(S) : InOrder(S)[k] \in S
         /\ S = 1 .. n => DOMAIN InOrder(S) = 1 .. n /\ \A k \in 1 .. n : InOrder(S)[k] = k
<1> DEFINE Ranks(i, k) == i \in S /\ Cardinality({j \in S : j <= i}) = k
           At(k) == CHOOSE i \in S : Cardinality({j \in S : j <= i}) = k
<1>1. Cardinality(S) \in 0 .. n
  BY RankExists
<1>2. ASSUME NEW k \in 1 .. Cardinality(S) PROVE Ranks(At(k), k)
  <2>1. \E i \in S : Cardinality(UpTo(S, i)) = k
    BY RankExists
  <2>2. \E i \in S : Cardinality({j \in S : j <= i}) = k
    BY <2>1 DEF UpTo
  <2> QED
    BY <2>2
<1>3. InOrder(S) = [k \in 1 .. Cardinality(S) |-> At(k)]
  BY DEF InOrder
<1>4. ASSUME S = 1 .. n, NEW k \in 1 .. n PROVE Cardinality(S) = n /\ At(k) = k
  <2>1. Cardinality(S) = n
    BY <1>4, FS_Interval
  <2>2. Ranks(At(k), k)
    BY <1>2, <2>1
  <2>3. ASSUME NEW i \in S PROVE Cardinality({j \in S : j <= i}) = i
    <3>1. {j \in S : j <= i} = 1 .. i /\ i \in Nat /\ 1 <= i
      BY <1>4
    <3>2. Cardinality(1 .. i) = i
      BY <3>1, FS_Interval
    <3> QED
      BY <3>1, <3>2
  <2> HIDE DEF At
  <2> QED
    BY <2>1, <2>2, <2>3
<1>5. S = 1 .. n => Cardinality(S) = n
  BY FS_Interval
<1> HIDE DEF At
<1> QED
  BY <1>1, <1>2, <1>3, <1>4, <1>5

-----------------------------------------------------------------------------
(* What the parsers hand over. *)

\* The chain of a state is one that a node can serve.
LEMMA ServedChain ==
  ASSUME chain \in Chains
  PROVE  /\ MaxHeight \in Nat /\ IsChain(chain)
         /\ \A h \in Heights :
              /\ IsList(chain[h].txs) /\ IsList(chain[h].signers) /\ IsList(chain[h].events)
              /\ \A tx \in Range(chain[h].txs) :
                   IsList(tx.msgs) /\ \A m \in Range(tx.msgs) : AreEvents(m.events)
  BY ContentsAssumption DEF ContentsAssumption, IsChain

\* One fee at most.
OneAtMost(S) == S = {} \/ \E f : S = {f}

LEMMA WrapperIs ==
  ASSUME NEW tx, NEW h, NEW want, NEW path, NEW w, w = TxDBWrapper(tx, h, want, path)
  PROVE  /\ w.hash = tx.hash /\ w.code = tx.code /\ w.height = h
         /\ OneAtMost(w.fees)
         /\ w.messages = ProcessTx(tx, want, path)
<1>1. \A signers : OneAtMost(ProcessFees(tx, signers))
  BY DEF OneAtMost, ProcessFees
<1> QED
  BY <1>1 DEF TxDBWrapper

\* IndexNewBlock writes one wrapper of each hash.
LEMMA Wrappers ==
  ASSUME chain \in Chains, NEW h \in Heights, NEW want, NEW path,
         NEW ws, ws = Parsed(h, want, path)
  PROVE  /\ UniqueTxes(ws) \subseteq Range(ws)
         /\ \A w \in Range(ws) : \E u \in UniqueTxes(ws) : u.hash = w.hash
         /\ \A w \in Range(ws) :
              \E tx \in Range(chain[h].txs) : w = TxDBWrapper(tx, h, want, path)
         /\ Range(ws) = {ws[i] : i \in DOMAIN ws}
<1> DEFINE n == Len(chain[h].txs)
<1>1. n \in Nat /\ DOMAIN chain[h].txs = 1 .. n
      /\ \A i \in 1 .. n : chain[h].txs[i] \in Range(chain[h].txs)
  BY ServedChain, ListIs
<1>2. DOMAIN ws = 1 .. n
      /\ \A i \in 1 .. n : ws[i] = TxDBWrapper(chain[h].txs[i], h, want, path)
  BY <1>1 DEF Parsed
<1>3. Range(ws) = {ws[i] : i \in DOMAIN ws}
  BY DEF Range
<1> HIDE DEF n
<1>4. ASSUME NEW w \in Range(ws) PROVE \E u \in UniqueTxes(ws) : u.hash = w.hash
  <2> DEFINE T == {i \in 1 .. n : ws[i].hash = w.hash}
  <2>1. T \in SUBSET (1 .. n) /\ T # {}
    BY <1>2, <1>3
  <2>2. PICK x \in T : \A y \in T : y <= x
    BY <1>1, <2>1, HighestExists
  <2>3. ws[x] \in UniqueTxes(ws)
    BY <1>2, <2>2 DEF UniqueTxes
  <2> QED
    BY <2>2, <2>3
<1> QED
  BY <1>1, <1>2, <1>3, <1>4 DEF UniqueTxes

\* The slots of a transaction are of messages, and their own when all decode.
LEMMA SlotsAre ==
  ASSUME NEW tx, NEW want, IsList(tx.msgs)
  PROVE  /\ DOMAIN Slots(tx, want) \subseteq DOMAIN tx.msgs
         /\ \A k \in DOMAIN Slots(tx, want) : Slots(tx, want)[k] \in DOMAIN tx.msgs
         /\ (\A i \in DOMAIN tx.msgs : tx.msgs[i].decodes)
              => /\ DOMAIN Slots(tx, want) = DOMAIN tx.msgs
                 /\ \A k \in DOMAIN tx.msgs : Slots(tx, want)[k] = k
<1> DEFINE n == Len(tx.msgs)
           S == {i \in DOMAIN tx.msgs : Wanted(tx, want, i) => tx.msgs[i].decodes}
<1>1. n \in Nat /\ DOMAIN tx.msgs = 1 .. n
  BY ListIs
<1>2. Slots(tx, want) = InOrder(S)
  BY DEF Slots
<1>3. S \in SUBSET (1 .. n)
  BY <1>1
<1>4. (\A i \in DOMAIN tx.msgs : tx.msgs[i].decodes) => S = 1 .. n
  BY <1>1
<1> HIDE DEF n, S
<1>5. 1 .. Cardinality(S) \subseteq 1 .. n /\ DOMAIN InOrder(S) = 1 .. Cardinality(S)
  <2>1. Cardinality(S) \in 0 .. n /\ DOMAIN InOrder(S) = 1 .. Cardinality(S)
    BY <1>1, <1>3, InOrderIs
  <2> QED
    BY <1>1, <2>1
<1>6. \A k \in DOMAIN InOrder(S) : InOrder(S)[k] \in S
  BY <1>1, <1>3, InOrderIs
<1>7. S = 1 .. n => DOMAIN InOrder(S) = 1 .. n /\ \A k \in 1 .. n : InOrder(S)[k] = k
  BY <1>1, <1>3, InOrderIs
<1> QED
  BY <1>1, <1>2, <1>3, <1>4, <1>5, <1>6, <1>7

\* Events of a message, of the whole transaction, or none.
LEMMA EmptyEvents == AreEvents(<<>>)
<1>1. <<>> \in Seq(Range(<<>>)) /\ Range(<<>>) = {}
  BY RangeEmpty
<1> QED
  BY <1>1 DEF AreEvents, IsList

LEMMA AllEventsAre ==
  ASSUME NEW tx, IsList(tx.msgs), \A m \in Range(tx.msgs) : AreEvents(m.events)
  PROVE  AreEvents(AllEvents(tx))
<1> DEFINE n == Len(tx.msgs)
           seqs == [i \in DOMAIN tx.msgs |-> tx.msgs[i].events]
           Good(e) == e = [type |-> e.type, attrs |-> e.attrs] /\ IsList(e.attrs)
           B == {e \in UNION {Range(tx.msgs[i].events) : i \in 1 .. n} : Good(e)}
<1>1. n \in Nat /\ DOMAIN tx.msgs = 1 .. n
      /\ \A i \in 1 .. n : tx.msgs[i] \in Range(tx.msgs)
  BY ListIs
<1>2. ASSUME NEW i \in 1 .. n PROVE tx.msgs[i].events \in Seq(B)
  <2> DEFINE s == tx.msgs[i].events
  <2>1. AreEvents(s)
    BY <1>1
  <2>2. \A e \in Range(s) : e \in B
    <3>1. \A e \in Range(s) : Good(e)
      BY <2>1 DEF AreEvents
    <3> QED
      BY <3>1
  <2>3. s \in Seq(Range(s))
    BY <2>1 DEF AreEvents, IsList
  <2> HIDE DEF s, B
  <2>4. s \in Seq(B)
    BY <2>2, <2>3
  <2> QED
    BY <2>4 DEF s
<1>3. seqs \in [1 .. n -> Seq(B)]
  <2> HIDE DEF B
  <2> QED
    BY <1>1, <1>2
<1> HIDE DEF n, B
<1>4. AllEvents(tx) \in Seq(B)
  <2>1. AllEvents(tx) = FlattenSeq(seqs)
    BY DEF AllEvents
  <2> HIDE DEF seqs
  <2> QED
    BY <1>1, <1>3, <2>1, FlattenList
<1>5. IsList(AllEvents(tx)) /\ Range(AllEvents(tx)) \subseteq B
  BY <1>4 DEF IsList, Range
<1>6. \A e \in B : Good(e)
  BY DEF B
<1> QED
  BY <1>5, <1>6 DEF AreEvents

\* A message that is written.
IsMessage(m) == m = [type |-> m.type, raw |-> m.raw, events |-> m.events] /\ AreEvents(m.events)

LEMMA ProcessTxIs ==
  ASSUME NEW tx, NEW want, NEW path, NEW k \in DOMAIN ProcessTx(tx, want, path),
         IsList(tx.msgs), \A m \in Range(tx.msgs) : AreEvents(m.events)
  PROVE  /\ tx.code = 0 /\ k \in DOMAIN Slots(tx, want)
         /\ ProcessTx(tx, want, path)[k]
              = [type |-> tx.msgs[Slots(tx, want)[k]].type,
                 raw |-> RawMessages(tx, want, path)[k],
                 events |-> IF HasLog(tx, want, path, k) THEN LogEvents(tx, want, path, k)
                                                         ELSE <<>>]
         /\ IsMessage(ProcessTx(tx, want, path)[k])
<1>1. /\ tx.code = 0 /\ k \in DOMAIN Slots(tx, want)
      /\ ProcessTx(tx, want, path)[k]
           = [type |-> tx.msgs[Slots(tx, want)[k]].type,
              raw |-> RawMessages(tx, want, path)[k],
              events |-> IF HasLog(tx, want, path, k) THEN LogEvents(tx, want, path, k)
                                                      ELSE <<>>]
  BY DEF ProcessTx, ProcessMessage
<1>2. k \in DOMAIN tx.msgs /\ tx.msgs[k] \in Range(tx.msgs)
  BY <1>1, SlotsAre DEF Range
<1>3. AreEvents(LogEvents(tx, want, path, k))
  BY <1>2, EmptyEvents, AllEventsAre DEF LogEvents
<1> QED
  BY <1>1, <1>3, EmptyEvents DEF IsMessage

-----------------------------------------------------------------------------
(* What ON CONFLICT leaves of two passes. *)

\* A longer list adds its tail, another nothing.
LEMMA TailIs ==
  ASSUME NEW old, NEW new, IsList(old), IsList(new), NEW r, r = LongerTail(old, new)
  PROVE  /\ r \in Seq(Range(old) \cup Range(new))
         /\ Len(r) = IF Len(new) <= Len(old) THEN Len(old) ELSE Len(new)
         /\ \A i \in 1 .. Len(r) : r[i] = IF i <= Len(old) THEN old[i] ELSE new[i]
<1> DEFINE S == Range(old) \cup Range(new)
<1>1. old \in Seq(S) /\ new \in Seq(S)
  <2>1. old \in Seq(Range(old)) /\ new \in Seq(Range(new))
    BY DEF IsList
  <2> QED
    BY <2>1
<1> HIDE DEF S
<1>2. CASE Len(new) <= Len(old)
  BY <1>1, <1>2 DEF LongerTail, S
<1>3. CASE ~(Len(new) <= Len(old))
  <2> DEFINE tail == SubSeq(new, Len(old) + 1, Len(new))
  <2>1. /\ Len(old) \in Nat /\ Len(new) \in Nat /\ Len(old) < Len(new)
    BY <1>1, <1>3
  <2>2. /\ tail \in Seq(S) /\ Len(tail) = Len(new) - Len(old)
        /\ \A j \in 1 .. Len(new) - Len(old) : tail[j] = new[Len(old) + j]
    BY <1>1, <2>1
  <2>3. r = old \o tail
    BY <1>3 DEF LongerTail
  <2> HIDE DEF tail
  <2>4. r \in Seq(S) /\ Len(r) = Len(new)
    BY <1>1, <2>1, <2>2, <2>3
  <2>5. ASSUME NEW i \in 1 .. Len(new)
        PROVE  r[i] = IF i <= Len(old) THEN old[i] ELSE new[i]
    <3>1. CASE i <= Len(old)
      BY <1>1, <2>1, <2>2, <2>3, <3>1
    <3>2. CASE ~(i <= Len(old))
      <4>1. i - Len(old) \in 1 .. Len(new) - Len(old) /\ Len(old) + (i - Len(old)) = i
        BY <2>1, <3>2
      <4>2. r[i] = tail[i - Len(old)]
        BY <1>1, <2>1, <2>2, <2>3, <3>2
      <4> QED
        BY <2>2, <3>2, <4>1, <4>2
    <3> QED
      BY <3>1, <3>2
  <2> QED
    BY <1>3, <2>4, <2>5 DEF S
<1> QED
  BY <1>2, <1>3

LEMMA TailGrows ==
  ASSUME NEW old, NEW new, IsList(old), IsList(new)
  PROVE  IsList(LongerTail(old, new)) /\ IsPrefix(old, LongerTail(old, new))
<1> DEFINE r == LongerTail(old, new)
<1>1. /\ r \in Seq(Range(old) \cup Range(new))
      /\ Len(r) = IF Len(new) <= Len(old) THEN Len(old) ELSE Len(new)
      /\ \A i \in 1 .. Len(r) : r[i] = IF i <= Len(old) THEN old[i] ELSE new[i]
  BY TailIs
<1>2. Len(old) \in Nat /\ Len(new) \in Nat /\ old \in Seq(Range(old))
  BY ListIs DEF IsList
<1> HIDE DEF r
<1>3. IsList(r)
  BY <1>1 DEF IsList, Range
<1>4. IsPrefix(old, r)
  <2>1. Len(old) <= Len(r) /\ \A i \in 1 .. Len(old) : r[i] = old[i]
    BY <1>1, <1>2
  <2>2. SubSeq(old, 1, Len(old)) = [i \in 1 .. Len(old) |-> old[i]]
    BY <1>2
  <2>3. SubSeq(r, 1, Len(old)) = [i \in 1 .. Len(old) |-> r[i]]
    BY <1>1, <1>2, <2>1
  <2> QED
    BY <2>1, <2>2, <2>3 DEF IsPrefix
<1> QED
  BY <1>3, <1>4 DEF r

\* An event: its type and its attributes.
IsEvent(e) == e = [type |-> e.type, attrs |-> e.attrs] /\ IsList(e.attrs)

\* The events of two passes, event by event.
LEMMA MergeIs ==
  ASSUME NEW old, NEW new, AreEvents(old), AreEvents(new), NEW r, r = MergeEvents(old, new)
  PROVE  /\ Len(r) = IF Len(new) <= Len(old) THEN Len(old) ELSE Len(new)
         /\ IsList(r)
         /\ \A i \in 1 .. Len(r) :
              r[i] = IF i > Len(old) THEN new[i]
                     ELSE IF i > Len(new) THEN old[i]
                     ELSE [type |-> old[i].type,
                           attrs |-> LongerTail(old[i].attrs, new[i].attrs)]
         /\ Len(old) \in Nat /\ Len(new) \in Nat
         /\ \A i \in 1 .. Len(old) : IsEvent(old[i])
         /\ \A i \in 1 .. Len(new) : IsEvent(new[i])
<1> DEFINE merged == [i \in DOMAIN old |->
                        IF i \in DOMAIN new
                          THEN [old[i] EXCEPT !.attrs = LongerTail(@, new[i].attrs)]
                          ELSE old[i]]
<1>1. /\ Len(old) \in Nat /\ DOMAIN old = 1 .. Len(old)
      /\ Len(new) \in Nat /\ DOMAIN new = 1 .. Len(new)
      /\ IsList(old) /\ IsList(new)
  BY ListIs DEF AreEvents
<1>2. /\ \A i \in 1 .. Len(old) : IsEvent(old[i])
      /\ \A i \in 1 .. Len(new) : IsEvent(new[i])
  BY <1>1, ListIs DEF AreEvents, IsEvent
<1>3. IsList(merged) /\ Len(merged) = Len(old)
  <2>1. merged = [i \in 1 .. Len(old) |-> merged[i]]
    BY <1>1
  <2> HIDE DEF merged
  <2>2. merged \in Seq(Range(merged)) /\ Len(merged) = Len(old)
    <3>1. \A i \in 1 .. Len(old) : merged[i] \in Range(merged)
      BY <2>1 DEF Range
    <3>2. merged \in [1 .. Len(old) -> Range(merged)]
      BY <2>1, <3>1
    <3> QED
      BY <1>1, <3>2
  <2> QED
    BY <2>2 DEF IsList
<1>4. ASSUME NEW i \in 1 .. Len(old)
      PROVE  merged[i] = IF i > Len(new) THEN old[i]
                         ELSE [type |-> old[i].type,
                               attrs |-> LongerTail(old[i].attrs, new[i].attrs)]
  <2>1. old[i] = [type |-> old[i].type, attrs |-> old[i].attrs]
    BY <1>2 DEF IsEvent
  <2>2. \A a : [old[i] EXCEPT !.attrs = a] = [type |-> old[i].type, attrs |-> a]
    BY <2>1
  <2>3. i \in DOMAIN new <=> ~(i > Len(new))
    BY <1>1
  <2> QED
    BY <1>1, <2>2, <2>3
<1>5. r = LongerTail(merged, new)
  BY DEF MergeEvents
<1> HIDE DEF merged
<1>6. /\ r \in Seq(Range(merged) \cup Range(new))
      /\ Len(r) = IF Len(new) <= Len(merged) THEN Len(merged) ELSE Len(new)
      /\ \A i \in 1 .. Len(r) : r[i] = IF i <= Len(merged) THEN merged[i] ELSE new[i]
  <2>1. IsList(merged) /\ IsList(new)
    BY <1>1, <1>3
  <2> QED
    BY ONLY <1>5, <2>1, TailIs
<1>7. IsList(r)
  BY <1>6 DEF IsList, Range
<1>8. ASSUME NEW i \in 1 .. Len(r)
      PROVE  r[i] = IF i > Len(old) THEN new[i]
                    ELSE IF i > Len(new) THEN old[i]
                    ELSE [type |-> old[i].type,
                          attrs |-> LongerTail(old[i].attrs, new[i].attrs)]
  <2>1. CASE i > Len(old)
    BY <1>1, <1>3, <1>6, <2>1
  <2>2. CASE ~(i > Len(old))
    <3>1. i \in 1 .. Len(old) /\ i <= Len(merged)
      BY <1>1, <1>3, <2>2
    <3> QED
      BY <1>4, <1>6, <2>2, <3>1
  <2> QED
    BY <2>1, <2>2
<1> QED
  BY <1>1, <1>2, <1>3, <1>6, <1>7, <1>8

\* What was there stays, in order, and what is there is events.
LEMMA MergeGrows ==
  ASSUME NEW old, NEW new, AreEvents(old), AreEvents(new)
  PROVE  AreEvents(MergeEvents(old, new)) /\ IsPrefixOfEvents(old, MergeEvents(old, new))
<1> DEFINE r == MergeEvents(old, new)
<1>1. /\ Len(r) = IF Len(new) <= Len(old) THEN Len(old) ELSE Len(new)
      /\ IsList(r)
      /\ \A i \in 1 .. Len(r) :
           r[i] = IF i > Len(old) THEN new[i]
                  ELSE IF i > Len(new) THEN old[i]
                  ELSE [type |-> old[i].type, attrs |-> LongerTail(old[i].attrs, new[i].attrs)]
      /\ Len(old) \in Nat /\ Len(new) \in Nat
      /\ \A i \in 1 .. Len(old) : IsEvent(old[i])
      /\ \A i \in 1 .. Len(new) : IsEvent(new[i])
  BY MergeIs
<1> HIDE DEF r
<1>2. ASSUME NEW i \in 1 .. Len(r) PROVE IsEvent(r[i])
  <2>1. r[i] = IF i > Len(old) THEN new[i]
               ELSE IF i > Len(new) THEN old[i]
               ELSE [type |-> old[i].type, attrs |-> LongerTail(old[i].attrs, new[i].attrs)]
    BY <1>1
  <2>2. i > Len(old) => i \in 1 .. Len(new)
    BY <1>1
  <2>3. ~(i > Len(old)) => i \in 1 .. Len(old)
    BY <1>1
  <2>4. CASE i > Len(old)
    BY <1>1, <2>4, <2>1, <2>2
  <2>5. CASE ~(i > Len(old)) /\ i > Len(new)
    BY <1>1, <2>5, <2>1, <2>3
  <2>6. CASE ~(i > Len(old)) /\ ~(i > Len(new))
    <3>1. i \in 1 .. Len(old) /\ i \in 1 .. Len(new)
      BY <1>1, <2>6
    <3>2. IsList(LongerTail(old[i].attrs, new[i].attrs))
      BY <1>1, <3>1, TailGrows DEF IsEvent
    <3>3. r[i] = [type |-> old[i].type, attrs |-> LongerTail(old[i].attrs, new[i].attrs)]
      BY <1>1, <2>6
    <3> QED
      BY <3>2, <3>3 DEF IsEvent
  <2> QED
    BY <2>4, <2>5, <2>6
<1>3. AreEvents(r)
  <2>1. \A e \in Range(r) : IsEvent(e)
    BY <1>1, <1>2, ListIs
  <2> QED
    BY <1>1, <2>1 DEF AreEvents, IsEvent
<1>4. ASSUME NEW i \in 1 .. Len(old)
      PROVE  old[i].type = r[i].type /\ IsPrefix(old[i].attrs, r[i].attrs)
  <2>1. i \in 1 .. Len(r) /\ ~(i > Len(old))
    BY <1>1
  <2>2. CASE i > Len(new)
    <3>1. r[i] = old[i] /\ old[i].attrs \in Seq(Range(old[i].attrs))
      BY <1>1, <2>1, <2>2 DEF IsEvent, IsList
    <3> QED
      BY <3>1 DEF IsPrefix
  <2>3. CASE ~(i > Len(new))
    <3>1. i \in 1 .. Len(new)
      BY <1>1, <2>3
    <3>2. IsPrefix(old[i].attrs, LongerTail(old[i].attrs, new[i].attrs))
      BY <1>1, <3>1, TailGrows DEF IsEvent
    <3>3. r[i] = [type |-> old[i].type, attrs |-> LongerTail(old[i].attrs, new[i].attrs)]
      BY <1>1, <2>1, <2>3
    <3> QED
      BY <3>2, <3>3
  <2> QED
    BY <2>2, <2>3
<1>5. Len(old) <= Len(r) /\ DOMAIN old = 1 .. Len(old)
  BY <1>1, ListIs DEF AreEvents
<1> QED
  BY <1>3, <1>4, <1>5 DEF IsPrefixOfEvents, r

\* Events that no pass touches.
LEMMA EventsStay == ASSUME NEW s, AreEvents(s) PROVE IsPrefixOfEvents(s, s)
<1>1. Len(s) \in Nat /\ DOMAIN s = 1 .. Len(s) /\ \A i \in 1 .. Len(s) : s[i] \in Range(s)
  BY ListIs DEF AreEvents
<1>2. ASSUME NEW i \in 1 .. Len(s) PROVE IsPrefix(s[i].attrs, s[i].attrs)
  <2>1. s[i].attrs \in Seq(Range(s[i].attrs))
    BY <1>1 DEF AreEvents, IsList
  <2> QED
    BY <2>1 DEF IsPrefix
<1> QED
  BY <1>1, <1>2 DEF IsPrefixOfEvents

-----------------------------------------------------------------------------
(* The invariant of the tables. *)

\* The columns of a row of txes with what it owns.
IsTxRow(r) ==
  r = [block |-> r.block, code |-> r.code, time |-> r.time, tip |-> r.tip,
       signers |-> r.signers, fees |-> r.fees, responseCode |-> r.responseCode,
       info |-> r.info]

Shape ==
  /\ chain \in Chains
  /\ flags \in [Heights -> SUBSET {"tx", "events"}]
  /\ signatures = [h \in Heights |-> signatures[h]]

(* Only IndexBlockEvents completes the signatures of a block, and IndexNewBlock adds one
   only while there is none at all. *)
Signed ==
  \A h \in Heights :
    /\ signatures[h] \subseteq Range(chain[h].signers)
    /\ "events" \in flags[h] => signatures[h] = Range(chain[h].signers)

(* A row of txes is of one occurrence of its hash, and its signers are known. *)
IsTxRowOf(hash, r) ==
  /\ IsTxRow(r)
  /\ r.block \in Heights /\ r.time \in Heights /\ OneAtMost(r.fees)
  /\ \E tx \in Range(chain[r.block].txs) : tx.hash = hash /\ tx.code = r.code

TxRows ==
  \A hash \in DOMAIN txes :
    IsTxRowOf(hash, txes[hash]) /\ txes[hash].signers \subseteq addresses

(* What a parser keeps of message k of a transaction all of whose messages decode;
   its events are the same in both passes, or there are none. *)
EventsOf(tx, k) == IF tx.logs THEN tx.msgs[k].events ELSE AllEvents(tx)

Written(tx, k, m) ==
  (\A i \in DOMAIN tx.msgs : tx.msgs[i].decodes)
    => /\ k \in DOMAIN tx.msgs
       /\ m.type = tx.msgs[k].type /\ m.raw = k
       /\ m.events = <<>> \/ m.events = EventsOf(tx, k)

\* A transaction of this hash that the chain has and that succeeded.
Succeeded(tx, hash) ==
  tx.hash = hash /\ tx.code = 0 /\ \E h \in Heights : tx \in Range(chain[h].txs)

(* A row of messages is of a transaction that succeeded. *)
IsMessageOf(key, m) ==
  /\ key = <<key[1], key[2]>> /\ key[2] \in Nat
  /\ IsMessage(m)
  /\ \E tx : Succeeded(tx, key[1]) /\ Written(tx, key[2], m)

MessageRows ==
  \A key \in DOMAIN messages : key[1] \in DOMAIN txes /\ IsMessageOf(key, messages[key])

TablesInv == Shape /\ Signed /\ TxRows /\ MessageRows

-----------------------------------------------------------------------------
(* The conflict clauses, row by row. *)

\* Of two rows of one fee at most one is left.
LEMMA FeesStaySingle ==
  ASSUME NEW old, NEW new, OneAtMost(old), OneAtMost(new)
  PROVE  OneAtMost(UpsertFees(old, new))
<1>1. CASE old = {} \/ new = {}
  BY <1>1 DEF OneAtMost, UpsertFees
<1>2. CASE ~(old = {} \/ new = {})
  <2>1. PICK f, g : old = {f} /\ new = {g}
    BY <1>2 DEF OneAtMost
  <2> DEFINE E(o, n) == [o EXCEPT !.amount = n.amount]
  <2>2. UpsertFees(old, new) = {E(o, n) : o \in old, n \in new}
    BY <1>2 DEF UpsertFees
  <2> HIDE DEF E
  <2>3. \A x : x \in UpsertFees(old, new) <=> \E o \in old, n \in new : x = E(o, n)
    BY ONLY <2>2
  <2>4. \A x : x \in UpsertFees(old, new) <=> x = E(f, g)
    BY ONLY <2>1, <2>3
  <2>5. UpsertFees(old, new) = {E(f, g)}
    BY ONLY <2>4
  <2> QED
    BY <2>5 DEF OneAtMost
<1> QED
  BY <1>1, <1>2

\* The first pass over a transaction, and one that finds its row.
LEMMA NewTxIs ==
  ASSUME NEW h \in Heights, NEW want, NEW path, NEW tx \in Range(chain[h].txs), NEW first,
         NEW w, w = TxDBWrapper(tx, h, want, path)
  PROVE  IsTxRowOf(w.hash, NewTx(w, first)) /\ NewTx(w, first).signers = w.signers
<1>1. w.hash = tx.hash /\ w.code = tx.code /\ w.height = h /\ OneAtMost(w.fees)
  BY WrapperIs
<1>2. /\ IsTxRow(NewTx(w, first))
      /\ NewTx(w, first).block = h /\ NewTx(w, first).time = h
      /\ NewTx(w, first).code = tx.code /\ NewTx(w, first).fees = w.fees
      /\ NewTx(w, first).signers = w.signers
  BY <1>1 DEF NewTx, IsTxRow
<1> QED
  BY <1>1, <1>2 DEF IsTxRowOf

LEMMA UpsertTxIs ==
  ASSUME NEW h \in Heights, NEW want, NEW path, NEW tx \in Range(chain[h].txs),
         NEW w, w = TxDBWrapper(tx, h, want, path),
         NEW old, IsTxRowOf(w.hash, old)
  PROVE  /\ IsTxRowOf(w.hash, UpsertTx(old, w))
         /\ UpsertTx(old, w).signers = old.signers \cup w.signers
         /\ UpsertTx(old, w).time = old.time
<1>1. w.hash = tx.hash /\ w.code = tx.code /\ w.height = h /\ OneAtMost(w.fees)
  BY WrapperIs
<1>2. IsTxRow(old) /\ old.time \in Heights /\ OneAtMost(old.fees)
  BY DEF IsTxRowOf
<1> DEFINE r == UpsertTx(old, w)
<1>3. r = [block |-> w.height, code |-> w.code, time |-> old.time, tip |-> old.tip,
           signers |-> old.signers \cup w.signers, fees |-> UpsertFees(old.fees, w.fees),
           responseCode |-> old.responseCode, info |-> old.info]
  <2> DEFINE signers == old.signers \cup w.signers
             fees == UpsertFees(old.fees, w.fees)
  <2>1. r = [old EXCEPT !.block = w.height, !.code = w.code, !.signers = signers, !.fees = fees]
    BY DEF UpsertTx
  <2>2. old = [block |-> old.block, code |-> old.code, time |-> old.time, tip |-> old.tip,
               signers |-> old.signers, fees |-> old.fees, responseCode |-> old.responseCode,
               info |-> old.info]
    BY <1>2 DEF IsTxRow
  <2> HIDE DEF signers, fees, r
  <2>3. r = [block |-> w.height, code |-> w.code, time |-> old.time, tip |-> old.tip,
             signers |-> signers, fees |-> fees, responseCode |-> old.responseCode,
             info |-> old.info]
    BY <2>1, <2>2
  <2> QED
    BY <2>3 DEF signers, fees
<1> HIDE DEF r
<1>4. IsTxRow(r) /\ r.block = h /\ r.time = old.time /\ r.code = tx.code
      /\ r.fees = UpsertFees(old.fees, w.fees) /\ r.signers = old.signers \cup w.signers
  BY <1>1, <1>3 DEF IsTxRow
<1>5. OneAtMost(r.fees)
  BY <1>1, <1>2, <1>4, FeesStaySingle
<1>6. IsTxRowOf(w.hash, r)
  BY <1>1, <1>2, <1>4, <1>5 DEF IsTxRowOf
<1> QED
  BY <1>4, <1>6 DEF r

\* Two passes over the same events, or over none and some, leave these.
LEMMA MergeSame ==
  ASSUME NEW a, NEW b, AreEvents(a), AreEvents(b), a = b \/ a = <<>> \/ b = <<>>
  PROVE  MergeEvents(a, b) = IF a = <<>> THEN b ELSE a
<1> DEFINE r == MergeEvents(a, b)
<1>1. /\ Len(r) = IF Len(b) <= Len(a) THEN Len(a) ELSE Len(b)
      /\ IsList(r)
      /\ \A i \in 1 .. Len(r) :
           r[i] = IF i > Len(a) THEN b[i]
                  ELSE IF i > Len(b) THEN a[i]
                  ELSE [type |-> a[i].type, attrs |-> LongerTail(a[i].attrs, b[i].attrs)]
      /\ Len(a) \in Nat /\ Len(b) \in Nat
      /\ \A i \in 1 .. Len(a) : IsEvent(a[i])
  BY MergeIs
<1> HIDE DEF r
<1>2. /\ r = [i \in 1 .. Len(r) |-> r[i]]
      /\ a = [i \in 1 .. Len(a) |-> a[i]]
      /\ b = [i \in 1 .. Len(b) |-> b[i]]
  BY <1>1, ListIs DEF AreEvents
<1>3. Len(<<>>) = 0
  OBVIOUS
<1>4. CASE a = <<>>
  <2>1. Len(a) = 0 /\ Len(r) = Len(b)
    BY <1>1, <1>3, <1>4
  <2>2. ASSUME NEW i \in 1 .. Len(b) PROVE r[i] = b[i]
    <3>1. i \in 1 .. Len(r) /\ i > Len(a)
      BY <1>1, <2>1
    <3> QED
      BY <1>1, <3>1
  <2>3. r = b
    BY <1>2, <2>1, <2>2
  <2> QED
    BY <1>4, <2>3 DEF r
<1>5. CASE b = <<>>
  <2>1. Len(b) = 0 /\ Len(r) = Len(a)
    BY <1>1, <1>3, <1>5
  <2>2. ASSUME NEW i \in 1 .. Len(a) PROVE r[i] = a[i]
    <3>1. i \in 1 .. Len(r) /\ ~(i > Len(a)) /\ i > Len(b)
      BY <1>1, <2>1
    <3> QED
      BY <1>1, <3>1
  <2>3. r = a
    BY <1>2, <2>1, <2>2
  <2> QED
    BY <1>5, <2>3 DEF r
<1>6. CASE a = b
  <2>1. Len(r) = Len(a)
    BY <1>1, <1>6
  <2>2. ASSUME NEW i \in 1 .. Len(a) PROVE r[i] = a[i]
    <3>1. r[i] = [type |-> a[i].type, attrs |-> LongerTail(a[i].attrs, a[i].attrs)]
      BY <1>1, <1>6, <2>1
    <3>2. a[i] = [type |-> a[i].type, attrs |-> a[i].attrs] /\ IsList(a[i].attrs)
      BY <1>1 DEF IsEvent
    <3>3. LongerTail(a[i].attrs, a[i].attrs) = a[i].attrs
      BY <3>2, ListIs DEF LongerTail
    <3> QED
      BY <3>1, <3>2, <3>3
  <2>3. r = a
    BY <1>2, <2>1, <2>2
  <2> QED
    BY <1>6, <2>3 DEF r
<1> QED
  BY <1>4, <1>5, <1>6

\* The first pass over a message ...
LEMMA NewMessageIs ==
  ASSUME chain \in Chains, NEW h \in Heights, NEW want, NEW path,
         NEW tx \in Range(chain[h].txs), NEW w, w = TxDBWrapper(tx, h, want, path),
         NEW k \in DOMAIN w.messages
  PROVE  IsMessageOf(<<w.hash, k>>, w.messages[k])
<1> DEFINE m == w.messages[k]
<1>1. IsList(tx.msgs) /\ \A x \in Range(tx.msgs) : AreEvents(x.events)
  BY ServedChain
<1>2. w.hash = tx.hash /\ w.messages = ProcessTx(tx, want, path)
  BY WrapperIs
<1>3. /\ tx.code = 0 /\ k \in DOMAIN Slots(tx, want)
      /\ m = [type |-> tx.msgs[Slots(tx, want)[k]].type,
              raw |-> RawMessages(tx, want, path)[k],
              events |-> IF HasLog(tx, want, path, k) THEN LogEvents(tx, want, path, k)
                                                      ELSE <<>>]
      /\ IsMessage(m)
  BY <1>1, <1>2, ProcessTxIs
<1>4. Succeeded(tx, w.hash)
  BY <1>2, <1>3 DEF Succeeded
<1>5. Wanted(tx, want, Slots(tx, want)[k])
  BY <1>2 DEF ProcessTx
<1>6. ASSUME \A i \in DOMAIN tx.msgs : tx.msgs[i].decodes
      PROVE  /\ k \in DOMAIN tx.msgs
             /\ m.type = tx.msgs[k].type /\ m.raw = k
             /\ m.events = <<>> \/ m.events = EventsOf(tx, k)
  <2>1. k \in DOMAIN tx.msgs /\ Slots(tx, want)[k] = k
    BY <1>1, <1>3, <1>6, SlotsAre
  <2>2. RawMessages(tx, want, path)[k] = k
    <3>1. CASE path = "search"
      BY <1>5, <2>1, <3>1 DEF RawMessages
    <3>2. CASE path # "search"
      BY <1>3, <1>5, <2>1, <3>2 DEF RawMessages
    <3> QED
      BY <3>1, <3>2
  <2>3. HasLog(tx, want, path, k) => LogEvents(tx, want, path, k) = EventsOf(tx, k)
    <3> SUFFICES ASSUME HasLog(tx, want, path, k)
                 PROVE  LogEvents(tx, want, path, k) = EventsOf(tx, k)
      OBVIOUS
    <3>1. Wanted(tx, want, k)
      BY <1>5, <2>1
    <3>2. path = "search" => tx.logs
      BY <3>1 DEF HasLog
    <3> QED
      BY <1>3, <3>1, <3>2 DEF LogEvents, EventsOf
  <2> QED
    BY <1>3, <2>1, <2>2, <2>3
<1>7. Written(tx, k, m)
  BY <1>6 DEF Written
<1>8. k \in Nat
  <2>1. k \in DOMAIN tx.msgs
    BY <1>1, <1>3, SlotsAre
  <2> QED
    BY <1>1, <2>1, ListIs
<1> HIDE DEF m
<1> QED
  BY <1>3, <1>4, <1>7, <1>8 DEF IsMessageOf, m

\* ... and one that finds its row.
LEMMA UpsertMessageIs ==
  ASSUME chain \in Chains, NEW key, NEW old, NEW new, IsMessageOf(key, old), IsMessageOf(key, new)
  PROVE  LET r == UpsertMessage(old, new)
         IN  /\ IsMessageOf(key, r)
             /\ r.type = old.type /\ r.raw = old.raw
             /\ IsPrefixOfEvents(old.events, r.events)
<1> DEFINE r == UpsertMessage(old, new)
           events == MergeEvents(old.events, new.events)
<1>1. IsMessage(old) /\ IsMessage(new)
  BY DEF IsMessageOf
<1>2. r = [type |-> old.type, raw |-> old.raw, events |-> events]
  <2>1. old = [type |-> old.type, raw |-> old.raw, events |-> old.events]
    BY <1>1 DEF IsMessage
  <2>2. r = [old EXCEPT !.events = events]
    BY DEF UpsertMessage
  <2> HIDE DEF r, events
  <2> QED
    BY <2>1, <2>2
<1>3. AreEvents(events) /\ IsPrefixOfEvents(old.events, events)
  BY <1>1, MergeGrows DEF IsMessage
<1>4. PICK tx : Succeeded(tx, key[1]) /\ Written(tx, key[2], old)
  BY DEF IsMessageOf
<1>5. Written(tx, key[2], new)
  <2>1. PICK other : Succeeded(other, key[1]) /\ Written(other, key[2], new)
    BY DEF IsMessageOf
  <2>2. tx = other
    BY <1>4, <2>1, ServedChain DEF Succeeded, IsChain
  <2> QED
    BY <2>1, <2>2
<1>6. ASSUME \A i \in DOMAIN tx.msgs : tx.msgs[i].decodes
      PROVE  events = <<>> \/ events = EventsOf(tx, key[2])
  <2>1. /\ old.events = <<>> \/ old.events = EventsOf(tx, key[2])
        /\ new.events = <<>> \/ new.events = EventsOf(tx, key[2])
    BY <1>4, <1>5, <1>6 DEF Written
  <2>2. events = IF old.events = <<>> THEN new.events ELSE old.events
    BY <1>1, <2>1, MergeSame DEF IsMessage
  <2> QED
    BY <2>1, <2>2
<1> HIDE DEF r, events
<1>7. r.type = old.type /\ r.raw = old.raw /\ r.events = events /\ IsMessage(r)
  BY <1>2, <1>3 DEF IsMessage
<1>8. Written(tx, key[2], r)
  BY <1>4, <1>6, <1>7 DEF Written
<1>9. IsMessageOf(key, r)
  BY <1>4, <1>7, <1>8 DEF IsMessageOf
<1> QED
  BY <1>3, <1>7, <1>9 DEF r

-----------------------------------------------------------------------------
(* The transactions of the database. *)

\* The hashes a block comes with have rows, and a row that was there has its
\* signers and its time still.
LEMMA TxesWritten ==
  ASSUME chain \in Chains, TxRows, NEW h \in Heights, NEW want, NEW path,
         NEW ws, ws = Parsed(h, want, path),
         NEW first, NEW rows, rows = UpsertTxes(UniqueTxes(ws), first)
  PROVE  /\ DOMAIN txes \subseteq DOMAIN rows
         /\ \A w \in Range(ws) : w.hash \in DOMAIN rows
         /\ \A hash \in DOMAIN rows :
              IsTxRowOf(hash, rows[hash]) /\ rows[hash].signers \subseteq addresses \cup AddressesOf(ws)
         /\ \A hash \in DOMAIN txes :
              txes[hash].signers \subseteq rows[hash].signers /\ txes[hash].time = rows[hash].time
<1> DEFINE unique == UniqueTxes(ws)
           passed == {w.hash : w \in unique}
           of(hash) == CHOOSE w \in unique : w.hash = hash
<1>1. /\ unique \subseteq Range(ws)
      /\ \A w \in Range(ws) : \E u \in unique : u.hash = w.hash
      /\ \A w \in Range(ws) : \E tx \in Range(chain[h].txs) : w = TxDBWrapper(tx, h, want, path)
      /\ Range(ws) = {ws[i] : i \in DOMAIN ws}
  BY Wrappers
<1>2. rows = [hash \in passed \cup DOMAIN txes |->
                IF hash \notin passed THEN txes[hash]
                ELSE IF hash \in DOMAIN txes THEN UpsertTx(txes[hash], of(hash))
                ELSE NewTx(of(hash), first)]
  BY DEF UpsertTxes
<1>3. ASSUME NEW hash \in passed PROVE of(hash) \in unique /\ of(hash).hash = hash
  <2>1. \E w \in unique : w.hash = hash
    OBVIOUS
  <2> QED
    BY <2>1
<1>4. \A w \in Range(ws) : w.signers \subseteq AddressesOf(ws)
  BY <1>1 DEF AddressesOf
<1>5. \A w \in Range(ws) : w.hash \in passed
  BY <1>1
<1> HIDE DEF unique, passed, of
<1>6. ASSUME NEW hash \in passed \cup DOMAIN txes
      PROVE  /\ IsTxRowOf(hash, rows[hash])
             /\ rows[hash].signers \subseteq addresses \cup AddressesOf(ws)
             /\ hash \in DOMAIN txes => /\ txes[hash].signers \subseteq rows[hash].signers
                                       /\ txes[hash].time = rows[hash].time
  <2>1. CASE hash \notin passed
    <3>1. rows[hash] = txes[hash] /\ hash \in DOMAIN txes
      BY <1>2, <2>1
    <3> QED
      BY <3>1 DEF TxRows
  <2>2. CASE hash \in passed
    <3>1. of(hash) \in Range(ws) /\ of(hash).hash = hash
      BY <1>1, <1>3, <2>2
    <3>2. PICK tx \in Range(chain[h].txs) : of(hash) = TxDBWrapper(tx, h, want, path)
      BY <1>1, <3>1
    <3>3. of(hash).signers \subseteq AddressesOf(ws)
      BY <1>4, <3>1
    <3>4. CASE hash \in DOMAIN txes
      <4>1. rows[hash] = UpsertTx(txes[hash], of(hash))
        BY <1>2, <2>2, <3>4
      <4>2. IsTxRowOf(hash, txes[hash]) /\ txes[hash].signers \subseteq addresses
        BY <3>4 DEF TxRows
      <4>3. /\ IsTxRowOf(hash, rows[hash])
            /\ rows[hash].signers = txes[hash].signers \cup of(hash).signers
            /\ rows[hash].time = txes[hash].time
        BY <3>1, <3>2, <4>1, <4>2, UpsertTxIs
      <4> QED
        BY <3>3, <4>2, <4>3
    <3>5. CASE hash \notin DOMAIN txes
      <4>1. rows[hash] = NewTx(of(hash), first)
        BY <1>2, <2>2, <3>5
      <4>2. IsTxRowOf(hash, rows[hash]) /\ rows[hash].signers = of(hash).signers
        BY <3>1, <3>2, <4>1, NewTxIs
      <4> QED
        BY <3>3, <3>5, <4>2
    <3> QED
      BY <3>4, <3>5
  <2> QED
    BY <2>1, <2>2
<1>7. DOMAIN rows = passed \cup DOMAIN txes
  BY <1>2
<1> QED
  BY <1>5, <1>6, <1>7

\* The messages a block comes with have rows, and a row that was there keeps what
\* it has.
LEMMA MessagesWritten ==
  ASSUME chain \in Chains, MessageRows, NEW h \in Heights, NEW want, NEW path,
         NEW ws, ws = Parsed(h, want, path), NEW rows, rows = UpsertMessages(ws)
  PROVE  /\ \A key \in DOMAIN rows :
              /\ IsMessageOf(key, rows[key])
              /\ key \in DOMAIN messages \/ \E w \in Range(ws) : key[1] = w.hash
         /\ \A key \in DOMAIN messages :
              /\ key \in DOMAIN rows
              /\ rows[key].type = messages[key].type /\ rows[key].raw = messages[key].raw
              /\ IsPrefixOfEvents(messages[key].events, rows[key].events)
<1> DEFINE passed == UNION {{<<w.hash, k>> : k \in DOMAIN w.messages} : w \in Range(ws)}
           of(key) == CHOOSE w \in Range(ws) : w.hash = key[1] /\ key[2] \in DOMAIN w.messages
           new(key) == of(key).messages[key[2]]
<1>1. \A w \in Range(ws) : \E tx \in Range(chain[h].txs) : w = TxDBWrapper(tx, h, want, path)
  BY Wrappers
<1>2. rows = [key \in passed \cup DOMAIN messages |->
                IF key \notin passed THEN messages[key]
                ELSE IF key \in DOMAIN messages THEN UpsertMessage(messages[key], new(key))
                ELSE new(key)]
  BY DEF UpsertMessages
<1>3. ASSUME NEW key \in passed
      PROVE  /\ IsMessageOf(key, new(key))
             /\ of(key) \in Range(ws) /\ key[1] = of(key).hash
  <2>1. PICK w \in Range(ws) : \E k \in DOMAIN w.messages : key = <<w.hash, k>>
    OBVIOUS
  <2>2. w.hash = key[1] /\ key[2] \in DOMAIN w.messages /\ key = <<key[1], key[2]>>
    BY <2>1
  <2>3. of(key) \in Range(ws) /\ of(key).hash = key[1] /\ key[2] \in DOMAIN of(key).messages
    BY <2>2
  <2> HIDE DEF of, passed
  <2>4. PICK tx \in Range(chain[h].txs) : of(key) = TxDBWrapper(tx, h, want, path)
    BY <1>1, <2>3
  <2>5. IsMessageOf(<<of(key).hash, key[2]>>, of(key).messages[key[2]])
    BY <2>3, <2>4, NewMessageIs
  <2>6. <<of(key).hash, key[2]>> = key
    BY <2>2, <2>3
  <2> QED
    BY <2>3, <2>5, <2>6
<1> HIDE DEF passed, of, new
<1>4. ASSUME NEW key \in DOMAIN messages
      PROVE  IsMessageOf(key, messages[key]) /\ AreEvents(messages[key].events)
  BY DEF MessageRows, IsMessageOf, IsMessage
<1>5. ASSUME NEW key \in passed \cup DOMAIN messages
      PROVE  /\ IsMessageOf(key, rows[key])
             /\ key \in DOMAIN messages =>
                  /\ rows[key].type = messages[key].type /\ rows[key].raw = messages[key].raw
                  /\ IsPrefixOfEvents(messages[key].events, rows[key].events)
  <2>1. CASE key \notin passed
    <3>1. rows[key] = messages[key] /\ key \in DOMAIN messages
      BY <1>2, <2>1
    <3> QED
      BY <1>4, <3>1, EventsStay
  <2>2. CASE key \in passed /\ key \in DOMAIN messages
    <3>1. rows[key] = UpsertMessage(messages[key], new(key))
      BY <1>2, <2>2
    <3> QED
      BY <1>3, <1>4, <2>2, <3>1, UpsertMessageIs
  <2>3. CASE key \in passed /\ key \notin DOMAIN messages
    <3>1. rows[key] = new(key)
      BY <1>2, <2>3
    <3> QED
      BY <1>3, <2>3, <3>1
  <2> QED
    BY <2>1, <2>2, <2>3
<1>6. DOMAIN rows = passed \cup DOMAIN messages
  BY <1>2
<1> QED
  BY <1>3, <1>5, <1>6

\* The block goes on having what it has when its flag is set.
LEMMA FlagSet ==
  ASSUME Shape, NEW h \in Heights, NEW f \in {"tx", "events"},
         flags' = [flags EXCEPT ![h] = @ \cup {f}]
  PROVE  /\ flags' \in [Heights -> SUBSET {"tx", "events"}]
         /\ flags'[h] = flags[h] \cup {f}
         /\ \A g \in Heights : g # h => flags'[g] = flags[g]
  BY DEF Shape

\* A block whose events came first has its signatures, and the one row that
\* IndexNewBlock may add is of another block.
LEMMA SignaturesWritten ==
  ASSUME Shape, Signed, NEW h \in Heights, signatures' = NewBlockSignatures(h)
  PROVE  /\ signatures' = [g \in Heights |-> signatures'[g]]
         /\ \A g \in Heights :
              /\ signatures[g] \subseteq signatures'[g]
              /\ signatures'[g] \subseteq Range(chain[g].signers)
              /\ "events" \in flags[g] => signatures'[g] = Range(chain[g].signers)
<1>1. CASE signatures' = signatures
  BY <1>1 DEF Shape, Signed
<1>2. CASE signatures' # signatures
  <2>1. /\ chain[h].signers # <<>> /\ \A g \in Heights : signatures[g] = {}
        /\ signatures' = [signatures EXCEPT ![h] = {Head(chain[h].signers)}]
    BY <1>2 DEF NewBlockSignatures
  <2>2. Head(chain[h].signers) \in Range(chain[h].signers)
    <3>1. IsList(chain[h].signers)
      BY ServedChain DEF Shape
    <3> QED
      BY <2>1, <3>1, RangeTail DEF IsList
  <2>3. "events" \notin flags[h]
    BY <2>1, <2>2 DEF Signed
  <2>4. /\ signatures' = [g \in Heights |-> signatures'[g]]
        /\ signatures'[h] = {Head(chain[h].signers)}
        /\ \A g \in Heights : g # h => signatures'[g] = signatures[g]
    BY <2>1 DEF Shape
  <2> QED
    BY <2>1, <2>2, <2>3, <2>4 DEF Signed
<1> QED
  BY <1>1, <1>2

LEMMA NewBlockTables ==
  ASSUME TablesInv, UNCHANGED chain, NEW h \in Heights, NEW want, NEW path,
         IndexNewBlock(h, Parsed(h, want, path))
  PROVE  TablesInv' /\ RowsKept
<1> DEFINE ws == Parsed(h, want, path)
<1>1. /\ flags' = [flags EXCEPT ![h] = @ \cup {"tx"}]
      /\ signatures' = NewBlockSignatures(h)
      /\ txes' = UpsertTxes(UniqueTxes(ws), firstTip')
      /\ messages' = UpsertMessages(ws)
      /\ addresses' = addresses \cup AddressesOf(ws)
  BY DEF IndexNewBlock, addAddresses
<1> HIDE DEF ws
<1>2. Shape /\ Signed /\ TxRows /\ MessageRows /\ chain \in Chains
  BY DEF TablesInv, Shape
<1>3. /\ flags' \in [Heights -> SUBSET {"tx", "events"}]
      /\ flags'[h] = flags[h] \cup {"tx"}
      /\ \A g \in Heights : g # h => flags'[g] = flags[g]
  BY <1>1, <1>2, FlagSet
<1>4. /\ signatures' = [g \in Heights |-> signatures'[g]]
      /\ \A g \in Heights :
           /\ signatures[g] \subseteq signatures'[g]
           /\ signatures'[g] \subseteq Range(chain[g].signers)
           /\ "events" \in flags[g] => signatures'[g] = Range(chain[g].signers)
  BY <1>1, <1>2, SignaturesWritten
<1>5. /\ DOMAIN txes \subseteq DOMAIN txes'
      /\ \A w \in Range(ws) : w.hash \in DOMAIN txes'
      /\ \A hash \in DOMAIN txes' :
           IsTxRowOf(hash, txes'[hash])
           /\ txes'[hash].signers \subseteq addresses \cup AddressesOf(ws)
      /\ \A hash \in DOMAIN txes :
           txes[hash].signers \subseteq txes'[hash].signers /\ txes[hash].time = txes'[hash].time
  BY <1>1, <1>2, TxesWritten DEF ws
<1>6. /\ \A key \in DOMAIN messages' :
           /\ IsMessageOf(key, messages'[key])
           /\ key \in DOMAIN messages \/ \E w \in Range(ws) : key[1] = w.hash
      /\ \A key \in DOMAIN messages :
           /\ key \in DOMAIN messages'
           /\ messages'[key].type = messages[key].type /\ messages'[key].raw = messages[key].raw
           /\ IsPrefixOfEvents(messages[key].events, messages'[key].events)
  BY <1>1, <1>2, MessagesWritten DEF ws
<1>7. Shape'
  BY <1>2, <1>3, <1>4 DEF Shape
<1>8. Signed'
  <2>1. \A g \in Heights : "events" \in flags'[g] => "events" \in flags[g]
    BY <1>3
  <2> QED
    BY <1>4, <2>1 DEF Signed
<1>9. TxRows'
  BY <1>1, <1>5 DEF TxRows, IsTxRowOf
<1>10. MessageRows'
  <2> SUFFICES ASSUME NEW key \in DOMAIN messages'
               PROVE  key[1] \in DOMAIN txes' /\ IsMessageOf(key, messages[key])'
    BY DEF MessageRows
  <2>1. key \in DOMAIN messages => key[1] \in DOMAIN txes
    BY <1>2 DEF MessageRows
  <2>2. key[1] \in DOMAIN txes'
    BY <1>5, <1>6, <2>1
  <2>3. IsMessageOf(key, messages'[key])
    BY <1>6
  <2> QED
    BY <2>2, <2>3 DEF IsMessageOf, Succeeded
<1>11. RowsKept
  <2>1. \A g \in Heights : flags[g] \subseteq flags'[g]
    BY <1>3
  <2> QED
    BY <1>1, <1>4, <1>5, <1>6, <2>1 DEF RowsKept
<1> QED
  BY <1>7, <1>8, <1>9, <1>10, <1>11 DEF TablesInv

\* What a step leaves alone is kept.
LEMMA TablesStay ==
  ASSUME TablesInv, UNCHANGED <<chain, flags, signatures, txes, messages>>,
         addresses \subseteq addresses'
  PROVE  TablesInv' /\ RowsKept
<1>1. Shape'
  BY DEF TablesInv, Shape
<1>2. Signed'
  BY DEF TablesInv, Signed
<1>3. TxRows'
  BY DEF TablesInv, TxRows, IsTxRowOf
<1>4. MessageRows'
  BY DEF TablesInv, MessageRows, IsMessageOf, Succeeded
<1>5. \A key \in DOMAIN messages : IsPrefixOfEvents(messages[key].events, messages[key].events)
  BY EventsStay DEF TablesInv, MessageRows, IsMessageOf, IsMessage
<1> QED
  BY <1>1, <1>2, <1>3, <1>4, <1>5 DEF TablesInv, RowsKept

LEMMA BlockEventsTables ==
  ASSUME TablesInv, UNCHANGED chain, NEW h \in Heights, IndexBlockEvents(h)
  PROVE  TablesInv' /\ RowsKept
<1>1. /\ flags' = [flags EXCEPT ![h] = @ \cup {"events"}]
      /\ signatures' = [signatures EXCEPT ![h] = @ \cup Range(chain[h].signers)]
      /\ UNCHANGED <<txes, firstTip, messages, addresses>>
  BY DEF IndexBlockEvents
<1>2. Shape /\ Signed
  BY DEF TablesInv
<1>3. /\ flags' \in [Heights -> SUBSET {"tx", "events"}]
      /\ flags'[h] = flags[h] \cup {"events"}
      /\ \A g \in Heights : g # h => flags'[g] = flags[g]
  BY <1>1, <1>2, FlagSet
<1>4. /\ signatures' = [g \in Heights |-> signatures'[g]]
      /\ signatures'[h] = signatures[h] \cup Range(chain[h].signers)
      /\ \A g \in Heights : g # h => signatures'[g] = signatures[g]
  BY <1>1, <1>2 DEF Shape
<1>5. Shape'
  BY <1>2, <1>3, <1>4 DEF Shape
<1>6. Signed'
  BY <1>2, <1>3, <1>4 DEF Signed
<1>7. TxRows'
  BY <1>1 DEF TablesInv, TxRows, IsTxRowOf
<1>8. MessageRows'
  BY <1>1 DEF TablesInv, MessageRows, IsMessageOf, Succeeded
<1>9. \A key \in DOMAIN messages : IsPrefixOfEvents(messages[key].events, messages[key].events)
  BY EventsStay DEF TablesInv, MessageRows, IsMessageOf, IsMessage
<1>10. RowsKept
  BY <1>1, <1>3, <1>4, <1>9 DEF RowsKept
<1> QED
  BY <1>5, <1>6, <1>7, <1>8, <1>10 DEF TablesInv

LEMMA InitTables == Init => TablesInv
<1> SUFFICES ASSUME Init PROVE TablesInv
  OBVIOUS
<1>1. /\ chain \in Chains
      /\ flags = [h \in Heights |-> {}] /\ signatures = [h \in Heights |-> {}]
      /\ txes = <<>> /\ messages = <<>>
  BY DEF Init, TxTablesInit
<1>2. DOMAIN txes = {} /\ DOMAIN messages = {}
  BY <1>1
<1> QED
  BY <1>1, <1>2 DEF TablesInv, Shape, Signed, TxRows, MessageRows

LEMMA NextTables == TablesInv /\ [Next]_vars => TablesInv' /\ RowsKept
<1> SUFFICES ASSUME TablesInv, [Next]_vars PROVE TablesInv' /\ RowsKept
  OBVIOUS
<1>1. ASSUME NEW h \in Heights, NEW path \in Paths, IndexTxs(h, path)
      PROVE  TablesInv' /\ RowsKept
  BY <1>1, NewBlockTables DEF IndexTxs
<1>2. ASSUME NEW h \in Heights, NEW path \in Paths, FailTxs(h, path)
      PROVE  TablesInv' /\ RowsKept
  BY <1>2, TablesStay DEF FailTxs, RolledBack, addAddresses
<1>3. ASSUME NEW h \in Heights, IndexEvents(h) PROVE TablesInv' /\ RowsKept
  BY <1>3, BlockEventsTables DEF IndexEvents
<1>4. ASSUME UNCHANGED <<chain, tables>> PROVE TablesInv' /\ RowsKept
  BY <1>4, TablesStay DEF tables
<1>5. CASE LoopOverTxs
  BY <1>4, <1>5 DEF LoopOverTxs
<1>6. CASE Read
  BY <1>4, <1>6 DEF Read
<1>7. CASE Save
  BY <1>4, <1>7 DEF Save
<1>8. CASE Migrate
  BY <1>4, <1>8 DEF Migrate
<1>9. CASE RefreshMaterializedViews
  BY <1>4, <1>9 DEF RefreshMaterializedViews
<1>10. CASE Serve
  BY <1>4, <1>10 DEF Serve
<1>11. CASE CrashAndRestart
  BY <1>4, <1>11 DEF CrashAndRestart
<1>12. CASE UNCHANGED vars
  BY <1>4, <1>12 DEF vars
<1> QED
  BY <1>1, <1>2, <1>3, <1>5, <1>6, <1>7, <1>8, <1>9, <1>10, <1>11, <1>12 DEF Next

(* IndexNewBlock and IndexBlockEvents (db/db.go, db/events.go), whatever block they
   are given and however often: rows stay, and events only get longer. *)
THEOREM RowsGrowAlways == Spec => RowsOnlyGrow
<1>1. TablesInv /\ [Next]_vars => [RowsKept]_vars
  BY NextTables
<1> QED
  BY InitTables, NextTables, <1>1, PTL DEF Spec, RowsOnlyGrow

(* The upsert of txes by hash: block and code are of one occurrence. *)
THEOREM TxRowsStayWhole == Spec => []TxRowsOfOneBlock
<1>1. TablesInv => TxRowsOfOneBlock
  BY DEF TablesInv, TxRows, IsTxRowOf, TxRowsOfOneBlock
<1> QED
  BY InitTables, NextTables, <1>1, PTL DEF Spec

\* A block has signed itself.
LEMMA SignedOnce ==
  ASSUME NEW h \in Heights, NEW validator \in signatures[h], flags[h] # {}
  PROVE  /\ \A g \in Heights : h \notin UptimeByBlocks(MaxHeight, g, validator).unsigned
         /\ BlockUptime(0, h, validator) = 1
<1>1. MaxHeight \in Nat /\ h \in 1 .. MaxHeight
  BY ContentsAssumption DEF ContentsAssumption, Heights
<1>2. h \in BlockRows
  BY DEF BlockRows
<1>3. ASSUME NEW g \in Heights, h \in UptimeByBlocks(MaxHeight, g, validator).unsigned PROVE FALSE
  <2>1. h \in (g - MaxHeight) .. (g - 1) /\ h \notin SignedIn(MaxHeight, g, validator)
    BY <1>3 DEF UptimeByBlocks
  <2>2. h \in (g - MaxHeight) .. g
    BY <1>1, <2>1 DEF Heights
  <2> QED
    BY <1>2, <2>1, <2>2 DEF SignedIn
<1>4. SignedIn(0, h, validator) = {h}
  <2>1. (h - 0) .. h = {h}
    BY <1>1
  <2> QED
    BY <1>2, <2>1 DEF SignedIn
<1>5. Cardinality({h}) = 1
  BY FS_Singleton
<1> QED
  BY <1>3, <1>4, <1>5 DEF BlockUptime

(* IndexBlockEvents writes all signatures of its block, and the FirstOrCreate of
   IndexNewBlock never takes one away nor adds a stranger. *)
THEOREM SignaturesComplete == Spec => []EventBlocksHaveSignatures
<1>1. TablesInv => EventBlocksHaveSignatures
  <2> SUFFICES ASSUME TablesInv, NEW h \in Heights, "events" \in flags[h]
               PROVE  /\ BlockSignatures(h, {}).rows = Range(chain[h].signers)
                      /\ \A validator \in Range(chain[h].signers) :
                           /\ \A g \in Heights :
                                h \notin UptimeByBlocks(MaxHeight, g, validator).unsigned
                           /\ BlockUptime(0, h, validator) = 1
    BY DEF EventBlocksHaveSignatures
  <2>1. signatures[h] = Range(chain[h].signers) /\ flags[h] # {}
    BY DEF TablesInv, Signed
  <2>2. BlockSignatures(h, {}).rows = signatures[h]
    BY <2>1 DEF BlockSignatures, Listing
  <2> QED
    BY <2>1, <2>2, SignedOnce
<1> QED
  BY InitTables, NextTables, <1>1, PTL DEF Spec

(* The rows of a transaction against the transaction: EventsOf covers both ways a
   node reports events. *)
THEOREM RowsAreOfTheChain == Spec => []RowsMatchChain
<1>1. TablesInv => RowsMatchChain
  <2> SUFFICES ASSUME TablesInv PROVE RowsMatchChain
    OBVIOUS
  <2>1. ASSUME NEW hash \in DOMAIN txes, Messages(hash) # Failed, NEW m \in Messages(hash)
        PROVE  \E tx \in Occurrences(hash) :
                 /\ tx.code = 0
                 /\ \/ \E i \in DOMAIN tx.msgs : ~tx.msgs[i].decodes
                    \/ /\ m.type = tx.msgs[m.index].type
                       /\ m.raw = m.index
                       /\ LET events == messages[<<hash, m.index>>].events
                          IN  \/ events \in {<<>>, tx.msgs[m.index].events}
                              \/ ~tx.logs /\ events = AllEvents(tx)
    <3>1. PICK key \in DOMAIN messages :
            /\ key[1] = hash
            /\ m = [index |-> key[2], type |-> messages[<<hash, key[2]>>].type,
                    raw |-> messages[<<hash, key[2]>>].raw]
      BY <2>1 DEF Messages
    <3>2. IsMessageOf(key, messages[key])
      BY DEF TablesInv, MessageRows
    <3>3. key = <<hash, key[2]>> /\ m.index = key[2]
          /\ m.type = messages[key].type /\ m.raw = messages[key].raw
      BY <3>1, <3>2 DEF IsMessageOf
    <3>4. PICK tx : Succeeded(tx, hash) /\ Written(tx, key[2], messages[key])
      BY <3>1, <3>2 DEF IsMessageOf
    <3>5. tx \in Occurrences(hash) /\ tx.code = 0
      BY <3>4 DEF Succeeded, Occurrences
    <3>6. CASE \E i \in DOMAIN tx.msgs : ~tx.msgs[i].decodes
      BY <3>5, <3>6
    <3>7. CASE \A i \in DOMAIN tx.msgs : tx.msgs[i].decodes
      <4>1. /\ messages[key].type = tx.msgs[key[2]].type /\ messages[key].raw = key[2]
            /\ messages[key].events = <<>> \/ messages[key].events = EventsOf(tx, key[2])
        BY <3>4, <3>7 DEF Written
      <4> QED
        BY <3>3, <3>5, <4>1 DEF EventsOf
    <3> QED
      BY <3>6, <3>7
  <2>2. \A h \in Heights : GetBlockValidators(h) \subseteq addresses
    BY DEF TablesInv, TxRows, GetBlockValidators, TxsOfBlock
  <2> QED
    BY <2>1, <2>2 DEF RowsMatchChain
<1> QED
  BY InitTables, NextTables, <1>1, PTL DEF Spec

-----------------------------------------------------------------------------
(* What runs beside the DB worker. *)

\* A goroutine, at the step it takes next.
IsGoroutine(g) ==
  /\ g = [pass |-> g.pass, hash |-> g.hash, time |-> g.time, at |-> g.at, events |-> g.events]
  /\ g.at \in {"read", "delegate", "values", "events"}

RunInv ==
  /\ \A g \in goroutines : IsGoroutine(g)
  /\ migration \in 4 .. 6
  /\ PoolInv
  /\ passes \in 0 .. MaxPasses[chain]

\* A goroutine goes on, with what it has.
LEMMA GoneTo ==
  ASSUME NEW g, IsGoroutine(g), NEW at \in {"delegate", "values", "events"}
  PROVE  /\ [g EXCEPT !.at = at]
              = [pass |-> g.pass, hash |-> g.hash, time |-> g.time, at |-> at,
                 events |-> g.events]
         /\ IsGoroutine([g EXCEPT !.at = at])
<1> DEFINE r == [g EXCEPT !.at = at]
<1>1. g = [pass |-> g.pass, hash |-> g.hash, time |-> g.time, at |-> g.at, events |-> g.events]
  BY DEF IsGoroutine
<1>2. r = [pass |-> g.pass, hash |-> g.hash, time |-> g.time, at |-> at, events |-> g.events]
  BY <1>1
<1> HIDE DEF r
<1>3. IsGoroutine(r)
  BY <1>2 DEF IsGoroutine
<1> QED
  BY <1>2, <1>3 DEF r

LEMMA ReadOn ==
  ASSUME NEW g, IsGoroutine(g), NEW events
  PROVE  /\ [g EXCEPT !.at = "delegate", !.events = events]
              = [pass |-> g.pass, hash |-> g.hash, time |-> g.time, at |-> "delegate",
                 events |-> events]
         /\ IsGoroutine([g EXCEPT !.at = "delegate", !.events = events])
<1> DEFINE r == [g EXCEPT !.at = "delegate", !.events = events]
           pass == g.pass
           hash == g.hash
           time == g.time
           old == g.events
           step == g.at
<1>1. g = [pass |-> pass, hash |-> hash, time |-> time, at |-> step, events |-> old]
  BY DEF IsGoroutine
<1>2. r = [pass |-> pass, hash |-> hash, time |-> time, at |-> "delegate", events |-> events]
  <2>1. r = [g EXCEPT !.at = "delegate", !.events = events]
    OBVIOUS
  <2> HIDE DEF r, pass, hash, time, old, step
  <2> QED
    BY ONLY <1>1, <2>1
<1> HIDE DEF r
<1>3. IsGoroutine(r)
  BY <1>2 DEF IsGoroutine
<1> QED
  BY <1>2, <1>3 DEF r

LEMMA InitRun == Init => RunInv
<1> SUFFICES ASSUME Init PROVE RunInv
  OBVIOUS
<1>1. migration \in MigrationFrom[chain] /\ goroutines = {} /\ chain \in Chains /\ passes = 0
  BY DEF Init, AggregatesInit
<1>2. migration \in 4 .. 6 /\ MaxPasses[chain] \in Nat
  BY <1>1, ContentsAssumption DEF ContentsAssumption
<1>3. PoolInv
  BY InitPoolInv DEF Init
<1> QED
  BY <1>1, <1>2, <1>3 DEF RunInv

LEMMA NextRun == chain \in Chains /\ RunInv /\ [Next]_vars => RunInv'
<1> SUFFICES ASSUME chain \in Chains, RunInv, [Next]_vars PROVE RunInv'
  OBVIOUS
<1>0. /\ \A g \in goroutines : IsGoroutine(g)
      /\ migration \in 4 .. 6
      /\ PoolInv
      /\ passes \in 0 .. MaxPasses[chain]
      /\ MaxPasses[chain] \in Nat
  BY ContentsAssumption DEF RunInv, ContentsAssumption
<1> DEFINE Keeps(gs) == \A g \in gs : IsGoroutine(g)
<1>1. ASSUME passes' = passes \/ (passes < MaxPasses[chain] /\ passes' = passes + 1),
             UNCHANGED <<chain, migration, goroutines, pool>>
      PROVE  RunInv'
  <2>1. passes' \in 0 .. MaxPasses[chain]
    BY <1>0, <1>1
  <2>2. PoolInv'
    BY <1>0, <1>1, NextPoolInv
  <2> QED
    BY <1>0, <1>1, <2>1, <2>2 DEF RunInv
<1>2. ASSUME UNCHANGED <<chain, passes, pool>>, Keeps(goroutines'), migration' \in 4 .. 6
      PROVE  RunInv'
  <2>1. PoolInv'
    BY <1>0, <1>2, NextPoolInv
  <2> QED
    BY <1>0, <1>2, <2>1 DEF RunInv
<1>3. ASSUME NEW h \in Heights, NEW path \in Paths, IndexTxs(h, path) PROVE RunInv'
  BY <1>1, <1>3 DEF IndexTxs
<1>4. ASSUME NEW h \in Heights, NEW path \in Paths, FailTxs(h, path) PROVE RunInv'
  BY <1>1, <1>4 DEF FailTxs, aggregates
<1>5. ASSUME NEW h \in Heights, IndexEvents(h) PROVE RunInv'
  BY <1>1, <1>5 DEF IndexEvents, aggregates
<1>6. CASE LoopOverTxs
  <2>1. UNCHANGED <<chain, passes, pool, migration>> /\ Spawn
    BY <1>6 DEF LoopOverTxs, Spawn
  <2> DEFINE new == [pass |-> Head(todo).pass, hash |-> Head(todo).hash,
                     time |-> Head(todo).time, at |-> "read", events |-> {}]
  <2>2. goroutines' = goroutines \cup {new} /\ IsGoroutine(new)
    BY <2>1 DEF Spawn, IsGoroutine
  <2> HIDE DEF new
  <2> QED
    BY <1>0, <1>2, <2>1, <2>2
<1>7. CASE Read
  <2>1. PICK g \in goroutines : ReadEvents(g)
    BY <1>7 DEF Read
  <2> DEFINE new == [g EXCEPT !.at = "delegate", !.events = AttributeRows(g.hash)]
  <2>2. IsGoroutine(new)
    BY <1>0, ReadOn
  <2>3. goroutines' \subseteq goroutines \cup {new} /\ migration' = migration
    BY <2>1 DEF ReadEvents
  <2>4. UNCHANGED <<chain, passes, pool>>
    BY <1>7 DEF Read
  <2> HIDE DEF new
  <2> QED
    BY <1>0, <1>2, <2>2, <2>3, <2>4
<1>8. CASE Save
  <2>1. PICK g \in goroutines :
          SaveAggregated(g) \/ SaveAggregatedEventValues(g) \/ SaveAggregatedEvents(g)
    BY <1>8 DEF Save
  <2> DEFINE To(at) == [g EXCEPT !.at = at]
  <2>2. IsGoroutine(To("values")) /\ IsGoroutine(To("events"))
    BY <1>0, GoneTo
  <2>3. /\ goroutines' \subseteq goroutines \cup {To("values"), To("events")}
        /\ migration' = migration
    BY <2>1 DEF SaveAggregated, SaveAggregatedEventValues, SaveAggregatedEvents, Goto
  <2>4. UNCHANGED <<chain, passes, pool>>
    BY <1>8 DEF Save
  <2> HIDE DEF To
  <2> QED
    BY <1>0, <1>2, <2>2, <2>3, <2>4
<1>9. CASE Migrate
  BY <1>0, <1>2, <1>9 DEF Migrate, TxEventsValsMigration, TxEventsMigration
<1>10. CASE RefreshMaterializedViews
  BY <1>1, <1>10 DEF RefreshMaterializedViews, aggregates
<1>11. CASE Serve
  <2>1. PoolNext
    BY <1>11 DEF Serve, PoolNext
  <2>2. PoolInv'
    BY <1>0, <2>1, NextPoolInv
  <2> QED
    BY <1>0, <1>11, <2>2 DEF Serve, aggregates, RunInv
<1>12. CASE CrashAndRestart
  <2>1. PoolInit'
    BY <1>12 DEF CrashAndRestart, PoolInit
  <2>2. PoolInv'
    BY <2>1 DEF PoolInit, PoolInv, PoolTypeOK, WaitsAbove, MaxNesting
  <2> QED
    BY <1>0, <1>12, <2>2 DEF CrashAndRestart, LoseGoroutines, RunInv
<1>13. CASE UNCHANGED vars
  BY <1>1, <1>13 DEF vars, aggregates
<1> QED
  BY <1>3, <1>4, <1>5, <1>6, <1>7, <1>8, <1>9, <1>10, <1>11, <1>12, <1>13 DEF Next

(* The shape of the whole state, with the unique index of fees and the foreign key
   from messages to txes. *)
THEOREM ContentsTypeCorrect == Spec => []TypeOK
<1>1. TablesInv /\ RunInv => TypeOK
  <2> SUFFICES ASSUME TablesInv, RunInv PROVE TypeOK
    OBVIOUS
  <2>1. \A S : OneAtMost(S) => Cardinality(S) <= 1
    <3>1. \A S : OneAtMost(S) => Cardinality(S) \in {0, 1}
      BY FS_EmptySet, FS_Singleton DEF OneAtMost
    <3> QED
      BY <3>1
  <2>2. ASSUME NEW hash \in DOMAIN txes
        PROVE  /\ txes[hash].block \in Heights /\ txes[hash].time \in Heights
               /\ Cardinality(txes[hash].fees) <= 1
               /\ hash \in Hashes
    <3>1. IsTxRowOf(hash, txes[hash])
      BY DEF TablesInv, TxRows
    <3>2. PICK h \in Heights : \E tx \in Range(chain[h].txs) : tx.hash = hash
      BY <3>1 DEF IsTxRowOf
    <3>3. hash \in Hashes
      BY <3>2 DEF Hashes, Range
    <3> QED
      BY <2>1, <3>1, <3>3 DEF IsTxRowOf
  <2>3. /\ flags \in [Heights -> SUBSET {"tx", "events"}]
        /\ \A h \in Heights : signatures[h] \subseteq Range(chain[h].signers)
        /\ \A key \in DOMAIN messages : key[1] \in DOMAIN txes
    BY DEF TablesInv, Shape, Signed, MessageRows
  <2> QED
    BY <2>2, <2>3 DEF TypeOK, RunInv, IsGoroutine, PoolInv
<1>2. TablesInv => chain \in Chains
  BY DEF TablesInv, Shape
<1> QED
  BY InitTables, NextTables, InitRun, NextRun, <1>1, <1>2, PTL DEF Spec

-----------------------------------------------------------------------------
(* The datasets handed to the custom parsers. *)

\* The last write to the index of an event is that of the filter with the precedence.
LEMMA KeptIsIncluded ==
  ASSUME NEW events, IsList(events), NEW k \in DOMAIN events
  PROVE  Kept(Singles, Windows, events, k) <=> IncludedByLast(events, k)
<1> DEFINE S == SinglesOf(events, k)
           W(at) == WindowsFrom(events, at, k)
           single(i) == [at |-> k, by |-> "single", filter |-> i]
           window(at, i) == [at |-> at, by |-> "window", filter |-> i]
           hits == Hits(Singles, Windows, events, k)
           incl(hit) == Includes(Singles, Windows, hit)
<1>1. /\ Len(events) \in Nat /\ DOMAIN events = 1 .. Len(events)
      /\ DOMAIN Singles = 1 .. Len(Singles) /\ DOMAIN Windows = 1 .. Len(Windows)
      /\ Len(Singles) \in Nat /\ Len(Windows) \in Nat
  BY ListIs, ContentsAssumption DEF ContentsAssumption
<1>2. /\ S \subseteq Nat /\ \A at : W(at) \subseteq Nat
      /\ \A at \in DOMAIN events : W(at) # {} => at <= k
  BY <1>1 DEF SinglesOf, WindowsFrom, Covers
<1>3. /\ \A i \in S : single(i) \in hits
      /\ \A at \in DOMAIN events : \A i \in W(at) : window(at, i) \in hits
      /\ \A hit \in hits : \/ \E i \in S : hit = single(i)
                           \/ \E at \in DOMAIN events : \E i \in W(at) : hit = window(at, i)
  <2>1. hits = {single(i) : i \in S}
               \cup UNION {{window(at, i) : i \in W(at)} : at \in DOMAIN events}
    BY DEF Hits, SinglesOf, WindowsFrom
  <2> HIDE DEF hits, S, W, single, window
  <2> QED
    BY <2>1
<1>4. /\ \A i : incl(single(i)) = Singles[i].include
      /\ \A at, i : incl(window(at, i)) = Windows[i].include
  BY DEF Includes
<1>5. ASSUME NEW i, NEW j
      PROVE  /\ After(single(i), single(j)) <=> k > k \/ i > j
             /\ single(i) = single(j) <=> i = j
  BY DEF After
<1>6. ASSUME NEW i, NEW j, NEW at
      PROVE  /\ After(single(i), window(at, j)) <=> k > at
             /\ After(window(at, j), single(i)) <=> at > k \/ at = k
             /\ single(i) # window(at, j)
  BY DEF After
<1>7. ASSUME NEW i, NEW j, NEW at, NEW g
      PROVE  /\ After(window(at, i), window(g, j)) <=> at > g \/ (at = g /\ i > j)
             /\ window(at, i) = window(g, j) <=> at = g /\ i = j
  BY DEF After
<1> DEFINE decides(hit) == \A other \in hits \ {hit} : After(hit, other)
<1>8. Kept(Singles, Windows, events, k) <=> \E hit \in hits : incl(hit) /\ decides(hit)
  BY DEF Kept
<1>9. IncludedByLast(events, k) <=>
        \/ LastIncludes(W(k), Windows)
        \/ W(k) = {} /\ LastIncludes(S, Singles)
        \/ /\ W(k) = {} /\ S = {}
           /\ \E at \in 1 .. k - 1 : /\ LastIncludes(W(at), Windows)
                                     /\ \A g \in at + 1 .. k - 1 : W(g) = {}
  BY DEF IncludedByLast
<1> HIDE DEF S, W, single, window, hits, incl
<1>10. ASSUME NEW hit \in hits, incl(hit), decides(hit) PROVE IncludedByLast(events, k)
  <2>1. CASE \E i \in S : hit = single(i)
    <3>1. PICK i \in S : hit = single(i)
      BY <2>1
    <3>2. \A j \in S : j <= i
      <4> SUFFICES ASSUME NEW j \in S, j # i PROVE j <= i
        BY <1>2
      <4>1. After(single(i), single(j))
        BY <1>3, <1>5, <1>10, <3>1
      <4> QED
        BY <1>1, <1>2, <1>5, <4>1
    <3>3. W(k) = {}
      <4> SUFFICES ASSUME NEW j \in W(k) PROVE FALSE
        OBVIOUS
      <4>1. After(single(i), window(k, j))
        BY <1>3, <1>6, <1>10, <3>1
      <4> QED
        BY <1>1, <1>6, <4>1
    <3> QED
      BY <1>4, <1>9, <1>10, <3>1, <3>2, <3>3 DEF LastIncludes
  <2>2. CASE \E at \in DOMAIN events : \E i \in W(at) : hit = window(at, i)
    <3>1. PICK at \in DOMAIN events : \E i \in W(at) : hit = window(at, i)
      BY <2>2
    <3>2. PICK i \in W(at) : hit = window(at, i)
      BY <3>1
    <3>3. \A g \in DOMAIN events : \A j \in W(g) : at > g \/ (at = g /\ i >= j)
      <4> SUFFICES ASSUME NEW g \in DOMAIN events, NEW j \in W(g), ~(at = g /\ i = j)
                   PROVE  at > g \/ (at = g /\ i >= j)
        BY <1>2
      <4>1. After(window(at, i), window(g, j))
        BY <1>3, <1>7, <1>10, <3>2
      <4> QED
        BY <1>2, <1>7, <4>1
    <3>4. LastIncludes(W(at), Windows)
      <4>1. \A j \in W(at) : j <= i
        BY <1>1, <1>2, <3>3
      <4> QED
        BY <1>4, <1>10, <3>2, <4>1 DEF LastIncludes
    <3>5. CASE at = k
      BY <1>9, <3>4, <3>5
    <3>6. CASE at # k
      <4>1. at \in 1 .. k - 1
        BY <1>1, <1>2, <3>6
      <4>2. S = {}
        <5> SUFFICES ASSUME NEW j \in S PROVE FALSE
          OBVIOUS
        <5>1. After(window(at, i), single(j))
          BY <1>3, <1>6, <1>10, <3>2
        <5> QED
          BY <1>1, <1>6, <4>1, <5>1
      <4>3. W(k) = {} /\ \A g \in at + 1 .. k - 1 : W(g) = {}
        <5> SUFFICES ASSUME NEW g \in at + 1 .. k, NEW j \in W(g) PROVE FALSE
          BY <1>1, <4>1
        <5>1. g \in DOMAIN events /\ at < g
          BY <1>1, <4>1
        <5> QED
          BY <1>1, <3>3, <5>1
      <4> QED
        BY <1>9, <3>4, <4>1, <4>2, <4>3
    <3> QED
      BY <3>5, <3>6
  <2> QED
    BY <1>3, <2>1, <2>2
<1>11. ASSUME IncludedByLast(events, k) PROVE \E hit \in hits : incl(hit) /\ decides(hit)
  <2>1. ASSUME NEW at \in DOMAIN events, LastIncludes(W(at), Windows),
               at = k \/ (at < k /\ S = {}),
               \A g \in DOMAIN events : at < g => W(g) = {}
        PROVE  \E hit \in hits : incl(hit) /\ decides(hit)
    <3>1. PICK i \in W(at) : Windows[i].include /\ \A j \in W(at) : j <= i
      BY <2>1 DEF LastIncludes
    <3>2. window(at, i) \in hits /\ incl(window(at, i))
      BY <1>3, <1>4, <3>1
    <3>3. ASSUME NEW other \in hits \ {window(at, i)} PROVE After(window(at, i), other)
      <4>1. CASE \E j \in S : other = single(j)
        BY <1>6, <2>1, <4>1
      <4>2. ASSUME NEW g \in DOMAIN events, NEW j \in W(g), other = window(g, j)
            PROVE  After(window(at, i), other)
        <5>1. g <= at
          BY <1>1, <2>1
        <5>2. g = at => j < i
          <6> SUFFICES ASSUME g = at PROVE j < i
            OBVIOUS
          <6>1. j # i
            BY <3>3, <4>2
          <6>2. j <= i
            BY <3>1
          <6> QED
            BY <1>2, <6>1, <6>2
        <5>3. at > g \/ (at = g /\ i > j)
          BY <1>1, <1>2, <5>1, <5>2
        <5> QED
          BY <1>7, <4>2, <5>3
      <4> QED
        BY <1>3, <3>3, <4>1, <4>2
    <3> QED
      BY <3>2, <3>3
  <2>2. \A g \in DOMAIN events : k < g => W(g) = {}
    BY <1>1, <1>2
  <2>3. CASE LastIncludes(W(k), Windows)
    BY <2>1, <2>2, <2>3
  <2>4. CASE W(k) = {} /\ LastIncludes(S, Singles)
    <3>1. PICK i \in S : Singles[i].include /\ \A j \in S : j <= i
      BY <2>4 DEF LastIncludes
    <3>2. single(i) \in hits /\ incl(single(i))
      BY <1>3, <1>4, <3>1
    <3>3. ASSUME NEW other \in hits \ {single(i)} PROVE After(single(i), other)
      <4>1. ASSUME NEW j \in S, other = single(j) PROVE After(single(i), other)
        <5>1. j # i /\ j <= i
          BY <3>1, <3>3, <4>1
        <5>2. i > j
          BY <1>2, <5>1
        <5> QED
          BY <1>5, <4>1, <5>2
      <4>2. ASSUME NEW g \in DOMAIN events, NEW j \in W(g), other = window(g, j)
            PROVE  After(single(i), other)
        <5>1. g # k /\ g <= k
          BY <1>2, <2>4
        <5>2. k > g
          BY <1>1, <5>1
        <5> QED
          BY <1>6, <4>2, <5>2
      <4> QED
        BY <1>3, <3>3, <4>1, <4>2
    <3> QED
      BY <3>2, <3>3
  <2>5. ASSUME W(k) = {}, S = {},
               NEW at \in 1 .. k - 1, LastIncludes(W(at), Windows),
               \A g \in at + 1 .. k - 1 : W(g) = {}
        PROVE  \E hit \in hits : incl(hit) /\ decides(hit)
    <3>1. at \in DOMAIN events /\ at < k
      BY <1>1
    <3>2. ASSUME NEW g \in DOMAIN events, at < g PROVE W(g) = {}
      <4>1. g \in at + 1 .. k - 1 \/ g = k \/ k < g
        BY <1>1, <3>1, <3>2
      <4> QED
        BY <2>2, <2>5, <4>1
    <3> QED
      BY <2>1, <2>5, <3>1, <3>2
  <2> QED
    BY <1>9, <1>11, <2>3, <2>4, <2>5
<1> QED
  BY <1>8, <1>10, <1>11

\* The block whose events are written has no dataset out of range, and is handed on
\* as it was written.
FilterInv ==
  /\ indexedDatasets = [h \in Heights |-> indexedDatasets[h]]
  /\ \A h \in Heights : "events" \in flags[h] =>
       ParsersFit(Parsers, chain[h].events) /\ indexedDatasets[h] = Handed(h)

LEMMA NextFilter == Shape /\ FilterInv /\ [Next]_vars => FilterInv'
<1> SUFFICES ASSUME Shape, FilterInv, [Next]_vars PROVE FilterInv'
  OBVIOUS
<1>1. ASSUME NEW h \in Heights, IndexEvents(h) PROVE FilterInv'
  <2>1. /\ indexedDatasets' = [indexedDatasets EXCEPT ![h] = Handed(h)] /\ chain' = chain
        /\ flags' = [flags EXCEPT ![h] = @ \cup {"events"}]
        /\ ParsersFit(Parsers, chain[h].events)
    BY <1>1 DEF IndexEvents, IndexBlockEvents
  <2>2. \A g \in Heights : g # h => flags'[g] = flags[g]
    BY <2>1, FlagSet
  <2>3. /\ indexedDatasets' = [g \in Heights |-> indexedDatasets'[g]]
        /\ indexedDatasets'[h] = Handed(h)
        /\ \A g \in Heights : g # h => indexedDatasets'[g] = indexedDatasets[g]
    BY <2>1 DEF FilterInv
  <2>4. \A g \in Heights : Handed(g)' = Handed(g)
    BY <2>1 DEF Handed
  <2> QED
    BY <2>1, <2>2, <2>3, <2>4 DEF FilterInv
<1>2. ASSUME UNCHANGED <<chain, indexedDatasets>>,
             \A g \in Heights : "events" \in flags'[g] => "events" \in flags[g]
      PROVE  FilterInv'
  BY <1>2 DEF FilterInv, Handed
<1>3. ASSUME NEW h \in Heights, NEW path \in Paths, IndexTxs(h, path) PROVE FilterInv'
  <2>1. flags' = [flags EXCEPT ![h] = @ \cup {"tx"}]
    BY <1>3 DEF IndexTxs, IndexNewBlock
  <2>2. \A g \in Heights : "events" \in flags'[g] => "events" \in flags[g]
    BY <2>1, FlagSet
  <2> QED
    BY <1>2, <1>3, <2>2 DEF IndexTxs
<1>4. CASE UNCHANGED <<chain, indexedDatasets, flags>>
  BY <1>2, <1>4
<1> QED
  BY <1>1, <1>3, <1>4 DEF Next, FailTxs, RolledBack, LoopOverTxs, Read, Save, Migrate,
                    RefreshMaterializedViews, Serve, CrashAndRestart, tables, vars

(* FilterRPCBlockEvents and IndexCustomBlockEvents: what the overlapping writes of
   filterIndexes leave is the precedence of LastFilterDecides, for every list of
   events and of filters. *)
THEOREM LastFilterAlwaysDecides == Spec => []LastFilterDecides
<1>1. Init => FilterInv
  BY DEF Init, TxTablesInit, FilterInv
<1>2. TablesInv => Shape
  BY DEF TablesInv
<1>3. Shape /\ FilterInv => LastFilterDecides
  <2> SUFFICES ASSUME Shape, FilterInv, NEW h \in Heights, "events" \in flags[h],
                      NEW d \in Datasets(Parsers, chain[h].events)
               PROVE  /\ ParsersFit(Parsers, chain[h].events)
                      /\ d.at \in FilterRPCBlockEvents(Singles, Windows, chain[h].events)
                           <=> NoFilters \/ IncludedByLast(chain[h].events, d.at)
    BY DEF FilterInv, LastFilterDecides, Handed
  <2>1. ParsersFit(Parsers, chain[h].events) /\ IsList(chain[h].events)
    BY ServedChain DEF FilterInv, Shape
  <2>2. d.at \in DOMAIN chain[h].events
    BY <2>1 DEF ParsersFit
  <2>3. Kept(Singles, Windows, chain[h].events, d.at) <=> IncludedByLast(chain[h].events, d.at)
    BY <2>1, <2>2, KeptIsIncluded
  <2> QED
    BY <2>1, <2>2, <2>3 DEF FilterRPCBlockEvents, NoFilters
<1> QED
  BY InitTables, NextTables, NextFilter, <1>1, <1>2, <1>3, PTL DEF Spec

-----------------------------------------------------------------------------
(* The aggregates. *)

\* AttributeRows over a table of messages.
RowsIn(table, hash) ==
  UNION {UNION {{[hash |-> hash, msg |-> k[2], event |-> e, attr |-> a,
                  msgType |-> table[k].type, type |-> table[k].events[e].type,
                  key |-> table[k].events[e].attrs[a].key,
                  value |-> table[k].events[e].attrs[a].value] :
                    a \in DOMAIN table[k].events[e].attrs} :
                  e \in DOMAIN table[k].events} :
           k \in {k \in DOMAIN table : k[1] = hash}}

\* The row of one attribute.
RowAt(table, hash, k, e, a) ==
  [hash |-> hash, msg |-> k[2], event |-> e, attr |-> a,
   msgType |-> table[k].type, type |-> table[k].events[e].type,
   key |-> table[k].events[e].attrs[a].key,
   value |-> table[k].events[e].attrs[a].value]

LEMMA RowsAre ==
  ASSUME NEW table, NEW hash, NEW r
  PROVE  r \in RowsIn(table, hash) <=>
           \E k \in DOMAIN table : k[1] = hash /\
             \E e \in DOMAIN table[k].events :
               \E a \in DOMAIN table[k].events[e].attrs : r = RowAt(table, hash, k, e, a)
  BY DEF RowsIn, RowAt

\* Where an attribute stands.
IsPlace(r) == r.msg \in Nat /\ r.event \in Nat /\ r.attr \in Nat

LEMMA RowsHavePlaces ==
  ASSUME MessageRows, NEW hash, NEW r \in RowsIn(messages, hash)
  PROVE  IsPlace(r)
<1>1. PICK k \in DOMAIN messages : k[1] = hash /\
        \E e \in DOMAIN messages[k].events :
          \E a \in DOMAIN messages[k].events[e].attrs : r = RowAt(messages, hash, k, e, a)
  BY RowsAre
<1>2. PICK e \in DOMAIN messages[k].events :
        \E a \in DOMAIN messages[k].events[e].attrs : r = RowAt(messages, hash, k, e, a)
  BY <1>1
<1>3. PICK a \in DOMAIN messages[k].events[e].attrs : r = RowAt(messages, hash, k, e, a)
  BY <1>2
<1>4. k[2] \in Nat /\ AreEvents(messages[k].events)
  BY DEF MessageRows, IsMessageOf, IsMessage
<1>5. e \in Nat /\ messages[k].events[e] \in Range(messages[k].events)
  BY <1>4, ListIs DEF AreEvents, Range
<1>6. a \in Nat
  BY <1>4, <1>5, ListIs DEF AreEvents
<1> QED
  BY <1>3, <1>4, <1>5, <1>6 DEF IsPlace, RowAt

\* An attribute that is stored stays at its place.
LEMMA RowsInGrow ==
  ASSUME MessageRows, MessageRows', RowsKept, NEW hash
  PROVE  RowsIn(messages, hash) \subseteq RowsIn(messages', hash)
<1> SUFFICES ASSUME NEW r \in RowsIn(messages, hash) PROVE r \in RowsIn(messages', hash)
  OBVIOUS
<1>1. PICK k \in DOMAIN messages : k[1] = hash /\
        \E e \in DOMAIN messages[k].events :
          \E a \in DOMAIN messages[k].events[e].attrs : r = RowAt(messages, hash, k, e, a)
  BY RowsAre
<1>2. PICK e \in DOMAIN messages[k].events :
        \E a \in DOMAIN messages[k].events[e].attrs : r = RowAt(messages, hash, k, e, a)
  BY <1>1
<1>3. PICK a \in DOMAIN messages[k].events[e].attrs : r = RowAt(messages, hash, k, e, a)
  BY <1>2
<1> DEFINE old == messages[k].events
           new == messages'[k].events
<1>4. /\ k \in DOMAIN messages' /\ messages'[k].type = messages[k].type
      /\ IsPrefixOfEvents(old, new)
  BY DEF RowsKept
<1>5. AreEvents(old) /\ AreEvents(new)
  <2>1. IsMessageOf(k, messages[k]) /\ IsMessageOf(k, messages[k])'
    BY <1>4 DEF MessageRows
  <2> QED
    BY <2>1 DEF IsMessageOf, IsMessage
<1> HIDE DEF old, new
<1>6. e \in 1 .. Len(old) /\ Len(old) \in Nat /\ Len(new) \in Nat
      /\ DOMAIN old = 1 .. Len(old) /\ DOMAIN new = 1 .. Len(new)
  BY <1>2, <1>5, ListIs DEF AreEvents, old
<1>7. /\ e \in DOMAIN new /\ new[e].type = old[e].type
      /\ IsPrefix(old[e].attrs, new[e].attrs)
  BY <1>4, <1>6 DEF IsPrefixOfEvents
<1>8. IsList(old[e].attrs) /\ IsList(new[e].attrs)
  BY <1>5, <1>6, <1>7 DEF AreEvents, Range
<1>9. a \in DOMAIN new[e].attrs /\ new[e].attrs[a] = old[e].attrs[a]
  <2> DEFINE s == old[e].attrs
             t == new[e].attrs
  <2>1. /\ s \in Seq(Range(s)) /\ t \in Seq(Range(t)) /\ a \in DOMAIN s
        /\ Len(s) <= Len(t) /\ SubSeq(s, 1, Len(s)) = SubSeq(t, 1, Len(s))
    BY <1>3, <1>7, <1>8 DEF IsList, IsPrefix, old
  <2> HIDE DEF s, t
  <2>2. Len(s) \in Nat /\ Len(t) \in Nat /\ a \in 1 .. Len(s) /\ DOMAIN t = 1 .. Len(t)
    BY <2>1
  <2>3. SubSeq(s, 1, Len(s))[a] = s[a] /\ SubSeq(t, 1, Len(s))[a] = t[a]
    BY <2>1, <2>2
  <2>4. a \in DOMAIN t /\ t[a] = s[a]
    BY <2>1, <2>2, <2>3
  <2> QED
    BY <2>4 DEF s, t
<1>10. r = RowAt(messages', hash, k, e, a)
  BY <1>3, <1>4, <1>7, <1>9 DEF RowAt, old, new
<1> QED
  BY <1>1, <1>4, <1>7, <1>9, <1>10, RowsAre DEF new

\* Of some numbers there is a least.
LEMMA LeastExists ==
  ASSUME NEW T \in SUBSET Nat, T # {}
  PROVE  \E x \in T : \A y \in T : x <= y
<1> SUFFICES ASSUME \A x \in T : \E y \in T : ~(x <= y) PROVE FALSE
  OBVIOUS
<1> DEFINE S == {n \in Nat : \A m \in 0 .. n : m \notin T}
<1>1. 0 \in S
  <2>1. 0 \notin T
    OBVIOUS
  <2> QED
    BY <2>1
<1>2. ASSUME NEW n \in S PROVE n + 1 \in S
  <2>1. n + 1 \notin T
    <3> SUFFICES ASSUME n + 1 \in T PROVE FALSE
      OBVIOUS
    <3>1. PICK y \in T : ~(n + 1 <= y)
      OBVIOUS
    <3>2. y \in 0 .. n
      BY <3>1
    <3> QED
      BY <3>2
  <2> QED
    BY <2>1
<1>3. S = Nat
  <2>1. S \in SUBSET Nat
    OBVIOUS
  <2> HIDE DEF S
  <2> QED
    BY <1>1, <1>2, <2>1, SetInduction
<1>4. PICK x \in T : TRUE
  OBVIOUS
<1> QED
  BY <1>3, <1>4

\* Of some attributes there is a first.
LEMMA FirstExists ==
  ASSUME NEW E, E # {}, \A e \in E : IsPlace(e)
  PROVE  \E e \in E : \A f \in E : ~Before(f, e)
<1> DEFINE msgs == {e.msg : e \in E}
<1>1. PICK m \in msgs : \A n \in msgs : m <= n
  <2>1. msgs \in SUBSET Nat /\ msgs # {}
    BY DEF IsPlace
  <2> HIDE DEF msgs
  <2> QED
    BY <2>1, LeastExists
<1> DEFINE events == {e.event : e \in {e \in E : e.msg = m}}
<1>2. PICK v \in events : \A n \in events : v <= n
  <2>1. events \in SUBSET Nat /\ events # {}
    BY <1>1 DEF IsPlace
  <2> HIDE DEF events
  <2> QED
    BY <2>1, LeastExists
<1> DEFINE attrs == {e.attr : e \in {e \in E : e.msg = m /\ e.event = v}}
<1>3. PICK a \in attrs : \A n \in attrs : a <= n
  <2>1. attrs \in SUBSET Nat /\ attrs # {}
    BY <1>2 DEF IsPlace
  <2> HIDE DEF attrs
  <2> QED
    BY <2>1, LeastExists
<1>4. PICK e \in E : e.msg = m /\ e.event = v /\ e.attr = a
  BY <1>3
<1>5. ASSUME NEW f \in E, Before(f, e) PROVE FALSE
  <2>1. IsPlace(e) /\ IsPlace(f)
    OBVIOUS
  <2>2. m <= f.msg
    BY <1>1
  <2>3. f.msg = m => v <= f.event
    BY <1>2
  <2>4. f.msg = m /\ f.event = v => a <= f.attr
    BY <1>3
  <2> QED
    BY <1>4, <1>5, <2>1, <2>2, <2>3, <2>4 DEF Before, IsPlace
<1> QED
  BY <1>5

\* A row of tx_events_aggregateds and the attribute it is of.
FromAttribute(k, value, e) ==
  /\ k.msgType = e.msgType /\ k.type = e.type /\ k.key = e.key
  /\ value = e.value
  /\ <<k.index1, k.index2>> \in {<<e.attr, e.event>>, <<e.event, e.attr>>}

\* What the rows of each table are from, when the attributes are those of messages.
EventRowsFrom(table, msgs) ==
  \A k \in DOMAIN table : \E e \in RowsIn(msgs, k.hash) : FromAttribute(k, table[k], e)

EventValsFrom(table, msgs) ==
  \A k \in DOMAIN table : \E e \in RowsIn(msgs, k.hash) : k.msgType = e.msgType /\ k.value = e.value

WordsIn(msgs, hash) == {e.value.word : e \in RowsIn(msgs, hash)} \cup {None}

DelegatesFrom(table, msgs) ==
  \A hash \in DOMAIN table : {table[hash].validator, table[hash].sender} \subseteq WordsIn(msgs, hash)

\* A goroutine goes on with what it has read, while the tables change.
GoroutinesFrom(gs, msgs) == \A g \in gs : g.events \subseteq RowsIn(msgs, g.hash)

AggregatesInv ==
  /\ EventRowsFrom(eventRows, messages)
  /\ EventValsFrom(eventVals, messages)
  /\ DelegatesFrom(delegates, messages)
  /\ GoroutinesFrom(goroutines, messages)

\* More messages leave the rows where they are from.
LEMMA FromMore ==
  ASSUME NEW old, NEW new, \A hash : RowsIn(old, hash) \subseteq RowsIn(new, hash), NEW table
  PROVE  /\ EventRowsFrom(table, old) => EventRowsFrom(table, new)
         /\ EventValsFrom(table, old) => EventValsFrom(table, new)
         /\ DelegatesFrom(table, old) => DelegatesFrom(table, new)
         /\ GoroutinesFrom(table, old) => GoroutinesFrom(table, new)
<1>1. EventRowsFrom(table, old) => EventRowsFrom(table, new)
  BY DEF EventRowsFrom
<1>2. EventValsFrom(table, old) => EventValsFrom(table, new)
  BY DEF EventValsFrom
<1>3. DelegatesFrom(table, old) => DelegatesFrom(table, new)
  <2>1. \A hash : WordsIn(old, hash) \subseteq WordsIn(new, hash)
    BY DEF WordsIn
  <2> QED
    BY <2>1 DEF DelegatesFrom
<1>4. GoroutinesFrom(table, old) => GoroutinesFrom(table, new)
  BY DEF GoroutinesFrom
<1> QED
  BY <1>1, <1>2, <1>3, <1>4

\* The rows a statement inserts stand beside those that are there.
LEMMA InsertedFrom ==
  ASSUME NEW msgs, NEW table, NEW rows
  PROVE  /\ EventRowsFrom(table, msgs) /\ EventRowsFrom(rows, msgs)
              => EventRowsFrom(InsertNew(table, rows), msgs)
         /\ EventValsFrom(table, msgs) /\ EventValsFrom(rows, msgs)
              => EventValsFrom(InsertNew(table, rows), msgs)
         /\ DelegatesFrom(table, msgs) /\ DelegatesFrom(rows, msgs)
              => DelegatesFrom(InsertNew(table, rows), msgs)
<1> DEFINE all == InsertNew(table, rows)
<1>1. /\ DOMAIN all = DOMAIN table \cup DOMAIN rows
      /\ \A key \in DOMAIN all :
           \/ key \in DOMAIN table /\ all[key] = table[key]
           \/ key \in DOMAIN rows /\ all[key] = rows[key]
  BY DEF InsertNew
<1> HIDE DEF all
<1>2. EventRowsFrom(table, msgs) /\ EventRowsFrom(rows, msgs) => EventRowsFrom(all, msgs)
  BY <1>1 DEF EventRowsFrom
<1>3. EventValsFrom(table, msgs) /\ EventValsFrom(rows, msgs) => EventValsFrom(all, msgs)
  BY <1>1 DEF EventValsFrom
<1>4. DelegatesFrom(table, msgs) /\ DelegatesFrom(rows, msgs) => DelegatesFrom(all, msgs)
  BY <1>1 DEF DelegatesFrom
<1> QED
  BY <1>2, <1>3, <1>4 DEF all

\* The migration goes through all transactions.
LEMMA MergedFrom ==
  ASSUME NEW msgs, NEW rows, \A hash \in DOMAIN rows : \A k \in DOMAIN rows[hash] : k.hash = hash
  PROVE  /\ (\A hash \in DOMAIN rows : EventRowsFrom(rows[hash], msgs))
              => EventRowsFrom(MergedOver(rows), msgs)
         /\ (\A hash \in DOMAIN rows : EventValsFrom(rows[hash], msgs))
              => EventValsFrom(MergedOver(rows), msgs)
<1> DEFINE all == MergedOver(rows)
<1>1. \A k \in DOMAIN all :
        k.hash \in DOMAIN rows /\ k \in DOMAIN rows[k.hash] /\ all[k] = rows[k.hash][k]
  BY DEF MergedOver
<1> HIDE DEF all
<1>2. (\A hash \in DOMAIN rows : EventRowsFrom(rows[hash], msgs)) => EventRowsFrom(all, msgs)
  BY <1>1 DEF EventRowsFrom
<1>3. (\A hash \in DOMAIN rows : EventValsFrom(rows[hash], msgs)) => EventValsFrom(all, msgs)
  BY <1>1 DEF EventValsFrom
<1> QED
  BY <1>2, <1>3 DEF all

\* The rows for tx_events_vals_aggregateds of some attributes of a transaction.
LEMMA EventValsAre ==
  ASSUME NEW msgs, NEW hash, NEW time, NEW events \in SUBSET RowsIn(msgs, hash)
  PROVE  /\ EventValsFrom(EventValsOf(hash, time, events), msgs)
         /\ \A k \in DOMAIN EventValsOf(hash, time, events) : k.hash = hash
<1>1. ASSUME NEW k \in DOMAIN EventValsOf(hash, time, events)
      PROVE  \E e \in events : k = [hash |-> hash, msgType |-> e.msgType, value |-> e.value]
  BY DEF EventValsOf
<1>2. ASSUME NEW k \in DOMAIN EventValsOf(hash, time, events)
      PROVE  k.hash = hash /\ \E e \in RowsIn(msgs, k.hash) : k.msgType = e.msgType /\ k.value = e.value
  BY <1>1
<1> HIDE DEF EventValsFrom
<1> QED
  BY <1>2 DEF EventValsFrom

\* Of the attributes with one key the first has the row.
LEMMA EventRowIs ==
  ASSUME NEW keyOf, \A e \in DOMAIN keyOf : IsPlace(e), NEW k \in DOMAIN EventRowsOf(keyOf)
  PROVE  \E e \in DOMAIN keyOf : keyOf[e] = k /\ EventRowsOf(keyOf)[k] = e.value
<1> DEFINE events == DOMAIN keyOf
           E == {e \in events : keyOf[e] = k}
           First(e) == /\ keyOf[e] = k
                       /\ \A f \in events : keyOf[f] = k => ~Before(f, e)
           first == CHOOSE e \in events : First(e)
<1>1. k \in Range(keyOf)
  BY DEF EventRowsOf
<1>2. E # {} /\ \A e \in E : IsPlace(e)
  BY <1>1 DEF Range
<1>3. \E e \in events : First(e)
  <2>1. PICK e \in E : \A f \in E : ~Before(f, e)
    <3> HIDE DEF E
    <3> QED
      BY <1>2, FirstExists
  <2> QED
    BY <2>1
<1>4. EventRowsOf(keyOf)[k] = first.value
  BY <1>1 DEF EventRowsOf
<1> HIDE DEF First
<1>5. first \in events /\ First(first)
  BY <1>3
<1> HIDE DEF first
<1> QED
  BY <1>4, <1>5 DEF First

LEMMA EventRowsAre ==
  ASSUME MessageRows, NEW hash, NEW events \in SUBSET RowsIn(messages, hash),
         NEW keyOf, DOMAIN keyOf = events,
         \A e \in events : keyOf[e] = SavedKey(hash, e) \/ keyOf[e] = StraightKey(hash, e)
  PROVE  /\ EventRowsFrom(EventRowsOf(keyOf), messages)
         /\ \A k \in DOMAIN EventRowsOf(keyOf) : k.hash = hash
<1>1. \A e \in DOMAIN keyOf : IsPlace(e)
  BY RowsHavePlaces
<1>2. ASSUME NEW k \in DOMAIN EventRowsOf(keyOf)
      PROVE  /\ k.hash = hash
             /\ \E e \in RowsIn(messages, k.hash) : FromAttribute(k, EventRowsOf(keyOf)[k], e)
  <2>1. PICK e \in events : keyOf[e] = k /\ EventRowsOf(keyOf)[k] = e.value
    BY <1>1, EventRowIs
  <2>2. k = SavedKey(hash, e) \/ k = StraightKey(hash, e)
    BY <2>1
  <2>3. k.hash = hash /\ FromAttribute(k, EventRowsOf(keyOf)[k], e)
    BY <2>1, <2>2 DEF SavedKey, StraightKey, FromAttribute
  <2> QED
    BY <2>3
<1> QED
  BY <1>2 DEF EventRowsFrom

\* What saveAggregated makes of the attributes.
LEMMA DelegateRowIs ==
  ASSUME NEW msgs, NEW g, g.events \subseteq RowsIn(msgs, g.hash)
  PROVE  DelegatesFrom([hash \in {g.hash} |-> DelegateRow(g)], msgs)
<1>1. ASSUME NEW S, S \subseteq g.events PROVE WordOf(LastOf(S)) \in WordsIn(msgs, g.hash)
  <2>1. CASE LastOf(S) = {}
    BY <2>1 DEF WordOf, WordsIn
  <2>2. CASE LastOf(S) # {}
    <3>1. The(LastOf(S)) \in LastOf(S)
      BY <2>2 DEF The
    <3>2. The(LastOf(S)) \in RowsIn(msgs, g.hash)
      BY <1>1, <3>1 DEF LastOf
    <3> QED
      BY <2>2, <3>2 DEF WordOf, WordsIn
  <2> QED
    BY <2>1, <2>2
<1> DEFINE V == {e \in g.events : e.key = "validator"}
           P == {e \in g.events : e.type = "coin_spent" /\ e.key = "spender"}
<1>2. DelegateRow(g).validator = WordOf(LastOf(V)) /\ DelegateRow(g).sender = WordOf(LastOf(P))
  BY DEF DelegateRow
<1>3. WordOf(LastOf(V)) \in WordsIn(msgs, g.hash) /\ WordOf(LastOf(P)) \in WordsIn(msgs, g.hash)
  <2>1. V \subseteq g.events /\ P \subseteq g.events
    OBVIOUS
  <2> HIDE DEF V, P
  <2> QED
    BY <1>1, <2>1
<1> HIDE DEF V, P
<1> QED
  BY <1>2, <1>3 DEF DelegatesFrom

LEMMA InitAggregates == Init => AggregatesInv
<1> SUFFICES ASSUME Init PROVE AggregatesInv
  OBVIOUS
<1>1. goroutines = {} /\ delegates = <<>> /\ eventVals = <<>> /\ eventRows = <<>>
  BY DEF Init, AggregatesInit
<1>2. DOMAIN delegates = {} /\ DOMAIN eventVals = {} /\ DOMAIN eventRows = {}
  BY <1>1
<1> QED
  BY <1>1, <1>2
     DEF AggregatesInv, EventRowsFrom, EventValsFrom, DelegatesFrom, GoroutinesFrom

LEMMA NextAggregates ==
  /\ TablesInv /\ TablesInv' /\ RowsKept
  /\ RunInv /\ AggregatesInv /\ [Next]_vars
  => AggregatesInv'
<1> SUFFICES ASSUME TablesInv, TablesInv', RowsKept, RunInv, AggregatesInv, [Next]_vars
             PROVE  AggregatesInv'
  OBVIOUS
<1>0. /\ MessageRows /\ MessageRows'
      /\ \A g \in goroutines : IsGoroutine(g)
      /\ EventRowsFrom(eventRows, messages)
      /\ EventValsFrom(eventVals, messages)
      /\ DelegatesFrom(delegates, messages)
      /\ GoroutinesFrom(goroutines, messages)
  BY DEF TablesInv, RunInv, AggregatesInv
<1>1. \A hash : AttributeRows(hash) = RowsIn(messages, hash)
  BY DEF AttributeRows, RowsIn
<1>2. ASSUME UNCHANGED <<delegates, eventVals, eventRows>>, goroutines' \subseteq goroutines
      PROVE  AggregatesInv'
  <2>1. \A hash : RowsIn(messages, hash) \subseteq RowsIn(messages', hash)
    BY <1>0, RowsInGrow
  <2>2. GoroutinesFrom(goroutines', messages)
    BY <1>0, <1>2 DEF GoroutinesFrom
  <2>3. /\ EventRowsFrom(eventRows, messages') /\ EventValsFrom(eventVals, messages')
        /\ DelegatesFrom(delegates, messages') /\ GoroutinesFrom(goroutines', messages')
    BY <1>0, <2>1, <2>2, FromMore
  <2> QED
    BY <1>2, <2>3 DEF AggregatesInv
<1>3. ASSUME NEW h \in Heights, NEW path \in Paths, IndexTxs(h, path) PROVE AggregatesInv'
  BY <1>2, <1>3 DEF IndexTxs
<1>4. ASSUME NEW h \in Heights, NEW path \in Paths, FailTxs(h, path) PROVE AggregatesInv'
  BY <1>2, <1>4 DEF FailTxs, aggregates
<1>5. ASSUME NEW h \in Heights, IndexEvents(h) PROVE AggregatesInv'
  BY <1>2, <1>5 DEF IndexEvents, aggregates
<1>6. CASE LoopOverTxs
  <2>1. /\ Spawn /\ messages' = messages
        /\ UNCHANGED <<delegates, eventVals, eventRows>>
    BY <1>6 DEF LoopOverTxs, Spawn, tables
  <2>2. \A g \in goroutines' : g \in goroutines \/ g.events = {}
    BY <2>1 DEF Spawn
  <2>3. GoroutinesFrom(goroutines', messages)
    BY <1>0, <2>2 DEF GoroutinesFrom
  <2> QED
    BY <1>0, <2>1, <2>3 DEF AggregatesInv
<1>7. CASE Read
  <2>1. PICK g \in goroutines : ReadEvents(g)
    BY <1>7 DEF Read
  <2>2. messages' = messages /\ UNCHANGED <<delegates, eventVals, eventRows>>
    BY <1>7, <2>1 DEF Read, ReadEvents, tables
  <2> DEFINE new == [g EXCEPT !.at = "delegate", !.events = AttributeRows(g.hash)]
  <2>3. new.hash = g.hash /\ new.events = RowsIn(messages, g.hash)
    <3>1. new = [pass |-> g.pass, hash |-> g.hash, time |-> g.time, at |-> "delegate",
                 events |-> AttributeRows(g.hash)]
      BY <1>0, ReadOn
    <3> HIDE DEF new
    <3> QED
      BY <1>1, <3>1
  <2>4. goroutines' \subseteq goroutines \cup {new}
    BY <2>1 DEF ReadEvents
  <2> HIDE DEF new
  <2>5. GoroutinesFrom(goroutines', messages)
    BY <1>0, <2>3, <2>4 DEF GoroutinesFrom
  <2> QED
    BY <1>0, <2>2, <2>5 DEF AggregatesInv
<1>8. CASE Save
  <2>1. PICK g \in goroutines :
          SaveAggregated(g) \/ SaveAggregatedEventValues(g) \/ SaveAggregatedEvents(g)
    BY <1>8 DEF Save
  <2>2. messages' = messages
    BY <1>8 DEF Save, tables
  <2>3. g.events \subseteq RowsIn(messages, g.hash) /\ IsGoroutine(g)
    BY <1>0 DEF GoroutinesFrom
  <2> DEFINE To(at) == [g EXCEPT !.at = at]
  <2>4. \A at \in {"values", "events"} : To(at).hash = g.hash /\ To(at).events = g.events
    <3> SUFFICES ASSUME NEW at \in {"values", "events"}
                 PROVE  To(at).hash = g.hash /\ To(at).events = g.events
      OBVIOUS
    <3>1. To(at) = [pass |-> g.pass, hash |-> g.hash, time |-> g.time, at |-> at,
                    events |-> g.events]
      BY <2>3, GoneTo
    <3> HIDE DEF To
    <3> QED
      BY <3>1
  <2>5. goroutines' \subseteq goroutines \cup {To("values"), To("events")}
    BY <2>1 DEF SaveAggregated, SaveAggregatedEventValues, SaveAggregatedEvents, Goto
  <2> HIDE DEF To
  <2>6. GoroutinesFrom(goroutines', messages)
    BY <1>0, <2>3, <2>4, <2>5 DEF GoroutinesFrom
  <2>7. CASE SaveAggregated(g)
    <3>1. DelegatesFrom([hash \in {g.hash} |-> DelegateRow(g)], messages)
      BY <2>3, DelegateRowIs
    <3>2. DelegatesFrom(InsertNew(delegates, [hash \in {g.hash} |-> DelegateRow(g)]), messages)
      BY <1>0, <3>1, InsertedFrom
    <3>3. DelegatesFrom(delegates', messages) /\ UNCHANGED <<eventVals, eventRows>>
      BY <1>0, <2>7, <3>2 DEF SaveAggregated
    <3> QED
      BY <1>0, <2>2, <2>6, <3>3 DEF AggregatesInv
  <2>8. CASE SaveAggregatedEventValues(g)
    <3>1. EventValsFrom(EventValsOf(g.hash, g.time, g.events), messages)
      BY <2>3, EventValsAre
    <3>2. EventValsFrom(eventVals', messages) /\ UNCHANGED <<delegates, eventRows>>
      BY <1>0, <2>8, <3>1, InsertedFrom DEF SaveAggregatedEventValues
    <3> QED
      BY <1>0, <2>2, <2>6, <3>2 DEF AggregatesInv
  <2>9. CASE SaveAggregatedEvents(g)
    <3> DEFINE keyOf == [e \in g.events |-> SavedKey(g.hash, e)]
    <3>1. DOMAIN keyOf = g.events /\ \A e \in g.events : keyOf[e] = SavedKey(g.hash, e)
      OBVIOUS
    <3>2. eventRows' = InsertNew(eventRows, EventRowsOf(keyOf))
          /\ UNCHANGED <<delegates, eventVals>>
      BY <2>9 DEF SaveAggregatedEvents
    <3> HIDE DEF keyOf
    <3>3. EventRowsFrom(EventRowsOf(keyOf), messages)
      BY <1>0, <2>3, <3>1, EventRowsAre
    <3>4. EventRowsFrom(eventRows', messages)
      BY <1>0, <3>2, <3>3, InsertedFrom
    <3> QED
      BY <1>0, <2>2, <2>6, <3>2, <3>4 DEF AggregatesInv
  <2> QED
    BY <2>1, <2>7, <2>8, <2>9
<1>9. CASE Migrate
  <2>1. messages' = messages /\ (TxEventsValsMigration \/ TxEventsMigration)
    BY <1>9 DEF Migrate, tables
  <2>2. CASE TxEventsValsMigration
    <3> DEFINE rows == [hash \in DOMAIN txes |->
                          EventValsOf(hash, txes[hash].time, AttributeRows(hash))]
    <3>1. eventVals' = InsertNew(eventVals, MergedOver(rows))
          /\ UNCHANGED <<goroutines, delegates, eventRows>>
      BY <2>2 DEF TxEventsValsMigration
    <3>2. ASSUME NEW hash \in DOMAIN rows
          PROVE  EventValsFrom(rows[hash], messages) /\ \A k \in DOMAIN rows[hash] : k.hash = hash
      <4>1. rows[hash] = EventValsOf(hash, txes[hash].time, RowsIn(messages, hash))
        BY <1>1
      <4> HIDE DEF rows
      <4> QED
        BY <4>1, EventValsAre
    <3> HIDE DEF rows
    <3>3. EventValsFrom(MergedOver(rows), messages)
      BY <3>2, MergedFrom
    <3>4. EventValsFrom(eventVals', messages)
      BY <1>0, <3>1, <3>3, InsertedFrom
    <3> QED
      BY <1>0, <2>1, <3>1, <3>4 DEF AggregatesInv
  <2>3. CASE TxEventsMigration
    <3> DEFINE rows == [hash \in DOMAIN txes |->
                          EventRowsOf([e \in AttributeRows(hash) |-> StraightKey(hash, e)])]
    <3>1. eventRows' = InsertNew(eventRows, MergedOver(rows))
          /\ UNCHANGED <<goroutines, delegates, eventVals>>
      BY <2>3 DEF TxEventsMigration
    <3>2. ASSUME NEW hash \in DOMAIN rows
          PROVE  EventRowsFrom(rows[hash], messages) /\ \A k \in DOMAIN rows[hash] : k.hash = hash
      <4> DEFINE keyOf == [e \in AttributeRows(hash) |-> StraightKey(hash, e)]
      <4>1. /\ DOMAIN keyOf = RowsIn(messages, hash)
            /\ \A e \in RowsIn(messages, hash) : keyOf[e] = StraightKey(hash, e)
        BY <1>1
      <4>2. rows[hash] = EventRowsOf(keyOf)
        OBVIOUS
      <4> HIDE DEF keyOf, rows
      <4>3. RowsIn(messages, hash) \in SUBSET RowsIn(messages, hash)
        OBVIOUS
      <4>4. /\ EventRowsFrom(EventRowsOf(keyOf), messages)
            /\ \A k \in DOMAIN EventRowsOf(keyOf) : k.hash = hash
        BY <1>0, <4>1, <4>3, EventRowsAre
      <4> QED
        BY <4>2, <4>4
    <3> HIDE DEF rows
    <3>3. EventRowsFrom(MergedOver(rows), messages)
      BY <3>2, MergedFrom
    <3>4. EventRowsFrom(eventRows', messages)
      BY <1>0, <3>1, <3>3, InsertedFrom
    <3> QED
      BY <1>0, <2>1, <3>1, <3>4 DEF AggregatesInv
  <2> QED
    BY <2>1, <2>2, <2>3
<1>10. CASE RefreshMaterializedViews
  BY <1>2, <1>10 DEF RefreshMaterializedViews, aggregates
<1>11. CASE Serve
  BY <1>2, <1>11 DEF Serve, aggregates
<1>12. CASE CrashAndRestart
  BY <1>2, <1>12 DEF CrashAndRestart, LoseGoroutines
<1>13. CASE UNCHANGED vars
  BY <1>2, <1>13 DEF vars, aggregates
<1> QED
  BY <1>3, <1>4, <1>5, <1>6, <1>7, <1>8, <1>9, <1>10, <1>11, <1>12, <1>13 DEF Next

(* saveAggregated and its like, the migration that runs beside them, and the
   queries over what they leave: a goroutine that saves after later passes have
   added to the messages saves nothing that they do not have. *)
THEOREM AggregatesAreOfRows == Spec => []AggregatesFromRows
<1>1. AggregatesInv => AggregatesFromRows
  <2> SUFFICES ASSUME AggregatesInv PROVE AggregatesFromRows
    OBVIOUS
  <2>1. /\ EventRowsFrom(eventRows, messages)
        /\ EventValsFrom(eventVals, messages)
        /\ DelegatesFrom(delegates, messages)
    BY DEF AggregatesInv
  <2>2. \A hash : /\ GetEvents(hash) = RowsIn(messages, hash)
                  /\ AttributeRows(hash) = RowsIn(messages, hash)
    BY DEF GetEvents, AttributeRows, RowsIn
  <2>3. \A k \in DOMAIN eventRows : \E e \in GetEvents(k.hash) :
          /\ k.msgType = e.msgType /\ k.type = e.type /\ k.key = e.key
          /\ eventRows[k] = e.value
          /\ <<k.index1, k.index2>> \in {<<e.attr, e.event>>, <<e.event, e.attr>>}
    BY <2>1, <2>2 DEF EventRowsFrom, FromAttribute
  <2>4. \A k \in DOMAIN eventVals : \E e \in GetEvents(k.hash) :
          k.msgType = e.msgType /\ k.value = e.value
    BY <2>1, <2>2 DEF EventValsFrom
  <2>5. \A hash \in DOMAIN delegates :
          LET words == {e.value.word : e \in GetEvents(hash)}
          IN  {delegates[hash].validator, delegates[hash].sender} \subseteq words \cup {None}
    BY <2>1, <2>2 DEF DelegatesFrom, WordsIn
  <2>6. ASSUME NEW hash \in DOMAIN txes
        PROVE  LET words == {e.value.word : e \in GetEvents(hash)}
                   announced == GetSenderAndReceiver(hash)
                   shown == GetSenderAndReceiverV2(hash)
               IN  /\ shown.senders \cup shown.receivers \subseteq words
                   /\ {announced.sender, announced.receiver} \subseteq words \cup {None}
    <3> DEFINE words == {e.value.word : e \in GetEvents(hash)}
    <3>1. \A k \in GetEventsV2(hash) : eventRows[k].word \in words
      BY <2>3 DEF GetEventsV2
    <3>2. /\ \A x \in GetSenderAndReceiverV2(hash).senders :
               \E k \in GetEventsV2(hash) : x = eventRows[k].word
          /\ \A x \in GetSenderAndReceiverV2(hash).receivers :
               \E k \in GetEventsV2(hash) : x = eventRows[k].word
      BY DEF GetSenderAndReceiverV2
    <3>3. ASSUME NEW keys
          PROVE  WordOf(LastOf({e \in {e \in AttributeRows(hash) : e.type \in PartyTypes} :
                                  e.key \in keys}))
                   \in words \cup {None}
      <4> DEFINE S == LastOf({e \in {e \in AttributeRows(hash) : e.type \in PartyTypes} :
                                e.key \in keys})
      <4>1. S \subseteq GetEvents(hash)
        BY <2>2 DEF LastOf
      <4> HIDE DEF S
      <4>2. S # {} => The(S) \in S
        BY DEF The
      <4>3. WordOf(S) \in words \cup {None}
        BY <4>1, <4>2 DEF WordOf
      <4> QED
        BY <4>3 DEF S
    <3>4. /\ GetSenderAndReceiver(hash).sender \in words \cup {None}
          /\ GetSenderAndReceiver(hash).receiver \in words \cup {None}
      <4> HIDE DEF words
      <4> QED
        BY <3>3 DEF GetSenderAndReceiver
    <3> QED
      BY <3>1, <3>2, <3>4
  <2>7. \A hash : \A k \in GetEventsV2(hash) : k \in DOMAIN eventRows /\ k.hash = hash
    BY DEF GetEventsV2
  <2>8. \A hash \in {k.hash : k \in DOMAIN eventRows} :
          LET events == GetEvents(hash)
          IN  \A k \in GetEventsV2(hash) : \E e \in events :
                /\ k.msgType = e.msgType /\ k.type = e.type /\ k.key = e.key
                /\ eventRows[k] = e.value
                /\ <<k.index1, k.index2>> \in {<<e.attr, e.event>>, <<e.event, e.attr>>}
    BY ONLY <2>3, <2>7
  <2>9. \A hash \in {k.hash : k \in DOMAIN eventVals} :
          LET events == GetEvents(hash)
          IN  \A k \in DOMAIN eventVals : k.hash = hash =>
                \E e \in events : k.msgType = e.msgType /\ k.value = e.value
    BY ONLY <2>4
  <2> QED
    BY ONLY <2>5, <2>6, <2>8, <2>9 DEF AggregatesFromRows
<1>2. TablesInv => chain \in Chains
  BY DEF TablesInv, Shape
<1> QED
  BY InitTables, NextTables, InitRun, NextRun, InitAggregates, NextAggregates, <1>1, <1>2, PTL
     DEF Spec

-----------------------------------------------------------------------------
(* Pages and totals.  A total counts, and of two sets only finite ones can be
   compared by how many they hold. *)

LEMMA ListFinite ==
  ASSUME NEW s, IsList(s)
  PROVE  IsFiniteSet(DOMAIN s) /\ IsFiniteSet(Range(s))
<1>1. Len(s) \in Nat /\ DOMAIN s = 1 .. Len(s)
  BY ListIs
<1>2. IsFiniteSet(DOMAIN s)
  BY <1>1, FS_Interval
<1>3. Range(s) = {s[i] : i \in DOMAIN s}
  BY DEF Range
<1> QED
  BY <1>2, <1>3, ImageFinite

\* The node serves finitely many transactions, and so many are stored at most.
LEMMA TxesFinite == ASSUME TablesInv PROVE IsFiniteSet(DOMAIN txes)
<1> DEFINE txs == [h \in Heights |-> Range(chain[h].txs)]
           all == UNION {txs[h] : h \in Heights}
           hashOf == [tx \in all |-> tx.hash]
<1>1. chain \in Chains
  BY DEF TablesInv, Shape
<1>2. IsFiniteSet(Heights)
  BY <1>1, ServedChain, FS_Interval DEF Heights
<1>3. IsFiniteSet(all)
  <2>1. DOMAIN txs = Heights /\ \A h \in Heights : IsFiniteSet(txs[h])
    BY <1>1, ServedChain, ListFinite
  <2> HIDE DEF txs
  <2> QED
    BY <1>2, <2>1, UnionFinite
<1>4. \A hash \in DOMAIN txes : \E tx \in all : tx.hash = hash
  BY DEF TablesInv, TxRows, IsTxRowOf
<1> HIDE DEF all
<1>5. DOMAIN hashOf = all /\ \A tx \in all : hashOf[tx] = tx.hash
  OBVIOUS
<1> HIDE DEF hashOf
<1>6. IsFiniteSet({hashOf[tx] : tx \in DOMAIN hashOf})
  BY <1>3, <1>5, ImageFinite
<1>7. DOMAIN txes \subseteq {hashOf[tx] : tx \in DOMAIN hashOf}
  BY <1>4, <1>5
<1> QED
  BY <1>6, <1>7, FS_Subset

\* A table of finitely many messages has finitely many attributes.
LEMMA RowsFinite ==
  ASSUME MessageRows, IsFiniteSet(DOMAIN messages), NEW hash
  PROVE  IsFiniteSet(RowsIn(messages, hash))
<1> DEFINE keys == {k \in DOMAIN messages : k[1] = hash}
           attrs(k, e) == [a \in DOMAIN messages[k].events[e].attrs |->
                             RowAt(messages, hash, k, e, a)]
           rowsOf(k, e) == {attrs(k, e)[a] : a \in DOMAIN attrs(k, e)}
           events(k) == [e \in DOMAIN messages[k].events |-> rowsOf(k, e)]
           rowsIn(k) == UNION {events(k)[e] : e \in DOMAIN events(k)}
           all == [k \in keys |-> rowsIn(k)]
<1>1. ASSUME NEW k \in keys, NEW e \in DOMAIN messages[k].events
      PROVE  IsFiniteSet(rowsOf(k, e))
  <2>1. IsList(messages[k].events[e].attrs)
    BY DEF MessageRows, IsMessageOf, IsMessage, AreEvents, Range
  <2>2. IsFiniteSet(DOMAIN messages[k].events[e].attrs)
    BY <2>1, ListFinite
  <2>3. DOMAIN attrs(k, e) = DOMAIN messages[k].events[e].attrs
    OBVIOUS
  <2> HIDE DEF attrs
  <2> QED
    BY <2>2, <2>3, ImageFinite
<1> HIDE DEF rowsOf
<1>2. ASSUME NEW k \in keys PROVE IsFiniteSet(rowsIn(k))
  <2>1. IsList(messages[k].events)
    BY DEF MessageRows, IsMessageOf, IsMessage, AreEvents
  <2>2. IsFiniteSet(DOMAIN messages[k].events)
    BY <2>1, ListFinite
  <2>3. /\ DOMAIN events(k) = DOMAIN messages[k].events
        /\ \A e \in DOMAIN messages[k].events : IsFiniteSet(events(k)[e])
    BY <1>1
  <2> HIDE DEF events
  <2> QED
    BY <2>2, <2>3, UnionFinite
<1> HIDE DEF rowsIn
<1>3. IsFiniteSet(keys)
  BY FS_Subset
<1>4. DOMAIN all = keys /\ \A k \in keys : IsFiniteSet(all[k])
  BY <1>2
<1> HIDE DEF keys, all
<1>5. IsFiniteSet(UNION {all[k] : k \in DOMAIN all})
  BY <1>3, <1>4, UnionFinite
<1>6. ASSUME NEW r \in RowsIn(messages, hash)
      PROVE  r \in UNION {all[k] : k \in DOMAIN all}
  <2>1. PICK k \in DOMAIN messages : k[1] = hash /\
          \E e \in DOMAIN messages[k].events :
            \E a \in DOMAIN messages[k].events[e].attrs : r = RowAt(messages, hash, k, e, a)
    BY RowsAre
  <2>2. PICK e \in DOMAIN messages[k].events :
          \E a \in DOMAIN messages[k].events[e].attrs : r = RowAt(messages, hash, k, e, a)
    BY <2>1
  <2>3. r \in rowsOf(k, e)
    BY <2>2 DEF rowsOf
  <2>4. r \in rowsIn(k)
    BY <2>2, <2>3 DEF rowsIn
  <2>5. k \in DOMAIN all /\ r \in all[k]
    BY <2>1, <2>4 DEF all, keys
  <2> QED
    BY <2>5
<1> QED
  BY <1>5, <1>6, FS_Subset

\* The attributes of all transactions are finitely many, each of its transaction.
LEMMA ListedRows ==
  ASSUME TablesInv, IsFiniteSet(DOMAIN messages)
  PROVE  /\ IsFiniteSet(AllAttributeRows)
         /\ \A hash : \A e \in RowsIn(messages, hash) :
              e.hash = hash /\ hash \in DOMAIN txes /\ e \in AllAttributeRows
<1> DEFINE rows == [hash \in DOMAIN txes |-> RowsIn(messages, hash)]
<1>1. MessageRows
  BY DEF TablesInv
<1>2. \A hash : AttributeRows(hash) = RowsIn(messages, hash)
  BY DEF AttributeRows, RowsIn
<1>3. DOMAIN rows = DOMAIN txes /\ \A hash \in DOMAIN txes : IsFiniteSet(rows[hash])
  BY <1>1, RowsFinite
<1>4. AllAttributeRows = UNION {rows[hash] : hash \in DOMAIN rows}
  <2> HIDE DEF RowsIn
  <2>1. AllAttributeRows = UNION {RowsIn(messages, hash) : hash \in DOMAIN txes}
    BY <1>2 DEF AllAttributeRows
  <2> QED
    BY <2>1
<1> HIDE DEF rows
<1>5. IsFiniteSet(AllAttributeRows)
  BY <1>3, <1>4, TxesFinite, UnionFinite
<1>6. ASSUME NEW hash, NEW e \in RowsIn(messages, hash)
      PROVE  e.hash = hash /\ hash \in DOMAIN txes /\ e \in AllAttributeRows
  <2>1. PICK k \in DOMAIN messages : k[1] = hash /\
          \E ev \in DOMAIN messages[k].events :
            \E a \in DOMAIN messages[k].events[ev].attrs : e = RowAt(messages, hash, k, ev, a)
    BY RowsAre
  <2>2. hash \in DOMAIN txes
    BY <1>1, <2>1 DEF MessageRows
  <2>3. e.hash = hash
    BY <2>1 DEF RowAt
  <2>4. e \in AttributeRows(hash)
    BY <1>2
  <2> QED
    BY <2>2, <2>3, <2>4 DEF AllAttributeRows
<1> QED
  BY <1>5, <1>6

LEMMA AttributesFinite ==
  TablesInv /\ IsFiniteSet(DOMAIN messages) => IsFiniteSet(AllAttributeRows)
BY ListedRows

LEMMA ListedRowsGrow ==
  ASSUME TablesInv, TablesInv', RowsKept
  PROVE  /\ DOMAIN txes \subseteq DOMAIN txes'
         /\ \A hash : AttributeRows(hash) \subseteq AttributeRows(hash)'
         /\ AllAttributeRows \subseteq AllAttributeRows'
<1>1. \A hash : RowsIn(messages, hash) \subseteq RowsIn(messages', hash)
  BY RowsInGrow DEF TablesInv
<1>2. \A hash : AttributeRows(hash) = RowsIn(messages, hash)
  BY DEF AttributeRows, RowsIn
<1>3. \A hash : AttributeRows(hash)' = RowsIn(messages', hash)
  BY DEF AttributeRows, RowsIn
<1>4. \A hash : AttributeRows(hash) \subseteq AttributeRows(hash)'
  BY <1>1, <1>2, <1>3
<1>5. DOMAIN txes \subseteq DOMAIN txes'
  BY DEF RowsKept
<1> QED
  BY <1>4, <1>5 DEF AllAttributeRows

(* Beside the shape of what the totals are taken from: the view of the accounts, even
   one that is old, has no row that the tables would not make. *)
IsValuesKey(k) == k = [hash |-> k.hash, msgType |-> k.msgType, value |-> k.value]

ViewsShape ==
  views = [normalized |-> views.normalized, votes |-> views.votes, deposits |-> views.deposits,
           fees |-> views.fees, counts |-> views.counts, wallets |-> views.wallets]

ListedInv ==
  /\ IsFiniteSet(DOMAIN messages)
  /\ \A k \in DOMAIN eventVals : IsValuesKey(k)
  /\ ViewsShape
  /\ views.normalized \subseteq TransactionsNormalized

LEMMA NormalizedGrow ==
  ASSUME TablesInv, TablesInv', RowsKept
  PROVE  TransactionsNormalized \subseteq TransactionsNormalized'
<1> SUFFICES ASSUME NEW n \in TransactionsNormalized PROVE n \in TransactionsNormalized'
  OBVIOUS
<1>1. PICK hash \in DOMAIN txes, role \in {"sender", "receiver"} :
        \E v \in Values(hash, {"send"}, role) :
          n = [account |-> v.word, hash |-> hash, role |-> role, time |-> txes[hash].time]
  BY DEF TransactionsNormalized
<1>2. PICK v \in Values(hash, {"send"}, role) :
        n = [account |-> v.word, hash |-> hash, role |-> role, time |-> txes[hash].time]
  BY <1>1
<1>3. v \in Values(hash, {"send"}, role)'
  BY ListedRowsGrow DEF Values
<1>4. hash \in DOMAIN txes' /\ txes'[hash].time = txes[hash].time
  BY DEF RowsKept
<1> DEFINE rows(x, r) == {[account |-> w.word, hash |-> x, role |-> r, time |-> txes'[x].time] :
                            w \in Values(x, {"send"}, r)'}
<1>5. TransactionsNormalized' = UNION {rows(x, r) : x \in DOMAIN txes', r \in {"sender", "receiver"}}
  BY DEF TransactionsNormalized
<1>6. n \in rows(hash, role)
  BY <1>2, <1>3, <1>4
<1> HIDE DEF rows
<1>7. rows(hash, role) \in {rows(x, r) : x \in DOMAIN txes', r \in {"sender", "receiver"}}
  BY <1>4
<1> QED
  BY <1>5, <1>6, <1>7

LEMMA InitListed == Init => ListedInv
<1> SUFFICES ASSUME Init PROVE ListedInv
  OBVIOUS
<1>1. messages = <<>> /\ eventVals = <<>> /\ views = Refreshed
  BY DEF Init, TxTablesInit, AggregatesInit
<1>2. DOMAIN messages = {} /\ DOMAIN eventVals = {}
  BY <1>1
<1>3. ViewsShape /\ views.normalized = TransactionsNormalized
  BY <1>1 DEF ViewsShape, Refreshed
<1> QED
  BY <1>2, <1>3, FS_EmptySet DEF ListedInv

\* A pass over a block adds a message for each it keeps of a transaction.
LEMMA MessagesStayFinite ==
  ASSUME chain \in Chains, IsFiniteSet(DOMAIN messages), NEW h \in Heights, NEW want, NEW path,
         NEW ws, ws = Parsed(h, want, path)
  PROVE  IsFiniteSet(DOMAIN UpsertMessages(ws))
<1> DEFINE key(w) == [k \in DOMAIN w.messages |-> <<w.hash, k>>]
           keys(w) == {key(w)[k] : k \in DOMAIN key(w)}
           written == [i \in DOMAIN ws |-> keys(ws[i])]
           passed == UNION {{<<w.hash, k>> : k \in DOMAIN w.messages} : w \in Range(ws)}
<1>1. ASSUME NEW w \in Range(ws) PROVE IsFiniteSet(keys(w))
  <2>1. PICK tx \in Range(chain[h].txs) : w = TxDBWrapper(tx, h, want, path)
    BY Wrappers
  <2>2. IsList(tx.msgs)
    BY ServedChain
  <2>3. DOMAIN w.messages \subseteq DOMAIN tx.msgs
    <3>1. w.messages = ProcessTx(tx, want, path)
      BY <2>1, WrapperIs
    <3>2. DOMAIN ProcessTx(tx, want, path) \subseteq DOMAIN Slots(tx, want)
      BY DEF ProcessTx
    <3> QED
      BY <2>2, <3>1, <3>2, SlotsAre
  <2>4. IsFiniteSet(DOMAIN w.messages)
    BY <2>2, <2>3, ListFinite, FS_Subset
  <2>5. DOMAIN key(w) = DOMAIN w.messages
    OBVIOUS
  <2> HIDE DEF key
  <2> QED
    BY <2>4, <2>5, ImageFinite
<1>2. Range(ws) = {ws[i] : i \in DOMAIN ws}
  BY Wrappers
<1>3. IsFiniteSet(DOMAIN ws)
  BY ServedChain, ListFinite DEF Parsed
<1>4. ASSUME NEW p \in passed PROVE \E i \in DOMAIN ws : p \in keys(ws[i])
  <2>1. PICK w \in Range(ws) : \E k \in DOMAIN w.messages : p = <<w.hash, k>>
    OBVIOUS
  <2>2. p \in keys(w)
    BY <2>1
  <2>3. PICK i \in DOMAIN ws : w = ws[i]
    BY <1>2
  <2> HIDE DEF keys
  <2> QED
    BY <2>2, <2>3
<1>5. DOMAIN UpsertMessages(ws) = passed \cup DOMAIN messages
  BY DEF UpsertMessages
<1> HIDE DEF keys, passed
<1>6. DOMAIN written = DOMAIN ws /\ \A i \in DOMAIN ws : IsFiniteSet(written[i])
  BY <1>1, <1>2
<1>7. passed \subseteq UNION {written[i] : i \in DOMAIN written}
  BY <1>4
<1> HIDE DEF written
<1>8. IsFiniteSet(passed)
  <2>1. IsFiniteSet(UNION {written[i] : i \in DOMAIN written})
    BY <1>3, <1>6, UnionFinite
  <2> QED
    BY <1>7, <2>1, FS_Subset
<1> QED
  BY <1>5, <1>8, FS_Union

\* The keys of tx_events_vals_aggregateds, from a goroutine or the migration.
LEMMA ValuesKeys ==
  ASSUME NEW hash, NEW time, NEW events
  PROVE  \A k \in DOMAIN EventValsOf(hash, time, events) : IsValuesKey(k) /\ k.hash = hash
<1> SUFFICES ASSUME NEW k \in DOMAIN EventValsOf(hash, time, events)
             PROVE  IsValuesKey(k) /\ k.hash = hash
  OBVIOUS
<1>1. \E e \in events : k = [hash |-> hash, msgType |-> e.msgType, value |-> e.value]
  BY DEF EventValsOf
<1> QED
  BY <1>1 DEF IsValuesKey

LEMMA NextListed ==
  TablesInv /\ TablesInv' /\ RowsKept /\ ListedInv /\ [Next]_vars
  => /\ ListedInv'
     /\ DOMAIN eventVals \subseteq DOMAIN eventVals'
     /\ views.normalized \subseteq views'.normalized
<1> SUFFICES ASSUME TablesInv, TablesInv', RowsKept, ListedInv, [Next]_vars
             PROVE  /\ ListedInv'
                    /\ DOMAIN eventVals \subseteq DOMAIN eventVals'
                    /\ views.normalized \subseteq views'.normalized
  OBVIOUS
<1> DEFINE Goal == /\ ListedInv'
                   /\ DOMAIN eventVals \subseteq DOMAIN eventVals'
                   /\ views.normalized \subseteq views'.normalized
<1>0. /\ IsFiniteSet(DOMAIN messages) /\ ViewsShape
      /\ \A k \in DOMAIN eventVals : IsValuesKey(k)
      /\ views.normalized \subseteq TransactionsNormalized
      /\ TransactionsNormalized \subseteq TransactionsNormalized'
      /\ chain \in Chains
  BY NormalizedGrow DEF ListedInv, TablesInv, Shape
<1>1. ASSUME UNCHANGED <<eventVals, views>>, IsFiniteSet(DOMAIN messages') PROVE Goal
  BY <1>0, <1>1 DEF ListedInv, ViewsShape
<1>2. ASSUME UNCHANGED <<eventVals, views, messages>> PROVE Goal
  BY <1>0, <1>1, <1>2
<1>3. ASSUME UNCHANGED <<views, messages>>,
             NEW rows, eventVals' = InsertNew(eventVals, rows),
             \A k \in DOMAIN rows : IsValuesKey(k)
      PROVE  Goal
  <2>1. DOMAIN eventVals' = DOMAIN eventVals \cup DOMAIN rows
    BY <1>3 DEF InsertNew
  <2> QED
    BY <1>0, <1>3, <2>1 DEF ListedInv, ViewsShape
<1>4. ASSUME NEW h \in Heights, NEW path \in Paths, IndexTxs(h, path) PROVE Goal
  <2> DEFINE ws == Parsed(h, wanted, path)
  <2>1. messages' = UpsertMessages(ws) /\ UNCHANGED <<eventVals, views>>
    BY <1>4 DEF IndexTxs, IndexNewBlock
  <2>2. IsFiniteSet(DOMAIN UpsertMessages(ws))
    BY <1>0, MessagesStayFinite
  <2> QED
    BY <1>1, <2>1, <2>2
<1>5. ASSUME NEW h \in Heights, NEW path \in Paths, FailTxs(h, path) PROVE Goal
  BY <1>2, <1>5 DEF FailTxs, RolledBack, aggregates
<1>6. ASSUME NEW h \in Heights, IndexEvents(h) PROVE Goal
  BY <1>2, <1>6 DEF IndexEvents, IndexBlockEvents, aggregates
<1>7. CASE LoopOverTxs
  BY <1>2, <1>7 DEF LoopOverTxs, Spawn, tables
<1>8. CASE Read
  BY <1>2, <1>8 DEF Read, ReadEvents, tables
<1>9. CASE Save
  <2>1. PICK g \in goroutines :
          SaveAggregated(g) \/ SaveAggregatedEventValues(g) \/ SaveAggregatedEvents(g)
    BY <1>9 DEF Save
  <2>2. UNCHANGED <<views, messages>>
    BY <1>9 DEF Save, tables
  <2>3. CASE SaveAggregatedEventValues(g)
    <3>1. eventVals' = InsertNew(eventVals, EventValsOf(g.hash, g.time, g.events))
      BY <2>3 DEF SaveAggregatedEventValues
    <3> QED
      BY <1>3, <2>2, <3>1, ValuesKeys
  <2>4. CASE SaveAggregated(g) \/ SaveAggregatedEvents(g)
    <3>1. UNCHANGED eventVals
      BY <2>4 DEF SaveAggregated, SaveAggregatedEvents
    <3> QED
      BY <1>2, <2>2, <3>1
  <2> QED
    BY <2>1, <2>3, <2>4
<1>10. CASE Migrate
  <2>1. UNCHANGED <<views, messages>> /\ (TxEventsValsMigration \/ TxEventsMigration)
    BY <1>10 DEF Migrate, tables
  <2>2. CASE TxEventsValsMigration
    <3> DEFINE rows == [hash \in DOMAIN txes |->
                          EventValsOf(hash, txes[hash].time, AttributeRows(hash))]
    <3>1. eventVals' = InsertNew(eventVals, MergedOver(rows))
      BY <2>2 DEF TxEventsValsMigration
    <3>2. \A hash \in DOMAIN rows : \A k \in DOMAIN rows[hash] : IsValuesKey(k)
      <4>1. \A hash \in DOMAIN rows :
              rows[hash] = EventValsOf(hash, txes[hash].time, AttributeRows(hash))
        OBVIOUS
      <4> HIDE DEF rows
      <4> QED
        BY <4>1, ValuesKeys
    <3> HIDE DEF rows
    <3>3. \A k \in DOMAIN MergedOver(rows) : IsValuesKey(k)
      BY <3>2 DEF MergedOver
    <3> QED
      BY <1>3, <2>1, <3>1, <3>3
  <2>3. CASE TxEventsMigration
    BY <1>2, <2>1, <2>3 DEF TxEventsMigration
  <2> QED
    BY <2>1, <2>2, <2>3
<1>11. CASE RefreshMaterializedViews
  <2>1. UNCHANGED <<tables, messages, txes, eventVals>> /\ UpdateViews
    BY <1>11 DEF RefreshMaterializedViews, aggregates, tables
  <2>2. TransactionsNormalized' = TransactionsNormalized
    BY <2>1 DEF TransactionsNormalized, Values, AttributeRows
  <2>3. ViewsShape' /\ views'.normalized = TransactionsNormalized
    <3>1. CASE views' = Refreshed
      BY <3>1 DEF ViewsShape, Refreshed
    <3>2. CASE views' = [views EXCEPT !.normalized = TransactionsNormalized]
      <4> DEFINE fresh == TransactionsNormalized
                 old == views.normalized
                 votes == views.votes
                 deposits == views.deposits
                 fees == views.fees
                 counts == views.counts
                 wallets == views.wallets
      <4>1. views = [normalized |-> old, votes |-> votes, deposits |-> deposits, fees |-> fees,
                     counts |-> counts, wallets |-> wallets]
        BY <1>0 DEF ViewsShape
      <4>2. views' = [views EXCEPT !.normalized = fresh]
        BY <3>2
      <4> HIDE DEF fresh, old, votes, deposits, fees, counts, wallets
      <4>3. views' = [normalized |-> fresh, votes |-> votes, deposits |-> deposits, fees |-> fees,
                      counts |-> counts, wallets |-> wallets]
        BY ONLY <4>1, <4>2
      <4>4. views'.normalized = fresh
        BY <4>3
      <4>5. ViewsShape'
        BY <4>3 DEF ViewsShape
      <4> QED
        BY <4>4, <4>5 DEF fresh
    <3> QED
      BY <2>1, <3>1, <3>2 DEF UpdateViews, RefreshAll, RefreshFailsAtVotes
  <2> QED
    BY <1>0, <2>1, <2>2, <2>3 DEF ListedInv
<1>12. CASE Serve
  BY <1>2, <1>12 DEF Serve, aggregates, tables
<1>13. CASE CrashAndRestart
  BY <1>2, <1>13 DEF CrashAndRestart, LoseGoroutines, tables
<1>14. CASE UNCHANGED vars
  BY <1>2, <1>14 DEF vars, aggregates, tables
<1> QED
  BY <1>4, <1>5, <1>6, <1>7, <1>8, <1>9, <1>10, <1>11, <1>12, <1>13, <1>14 DEF Next

\* A page of values of a function over some rows, and a later total that counts more
\* of those rows.
LEMMA PageCovered ==
  ASSUME NEW f, NEW all, IsFiniteSet(all), DOMAIN f \subseteq all
  PROVE  /\ Cardinality({f[x] : x \in DOMAIN f}) <= Cardinality(all)
         /\ Cardinality(DOMAIN f) <= Cardinality(all)
<1>1. IsFiniteSet(DOMAIN f) /\ Cardinality(DOMAIN f) <= Cardinality(all)
  BY FS_Subset
<1>2. Cardinality({f[x] : x \in DOMAIN f}) <= Cardinality(DOMAIN f)
  BY <1>1, ImageFinite
<1>3. IsFiniteSet({f[x] : x \in DOMAIN f})
  BY <1>1, ImageFinite
<1>4. /\ Cardinality({f[x] : x \in DOMAIN f}) \in Nat /\ Cardinality(DOMAIN f) \in Nat
      /\ Cardinality(all) \in Nat
  BY <1>1, <1>3, FS_CardinalityType
<1> QED
  BY <1>1, <1>2, <1>4

LEMMA BlocksCovered ==
  ASSUME TablesInv, TablesInv', RowsKept
  PROVE  /\ Cardinality(Blocks.rows) <= Blocks'.all
         /\ \A h \in Heights :
              Cardinality(BlockSignatures(h, {}).rows) <= BlockSignatures(h, {})'.all
<1>1. chain \in Chains
  BY DEF TablesInv, Shape
<1>2. \A h \in Heights : flags[h] \subseteq flags'[h] /\ signatures[h] \subseteq signatures'[h]
  BY DEF RowsKept
<1>3. Cardinality(Blocks.rows) <= Blocks'.all
  <2>1. IsFiniteSet(Heights)
    BY <1>1, ServedChain, FS_Interval DEF Heights
  <2>2. BlockRows \subseteq BlockRows' /\ BlockRows' \subseteq Heights
    BY <1>2 DEF BlockRows
  <2>3. IsFiniteSet(BlockRows')
    BY <2>1, <2>2, FS_Subset
  <2>4. Cardinality(BlockRows) <= Cardinality(BlockRows')
    BY <2>2, <2>3, FS_Subset
  <2> HIDE DEF BlockRows
  <2>5. Blocks.rows = BlockRows /\ Blocks'.all = Cardinality(BlockRows')
    BY DEF Blocks, Listing
  <2> QED
    BY <2>4, <2>5
<1>4. ASSUME NEW h \in Heights
      PROVE  Cardinality(BlockSignatures(h, {}).rows) <= BlockSignatures(h, {})'.all
  <2> DEFINE old == {v \in signatures[h] : flags[h] # {} /\ ({} = {} \/ v \in {})}
             new == {v \in signatures'[h] : flags'[h] # {} /\ ({} = {} \/ v \in {})}
  <2>1. old \subseteq new /\ new \subseteq Range(chain'[h].signers)
    BY <1>2 DEF TablesInv, Signed
  <2>2. IsList(chain'[h].signers)
    <3>1. chain' \in Chains
      BY DEF TablesInv, Shape
    <3>2. \A c \in Chains : \A g \in Heights : IsList(c[g].signers)
      BY ContentsAssumption DEF ContentsAssumption, IsChain
    <3> QED
      BY <3>1, <3>2
  <2>3. BlockSignatures(h, {}).rows = old /\ BlockSignatures(h, {})'.all = Cardinality(new)
    BY DEF BlockSignatures, Listing
  <2> HIDE DEF old, new
  <2>4. IsFiniteSet(new)
    BY <2>1, <2>2, ListFinite, FS_Subset
  <2> QED
    BY <2>1, <2>3, <2>4, FS_Subset
<1> QED
  BY <1>3, <1>4

LEMMA AttributesCovered ==
  ASSUME TablesInv, TablesInv', RowsKept, ListedInv'
  PROVE  /\ Cardinality(GetWalletsWithTx.rows) <= GetWalletsWithTx'.all
         /\ \A a : Cardinality(GetPowerEvents(a).rows) <= GetPowerEvents(a)'.all
<1>1. AllAttributeRows \subseteq AllAttributeRows'
  BY ListedRowsGrow
<1>2. IsFiniteSet(AllAttributeRows')
  <2>1. (TablesInv /\ IsFiniteSet(DOMAIN messages) => IsFiniteSet(AllAttributeRows))'
    BY AttributesFinite, PTL
  <2> QED
    BY <2>1 DEF ListedInv
<1>3. Cardinality(GetWalletsWithTx.rows) <= GetWalletsWithTx'.all
  <2> DEFINE sent == {e \in AllAttributeRows : e.key = "sender"}
             later == {e \in AllAttributeRows' : e.key = "sender"}
             page == [e \in sent |-> <<e.value.word, txes[e.hash].time>>]
  <2>1. sent \subseteq later /\ IsFiniteSet(later)
    BY <1>1, <1>2, FS_Subset
  <2>2. /\ GetWalletsWithTx.rows = {<<e.value.word, txes[e.hash].time>> : e \in sent}
        /\ GetWalletsWithTx'.all = Cardinality(later)
    BY DEF GetWalletsWithTx, Listing
  <2> HIDE DEF sent, later
  <2>3. DOMAIN page = sent /\ GetWalletsWithTx.rows = {page[e] : e \in DOMAIN page}
    BY <2>2
  <2> HIDE DEF page
  <2>4. Cardinality({page[e] : e \in DOMAIN page}) <= Cardinality(later)
    BY <2>1, <2>3, PageCovered
  <2> QED
    BY <2>2, <2>3, <2>4
<1>4. ASSUME NEW a PROVE Cardinality(GetPowerEvents(a).rows) <= GetPowerEvents(a)'.all
  <2> DEFINE hits == {e \in AllAttributeRows : e.msgType \in PowerTypes /\ e.value.word = a}
             later == {e \in AllAttributeRows' : e.msgType \in PowerTypes /\ e.value.word = a}
             page == [e \in hits |-> e.hash]
  <2>1. hits \subseteq later /\ IsFiniteSet(later)
    BY <1>1, <1>2, FS_Subset
  <2>2. /\ GetPowerEvents(a).rows = {e.hash : e \in hits}
        /\ GetPowerEvents(a)'.all = Cardinality(later)
    BY DEF GetPowerEvents, getTransactionsByTypes, Listing
  <2> HIDE DEF hits, later
  <2>3. DOMAIN page = hits /\ GetPowerEvents(a).rows = {page[e] : e \in DOMAIN page}
    BY <2>2
  <2> HIDE DEF page
  <2>4. Cardinality({page[e] : e \in DOMAIN page}) <= Cardinality(later)
    BY <2>1, <2>3, PageCovered
  <2> QED
    BY <2>2, <2>3, <2>4
<1> QED
  BY <1>3, <1>4

\* The keys of tx_events_vals_aggregateds and the rows for the view of the accounts
\* are each made of an attribute.
LEMMA DerivedFinite ==
  TablesInv /\ AggregatesInv /\ ListedInv
  => IsFiniteSet(DOMAIN eventVals) /\ IsFiniteSet(views.normalized)
<1> SUFFICES ASSUME TablesInv, AggregatesInv, ListedInv
             PROVE  IsFiniteSet(DOMAIN eventVals) /\ IsFiniteSet(views.normalized)
  OBVIOUS
<1> DEFINE all == AllAttributeRows
           keyOf == [e \in all |-> [hash |-> e.hash, msgType |-> e.msgType, value |-> e.value]]
           rowOf == [e \in all |-> [account |-> e.value.word, hash |-> e.hash, role |-> e.key,
                                    time |-> txes[e.hash].time]]
<1>1. /\ IsFiniteSet(all)
      /\ \A hash : \A e \in RowsIn(messages, hash) : e.hash = hash /\ e \in all
  BY ListedRows DEF ListedInv
<1>2. IsFiniteSet(DOMAIN eventVals)
  <2>1. ASSUME NEW k \in DOMAIN eventVals PROVE k \in {keyOf[e] : e \in all}
    <3>1. PICK e \in RowsIn(messages, k.hash) : k.msgType = e.msgType /\ k.value = e.value
      BY DEF AggregatesInv, EventValsFrom
    <3>2. e \in all /\ e.hash = k.hash
      BY <1>1
    <3>3. k = [hash |-> e.hash, msgType |-> e.msgType, value |-> e.value]
      BY <3>1, <3>2 DEF ListedInv, IsValuesKey
    <3> HIDE DEF all
    <3>4. keyOf[e] = k
      BY <3>2, <3>3
    <3> QED
      BY <3>2, <3>4
  <2> HIDE DEF all
  <2>2. DOMAIN keyOf = all
    OBVIOUS
  <2> HIDE DEF keyOf
  <2>3. IsFiniteSet({keyOf[e] : e \in all})
    BY <1>1, <2>2, ImageFinite
  <2> QED
    BY <2>1, <2>3, FS_Subset
<1>3. IsFiniteSet(views.normalized)
  <2>1. ASSUME NEW n \in views.normalized PROVE n \in {rowOf[e] : e \in all}
    <3>1. PICK hash \in DOMAIN txes, role \in {"sender", "receiver"} :
            \E v \in Values(hash, {"send"}, role) :
              n = [account |-> v.word, hash |-> hash, role |-> role, time |-> txes[hash].time]
      BY DEF ListedInv, TransactionsNormalized
    <3>2. PICK v \in Values(hash, {"send"}, role) :
            n = [account |-> v.word, hash |-> hash, role |-> role, time |-> txes[hash].time]
      BY <3>1
    <3>3. PICK e \in RowsIn(messages, hash) : e.key = role /\ e.value = v
      <4>1. AttributeRows(hash) = RowsIn(messages, hash)
        BY DEF AttributeRows, RowsIn
      <4> QED
        BY <4>1 DEF Values
    <3>4. e \in all /\ e.hash = hash
      BY <1>1
    <3> HIDE DEF all
    <3>5. rowOf[e] = n
      BY <3>2, <3>3, <3>4
    <3> QED
      BY <3>4, <3>5
  <2> HIDE DEF all
  <2>2. DOMAIN rowOf = all
    OBVIOUS
  <2> HIDE DEF rowOf
  <2>3. IsFiniteSet({rowOf[e] : e \in all})
    BY <1>1, <2>2, ImageFinite
  <2> QED
    BY <2>1, <2>3, FS_Subset
<1> QED
  BY <1>2, <1>3

LEMMA ValuesCovered ==
  ASSUME IsFiniteSet(DOMAIN eventVals'), DOMAIN eventVals \subseteq DOMAIN eventVals', NEW a
  PROVE  Cardinality(TransactionsByEventValue({a}, PowerTypes).rows)
           <= TransactionsByEventValue({a}, PowerTypes)'.all
<1> DEFINE hits == {k \in DOMAIN eventVals : k.msgType \in PowerTypes /\ k.value.word \in {a}}
           later == {k \in DOMAIN eventVals' : k.msgType \in PowerTypes /\ k.value.word \in {a}}
           hashes == {k.hash : k \in hits}
           hashesLater == {k.hash : k \in later}
<1>1. hits \subseteq later /\ IsFiniteSet(later)
  BY FS_Subset
<1>2. Cardinality({a}) = 1
  BY FS_Singleton
<1>3. later # {} => {k.value.word : k \in later} = {a}
  OBVIOUS
<1>4. hashes \subseteq hashesLater /\ (hashesLater = {} <=> later = {})
  BY <1>1
<1>5. IsFiniteSet(hashesLater)
  <2> DEFINE f == [k \in later |-> k.hash]
  <2>1. DOMAIN f = later /\ hashesLater = {f[k] : k \in DOMAIN f}
    OBVIOUS
  <2> HIDE DEF f, later, hashesLater
  <2> QED
    BY <1>1, <2>1, ImageFinite
<1>6. TransactionsByEventValue({a}, PowerTypes).rows
        = IF hashes = {} THEN {} ELSE hashes \cap DOMAIN txes
  <2>1. EventValueHits({a}, PowerTypes) = hits
    BY DEF EventValueHits
  <2> HIDE DEF hits
  <2>2. transactionsByEventValuePrepareV2({a}, PowerTypes) = hashes
    BY <1>2, <2>1 DEF transactionsByEventValuePrepareV2
  <2> HIDE DEF hashes
  <2> QED
    BY <2>2 DEF TransactionsByEventValue, Listing
<1>7. TransactionsByEventValue({a}, PowerTypes)'.all
        = IF hashesLater = {} THEN 0 ELSE Cardinality(hashesLater)
  <2>1. EventValueHits({a}, PowerTypes)' = later
    BY DEF EventValueHits
  <2> HIDE DEF later
  <2>2. transactionsByEventValuePrepareV2({a}, PowerTypes)' = hashesLater
    BY <1>2, <2>1 DEF transactionsByEventValuePrepareV2
  <2>3. later # {} => transactionsByEventValueTotals({a}, PowerTypes)' = Cardinality(hashesLater)
    BY <1>3, <2>1 DEF transactionsByEventValueTotals
  <2> HIDE DEF hashesLater
  <2> QED
    BY <1>4, <2>2, <2>3 DEF TransactionsByEventValue, Listing
<1> HIDE DEF hits, later, hashes, hashesLater
<1>8. Cardinality({}) = 0
  BY FS_EmptySet
<1>9. Cardinality(hashesLater) \in Nat
  BY <1>5, FS_CardinalityType
<1>10. Cardinality(hashes \cap DOMAIN txes) <= Cardinality(hashesLater)
  BY <1>4, <1>5, FS_Subset
<1>11. CASE hashes = {}
  BY <1>6, <1>7, <1>8, <1>9, <1>11
<1>12. CASE hashes # {}
  <2>1. hashesLater # {}
    BY <1>4, <1>12
  <2> QED
    BY <1>6, <1>7, <1>10, <1>12, <2>1
<1> QED
  BY <1>11, <1>12

LEMMA AccountsCovered ==
  ASSUME IsFiniteSet(views.normalized), IsFiniteSet(views'.normalized),
         views.normalized \subseteq views'.normalized, NEW a
  PROVE  AccountInfo(a) > 0 => AccountInfo(a) <= TxCountByAccounts({a})'[a]
<1> DEFINE rows == {n \in views.normalized : n.account = a}
           later == {n \in views'.normalized : n.account = a}
           f == [n \in rows |-> n.hash]
<1>1. rows \subseteq later /\ IsFiniteSet(later) /\ IsFiniteSet(rows)
  BY FS_Subset
<1>2. RowsOfAccount(a) = rows /\ RowsOfAccount(a)' = later
  BY DEF RowsOfAccount
<1> HIDE DEF rows, later
<1>3. AccountInfo(a) = Cardinality({n.hash : n \in rows})
  BY <1>2 DEF AccountInfo
<1>4. DOMAIN f = rows /\ {n.hash : n \in rows} = {f[n] : n \in DOMAIN f}
  OBVIOUS
<1>5. rows = {} => AccountInfo(a) = 0
  BY <1>3, FS_EmptySet
<1> HIDE DEF f
<1>6. AccountInfo(a) <= Cardinality(later)
  <2>1. Cardinality({f[n] : n \in DOMAIN f}) <= Cardinality(later)
    BY <1>1, <1>4, PageCovered
  <2> QED
    BY <1>3, <1>4, <2>1
<1>7. later # {} => TxCountByAccounts({a})'[a] = Cardinality(later)
  BY <1>2 DEF TxCountByAccounts
<1> QED
  BY <1>1, <1>5, <1>6, <1>7

(* Blocks, BlockSignatures, GetPowerEvents, TransactionsByEventValue and
   GetWalletsWithTx over tables that IndexNewBlock, IndexBlockEvents, the goroutines
   and the migration fill, and AccountInfo over views that are behind them by any
   number of refreshes. *)
THEOREM TotalsAlwaysCover == Spec => TotalsCoverPages
<1>1. /\ TablesInv /\ TablesInv' /\ RowsKept
      /\ AggregatesInv /\ AggregatesInv' /\ ListedInv /\ ListedInv' /\ [Next]_vars
      => TotalsCovered
  <2> SUFFICES ASSUME TablesInv, TablesInv', RowsKept, AggregatesInv, AggregatesInv',
                      ListedInv, ListedInv', [Next]_vars
               PROVE  TotalsCovered
    OBVIOUS
  <2>1. IsFiniteSet(DOMAIN eventVals) /\ IsFiniteSet(views.normalized)
    BY DerivedFinite
  <2>2. IsFiniteSet(DOMAIN eventVals') /\ IsFiniteSet(views'.normalized)
    <3>1. (TablesInv /\ AggregatesInv /\ ListedInv
             => IsFiniteSet(DOMAIN eventVals) /\ IsFiniteSet(views.normalized))'
      BY DerivedFinite, PTL
    <3> QED
      BY <3>1
  <2>3. DOMAIN eventVals \subseteq DOMAIN eventVals' /\ views.normalized \subseteq views'.normalized
    BY NextListed
  <2>4. \A a : /\ Cardinality(TransactionsByEventValue({a}, PowerTypes).rows)
                    <= TransactionsByEventValue({a}, PowerTypes)'.all
               /\ AccountInfo(a) > 0 => AccountInfo(a) <= TxCountByAccounts({a})'[a]
    BY <2>1, <2>2, <2>3, ValuesCovered, AccountsCovered
  <2> QED
    BY <2>4, BlocksCovered, AttributesCovered DEF TotalsCovered
<1>2. TablesInv => chain \in Chains
  BY DEF TablesInv, Shape
<1>3. ListedInv /\ TablesInv /\ TablesInv' /\ RowsKept /\ [Next]_vars => ListedInv'
  BY NextListed
<1>4. TotalsCovered => [UNCHANGED <<tables, eventVals, views>> \/ TotalsCovered]_vars
  OBVIOUS
<1> QED
  BY InitTables, NextTables, InitRun, NextRun, InitAggregates, NextAggregates, InitListed,
     <1>1, <1>2, <1>3, <1>4, PTL
     DEF Spec, TotalsCoverPages
================================================================================
