----------------------------- MODULE CommonLemmas -----------------------------
(***************************************************************************)
(* Lemmas that the proofs of several components need: what a channel,      *)
(* modelled as a sequence, holds after a send and before a receive,        *)
(* arithmetic and induction over the naturals, finite sets, and sequences   *)
(* in one.                                                                 *)
(***************************************************************************)
EXTENDS Integers, Sequences, SequencesExt, FiniteSetTheorems, SequenceTheorems,
        WellFoundedInduction, TLAPS

-----------------------------------------------------------------------------
(* Channels. *)

\* What a channel holds after a send.
LEMMA RangeAppend ==
  ASSUME NEW S, NEW s \in Seq(S), NEW x \in S
  PROVE  Range(Append(s, x)) = Range(s) \cup {x}
<1>1. Append(s, x) \in Seq(S) /\ Len(Append(s, x)) = Len(s) + 1
  OBVIOUS
<1>2. \A i \in 1 .. Len(s) : Append(s, x)[i] = s[i]
  OBVIOUS
<1>3. Append(s, x)[Len(s) + 1] = x
  OBVIOUS
<1>4. DOMAIN s = 1 .. Len(s) /\ DOMAIN Append(s, x) = 1 .. Len(s) + 1
  BY <1>1
<1>5. Len(s) \in Nat
  OBVIOUS
<1>6. 1 .. Len(s) + 1 = 1 .. Len(s) \cup {Len(s) + 1}
  BY <1>5
<1>7. QED
  BY <1>2, <1>3, <1>4, <1>6 DEF Range

\* What a channel held before a receive.
LEMMA RangeTail ==
  ASSUME NEW S, NEW s \in Seq(S), s # <<>>
  PROVE  /\ Head(s) \in S
         /\ Tail(s) \in Seq(S)
         /\ Len(Tail(s)) = Len(s) - 1
         /\ Range(s) = Range(Tail(s)) \cup {Head(s)}
<1>1. /\ Tail(s) \in Seq(S) /\ Len(Tail(s)) = Len(s) - 1 /\ Len(s) \in Nat \ {0}
      /\ Head(s) = s[1] /\ Head(s) \in S
  OBVIOUS
<1>2. \A i \in 1 .. Len(s) - 1 : Tail(s)[i] = s[i + 1]
  BY <1>1
<1>3. DOMAIN s = 1 .. Len(s) /\ DOMAIN Tail(s) = 1 .. Len(s) - 1
  BY <1>1
<1>4. ASSUME NEW i \in 1 .. Len(s)
      PROVE  i = 1 \/ (i - 1 \in 1 .. Len(s) - 1 /\ Tail(s)[i - 1] = s[i])
  BY <1>1, <1>2
<1>5. ASSUME NEW i \in 1 .. Len(s) - 1
      PROVE  i + 1 \in 1 .. Len(s) /\ Tail(s)[i] = s[i + 1]
  BY <1>1, <1>2
<1>6. 1 \in 1 .. Len(s)
  BY <1>1
<1>7. ASSUME NEW x \in Range(s)
      PROVE  x \in Range(Tail(s)) \cup {Head(s)}
  <2>1. PICK i \in 1 .. Len(s) : x = s[i]
    BY <1>3, <1>7 DEF Range
  <2>2. CASE i = 1
    BY <1>1, <2>1, <2>2
  <2>3. CASE i - 1 \in 1 .. Len(s) - 1 /\ Tail(s)[i - 1] = s[i]
    BY <1>3, <2>1, <2>3 DEF Range
  <2>4. QED
    BY <1>4, <2>2, <2>3
<1>8. ASSUME NEW x \in Range(Tail(s)) \cup {Head(s)}
      PROVE  x \in Range(s)
  <2>1. CASE x \in Range(Tail(s))
    <3>1. PICK i \in 1 .. Len(s) - 1 : x = Tail(s)[i]
      BY <1>3, <2>1 DEF Range
    <3>2. QED
      BY <1>3, <1>5, <3>1 DEF Range
  <2>2. CASE x = Head(s)
    BY <1>1, <1>3, <1>6, <2>2 DEF Range
  <2>3. QED
    BY <1>8, <2>1, <2>2
<1>9. QED
  BY <1>1, <1>7, <1>8

\* What is left of a channel of which a prefix stays.
LEMMA RangePrefix ==
  ASSUME NEW S, NEW s \in Seq(S), NEW k \in Nat, k <= Len(s)
  PROVE  /\ SubSeq(s, 1, k) \in Seq(S)
         /\ Range(SubSeq(s, 1, k)) = {s[i] : i \in 1 .. k}
         /\ Range(s) = Range(SubSeq(s, 1, k)) \cup {s[i] : i \in k + 1 .. Len(s)}
<1>1. Len(s) \in Nat /\ DOMAIN s = 1 .. Len(s)
  OBVIOUS
<1>2. SubSeq(s, 1, k) \in Seq(S) /\ Len(SubSeq(s, 1, k)) = k
  BY <1>1
<1>3. DOMAIN SubSeq(s, 1, k) = 1 .. k
  BY <1>2
<1>4. \A i \in 1 .. k : SubSeq(s, 1, k)[i] = s[i]
  BY <1>1
<1>5. Range(SubSeq(s, 1, k)) = {s[i] : i \in 1 .. k}
  BY <1>3, <1>4 DEF Range
<1>6. 1 .. Len(s) = 1 .. k \cup (k + 1 .. Len(s))
  BY <1>1
<1>7. QED
  BY <1>1, <1>2, <1>5, <1>6 DEF Range

\* An empty channel holds nothing.
LEMMA RangeEmpty == Range(<<>>) = {}
  BY DEF Range

-----------------------------------------------------------------------------
(* Arithmetic. *)

\* Products are ordered as their first factors are.
LEMMA TimesOrdered ==
  ASSUME NEW a \in Int, NEW b \in Int, NEW s \in Nat, a <= b
  PROVE  a * s <= b * s
<1>1. PICK d \in Nat : b = a + d
  <2>1. b - a \in Nat /\ b = a + (b - a)
    OBVIOUS
  <2> QED
    BY <2>1
<1>2. b * s = a * s + d * s
  BY <1>1
<1>3. d * s >= 0 /\ d * s \in Int /\ a * s \in Int
  OBVIOUS
<1> QED
  BY <1>2, <1>3

-----------------------------------------------------------------------------
(* Induction over the naturals, for a set in place of a predicate. *)

\* A set that holds 0, and n + 1 with n, holds every natural number: of the
\* numbers it does not hold the least one would follow one it holds.
LEMMA SetInduction ==
  ASSUME NEW S \in SUBSET Nat, 0 \in S, \A n \in S : n + 1 \in S
  PROVE  S = Nat
<1> SUFFICES ASSUME Nat \ S # {} PROVE FALSE
  OBVIOUS
<1> DEFINE Below(n) == 1 .. n
           D == {Below(n) : n \in Nat \ S}
           R == StrictSubsetOrdering(Int)
<1>1. D \subseteq FiniteSubsetsOf(Int) /\ D # {}
  <2>1. \A n \in Nat : Below(n) \subseteq Int /\ IsFiniteSet(Below(n))
    BY FS_Interval
  <2> QED
    BY <2>1 DEF FiniteSubsetsOf
<1>2. IsWellFoundedOn(R, FiniteSubsetsOf(Int))
  BY FS_StrictSubsetOrderingWellFounded
<1> HIDE DEF D, R
<1>3. PICK d \in D : \A e \in D : ~(<<e, d>> \in R)
  BY <1>1, <1>2, WFMin
<1>4. PICK n \in Nat \ S : d = Below(n)
  BY <1>3 DEF D
<1>5. n # 0
  OBVIOUS
<1> DEFINE m == n - 1
<1>6. m \in Nat /\ n = m + 1 /\ m < n
  BY <1>5
<1> HIDE DEF m
<1>7. m \notin S
  BY <1>6
<1>8. Below(m) \subseteq Below(n) /\ n \in Below(n) /\ n \notin Below(m) /\ Below(n) \subseteq Int
  BY <1>5, <1>6
<1>9. <<Below(m), Below(n)>> \in R
  <2> HIDE DEF Below
  <2>1. Below(m) # Below(n) /\ Below(m) \subseteq Int
    BY <1>8
  <2> QED
    BY <1>8, <2>1 DEF R, StrictSubsetOrdering
<1>10. Below(m) \in D
  BY <1>6, <1>7 DEF D
<1> QED
  BY <1>3, <1>4, <1>9, <1>10

\* The highest of some numbers up to n.
LEMMA HighestExists ==
  ASSUME NEW n \in Nat, NEW T \in SUBSET (1 .. n), T # {}
  PROVE  \E x \in T : \A y \in T : y <= x
<1> DEFINE Above(x) == x + 1 .. n
           D == {Above(x) : x \in T}
           R == StrictSubsetOrdering(Int)
<1>1. D \subseteq FiniteSubsetsOf(Int) /\ D # {}
  <2>1. \A x \in T : Above(x) \subseteq Int /\ IsFiniteSet(Above(x))
    BY FS_Interval
  <2> QED
    BY <2>1 DEF FiniteSubsetsOf
<1>2. IsWellFoundedOn(R, FiniteSubsetsOf(Int))
  BY FS_StrictSubsetOrderingWellFounded
<1> HIDE DEF D, R
<1>3. PICK d \in D : \A e \in D : ~(<<e, d>> \in R)
  BY <1>1, <1>2, WFMin
<1>4. PICK x \in T : d = Above(x)
  BY <1>3 DEF D
<1>5. ASSUME NEW y \in T, ~(y <= x) PROVE FALSE
  <2>1. Above(y) \subseteq Above(x) /\ y \in Above(x) /\ y \notin Above(y)
    BY <1>5
  <2>2. Above(x) \subseteq Int
    OBVIOUS
  <2>3. <<Above(y), Above(x)>> \in R
    <3> HIDE DEF Above
    <3>1. Above(y) # Above(x) /\ Above(y) \subseteq Int
      BY <2>1, <2>2
    <3> QED
      BY <2>1, <2>2, <3>1 DEF R, StrictSubsetOrdering
  <2>4. Above(y) \in D
    BY DEF D
  <2> QED
    BY <1>3, <1>4, <2>3, <2>4
<1> QED
  BY <1>5

-----------------------------------------------------------------------------
(* Finite sets, each member of which is made of a member of another. *)

\* A set of values of a function has no more members than its domain.
LEMMA ImageFinite ==
  ASSUME NEW f, IsFiniteSet(DOMAIN f)
  PROVE  /\ IsFiniteSet({f[x] : x \in DOMAIN f})
         /\ Cardinality({f[x] : x \in DOMAIN f}) <= Cardinality(DOMAIN f)
<1> DEFINE S == DOMAIN f
           T == {f[x] : x \in S}
           g == [x \in S |-> f[x]]
<1>1. g \in Surjection(S, T)
  BY DEF Surjection
<1> HIDE DEF g
<1> QED
  BY <1>1, FS_Surjection

\* Finitely many finite sets have finitely many members.
LEMMA UnionFinite ==
  ASSUME NEW f, IsFiniteSet(DOMAIN f), \A x \in DOMAIN f : IsFiniteSet(f[x])
  PROVE  IsFiniteSet(UNION {f[x] : x \in DOMAIN f})
<1> DEFINE sets == {f[x] : x \in DOMAIN f}
<1>1. IsFiniteSet(sets) /\ \A T \in sets : IsFiniteSet(T)
  BY ImageFinite
<1> HIDE DEF sets
<1>2. IsFiniteSet(UNION sets)
  BY <1>1, FS_UNION
<1> QED
  BY <1>2 DEF sets

-----------------------------------------------------------------------------
(* Sequences joined into one. *)

\* g[i] is the first i of n sequences in one.
Joins(g, seqs, n) ==
  /\ g = [i \in 1 .. n |-> g[i]]
  /\ \A i \in 1 .. n : g[i] = IF i = 1 THEN seqs[i] ELSE g[i - 1] \o seqs[i]

\* FlattenSeq is defined by such a function, and induction shows that there is
\* only one.
LEMMA FlattenIs ==
  ASSUME NEW n \in Nat \ {0}, NEW seqs, Len(seqs) = n, NEW g, Joins(g, seqs, n)
  PROVE  FlattenSeq(seqs) = g[n]
<1> USE DEF Joins
<1> DEFINE Defines(f) == f = [i \in 1 .. n |-> IF i = 1 THEN seqs[i] ELSE f[i - 1] \o seqs[i]]
           f == CHOOSE f : Defines(f)
<1>1. Defines(g)
  <2> DEFINE right == [i \in 1 .. n |-> IF i = 1 THEN seqs[i] ELSE g[i - 1] \o seqs[i]]
  <2>1. \A i \in 1 .. n : g[i] = right[i]
    OBVIOUS
  <2>2. right = [i \in 1 .. n |-> right[i]]
    OBVIOUS
  <2> HIDE DEF right
  <2>3. g = right
    BY <2>1, <2>2
  <2> QED
    BY <2>3 DEF right
<1>2. Defines(f)
  BY <1>1
<1>3. FlattenSeq(seqs) = f[n]
  BY DEF FlattenSeq
<1> HIDE DEF f
<1>9. \A i \in 1 .. n : f[i] = IF i = 1 THEN seqs[i] ELSE f[i - 1] \o seqs[i]
  BY <1>2
<1> HIDE DEF Defines
<1> DEFINE S == {i \in Nat : i \in 1 .. n => f[i] = g[i]}
<1>4. 0 \in S
  OBVIOUS
<1>5. ASSUME NEW i \in S PROVE i + 1 \in S
  <2> SUFFICES ASSUME i + 1 \in 1 .. n PROVE f[i + 1] = g[i + 1]
    OBVIOUS
  <2>1. CASE i = 0
    <3>1. 1 \in 1 .. n /\ i + 1 = 1
      BY <2>1
    <3>2. f[1] = seqs[1] /\ g[1] = seqs[1]
      BY <1>9, <3>1
    <3> QED
      BY <3>1, <3>2
  <2>2. CASE i # 0
    <3>1. i \in 1 .. n /\ i + 1 # 1 /\ (i + 1) - 1 = i
      BY <2>2
    <3>2. f[i + 1] = f[i] \o seqs[i + 1] /\ g[i + 1] = g[i] \o seqs[i + 1]
      BY <1>9, <3>1
    <3> QED
      BY <3>1, <3>2
  <2> QED
    BY <2>1, <2>2
<1> HIDE DEF S, Defines
<1>6. S \in SUBSET Nat
  BY DEF S
<1>7. S = Nat
  BY <1>4, <1>5, <1>6, SetInduction
<1>8. n \in Nat /\ n \in 1 .. n
  OBVIOUS
<1> QED
  BY <1>3, <1>7, <1>8 DEF S

\* Sequences over one set join to a sequence over it.
LEMMA FlattenList ==
  ASSUME NEW B, NEW n \in Nat, NEW seqs \in [1 .. n -> Seq(B)]
  PROVE  FlattenSeq(seqs) \in Seq(B)
<1>1. Len(seqs) = n /\ seqs \in Seq(Seq(B))
  OBVIOUS
<1>2. CASE n = 0
  <2>1. seqs = <<>>
    BY <1>1, <1>2
  <2> QED
    BY <1>1, <1>2, <2>1 DEF FlattenSeq
<1>3. CASE n # 0
  <2> DEFINE Built(g, m) == Joins(g, seqs, m) /\ \A i \in 1 .. m : g[i] \in Seq(B)
             M == {m \in Nat : m + 1 <= n => \E g : Built(g, m + 1)}
  <2>1. 0 \in M
    <3> DEFINE g == [i \in 1 .. 1 |-> seqs[i]]
    <3>1. 1 \in 1 .. n
      BY <1>3
    <3>2. Joins(g, seqs, 1) /\ \A i \in 1 .. 1 : g[i] \in Seq(B)
      BY <3>1 DEF Joins
    <3> HIDE DEF g
    <3>3. \E f : Built(f, 0 + 1)
      BY <3>2
    <3> HIDE DEF Built
    <3> QED
      BY <3>3
  <2>2. ASSUME NEW m \in M PROVE m + 1 \in M
    <3> SUFFICES ASSUME (m + 1) + 1 <= n PROVE \E g : Built(g, (m + 1) + 1)
      <4> HIDE DEF Built
      <4> QED
        OBVIOUS
    <3>1. PICK f : Built(f, m + 1)
      <4>1. m + 1 <= n
        OBVIOUS
      <4> HIDE DEF Built
      <4> QED
        BY <4>1
    <3> DEFINE last == f[m + 1] \o seqs[m + 2]
               g == [i \in 1 .. m + 2 |-> IF i = m + 2 THEN last ELSE f[i]]
    <3>2. m + 1 \in 1 .. m + 1 /\ m + 2 \in 1 .. n /\ m + 2 = (m + 1) + 1
      OBVIOUS
    <3>3. f[m + 1] \in Seq(B) /\ seqs[m + 2] \in Seq(B)
      BY <3>1, <3>2
    <3>4. last \in Seq(B)
      BY <3>3
    <3>5. \A i \in 1 .. m + 2 : i # m + 2 => i \in 1 .. m + 1
      OBVIOUS
    <3>6. \A i \in 1 .. m + 2 : g[i] \in Seq(B)
      BY <3>1, <3>4, <3>5
    <3>7. ASSUME NEW i \in 1 .. m + 2
          PROVE  g[i] = IF i = 1 THEN seqs[i] ELSE g[i - 1] \o seqs[i]
      <4>1. CASE i = m + 2
        <5>1. i # 1 /\ i - 1 = m + 1 /\ m + 1 \in 1 .. m + 2 /\ m + 1 # m + 2
          BY <4>1
        <5>2. g[i - 1] = f[m + 1] /\ g[i] = last
          BY <4>1, <5>1
        <5> QED
          BY <4>1, <5>1, <5>2
      <4>2. CASE i # m + 2
        <5>1. i \in 1 .. m + 1 /\ (i # 1 => i - 1 \in 1 .. m + 2 /\ i - 1 # m + 2)
          BY <4>2
        <5>2. f[i] = IF i = 1 THEN seqs[i] ELSE f[i - 1] \o seqs[i]
          BY <3>1, <5>1 DEF Joins
        <5>3. g[i] = f[i] /\ (i # 1 => g[i - 1] = f[i - 1])
          BY <4>2, <5>1
        <5> QED
          BY <5>2, <5>3
      <4> QED
        BY <4>1, <4>2
    <3>8. g = [i \in 1 .. m + 2 |-> g[i]]
      OBVIOUS
    <3> HIDE DEF g
    <3>9. Built(g, m + 2)
      BY <3>6, <3>7, <3>8 DEF Joins
    <3> HIDE DEF Built
    <3> QED
      BY <3>2, <3>9
  <2> HIDE DEF M
  <2>3. M = Nat
    <3>1. M \in SUBSET Nat
      BY DEF M
    <3> QED
      BY <2>1, <2>2, <3>1, SetInduction
  <2> HIDE DEF Built
  <2>4. PICK g : Built(g, n)
    <3>1. n - 1 \in Nat /\ (n - 1) + 1 = n
      BY <1>3
    <3>2. n - 1 \in M
      BY <2>3, <3>1
    <3> QED
      BY <3>1, <3>2 DEF M
  <2>5. n \in Nat \ {0} /\ n \in 1 .. n
    BY <1>3
  <2>6. FlattenSeq(seqs) = g[n]
    BY <1>1, <2>4, <2>5, FlattenIs DEF Built
  <2> QED
    BY <2>4, <2>5, <2>6 DEF Built
<1> QED
  BY <1>2, <1>3
=============================================================================
