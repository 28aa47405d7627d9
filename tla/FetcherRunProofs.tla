--------------------------- MODULE FetcherRunProofs ---------------------------
(***************************************************************************)
(* Fetcher mode for every configuration, chain and channel: the division   *)
(* of the range among goroutines by calculateGoroutines, the shape of the  *)
(* state, that each goroutine sends heights of its own range, and how long *)
(* it waits for a node that does not answer.                               *)
(***************************************************************************)
EXTENDS FetcherRun, CommonLemmas

-----------------------------------------------------------------------------
(* Powers. *)

\* Division rounds down.
LEMMA Quotient ==
  ASSUME NEW a \in Nat, NEW s \in Nat \ {0}
  PROVE  /\ a \div s \in Nat
         /\ (a \div s) * s <= a
         /\ a < (a \div s) * s + s
OBVIOUS

\* f is the powers of b up to the n-th.
PowersUpTo(b, f, n) ==
  /\ f \in [0 .. n -> Nat]
  /\ \A k \in 0 .. n : f[k] = IF k = 0 THEN 1 ELSE b * f[k - 1]

\* There are such functions of every length ...
LEMMA PowersExist ==
  ASSUME NEW b \in Nat, NEW n \in Nat
  PROVE  \E f : PowersUpTo(b, f, n)
<1> DEFINE S == {m \in Nat : \E f : PowersUpTo(b, f, m)}
<1>1. 0 \in S
  <2> DEFINE f == [k \in 0 .. 0 |-> 1]
  <2>1. PowersUpTo(b, f, 0)
    BY DEF PowersUpTo
  <2> QED
    BY <2>1
<1>2. ASSUME NEW m \in S PROVE m + 1 \in S
  <2>1. PICK f : PowersUpTo(b, f, m)
    OBVIOUS
  <2> DEFINE g == [k \in 0 .. m + 1 |-> IF k = m + 1 THEN b * f[m] ELSE f[k]]
  <2>2. f[m] \in Nat /\ b * f[m] \in Nat
    BY <2>1 DEF PowersUpTo
  <2>3. \A k \in 0 .. m : f[k] \in Nat
    BY <2>1 DEF PowersUpTo
  <2>4. \A k \in 0 .. m + 1 : k # m + 1 => k \in 0 .. m
    OBVIOUS
  <2>5. g \in [0 .. m + 1 -> Nat]
    BY <2>2, <2>3, <2>4
  <2>6. ASSUME NEW k \in 0 .. m + 1
        PROVE  g[k] = IF k = 0 THEN 1 ELSE b * g[k - 1]
    <3>1. CASE k = m + 1
      <4>1. k # 0 /\ k - 1 = m /\ m \in 0 .. m + 1 /\ m # m + 1
        BY <3>1
      <4>2. g[k] = b * f[m] /\ g[m] = f[m]
        BY <3>1, <4>1
      <4> QED
        BY <4>1, <4>2
    <3>2. CASE k # m + 1
      <4>1. k \in 0 .. m /\ (k # 0 => k - 1 \in 0 .. m + 1 /\ k - 1 # m + 1)
        BY <3>2
      <4>2. f[k] = IF k = 0 THEN 1 ELSE b * f[k - 1]
        BY <2>1, <4>1 DEF PowersUpTo
      <4>3. g[k] = f[k] /\ (k # 0 => g[k - 1] = f[k - 1])
        BY <3>2, <4>1
      <4> QED
        BY <4>2, <4>3
    <3> QED
      BY <3>1, <3>2
  <2> HIDE DEF g
  <2>7. PowersUpTo(b, g, m + 1)
    BY <2>5, <2>6 DEF PowersUpTo
  <2> QED
    BY <2>7
<1> HIDE DEF S
<1>3. S \in SUBSET Nat
  BY DEF S
<1>4. S = Nat
  BY <1>1, <1>2, <1>3, SetInduction
<1> QED
  BY <1>4 DEF S

\* ... and they agree.
LEMMA PowersAgree ==
  ASSUME NEW b \in Nat, NEW m \in Nat, NEW n \in Nat,
         NEW f, NEW g, PowersUpTo(b, f, m), PowersUpTo(b, g, n),
         NEW k \in Nat, k <= m, k <= n
  PROVE  f[k] = g[k]
<1> DEFINE S == {j \in Nat : j <= m /\ j <= n => f[j] = g[j]}
<1>1. 0 \in S
  <2>1. 0 \in 0 .. m /\ 0 \in 0 .. n
    OBVIOUS
  <2> QED
    BY <2>1 DEF PowersUpTo
<1>2. ASSUME NEW j \in S PROVE j + 1 \in S
  <2> SUFFICES ASSUME j + 1 <= m, j + 1 <= n PROVE f[j + 1] = g[j + 1]
    OBVIOUS
  <2>1. j + 1 \in 0 .. m /\ j + 1 \in 0 .. n /\ j + 1 # 0 /\ (j + 1) - 1 = j /\ j <= m /\ j <= n
    OBVIOUS
  <2>2. f[j + 1] = b * f[j] /\ g[j + 1] = b * g[j]
    BY <2>1 DEF PowersUpTo
  <2> QED
    BY <2>1, <2>2
<1> HIDE DEF S
<1>3. S \in SUBSET Nat
  BY DEF S
<1>4. S = Nat
  BY <1>1, <1>2, <1>3, SetInduction
<1> QED
  BY <1>4 DEF S

\* So the function Power(b) is defined by exists.
LEMMA PowerDefined ==
  ASSUME NEW b \in Nat
  PROVE  Power(b) = [n \in Nat |-> IF n = 0 THEN 1 ELSE b * Power(b)[n - 1]]
<1> DEFINE F(n) == CHOOSE f : PowersUpTo(b, f, n)
           g == [n \in Nat |-> F(n)[n]]
<1>1. \A n \in Nat : PowersUpTo(b, F(n), n)
  BY PowersExist
<1> HIDE DEF F
<1>2. ASSUME NEW n \in Nat
      PROVE  g[n] = IF n = 0 THEN 1 ELSE b * g[n - 1]
  <2>1. F(n)[n] = IF n = 0 THEN 1 ELSE b * F(n)[n - 1]
    BY <1>1 DEF PowersUpTo
  <2>2. CASE n = 0
    BY <2>1, <2>2
  <2>3. CASE n # 0
    <3>1. n - 1 \in Nat /\ n - 1 <= n /\ n - 1 <= n - 1
      BY <2>3
    <3>2. F(n)[n - 1] = F(n - 1)[n - 1]
      BY <1>1, <3>1, PowersAgree
    <3> QED
      BY <2>1, <2>3, <3>1, <3>2
  <2> QED
    BY <2>2, <2>3
<1>3. g = [n \in Nat |-> IF n = 0 THEN 1 ELSE b * g[n - 1]]
  BY <1>2
<1> HIDE DEF g
<1>4. \E p : p = [n \in Nat |-> IF n = 0 THEN 1 ELSE b * p[n - 1]]
  BY <1>3
<1> QED
  BY <1>4 DEF Power

LEMMA PowerSteps ==
  ASSUME NEW b \in Nat \ {0}
  PROVE  /\ Power(b)[0] = 1
         /\ \A n \in Nat : Power(b)[n + 1] = b * Power(b)[n]
         /\ \A n \in Nat : Power(b)[n] \in Nat \ {0}
<1> DEFINE p == Power(b)
<1>1. p = [n \in Nat |-> IF n = 0 THEN 1 ELSE b * p[n - 1]]
  BY PowerDefined
<1> HIDE DEF p
<1>2. \A n \in Nat : p[n] = IF n = 0 THEN 1 ELSE b * p[n - 1]
  BY <1>1
<1>3. p[0] = 1
  BY <1>2
<1>4. ASSUME NEW n \in Nat PROVE p[n + 1] = b * p[n]
  <2>1. n + 1 \in Nat /\ n + 1 # 0 /\ (n + 1) - 1 = n
    OBVIOUS
  <2> QED
    BY <1>2, <2>1
<1> DEFINE S == {n \in Nat : p[n] \in Nat \ {0}}
<1>5. 0 \in S
  BY <1>3
<1>6. ASSUME NEW n \in S PROVE n + 1 \in S
  BY <1>4
<1> HIDE DEF S
<1>7. S \in SUBSET Nat
  BY DEF S
<1>8. S = Nat
  BY <1>5, <1>6, <1>7, SetInduction
<1> QED
  BY <1>3, <1>4, <1>8 DEF p, S

(* math.Pow(1.5, attempts) seconds grow with the attempts, rounded down or not. *)
LEMMA BackoffGrows ==
  ASSUME NEW n \in Nat
  PROVE  /\ PowerOfBackoff(n) \in Nat
         /\ PowerOfBackoff(n + 1) \in Nat
         /\ PowerOfBackoff(n) <= PowerOfBackoff(n + 1)
<1> DEFINE a == Second * Power(3)[n]
           d == Power(2)[n]
           q == a \div d
           r == (3 * a) \div (2 * d)
<1>1. /\ Power(3)[n] \in Nat /\ Power(3)[n + 1] = 3 * Power(3)[n]
      /\ Power(2)[n] \in Nat \ {0} /\ Power(2)[n + 1] = 2 * Power(2)[n]
  BY PowerSteps
<1>2. Second \in Nat
  BY DurationAssumption DEF DurationAssumption
<1>3. a \in Nat /\ d \in Nat \ {0}
  BY <1>1, <1>2
<1>4. PowerOfBackoff(n) = q
  BY DEF PowerOfBackoff
<1>5. Second * Power(3)[n + 1] = 3 * a
  BY <1>1, <1>2
<1>6. PowerOfBackoff(n + 1) = r
  BY <1>1, <1>5 DEF PowerOfBackoff
<1> HIDE DEF a, d
<1>7. q \in Nat /\ q * d <= a
  BY <1>3, Quotient
<1>8. 3 * a \in Nat /\ 2 * d \in Nat \ {0}
  BY <1>3
<1>9. r \in Nat /\ 3 * a < r * (2 * d) + 2 * d
  BY <1>8, Quotient
<1> HIDE DEF q, r
<1>10. ASSUME r < q PROVE FALSE
  <2>1. (r + 1) * (2 * d) <= q * (2 * d)
    BY <1>7, <1>8, <1>9, <1>10, TimesOrdered
  <2>2. (r + 1) * (2 * d) = r * (2 * d) + 2 * d /\ q * (2 * d) = 2 * (q * d)
    BY <1>3, <1>7, <1>9
  <2>3. q * d \in Nat /\ r * (2 * d) \in Nat
    BY <1>3, <1>7, <1>9
  <2> DEFINE x == q * d
             y == r * (2 * d)
  <2>4. y + 2 * d <= 2 * x /\ x <= a /\ 3 * a < y + 2 * d /\ x \in Nat /\ y \in Nat
    BY <1>7, <1>9, <2>1, <2>2, <2>3
  <2> HIDE DEF x, y
  <2> QED
    BY <1>3, <2>4
<1> QED
  BY <1>4, <1>6, <1>7, <1>9, <1>10

-----------------------------------------------------------------------------
(* calculateGoroutines. *)

LEMMA SettingType ==
  ASSUME NEW s \in Settings
  PROVE  /\ s.startBlock \in Nat \ {0} /\ s.endBlock \in Nat /\ s.steps \in Nat \ {0}
         /\ s.startBlock <= s.endBlock
         /\ TotalBlocks(s) \in Nat \ {0}
BY FetcherAssumption DEF FetcherAssumption, Setting, TotalBlocks

\* The goroutines are just as many as the range needs.
LEMMA GoroutinesEnough ==
  ASSUME NEW s \in Settings
  PROVE  /\ numGoroutines(s) \in Nat \ {0}
         /\ TotalBlocks(s) <= numGoroutines(s) * s.steps
         /\ (numGoroutines(s) - 1) * s.steps < TotalBlocks(s)
<1> DEFINE t == TotalBlocks(s)
           k == s.steps
           a == t + k - 1
<1>1. t \in Nat \ {0} /\ k \in Nat \ {0} /\ a \in Nat
  BY SettingType
<1> HIDE DEF t, k, a
<1>2. /\ a \div k \in Nat
      /\ (a \div k) * k <= a
      /\ a < (a \div k) * k + k
  BY <1>1, Quotient
<1>3. a = t + k - 1
  BY DEF a
<1> DEFINE n == a \div k
<1>4. n \in Nat /\ n * k <= a /\ a < n * k + k
  BY <1>2
<1>5. numGoroutines(s) = n
  BY DEF numGoroutines, a, t, k
<1> HIDE DEF n
<1>6. n * k \in Nat
  BY <1>1, <1>4
<1>7. t <= n * k /\ n * k < t + k
  BY <1>1, <1>3, <1>4, <1>6
<1>8. (n - 1) * k = n * k - k
  BY <1>1, <1>4
<1>9. n # 0
  BY <1>1, <1>7
<1> QED
  BY <1>1, <1>4, <1>5, <1>6, <1>7, <1>8, <1>9 DEF t, k

\* Where a range begins and ends.
LEMMA RangeBounds ==
  ASSUME NEW s \in Settings, NEW i \in 1 .. numGoroutines(s)
  PROVE  /\ FirstOf(s, i) \in Nat /\ EndOf(s, i) \in Nat
         /\ s.startBlock <= FirstOf(s, i)
         /\ FirstOf(s, i) < EndOf(s, i)
         /\ EndOf(s, i) <= FirstOf(s, i) + s.steps
         /\ EndOf(s, i) <= s.endBlock + 1
         /\ EndOf(s, i) = FirstOf(s, i) + s.steps \/ EndOf(s, i) = s.endBlock + 1
<1> DEFINE p == (i - 1) * s.steps
           n == numGoroutines(s)
<1>1. /\ s.startBlock \in Nat \ {0} /\ s.endBlock \in Nat /\ s.steps \in Nat \ {0}
      /\ TotalBlocks(s) = s.endBlock - s.startBlock + 1
  BY SettingType DEF TotalBlocks
<1>2. n \in Nat /\ (n - 1) * s.steps < TotalBlocks(s)
  BY GoroutinesEnough
<1>3. i \in Nat /\ 1 <= i /\ i <= n
  BY <1>2
<1>4. p <= (n - 1) * s.steps
  BY <1>1, <1>2, <1>3, TimesOrdered, i - 1 <= n - 1
<1>5. p \in Nat
  BY <1>1, <1>3
<1>6. (n - 1) * s.steps \in Int
  BY <1>1, <1>2
<1>7. p < TotalBlocks(s)
  BY <1>1, <1>2, <1>4, <1>5, <1>6
<1>8. FirstOf(s, i) = s.startBlock + p /\ BlocksLeft(s, i) = TotalBlocks(s) - p
  BY DEF FirstOf, BlocksLeft
<1> HIDE DEF p
<1>9. CASE BlocksLeft(s, i) >= s.steps
  <2>1. EndOf(s, i) = FirstOf(s, i) + s.steps
    BY <1>9 DEF EndOf, blocksPerGoroutine
  <2> QED
    BY <2>1, <1>1, <1>5, <1>7, <1>8, <1>9
<1>10. CASE ~(BlocksLeft(s, i) >= s.steps)
  <2>1. EndOf(s, i) = FirstOf(s, i) + BlocksLeft(s, i)
    BY <1>10 DEF EndOf, blocksPerGoroutine
  <2> QED
    BY <2>1, <1>1, <1>5, <1>7, <1>8, <1>10
<1> QED
  BY <1>9, <1>10

\* A range ends no later than any later one begins.
LEMMA RangesApart ==
  ASSUME NEW s \in Settings, NEW i \in 1 .. numGoroutines(s),
         NEW j \in 1 .. numGoroutines(s), i < j
  PROVE  EndOf(s, i) <= FirstOf(s, j)
<1> DEFINE p == (i - 1) * s.steps
           q == (j - 1) * s.steps
<1>1. numGoroutines(s) \in Nat /\ s.steps \in Nat /\ s.startBlock \in Nat
  BY SettingType, GoroutinesEnough
<1>2. i \in Nat /\ j \in Nat /\ i <= j - 1
  BY <1>1
<1>3. i * s.steps <= q
  BY <1>1, <1>2, TimesOrdered
<1>4. i * s.steps = p + s.steps /\ p \in Int /\ q \in Int
  BY <1>1, <1>2
<1>5. FirstOf(s, i) = s.startBlock + p /\ FirstOf(s, j) = s.startBlock + q
  BY DEF FirstOf
<1> HIDE DEF p, q
<1>6. EndOf(s, i) \in Nat /\ EndOf(s, i) <= FirstOf(s, i) + s.steps
  BY RangeBounds
<1> QED
  BY <1>1, <1>3, <1>4, <1>5, <1>6

(* Two ranges have one height in common at most, where one ends and the next
   begins (counter and endBlockInternal of runIndexerAsFetcher). *)
LEMMA RangesOverlap ==
  ASSUME NEW s \in Settings, NEW i \in 1 .. numGoroutines(s),
         NEW j \in 1 .. numGoroutines(s), i < j,
         NEW h \in RangeOf(s, i), h \in RangeOf(s, j)
  PROVE  h = EndOf(s, i) /\ h = FirstOf(s, j)
<1>1. EndOf(s, i) <= FirstOf(s, j)
  BY RangesApart
<1>2. /\ EndOf(s, i) \in Nat /\ FirstOf(s, i) \in Nat
      /\ EndOf(s, j) \in Nat /\ FirstOf(s, j) \in Nat
  BY RangeBounds
<1> QED
  BY <1>1, <1>2 DEF RangeOf

(* The ranges together are the range of the configuration and the block after
   it: nothing is left out, whether the steps divide the range or not. *)
LEMMA RangesCover ==
  ASSUME NEW s \in Settings
  PROVE  UNION {RangeOf(s, i) : i \in 1 .. numGoroutines(s)} = s.startBlock .. s.endBlock + 1
<1> DEFINE n == numGoroutines(s)
<1>1. /\ s.startBlock \in Nat \ {0} /\ s.endBlock \in Nat /\ s.steps \in Nat \ {0}
      /\ TotalBlocks(s) = s.endBlock - s.startBlock + 1
  BY SettingType DEF TotalBlocks
<1>2. n \in Nat \ {0} /\ TotalBlocks(s) <= n * s.steps
  BY GoroutinesEnough
<1>3. ASSUME NEW i \in 1 .. n, NEW h \in RangeOf(s, i)
      PROVE  h \in s.startBlock .. s.endBlock + 1
  <2>1. /\ FirstOf(s, i) \in Nat /\ EndOf(s, i) \in Nat
        /\ s.startBlock <= FirstOf(s, i) /\ EndOf(s, i) <= s.endBlock + 1
    BY RangeBounds
  <2> QED
    BY <2>1, <1>1 DEF RangeOf
<1>4. ASSUME NEW h \in s.startBlock .. s.endBlock + 1
      PROVE  \E i \in 1 .. n : h \in RangeOf(s, i)
  <2> h \in Int /\ s.startBlock <= h /\ h <= s.endBlock + 1
    BY <1>1
  <2>1. CASE h = s.endBlock + 1
    <3>1. n \in 1 .. n
      BY <1>2
    <3>2. n * s.steps = (n - 1) * s.steps + s.steps /\ (n - 1) * s.steps \in Int
      BY <1>1, <1>2
    <3>3. FirstOf(s, n) = s.startBlock + (n - 1) * s.steps
      BY DEF FirstOf
    <3>4. /\ FirstOf(s, n) \in Nat /\ EndOf(s, n) \in Nat
          /\ FirstOf(s, n) < EndOf(s, n) /\ EndOf(s, n) <= s.endBlock + 1
          /\ EndOf(s, n) = FirstOf(s, n) + s.steps \/ EndOf(s, n) = s.endBlock + 1
      BY <3>1, RangeBounds
    <3>5. s.endBlock + 1 <= FirstOf(s, n) + s.steps
      <4> DEFINE p == (n - 1) * s.steps
                 r == n * s.steps
      <4>1. r = p + s.steps /\ p \in Int /\ TotalBlocks(s) <= r /\ FirstOf(s, n) = s.startBlock + p
        BY <1>2, <3>2, <3>3
      <4> HIDE DEF p, r
      <4> QED
        BY <4>1, <1>1
    <3>6. EndOf(s, n) = s.endBlock + 1
      BY <1>1, <3>4, <3>5
    <3> QED
      BY <2>1, <3>1, <3>4, <3>6 DEF RangeOf
  <2>2. CASE h # s.endBlock + 1
    <3> DEFINE a == h - s.startBlock
               q == a \div s.steps
               i == q + 1
    <3>1. a \in Nat /\ a < TotalBlocks(s) /\ h = s.startBlock + a
      BY <1>1, <2>2
    <3> HIDE DEF a
    <3>2. q \in Nat /\ q * s.steps <= a /\ a < q * s.steps + s.steps
      BY <1>1, <3>1, Quotient
    <3> HIDE DEF q
    <3>3. q < n
      <4>1. SUFFICES ASSUME n <= q PROVE FALSE
        BY <1>2, <3>2
      <4>2. n * s.steps <= q * s.steps
        BY <1>1, <1>2, <3>2, <4>1, TimesOrdered
      <4>3. n * s.steps \in Int /\ q * s.steps \in Int /\ TotalBlocks(s) \in Int
        BY <1>1, <1>2, <3>2
      <4> QED
        BY <4>2, <4>3, <1>2, <3>1, <3>2
    <3>4. i \in 1 .. n /\ i - 1 = q
      BY <1>2, <3>2, <3>3
    <3>5. FirstOf(s, i) = s.startBlock + q * s.steps /\ q * s.steps \in Int
      BY <1>1, <3>2, <3>4 DEF FirstOf
    <3>6. /\ FirstOf(s, i) \in Nat /\ EndOf(s, i) \in Nat
          /\ EndOf(s, i) = FirstOf(s, i) + s.steps \/ EndOf(s, i) = s.endBlock + 1
      BY <3>4, RangeBounds
    <3>7. FirstOf(s, i) <= h /\ h <= EndOf(s, i)
      BY <1>1, <3>1, <3>2, <3>5, <3>6
    <3> QED
      BY <3>4, <3>6, <3>7 DEF RangeOf
  <2> QED
    BY <2>1, <2>2
<1> QED
  BY <1>3, <1>4

-----------------------------------------------------------------------------
(* The inductive invariant. *)

(* The shape of the state. *)
StateShape ==
  /\ settings \in Settings
  /\ head \in Heights
  /\ rows \in [Heights -> Rows]
  /\ failed \in SUBSET Heights
  /\ phase \in {"range", "generate", "wait", "dead"}
  /\ started \in 0 .. numGoroutines(settings)
  /\ pc \in [Goroutines -> {"off", "failed", "check", "ask", "fill", "done"}]
  /\ allBlocks \in [Goroutines -> SUBSET Heights]
  /\ blocksInDB \in [Goroutines -> SUBSET [height : Heights, txIndexed : BOOLEAN]]
  /\ reattempts \in [Goroutines -> SUBSET Heights]
  /\ currBlock \in [Goroutines -> Nat]
  /\ latestBlock \in [Goroutines -> Nat]
  /\ blockChan \in [Heights -> Nat]
  /\ sentBy \in [Heights -> SUBSET Goroutines]

(* A range is read only while one is left. *)
RangeRead == phase = "generate" => started < numGoroutines(settings)

(* The attempts of each call are counted no further than its maximum. *)
AttemptsCounted ==
  /\ call = [i \in Goroutines |-> call[i]]
  /\ \A i \in Goroutines :
       /\ call[i].attempts \in Nat
       /\ settings.maxAttempts >= 0 => call[i].attempts <= settings.maxAttempts

(* Copies is finite, so what Cardinality says of it is a number. *)
ChanBounded == IsFiniteSet(Copies) /\ Queued <= QueueCap

(* A goroutine that runs has a range and is past its beginning, and what it
   fills the channel up to is a height the chain has. *)
InOwnRange ==
  \A i \in Goroutines :
    /\ pc[i] # "off" => i <= started /\ FirstOf(settings, i) <= currBlock[i]
    /\ pc[i] = "fill" => latestBlock[i] <= head

(* What a goroutine has sent is of its range and below the head. *)
SentOwn ==
  \A h \in Heights : \A i \in sentBy[h] :
    i \in 1 .. numGoroutines(settings) /\ h \in RangeOf(settings, i) /\ h < head

FetcherInv ==
  StateShape /\ RangeRead /\ AttemptsCounted /\ ChanBounded /\ InOwnRange /\ SentOwn

-----------------------------------------------------------------------------
(* The channel as a bag. *)

LEMMA CapType == QueueCap \in Nat \ {0} /\ MaxHeight \in Nat /\ MaxInt64 \in Nat
BY FetcherAssumption DEF FetcherAssumption, MaxInt64

\* A height that is sent is one more copy.
LEMMA SendAdds ==
  ASSUME NEW h \in Heights, blockChan \in [Heights -> Nat], ChanBounded, Send(h)
  PROVE  ChanBounded'
<1> DEFINE c == <<h, blockChan[h] + 1>>
<1>1. blockChan' = [blockChan EXCEPT ![h] = @ + 1] /\ blockChan[h] \in Nat
  BY DEF Send
<1>2. c \notin Copies
  BY <1>1 DEF Copies
<1>3. Copies' = Copies \cup {c}
  <2>1. ASSUME NEW g \in Heights, NEW k \in 1 .. blockChan'[g]
        PROVE  <<g, k>> \in Copies \cup {c}
    <3>1. CASE g = h
      <4>1. k \in 1 .. blockChan[h] \/ k = blockChan[h] + 1
        BY <1>1, <3>1
      <4> QED
        BY <3>1, <4>1 DEF Copies
    <3>2. CASE g # h
      BY <1>1, <3>2 DEF Copies
    <3> QED
      BY <3>1, <3>2
  <2>2. ASSUME NEW g \in Heights, NEW k \in 1 .. blockChan[g]
        PROVE  k \in 1 .. blockChan'[g]
    BY <1>1
  <2>3. blockChan[h] + 1 \in 1 .. blockChan'[h]
    BY <1>1
  <2>4. Copies' \subseteq Copies \cup {c}
    BY <2>1 DEF Copies
  <2>5. Copies \subseteq Copies'
    BY <2>2 DEF Copies
  <2>6. c \in Copies'
    BY <2>3 DEF Copies
  <2> QED
    BY <2>4, <2>5, <2>6
<1>4. IsFiniteSet(Copies) /\ Cardinality(Copies) < QueueCap
  BY DEF ChanBounded, Send, Queued
<1>5. IsFiniteSet(Copies \cup {c}) /\ Cardinality(Copies \cup {c}) = Cardinality(Copies) + 1
  BY <1>2, <1>4, FS_AddElement
<1>6. Cardinality(Copies) \in Nat /\ QueueCap \in Nat
  BY <1>4, FS_CardinalityType, CapType
<1>7. IsFiniteSet(Copies') /\ Cardinality(Copies') <= QueueCap
  BY <1>3, <1>4, <1>5, <1>6
<1> QED
  BY <1>7 DEF ChanBounded, Queued

\* A height that is fetched is one copy less.
LEMMA FetchTakes ==
  ASSUME NEW h \in Heights, blockChan \in [Heights -> Nat], ChanBounded, Fetch(h)
  PROVE  ChanBounded'
<1>1. /\ blockChan' = [blockChan EXCEPT ![h] = @ - 1]
      /\ blockChan[h] \in Nat /\ blockChan[h] > 0
  BY DEF Fetch
<1>2. ASSUME NEW g \in Heights, NEW k \in 1 .. blockChan'[g]
      PROVE  k \in 1 .. blockChan[g]
  BY <1>1
<1>3. Copies' \subseteq Copies
  BY <1>2 DEF Copies
<1>4. IsFiniteSet(Copies) /\ Cardinality(Copies) <= QueueCap
  BY DEF ChanBounded, Queued
<1>5. IsFiniteSet(Copies') /\ Cardinality(Copies') <= Cardinality(Copies)
  BY <1>3, <1>4, FS_Subset
<1>6. Cardinality(Copies) \in Nat /\ Cardinality(Copies') \in Nat /\ QueueCap \in Nat
  BY <1>4, <1>5, FS_CardinalityType, CapType
<1> QED
  BY <1>4, <1>5, <1>6 DEF ChanBounded, Queued

\* Nothing is on the channel of a process that has just started.
LEMMA EmptyChan ==
  ASSUME blockChan = [h \in Heights |-> 0]
  PROVE  ChanBounded
<1>1. Copies = {}
  BY DEF Copies
<1>2. IsFiniteSet({}) /\ Cardinality({}) = 0
  BY FS_EmptySet
<1> QED
  BY <1>1, <1>2, CapType DEF ChanBounded, Queued

LEMMA EmptyChanNext ==
  ASSUME blockChan' = [h \in Heights |-> 0]
  PROVE  ChanBounded'
<1>1. Copies' = {}
  BY DEF Copies
<1>2. IsFiniteSet({}) /\ Cardinality({}) = 0
  BY FS_EmptySet
<1> QED
  BY <1>1, <1>2, CapType DEF ChanBounded, Queued

-----------------------------------------------------------------------------
(* Init and Restart. *)

LEMMA FirstType ==
  ASSUME NEW s \in Settings, NEW i \in Goroutines
  PROVE  FirstOf(s, i) \in Nat
<1>1. s.startBlock \in Nat /\ s.steps \in Nat /\ i - 1 \in Nat
  BY SettingType, FetcherAssumption DEF FetcherAssumption, Goroutines
<1> DEFINE p == (i - 1) * s.steps
<1>2. p \in Nat
  BY <1>1
<1>3. FirstOf(s, i) = s.startBlock + p
  BY DEF FirstOf
<1> HIDE DEF p
<1> QED
  BY <1>1, <1>2, <1>3

LEMMA FetcherInit == Init => FetcherInv
<1> SUFFICES ASSUME Init PROVE FetcherInv
  OBVIOUS
<1>1. settings \in Settings /\ head \in Heights
  BY FetcherAssumption DEF FetcherAssumption, Init
<1>2. numGoroutines(settings) \in Nat \ {0}
  BY <1>1, GoroutinesEnough
<1>3. rows \in [Heights -> Rows] /\ failed \in SUBSET Heights
  BY FetcherAssumption DEF FetcherAssumption, Init
<1>4. StateShape
  BY <1>1, <1>2, <1>3, CapType DEF Init, StateShape, All
<1>5. RangeRead
  BY DEF Init, RangeRead
<1>6. AttemptsCounted
  BY DEF Init, AttemptsCounted, All, NoCall
<1>7. ChanBounded
  BY EmptyChan DEF Init
<1>8. InOwnRange /\ SentOwn
  BY DEF Init, InOwnRange, SentOwn, All
<1> QED
  BY <1>4, <1>5, <1>6, <1>7, <1>8 DEF FetcherInv

LEMMA RestartInv == FetcherInv /\ Restart => FetcherInv'
<1> SUFFICES ASSUME FetcherInv, Restart PROVE FetcherInv'
  OBVIOUS
<1>1. numGoroutines(settings) \in Nat \ {0}
  BY GoroutinesEnough DEF FetcherInv, StateShape
<1>2. settings' = settings
  BY DEF Restart
<1>3. StateShape'
  BY <1>1, CapType DEF FetcherInv, Restart, Reset, StateShape, All, tables
<1>4. RangeRead'
  BY DEF Restart, Reset, RangeRead
<1>5. AttemptsCounted'
  BY DEF Restart, Reset, AttemptsCounted, All, NoCall
<1>6. ChanBounded'
  BY EmptyChanNext DEF Restart, Reset
<1>7. InOwnRange' /\ SentOwn'
  BY DEF Restart, Reset, InOwnRange, SentOwn, All
<1> QED
  BY <1>3, <1>4, <1>5, <1>6, <1>7 DEF FetcherInv

-----------------------------------------------------------------------------
(* The main goroutine. *)

\* The rows of a range are of its heights.
LEMMA RowsInRange == \A i : RowsIn(i) \subseteq RangeOf(settings, i) \cap Heights
BY DEF RowsIn

\* Nothing but the channel's content bounds it.
LEMMA ChanKept == ChanBounded /\ UNCHANGED blockChan => ChanBounded'
BY DEF ChanBounded, Queued, Copies

LEMMA ReadRangeInv == FetcherInv /\ ReadRange => FetcherInv'
<1> SUFFICES ASSUME FetcherInv, ReadRange PROVE FetcherInv'
  OBVIOUS
<1> USE DEF FetcherInv, ReadRange, tables
<1>1. StateShape'
  <2>1. PICK known \in {RowsIn(started + 1), {}} :
          allBlocks' = [allBlocks EXCEPT ![started + 1] = known]
    OBVIOUS
  <2>2. known \in SUBSET Heights
    BY RowsInRange
  <2>3. allBlocks' \in [Goroutines -> SUBSET Heights]
    BY <2>1, <2>2 DEF StateShape
  <2> QED
    BY <2>3 DEF StateShape
<1>2. RangeRead'
  BY DEF RangeRead
<1>3. AttemptsCounted'
  BY DEF AttemptsCounted
<1>4. ChanBounded'
  BY ChanKept
<1>5. InOwnRange' /\ SentOwn'
  BY DEF InOwnRange, SentOwn
<1> QED
  BY <1>1, <1>2, <1>3, <1>4, <1>5

\* The goroutine that is started is the next one, and begins within its range.
LEMMA StartGoroutineInv == FetcherInv /\ StartGoroutine => FetcherInv'
<1> SUFFICES ASSUME FetcherInv, StartGoroutine PROVE FetcherInv'
  OBVIOUS
<1> DEFINE i == started + 1
           found == IF settings.reIndex THEN {}
                    ELSE {h \in RowsIn(i) : \A g \in RowsIn(i) : g <= h}
<1>1. /\ phase = "generate" /\ phase' = "range" /\ started' = i
      /\ pc' = [pc EXCEPT ![i] = "failed"]
      /\ reattempts' = [reattempts EXCEPT ![i] = IF settings.reattempt THEN failed ELSE {}]
      /\ blocksInDB' = [blocksInDB EXCEPT
                          ![i] = {[height |-> h, txIndexed |-> rows[h] = "tx"] : h \in found}]
      /\ UNCHANGED <<settings, head, rows, failed, allBlocks, latestBlock, call, blockChan, sentBy>>
  BY DEF StartGoroutine, tables
<1>2. PICK first \in IF found = {} THEN {FirstOf(settings, i)} ELSE found :
        currBlock' = [currBlock EXCEPT ![i] = first]
  BY DEF StartGoroutine
<1>3. found \subseteq RangeOf(settings, i) \cap Heights
  BY RowsInRange
<1> HIDE DEF found
<1>4. started \in 0 .. numGoroutines(settings) /\ started < numGoroutines(settings)
  BY <1>1 DEF FetcherInv, StateShape, RangeRead
<1>5. settings \in Settings /\ numGoroutines(settings) \in Nat
  BY GoroutinesEnough DEF FetcherInv, StateShape
<1>6. i \in 1 .. numGoroutines(settings)
  BY <1>4, <1>5
<1>7. FirstOf(settings, i) \in Nat /\ EndOf(settings, i) \in Nat
  BY <1>5, <1>6, RangeBounds
<1>8. first \in Nat /\ FirstOf(settings, i) <= first
  <2>1. CASE found = {}
    BY <1>7, <2>1
  <2>2. CASE found # {}
    <3>1. first \in RangeOf(settings, i)
      BY <1>2, <1>3, <2>2
    <3> QED
      BY <1>7, <3>1 DEF RangeOf
  <2> QED
    BY <2>1, <2>2
<1>9. StateShape'
  <2>1. blocksInDB' \in [Goroutines -> SUBSET [height : Heights, txIndexed : BOOLEAN]]
    <3> DEFINE R == [height : Heights, txIndexed : BOOLEAN]
               B == {[height |-> h, txIndexed |-> rows[h] = "tx"] : h \in found}
    <3>1. B \in SUBSET R
      <4>1. ASSUME NEW h \in found
            PROVE  [height |-> h, txIndexed |-> rows[h] = "tx"] \in R
        <5>1. h \in Heights
          BY <1>3
        <5>2. (rows[h] = "tx") \in BOOLEAN
          OBVIOUS
        <5> QED
          BY <5>1, <5>2
      <4> QED
        BY <4>1
    <3>2. blocksInDB' = [blocksInDB EXCEPT ![i] = B] /\ blocksInDB \in [Goroutines -> SUBSET R]
      BY <1>1 DEF FetcherInv, StateShape
    <3> HIDE DEF R, B
    <3>3. blocksInDB' \in [Goroutines -> SUBSET R]
      BY <3>1, <3>2
    <3> QED
      BY <3>3 DEF R
  <2>2. started' \in 0 .. numGoroutines(settings')
    BY <1>1, <1>4, <1>5
  <2>3. currBlock' \in [Goroutines -> Nat]
    BY <1>2, <1>8 DEF FetcherInv, StateShape
  <2>4. reattempts' \in [Goroutines -> SUBSET Heights]
    BY <1>1 DEF FetcherInv, StateShape
  <2>5. pc' \in [Goroutines -> {"off", "failed", "check", "ask", "fill", "done"}]
    BY <1>1 DEF FetcherInv, StateShape
  <2> QED
    BY <1>1, <2>1, <2>2, <2>3, <2>4, <2>5 DEF FetcherInv, StateShape
<1>10. RangeRead'
  BY <1>1 DEF RangeRead
<1>11. AttemptsCounted'
  BY <1>1 DEF FetcherInv, AttemptsCounted
<1>12. ChanBounded'
  BY <1>1, ChanKept DEF FetcherInv
<1>13. InOwnRange'
  <2> SUFFICES ASSUME NEW j \in Goroutines
               PROVE  /\ pc'[j] # "off" => j <= started' /\ FirstOf(settings', j) <= currBlock'[j]
                      /\ pc'[j] = "fill" => latestBlock'[j] <= head'
    BY DEF InOwnRange
  <2>1. CASE j = i
    <3>1. pc'[j] = "failed" /\ currBlock'[j] = first
      BY <1>1, <1>2, <2>1 DEF FetcherInv, StateShape
    <3>2. j <= started'
      BY <1>1, <1>6, <2>1
    <3> QED
      BY <1>1, <1>8, <2>1, <3>1, <3>2
  <2>2. CASE j # i
    <3>1. pc'[j] = pc[j] /\ currBlock'[j] = currBlock[j]
      BY <1>1, <1>2, <2>2 DEF FetcherInv, StateShape
    <3>2. pc[j] # "off" => j <= started /\ FirstOf(settings, j) <= currBlock[j]
      BY DEF FetcherInv, InOwnRange
    <3>3. j <= started => j <= started'
      BY <1>1, <1>4 DEF Goroutines
    <3> QED
      BY <1>1, <3>1, <3>2, <3>3 DEF FetcherInv, InOwnRange
  <2> QED
    BY <2>1, <2>2
<1>14. SentOwn'
  BY <1>1 DEF FetcherInv, SentOwn
<1> QED
  BY <1>9, <1>10, <1>11, <1>12, <1>13, <1>14 DEF FetcherInv

LEMMA WaitForeverInv == FetcherInv /\ WaitForever => FetcherInv'
<1> SUFFICES ASSUME FetcherInv, WaitForever PROVE FetcherInv'
  OBVIOUS
<1> USE DEF FetcherInv, WaitForever, tables, goroutine
<1>1. StateShape'
  BY DEF StateShape
<1>2. RangeRead' /\ AttemptsCounted'
  BY DEF RangeRead, AttemptsCounted
<1>3. ChanBounded'
  BY ChanKept
<1>4. InOwnRange' /\ SentOwn'
  BY DEF InOwnRange, SentOwn
<1> QED
  BY <1>1, <1>2, <1>3, <1>4

-----------------------------------------------------------------------------
(* The goroutines. *)

\* What a goroutine is about to send or to skip is of its range and below the head.
LEMMA FillsOwnRange ==
  ASSUME FetcherInv, NEW i \in Goroutines, pc[i] = "fill", MoreToFill(i)
  PROVE  /\ i \in 1 .. numGoroutines(settings)
         /\ currBlock[i] \in RangeOf(settings, i) \cap Heights
         /\ currBlock[i] < head
<1>1. settings \in Settings /\ numGoroutines(settings) \in Nat /\ settings.startBlock \in Nat \ {0}
  BY GoroutinesEnough, SettingType DEF FetcherInv, StateShape
<1>2. i <= started /\ FirstOf(settings, i) <= currBlock[i] /\ latestBlock[i] <= head
  BY DEF FetcherInv, InOwnRange
<1>3. started \in 0 .. numGoroutines(settings)
  BY DEF FetcherInv, StateShape
<1>4. i \in Nat /\ 1 <= i
  BY FetcherAssumption DEF FetcherAssumption, Goroutines
<1>5. i \in 1 .. numGoroutines(settings)
  BY <1>1, <1>2, <1>3, <1>4
<1>6. /\ FirstOf(settings, i) \in Nat /\ EndOf(settings, i) \in Nat
      /\ settings.startBlock <= FirstOf(settings, i)
  BY <1>1, <1>5, RangeBounds
<1>7. /\ currBlock[i] \in Nat /\ latestBlock[i] \in Nat
      /\ head \in Nat /\ head <= MaxHeight /\ MaxHeight \in Nat
  BY CapType DEF FetcherInv, StateShape, Heights
<1>8. currBlock[i] < latestBlock[i] /\ currBlock[i] <= EndOf(settings, i)
  BY DEF MoreToFill
<1>9. currBlock[i] < head
  BY <1>2, <1>7, <1>8
<1>10. currBlock[i] \in RangeOf(settings, i)
  BY <1>2, <1>6, <1>7, <1>8 DEF RangeOf
<1>11. currBlock[i] \in Heights
  BY <1>1, <1>2, <1>6, <1>7, <1>9 DEF Heights
<1> QED
  BY <1>5, <1>9, <1>10, <1>11

\* The four branches of the loop that fills the channel: the block is sent or
\* skipped, and currBlock moves on.
LEMMA AdvanceInv ==
  ASSUME FetcherInv, NEW i \in Goroutines, pc[i] = "fill", MoreToFill(i), Advance(i),
         UNCHANGED <<settings, head, tables, main, pc, allBlocks, reattempts, latestBlock, call>>,
         blocksInDB' \in {blocksInDB, [blocksInDB EXCEPT ![i] = {}]},
         \/ UNCHANGED <<blockChan, sentBy>>
         \/ /\ Send(currBlock[i])
            /\ sentBy' = [sentBy EXCEPT ![currBlock[i]] = @ \cup {i}]
  PROVE  FetcherInv'
<1>1. /\ i \in 1 .. numGoroutines(settings)
      /\ currBlock[i] \in RangeOf(settings, i)
      /\ currBlock[i] \in Heights
      /\ currBlock[i] < head
  BY FillsOwnRange
<1>2. /\ currBlock \in [Goroutines -> Nat]
      /\ currBlock' = [currBlock EXCEPT ![i] = @ + 1]
  BY DEF FetcherInv, StateShape, Advance
<1>3. UNCHANGED <<settings, head, rows, failed, phase, started>>
  BY DEF tables, main
<1>4. StateShape'
  <2>1. currBlock' \in [Goroutines -> Nat]
    BY <1>2
  <2>2. blocksInDB' \in [Goroutines -> SUBSET [height : Heights, txIndexed : BOOLEAN]]
    BY DEF FetcherInv, StateShape
  <2>3. blockChan' \in [Heights -> Nat]
    BY DEF FetcherInv, StateShape, Send
  <2>4. sentBy' \in [Heights -> SUBSET Goroutines]
    BY <1>1 DEF FetcherInv, StateShape
  <2> QED
    BY <1>3, <2>1, <2>2, <2>3, <2>4 DEF FetcherInv, StateShape
<1>5. RangeRead' /\ AttemptsCounted'
  BY <1>3 DEF FetcherInv, RangeRead, AttemptsCounted
<1>6. ChanBounded'
  BY <1>1, SendAdds, ChanKept DEF FetcherInv, StateShape
<1>7. InOwnRange'
  <2> SUFFICES ASSUME NEW j \in Goroutines
               PROVE  /\ pc'[j] # "off" => j <= started' /\ FirstOf(settings', j) <= currBlock'[j]
                      /\ pc'[j] = "fill" => latestBlock'[j] <= head'
    BY DEF InOwnRange
  <2>1. /\ pc[j] # "off" => j <= started /\ FirstOf(settings, j) <= currBlock[j]
        /\ pc[j] = "fill" => latestBlock[j] <= head
    BY DEF FetcherInv, InOwnRange
  <2>2. PICK c \in Nat : c = currBlock'[j]
    BY <1>2
  <2>3. currBlock[j] \in Nat /\ currBlock[j] <= c
    BY <1>2, <2>2
  <2>4. FirstOf(settings, j) \in Nat
    BY FirstType DEF FetcherInv, StateShape
  <2> QED
    BY <1>3, <2>1, <2>2, <2>3, <2>4
<1>8. SentOwn'
  <2> SUFFICES ASSUME NEW h \in Heights, NEW j \in sentBy'[h]
               PROVE  /\ j \in 1 .. numGoroutines(settings)
                      /\ h \in RangeOf(settings, j)
                      /\ h < head
    BY <1>3 DEF SentOwn
  <2>1. CASE j \in sentBy[h]
    BY <2>1 DEF FetcherInv, SentOwn
  <2>2. CASE j \notin sentBy[h]
    <3>1. j = i /\ h = currBlock[i]
      BY <1>1, <2>2 DEF FetcherInv, StateShape
    <3> QED
      BY <1>1, <3>1
  <2> QED
    BY <2>1, <2>2
<1> QED
  BY <1>4, <1>5, <1>6, <1>7, <1>8 DEF FetcherInv

\* A goroutine moves on and leaves its range and the channel alone.
LEMMA MoveInv ==
  ASSUME FetcherInv, NEW i \in Goroutines, pc[i] # "off",
         NEW at \in {"check", "ask", "fill", "done"}, Goto(i, at),
         UNCHANGED <<settings, head, tables, main, allBlocks, blocksInDB, reattempts, currBlock,
                     blockChan, sentBy>>,
         latestBlock' \in [Goroutines -> Nat],
         \A j \in Goroutines \ {i} : latestBlock'[j] = latestBlock[j],
         at = "fill" => latestBlock'[i] <= head,
         AttemptsCounted'
  PROVE  FetcherInv'
<1>1. UNCHANGED <<settings, head, rows, failed, phase, started>>
  BY DEF tables, main
<1>2. pc' = [pc EXCEPT ![i] = at]
  BY DEF Goto
<1>3. StateShape'
  BY <1>1, <1>2 DEF FetcherInv, StateShape
<1>4. RangeRead'
  BY <1>1 DEF FetcherInv, RangeRead
<1>5. ChanBounded'
  BY ChanKept DEF FetcherInv
<1>6. InOwnRange'
  <2> SUFFICES ASSUME NEW j \in Goroutines
               PROVE  /\ pc'[j] # "off" => j <= started' /\ FirstOf(settings', j) <= currBlock'[j]
                      /\ pc'[j] = "fill" => latestBlock'[j] <= head'
    BY DEF InOwnRange
  <2>1. /\ pc[j] # "off" => j <= started /\ FirstOf(settings, j) <= currBlock[j]
        /\ pc[j] = "fill" => latestBlock[j] <= head
    BY DEF FetcherInv, InOwnRange
  <2>2. CASE j = i
    BY <1>1, <1>2, <2>1, <2>2 DEF FetcherInv, StateShape
  <2>3. CASE j # i
    BY <1>1, <1>2, <2>1, <2>3 DEF FetcherInv, StateShape
  <2> QED
    BY <2>2, <2>3
<1>7. SentOwn'
  BY <1>1 DEF FetcherInv, SentOwn
<1> QED
  BY <1>3, <1>4, <1>5, <1>6, <1>7 DEF FetcherInv

LEMMA CallKept == AttemptsCounted /\ UNCHANGED <<settings, call>> => AttemptsCounted'
BY DEF AttemptsCounted

\* A failed block is sent: only the channel and what is left to send change.
LEMMA SendFailedInv ==
  ASSUME FetcherInv, NEW i \in Goroutines, SendFailed(i),
         UNCHANGED <<settings, head, tables, main, restarts>>
  PROVE  FetcherInv'
<1>1. PICK h \in reattempts[i] :
        Send(h) /\ reattempts' = [reattempts EXCEPT ![i] = @ \ {h}]
  BY DEF SendFailed
<1>2. UNCHANGED <<settings, head, rows, failed, phase, started, pc, allBlocks, blocksInDB,
                  currBlock, latestBlock, call, sentBy>>
  BY DEF tables, main, SendFailed
<1>3. h \in Heights
  BY DEF FetcherInv, StateShape
<1>4. StateShape'
  <2>1. blockChan' \in [Heights -> Nat]
    BY <1>1, <1>3 DEF FetcherInv, StateShape, Send
  <2>2. reattempts' \in [Goroutines -> SUBSET Heights]
    BY <1>1 DEF FetcherInv, StateShape
  <2> QED
    BY <1>2, <2>1, <2>2 DEF FetcherInv, StateShape
<1>5. RangeRead' /\ AttemptsCounted'
  BY <1>2, CallKept DEF FetcherInv, RangeRead
<1>6. ChanBounded'
  BY <1>1, <1>3, SendAdds DEF FetcherInv, StateShape
<1>7. InOwnRange' /\ SentOwn'
  BY <1>2 DEF FetcherInv, InOwnRange, SentOwn
<1> QED
  BY <1>4, <1>5, <1>6, <1>7 DEF FetcherInv

\* The node fails once more, and may be asked again.
LEMMA RetryLaterInv ==
  ASSUME FetcherInv, NEW i \in Goroutines, RetryLater(i),
         UNCHANGED <<settings, head, tables, main, restarts>>
  PROVE  FetcherInv'
<1> DEFINE attempts == call[i].attempts + 1
           counted == IF attempts > MaxCounted THEN MaxCounted ELSE attempts
<1>1. PICK c : call' = [call EXCEPT ![i] = c] /\ c.attempts = counted
  <2>1. PICK next : call' = [call EXCEPT ![i] = [attempts |-> counted, slept |-> call[i].wait,
                                                 wait |-> next.wait, maxReached |-> next.maxReached]]
    BY DEF RetryLater
  <2> DEFINE retried == [attempts |-> counted, slept |-> call[i].wait,
                         wait |-> next.wait, maxReached |-> next.maxReached]
  <2>2. call' = [call EXCEPT ![i] = retried]
    BY <2>1
  <2>3. retried.attempts = counted
    OBVIOUS
  <2> QED
    BY <2>2, <2>3
<1>2. /\ UNCHANGED <<settings, head, rows, failed, phase, started, pc, allBlocks, blocksInDB,
                     reattempts, currBlock, latestBlock, blockChan, sentBy>>
      /\ MayRetry(attempts, settings.maxAttempts)
  BY DEF tables, main, RetryLater
<1>3. MaxCounted \in Nat /\ settings.maxAttempts \in Int /\ call[i].attempts \in Nat
  BY FetcherAssumption
     DEF FetcherAssumption, Setting, FetcherInv, StateShape, AttemptsCounted
<1>4. counted \in Nat /\ (settings.maxAttempts >= 0 => counted <= settings.maxAttempts)
  BY <1>2, <1>3 DEF MayRetry
<1> HIDE DEF counted
<1>5. AttemptsCounted'
  BY <1>1, <1>2, <1>4 DEF FetcherInv, AttemptsCounted
<1>6. StateShape' /\ RangeRead'
  BY <1>2 DEF FetcherInv, StateShape, RangeRead
<1>7. ChanBounded'
  BY <1>2, ChanKept DEF FetcherInv
<1>8. InOwnRange' /\ SentOwn'
  BY <1>2 DEF FetcherInv, InOwnRange, SentOwn
<1> QED
  BY <1>5, <1>6, <1>7, <1>8 DEF FetcherInv

\* A call begins or ends: it has no attempts.
LEMMA CallSet ==
  ASSUME FetcherInv, NEW i \in Goroutines, NEW c, c.attempts = 0,
         call' = [call EXCEPT ![i] = c], UNCHANGED settings
  PROVE  AttemptsCounted'
BY DEF FetcherInv, AttemptsCounted

LEMMA StepInv ==
  ASSUME FetcherInv, NEW i \in Goroutines, Step(i)
  PROVE  FetcherInv'
<1>1. UNCHANGED <<settings, head, tables, main, restarts>>
  BY DEF Step
<1>2. UNCHANGED settings /\ latestBlock \in [Goroutines -> Nat]
  BY <1>1 DEF FetcherInv, StateShape
<1>3. CASE SendFailed(i)
  BY <1>1, <1>3, SendFailedInv
<1>4. CASE FailedSent(i)
  <2>1. AttemptsCounted'
    BY <1>2, <1>4, CallKept DEF FetcherInv, FailedSent
  <2> QED
    BY <1>1, <1>2, <1>4, <2>1, MoveInv DEF FailedSent
<1>5. CASE Return(i)
  <2>1. AttemptsCounted'
    BY <1>2, <1>5, CallKept DEF FetcherInv, Return
  <2> QED
    BY <1>1, <1>2, <1>5, <2>1, MoveInv DEF Return
<1>6. CASE AskLatest(i)
  <2>1. PICK backoff : call' = [call EXCEPT ![i] = [attempts |-> 0, slept |-> 0,
                                  wait |-> backoff.wait, maxReached |-> backoff.maxReached]]
    BY <1>6 DEF AskLatest
  <2>2. AttemptsCounted'
    BY <1>2, <2>1, CallSet
  <2>3. /\ pc[i] = "check" /\ Goto(i, "ask")
        /\ UNCHANGED <<allBlocks, blocksInDB, reattempts, currBlock, latestBlock, blockChan, sentBy>>
    BY <1>6 DEF AskLatest
  <2> QED
    BY <1>1, <1>2, <2>2, <2>3, MoveInv
<1>7. CASE RetryLater(i)
  BY <1>1, <1>7, RetryLaterInv
<1>8. CASE SkipIndexed(i)
  BY <1>1, <1>8, AdvanceInv DEF SkipIndexed
<1>9. CASE SendUnindexed(i)
  BY <1>1, <1>9, AdvanceInv DEF SendUnindexed, SendCurrent
<1>10. CASE SkipKnown(i)
  BY <1>1, <1>10, AdvanceInv DEF SkipKnown
<1>11. CASE SendNew(i)
  BY <1>1, <1>11, AdvanceInv DEF SendNew, SendCurrent
<1>12. CASE StopFilling(i)
  <2>1. AttemptsCounted'
    BY <1>2, <1>12, CallKept DEF FetcherInv, StopFilling
  <2> QED
    BY <1>1, <1>2, <1>12, <2>1, MoveInv DEF StopFilling
<1> QED
  BY <1>3, <1>4, <1>5, <1>6, <1>7, <1>8, <1>9, <1>10, <1>11, <1>12 DEF Step

\* The answer is the latest height, so what is filled up to it is of the chain.
LEMMA AnsweredInv ==
  ASSUME FetcherInv, NEW i \in Goroutines, Answered(i)
  PROVE  FetcherInv'
<1>1. /\ pc[i] = "ask" /\ Goto(i, "fill")
      /\ latestBlock' = [latestBlock EXCEPT ![i] = head]
      /\ call' = [call EXCEPT ![i] = NoCall]
      /\ UNCHANGED <<settings, head, tables, main, allBlocks, blocksInDB, reattempts, currBlock,
                     blockChan, sentBy>>
  BY DEF Answered, Answer
<1>2. AttemptsCounted'
  BY <1>1, CallSet DEF NoCall
<1>3. latestBlock \in [Goroutines -> Nat] /\ head \in Nat
  BY CapType DEF FetcherInv, StateShape, Heights
<1>4. /\ latestBlock' \in [Goroutines -> Nat]
      /\ latestBlock'[i] <= head
      /\ \A j \in Goroutines \ {i} : latestBlock'[j] = latestBlock[j]
  BY <1>1, <1>3
<1> QED
  BY <1>1, <1>2, <1>4, MoveInv

LEMMA DieInv ==
  ASSUME FetcherInv, NEW i \in Goroutines, Die(i)
  PROVE  FetcherInv'
<1> USE DEF FetcherInv, Die, tables, goroutine
<1>1. StateShape'
  BY DEF StateShape
<1>2. RangeRead' /\ AttemptsCounted'
  BY CallKept DEF RangeRead
<1>3. ChanBounded'
  BY ChanKept
<1>4. InOwnRange' /\ SentOwn'
  BY DEF InOwnRange, SentOwn
<1> QED
  BY <1>1, <1>2, <1>3, <1>4

-----------------------------------------------------------------------------
(* The RPC workers and the chain. *)

LEMMA FetchInv ==
  ASSUME FetcherInv, NEW h \in Heights, Fetch(h)
  PROVE  FetcherInv'
<1>1. /\ UNCHANGED <<settings, head, phase, started, pc, allBlocks, blocksInDB, reattempts,
                     currBlock, latestBlock, call, sentBy>>
      /\ blockChan' = [blockChan EXCEPT ![h] = @ - 1] /\ blockChan[h] > 0
  BY DEF Fetch, main, goroutine
<1>2. rows' \in [Heights -> Rows] /\ failed' \in SUBSET Heights
  BY DEF FetcherInv, StateShape, Fetch, Rows, tables
<1>3. StateShape'
  <2>1. blockChan' \in [Heights -> Nat]
    BY <1>1 DEF FetcherInv, StateShape
  <2> QED
    BY <1>1, <1>2, <2>1 DEF FetcherInv, StateShape
<1>4. RangeRead' /\ AttemptsCounted'
  BY <1>1, CallKept DEF FetcherInv, RangeRead
<1>5. ChanBounded'
  BY FetchTakes DEF FetcherInv, StateShape
<1>6. InOwnRange' /\ SentOwn'
  BY <1>1 DEF FetcherInv, InOwnRange, SentOwn
<1> QED
  BY <1>3, <1>4, <1>5, <1>6 DEF FetcherInv

\* The chain only grows, so what was below its head stays there.
LEMMA GrowInv == FetcherInv /\ Grow => FetcherInv'
<1> SUFFICES ASSUME FetcherInv, Grow PROVE FetcherInv'
  OBVIOUS
<1>1. /\ UNCHANGED <<settings, rows, failed, phase, started, pc, allBlocks, blocksInDB, reattempts,
                     currBlock, latestBlock, call, blockChan, sentBy>>
      /\ head' = head + 1 /\ head < MaxHeight
  BY DEF Grow, tables, main, goroutine
<1>2. head \in Nat /\ head >= 1 /\ MaxHeight \in Nat
  BY CapType DEF FetcherInv, StateShape, Heights
<1>3. head' \in Heights
  BY <1>1, <1>2 DEF Heights
<1>4. StateShape' /\ RangeRead'
  BY <1>1, <1>3 DEF FetcherInv, StateShape, RangeRead
<1>5. AttemptsCounted' /\ ChanBounded'
  BY <1>1, CallKept, ChanKept DEF FetcherInv
<1>6. InOwnRange'
  <2>1. \A j \in Goroutines : latestBlock[j] \in Nat
    BY DEF FetcherInv, StateShape
  <2>2. \A j \in Goroutines : latestBlock[j] <= head => latestBlock[j] <= head'
    BY <1>1, <1>2, <2>1
  <2> QED
    BY <1>1, <2>2 DEF FetcherInv, InOwnRange
<1>7. SentOwn'
  <2>1. \A h \in Heights : h < head => h < head'
    BY <1>1, <1>2 DEF Heights
  <2> QED
    BY <1>1, <2>1 DEF FetcherInv, SentOwn
<1> QED
  BY <1>4, <1>5, <1>6, <1>7 DEF FetcherInv

LEMMA FetcherNext == FetcherInv /\ [Next]_vars => FetcherInv'
<1> SUFFICES ASSUME FetcherInv, [Next]_vars PROVE FetcherInv'
  OBVIOUS
<1>1. CASE ReadRange
  BY <1>1, ReadRangeInv
<1>2. CASE StartGoroutine
  BY <1>2, StartGoroutineInv
<1>3. CASE WaitForever
  BY <1>3, WaitForeverInv
<1>4. ASSUME NEW i \in Goroutines, Step(i) \/ Answered(i) \/ Die(i) PROVE FetcherInv'
  BY <1>4, StepInv, AnsweredInv, DieInv
<1>5. ASSUME NEW h \in Heights, Fetch(h) PROVE FetcherInv'
  BY <1>5, FetchInv
<1>6. CASE Grow
  BY <1>6, GrowInv
<1>7. CASE Restart
  BY <1>7, RestartInv
<1>8. CASE UNCHANGED vars
  <2> USE <1>8 DEF vars, tables, main, goroutine, FetcherInv
  <2>1. StateShape' /\ RangeRead'
    BY DEF StateShape, RangeRead
  <2>2. AttemptsCounted' /\ ChanBounded'
    BY CallKept, ChanKept
  <2>3. InOwnRange' /\ SentOwn'
    BY DEF InOwnRange, SentOwn
  <2> QED
    BY <2>1, <2>2, <2>3
<1> QED
  BY <1>1, <1>2, <1>3, <1>4, <1>5, <1>6, <1>7, <1>8 DEF Next

-----------------------------------------------------------------------------
(* The theorems. *)

(* The state of fetcher mode keeps its shape: blockEnqueueChan never holds more
   than its capacity, however many goroutines send to it, and a call for the
   latest height is made once more than base.request-retry-attempts at most
   (runIndexerAsFetcher, GetLatestBlockHeightWithRetry). *)
THEOREM FetcherTypeCorrect == Spec => []TypeOK
<1>1. FetcherInv => TypeOK
  BY DEF FetcherInv, StateShape, AttemptsCounted, ChanBounded, TypeOK
<1> QED
  BY FetcherInit, FetcherNext, <1>1, PTL DEF Spec

LEMMA FetcherInvRanges == FetcherInv => RangesMeet
<1> SUFFICES ASSUME FetcherInv PROVE RangesMeet
  OBVIOUS
<1>1. settings \in Settings /\ sentBy \in [Heights -> SUBSET Goroutines]
  BY DEF FetcherInv, StateShape
<1>2. UNION {RangeOf(settings, i) : i \in 1 .. numGoroutines(settings)}
        = settings.startBlock .. settings.endBlock + 1
  BY <1>1, RangesCover
<1>3. ASSUME NEW h \in Heights, NEW i \in sentBy[h]
      PROVE  i \in 1 .. numGoroutines(settings) /\ h \in RangeOf(settings, i) /\ h < head
  BY DEF FetcherInv, SentOwn
<1>4. ASSUME NEW h \in Heights, NEW i \in sentBy[h], NEW j \in sentBy[h], i < j
      PROVE  h = EndOf(settings, i) /\ h = FirstOf(settings, j)
  BY <1>1, <1>3, <1>4, RangesOverlap
<1> QED
  BY <1>2, <1>3, <1>4 DEF RangesMeet

(* calculateGoroutines and the goroutines it is for: for every range and step the
   ranges are the range of the configuration and the block after it, a goroutine
   sends heights of its own range only, and two send the same one only where the
   range of one ends and that of the next begins. *)
THEOREM RangesMeetAlways == Spec => []RangesMeet
BY FetcherInit, FetcherNext, FetcherInvRanges, PTL DEF Spec

-----------------------------------------------------------------------------
(* The waits between two attempts. *)

(* The wait of a call is the maximum once that is reached, and before it no
   longer than the power of the next attempt; the last wait was no longer. *)
WaitKnown(c, max) ==
  /\ c.attempts \in 0 .. MaxCounted
  /\ c.slept \in Nat /\ c.wait \in Nat
  /\ c.slept <= c.wait /\ c.wait <= max
  /\ c.maxReached => c.wait = max
  /\ ~c.maxReached => c.wait <= PowerOfBackoff(c.attempts + 1)

WaitsKnown ==
  \A i \in Goroutines : pc[i] = "ask" => WaitKnown(call[i], MaxRetryTime(settings.maxWait))

\* The remainder, rounded towards minus infinity.
LEMMA Remainder ==
  ASSUME NEW a \in Nat, NEW m \in Nat \ {0}
  PROVE  /\ a % m \in 0 .. m - 1
         /\ a % m <= a
         /\ a < m => a % m = a
OBVIOUS

(* Whether the product overflows or not, the maximum is a duration that is not
   negative and not longer than the configuration asks for (retryMaxWaitSeconds
   of the callers). *)
LEMMA MaxRetryTimeBounds ==
  ASSUME NEW w \in Nat
  PROVE  /\ MaxRetryTime(w) \in Nat
         /\ MaxRetryTime(w) <= MaxDuration
         /\ MaxRetryTime(w) <= AtLeastTwo(w) * Second
<1> DEFINE n == AtLeastTwo(w) * Second
           m == 2 * MaxDuration + 2
           x == (n + MaxDuration + 1) % m
<1>1. /\ Second \in Nat \ {0} /\ MaxDuration \in Nat
      /\ 30 * Second <= MaxDuration
      /\ AtLeastTwo(w) \in Nat
  BY DurationAssumption DEF DurationAssumption, AtLeastTwo
<1>2. n \in Nat
  BY <1>1
<1> HIDE DEF n
<1>3. n + MaxDuration + 1 \in Nat /\ m \in Nat \ {0}
  BY <1>1, <1>2
<1> HIDE DEF m
<1>4. x \in 0 .. m - 1 /\ x <= n + MaxDuration + 1
      /\ (n + MaxDuration + 1 < m => x = n + MaxDuration + 1)
  BY <1>3, Remainder
<1>5. Wrapped(n) = x - MaxDuration - 1
  <2>1. MinDuration = -MaxDuration - 1 /\ n - MinDuration = n + MaxDuration + 1
    BY <1>1, <1>2 DEF MinDuration
  <2>2. Wrapped(n) = x + MinDuration
    BY <2>1 DEF Wrapped, m
  <2>3. x \in Int
    BY <1>3, <1>4
  <2> QED
    BY <1>1, <2>1, <2>2, <2>3
<1> HIDE DEF x
<1>6. MaxRetryTime(w) = IF Wrapped(n) < 0 THEN 30 * Second ELSE Wrapped(n)
  BY DEF MaxRetryTime, n
<1>7. CASE Wrapped(n) < 0
  BY <1>1, <1>2, <1>4, <1>5, <1>6, <1>7 DEF m, n
<1>8. CASE ~(Wrapped(n) < 0)
  BY <1>1, <1>2, <1>4, <1>5, <1>6, <1>8 DEF m, n
<1> QED
  BY <1>7, <1>8

\* What GetBackoffDurationForAttempts returns, by the processor's conversion.
LEMMA BackoffResult ==
  ASSUME NEW n \in Nat, NEW max \in Nat, max <= MaxDuration,
         NEW r \in GetBackoffDurationForAttempts(n, max)
  PROVE  /\ r.wait \in Nat
         /\ r.wait <= max
         /\ r.maxReached => r.wait = max
         /\ ~r.maxReached => r.wait <= PowerOfBackoff(n)
         /\ r.wait = max \/ r.wait = PowerOfBackoff(n)
<1> DEFINE p == PowerOfBackoff(n)
<1>1. p \in Nat /\ MaxDuration \in Nat
  BY BackoffGrows, DurationAssumption DEF DurationAssumption
<1>2. PICK d \in Converted(p) : r = Capped(d, max)
  BY DEF GetBackoffDurationForAttempts
<1> HIDE DEF p
<1>3. MinDuration \in Int /\ MinDuration < 0
  BY <1>1 DEF MinDuration
<1>4. d = MinDuration \/ (d = MaxDuration /\ p > MaxDuration) \/ d = p
  BY <1>2 DEF Converted
<1>5. CASE d > max \/ d < 0
  <2>1. r.wait = max /\ r.maxReached = TRUE
    BY <1>2, <1>5 DEF Capped
  <2> QED
    BY <2>1
<1>6. CASE ~(d > max \/ d < 0)
  <2>1. r.wait = d /\ r.maxReached = FALSE
    BY <1>2, <1>6 DEF Capped
  <2>2. d = p \/ (d = MaxDuration /\ p > MaxDuration)
    BY <1>3, <1>4, <1>6
  <2>3. d \in Nat /\ d <= max /\ d <= p /\ (d = max \/ d = p)
    BY <1>1, <1>6, <2>2
  <2> QED
    BY <2>1, <2>3 DEF p
<1> QED
  BY <1>5, <1>6

\* The first wait of a call.
LEMMA FirstWait ==
  ASSUME FetcherInv, NEW i \in Goroutines, AskLatest(i)
  PROVE  WaitKnown(call'[i], MaxRetryTime(settings.maxWait))
<1> DEFINE max == MaxRetryTime(settings.maxWait)
<1>1. PICK r \in GetBackoffDurationForAttempts(0, max) :
        call' = [call EXCEPT ![i] = [attempts |-> 0, slept |-> 0, wait |-> r.wait,
                                     maxReached |-> r.maxReached]]
  BY DEF AskLatest
<1>2. settings.maxWait \in Nat /\ MaxCounted \in Nat
  BY FetcherAssumption DEF FetcherAssumption, Setting, FetcherInv, StateShape
<1>3. max \in Nat /\ max <= MaxDuration
  BY <1>2, MaxRetryTimeBounds
<1> HIDE DEF max
<1>4. /\ r.wait \in Nat /\ r.wait <= max
      /\ r.maxReached => r.wait = max
      /\ ~r.maxReached => r.wait <= PowerOfBackoff(0)
  BY <1>3, BackoffResult
<1>5. PowerOfBackoff(0) \in Nat /\ PowerOfBackoff(0 + 1) \in Nat
      /\ PowerOfBackoff(0) <= PowerOfBackoff(0 + 1)
  BY BackoffGrows
<1>6. /\ call'[i].attempts = 0 /\ call'[i].slept = 0
      /\ call'[i].wait = r.wait /\ call'[i].maxReached = r.maxReached
  BY <1>1 DEF FetcherInv, AttemptsCounted
<1>7. ~r.maxReached => r.wait <= PowerOfBackoff(0 + 1)
  BY <1>4, <1>5
<1> QED
  BY <1>2, <1>4, <1>6, <1>7 DEF WaitKnown, max

(* The next wait of a call is no shorter: the attempts are one more, or were not
   counted any more, and a duration out of range counts as the maximum. *)
LEMMA NextWait ==
  ASSUME FetcherInv, NEW i \in Goroutines, RetryLater(i),
         WaitKnown(call[i], MaxRetryTime(settings.maxWait))
  PROVE  /\ WaitKnown(call'[i], MaxRetryTime(settings.maxWait))
         /\ call'[i].slept = call[i].wait
<1> DEFINE max == MaxRetryTime(settings.maxWait)
           c == call[i]
           n == c.attempts + 1
           counted == IF n > MaxCounted THEN MaxCounted ELSE n
<1>1. PICK r \in IF c.maxReached THEN {[wait |-> c.wait, maxReached |-> TRUE]}
                 ELSE GetBackoffDurationForAttempts(n, max) :
        call' = [call EXCEPT ![i] = [attempts |-> counted, slept |-> c.wait, wait |-> r.wait,
                                     maxReached |-> r.maxReached]]
  BY DEF RetryLater
<1>2. settings.maxWait \in Nat /\ MaxCounted \in Nat
  BY FetcherAssumption DEF FetcherAssumption, Setting, FetcherInv, StateShape
<1>3. max \in Nat /\ max <= MaxDuration
  BY <1>2, MaxRetryTimeBounds
<1>4. /\ call'[i].attempts = counted /\ call'[i].slept = c.wait
      /\ call'[i].wait = r.wait /\ call'[i].maxReached = r.maxReached
  BY <1>1 DEF FetcherInv, AttemptsCounted
<1>5. WaitKnown(c, max)
  OBVIOUS
<1> HIDE DEF max
<1>6. /\ c.attempts \in 0 .. MaxCounted /\ c.wait \in Nat /\ c.wait <= max
      /\ c.maxReached => c.wait = max
      /\ ~c.maxReached => c.wait <= PowerOfBackoff(n)
  BY <1>5 DEF WaitKnown
<1> HIDE DEF c
<1>7. n \in Nat /\ counted \in 0 .. MaxCounted /\ (counted = n \/ counted + 1 = n)
  BY <1>2, <1>6
<1> HIDE DEF n, counted
<1>8. /\ PowerOfBackoff(n) \in Nat
      /\ PowerOfBackoff(n) <= PowerOfBackoff(counted + 1) /\ PowerOfBackoff(counted + 1) \in Nat
  BY <1>7, BackoffGrows
<1>9. CASE c.maxReached
  <2>1. r.wait = c.wait /\ r.maxReached = TRUE
    BY <1>1, <1>9
  <2> QED
    BY <1>4, <1>6, <1>7, <1>9, <2>1 DEF WaitKnown, max, c
<1>10. CASE ~c.maxReached
  <2>1. /\ r.wait \in Nat /\ r.wait <= max
        /\ r.maxReached => r.wait = max
        /\ ~r.maxReached => r.wait <= PowerOfBackoff(n)
        /\ r.wait = max \/ r.wait = PowerOfBackoff(n)
    BY <1>1, <1>3, <1>7, <1>10, BackoffResult
  <2>2. c.wait <= r.wait
    BY <1>3, <1>6, <1>8, <1>10, <2>1
  <2>3. ~r.maxReached => r.wait <= PowerOfBackoff(counted + 1)
    BY <1>8, <2>1
  <2> QED
    BY <1>4, <1>6, <1>7, <2>1, <2>2, <2>3 DEF WaitKnown, max, c
<1> QED
  BY <1>9, <1>10

\* A goroutine that waits after a step has begun to ask, asks again, or was not
\* the one to move.
LEMMA AskSteps ==
  ASSUME FetcherInv, [Next]_vars, NEW i \in Goroutines, pc'[i] = "ask"
  PROVE  /\ settings' = settings
         /\ \/ pc[i] = "ask" /\ call'[i] = call[i]
            \/ pc[i] = "ask" /\ RetryLater(i)
            \/ pc[i] = "check" /\ AskLatest(i)
<1> DEFINE Goal == /\ settings' = settings
                   /\ \/ pc[i] = "ask" /\ call'[i] = call[i]
                      \/ pc[i] = "ask" /\ RetryLater(i)
                      \/ pc[i] = "check" /\ AskLatest(i)
<1> USE DEF tables, main, goroutine
<1>1. CASE ReadRange
  BY <1>1 DEF ReadRange
<1>2. CASE StartGoroutine
  <2>1. /\ pc' = [pc EXCEPT ![started + 1] = "failed"]
        /\ settings' = settings /\ call' = call
    BY <1>2 DEF StartGoroutine
  <2> QED
    BY <2>1 DEF FetcherInv, StateShape
<1>3. CASE WaitForever
  BY <1>3 DEF WaitForever
<1>4. ASSUME NEW j \in Goroutines, Step(j) PROVE Goal
  <2>1. settings' = settings
    BY <1>4 DEF Step
  <2>2. CASE RetryLater(j)
    <3>1. pc' = pc /\ \E c : call' = [call EXCEPT ![j] = c]
      BY <2>2 DEF RetryLater
    <3>2. CASE j = i
      BY <2>1, <2>2, <3>1, <3>2
    <3>3. CASE j # i
      BY <2>1, <3>1, <3>3 DEF FetcherInv, AttemptsCounted
    <3> QED
      BY <3>2, <3>3
  <2>3. CASE AskLatest(j)
    <3>1. pc[j] = "check" /\ pc' = [pc EXCEPT ![j] = "ask"] /\ \E c : call' = [call EXCEPT ![j] = c]
      BY <2>3 DEF AskLatest, Goto
    <3>2. CASE j = i
      BY <2>1, <2>3, <3>1, <3>2
    <3>3. CASE j # i
      BY <2>1, <3>1, <3>3 DEF FetcherInv, AttemptsCounted, StateShape
    <3> QED
      BY <3>2, <3>3
  <2>4. CASE FailedSent(j) \/ Return(j) \/ StopFilling(j)
    <3>1. call' = call /\ \E at \in {"check", "done"} : pc' = [pc EXCEPT ![j] = at]
      BY <2>4 DEF FailedSent, Return, StopFilling, Goto
    <3> QED
      BY <2>1, <3>1 DEF FetcherInv, StateShape
  <2>5. CASE SendFailed(j) \/ SkipIndexed(j) \/ SendUnindexed(j) \/ SkipKnown(j) \/ SendNew(j)
    <3>1. call' = call /\ pc' = pc
      BY <2>5 DEF SendFailed, SkipIndexed, SendUnindexed, SkipKnown, SendNew
    <3> QED
      BY <2>1, <3>1
  <2> QED
    BY <1>4, <2>2, <2>3, <2>4, <2>5 DEF Step
<1>5. ASSUME NEW j \in Goroutines, Answered(j) PROVE Goal
  <2>1. /\ settings' = settings
        /\ pc' = [pc EXCEPT ![j] = "fill"] /\ call' = [call EXCEPT ![j] = NoCall]
    BY <1>5 DEF Answered, Answer, Goto
  <2> QED
    BY <2>1 DEF FetcherInv, StateShape, AttemptsCounted
<1>6. ASSUME NEW j \in Goroutines, Die(j) PROVE Goal
  BY <1>6 DEF Die
<1>7. ASSUME NEW h \in Heights, Fetch(h) PROVE Goal
  BY <1>7 DEF Fetch
<1>8. CASE Grow
  BY <1>8 DEF Grow
<1>9. CASE Restart
  BY <1>9 DEF Restart, Reset, All
<1>10. CASE UNCHANGED vars
  BY <1>10 DEF vars
<1> QED
  BY <1>1, <1>2, <1>3, <1>4, <1>5, <1>6, <1>7, <1>8, <1>9, <1>10 DEF Next

LEMMA WaitsInit == Init => WaitsKnown
BY DEF Init, All, WaitsKnown

LEMMA WaitsNext == FetcherInv /\ WaitsKnown /\ [Next]_vars => WaitsKnown'
<1> SUFFICES ASSUME FetcherInv, WaitsKnown, [Next]_vars, NEW i \in Goroutines, pc'[i] = "ask"
             PROVE  WaitKnown(call'[i], MaxRetryTime(settings'.maxWait))
  BY DEF WaitsKnown, WaitKnown
<1>1. settings' = settings
  BY AskSteps
<1>2. pc[i] = "ask" => WaitKnown(call[i], MaxRetryTime(settings.maxWait))
  BY DEF WaitsKnown
<1>3. CASE pc[i] = "ask" /\ call'[i] = call[i]
  BY <1>1, <1>2, <1>3
<1>4. CASE pc[i] = "ask" /\ RetryLater(i)
  BY <1>1, <1>2, <1>4, NextWait
<1>5. CASE pc[i] = "check" /\ AskLatest(i)
  BY <1>1, <1>5, FirstWait
<1> QED
  BY <1>3, <1>4, <1>5, AskSteps

LEMMA WaitsStep ==
  FetcherInv /\ WaitsKnown /\ [Next]_vars =>
    \A i \in Goroutines :
      (pc[i] = "ask" /\ pc'[i] = "ask") =>
        /\ call'[i].slept >= call[i].slept
        /\ call'[i].slept <= AtLeastTwo(settings.maxWait) * Second
<1> SUFFICES ASSUME FetcherInv, WaitsKnown, [Next]_vars, NEW i \in Goroutines,
                    pc[i] = "ask", pc'[i] = "ask"
             PROVE  /\ call'[i].slept >= call[i].slept
                    /\ call'[i].slept <= AtLeastTwo(settings.maxWait) * Second
  OBVIOUS
<1> DEFINE max == MaxRetryTime(settings.maxWait)
<1>1. WaitKnown(call[i], max)
  BY DEF WaitsKnown
<1>2. settings.maxWait \in Nat
  BY FetcherAssumption DEF FetcherAssumption, Setting, FetcherInv, StateShape
<1>3. max \in Nat /\ max <= AtLeastTwo(settings.maxWait) * Second
  BY <1>2, MaxRetryTimeBounds
<1>4. AtLeastTwo(settings.maxWait) * Second \in Nat
  BY <1>2, DurationAssumption DEF DurationAssumption, AtLeastTwo
<1>5. call'[i] = call[i] \/ RetryLater(i)
  BY AskSteps
<1>6. call'[i].slept \in {call[i].slept, call[i].wait}
  BY <1>1, <1>5, NextWait
<1> HIDE DEF max
<1>7. /\ call[i].slept \in Nat /\ call[i].wait \in Nat
      /\ call[i].slept <= call[i].wait /\ call[i].wait <= max
  BY <1>1 DEF WaitKnown
<1> DEFINE limit == AtLeastTwo(settings.maxWait) * Second
<1>8. limit \in Nat /\ max <= limit
  BY <1>3, <1>4
<1> HIDE DEF limit
<1>9. call'[i].slept >= call[i].slept /\ call'[i].slept <= limit
  BY <1>3, <1>6, <1>7, <1>8
<1> QED
  BY <1>9 DEF limit

(* GetBackoffDurationForAttempts and its callers: for every unit and width of a
   duration, and whichever way the processor converts a float that is out of
   range, the waits of a call never shrink and are never longer than
   base.request-retry-max-wait. *)
THEOREM WaitsNeverShrink == Spec => WaitsBounded
<1>1. Spec => []FetcherInv
  BY FetcherInit, FetcherNext, PTL DEF Spec
<1>2. Spec => []WaitsKnown
  BY <1>1, WaitsInit, WaitsNext, PTL DEF Spec
<1> QED
  BY <1>1, <1>2, WaitsStep, PTL DEF Spec, WaitsBounded
=============================================================================
