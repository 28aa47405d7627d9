-------------------------- MODULE MaterializedViews --------------------------
(***************************************************************************)
(* The materialized views of db/db.go (migrateTables) over txes, messages  *)
(* and fees, and their refresh (UpdateViews of pkg/repository/txs.go),     *)
(* which a ticker calls every minute.                                      *)
(*                                                                         *)
(* Block h is made at time h.  Of the days on which the model makes no     *)
(* block only the share of the daily views is kept; it counts as made at   *)
(* the first moment of the day.  A chain is indexed at one time, which is  *)
(* that of every NOW(): its older blocks may be beyond the views' windows. *)
(***************************************************************************)
EXTENDS TxTables, FiniteSetsExt, TLC

CONSTANTS
  DayLength,    \* blocks made in a day
  OtherDays,    \* days without a block of the model: [fees, txs, wallets] of each
  Clock,        \* for each chain the time at which it is indexed
  Month, Year,  \* days the views go back: 30 and 360
  TextOrder     \* the words in text order

ASSUME ViewsAssumption ==
  /\ DayLength \in Nat \ {0}
  /\ Month \in Nat \ {0} /\ Year \in Nat /\ Month < Year

VARIABLES
  now,          \* the time at which the chain is indexed
  views         \* the views as last refreshed

Day(time) == time \div DayLength

Today == Day(now)

\* The days without a block of the model that have one by now.
PastDays == {d \in DOMAIN OtherDays : d * DayLength <= now}

RowTimes == {txes[hash].time : hash \in DOMAIN txes} \cup {d * DayLength : d \in PastDays}

FeeOf(hash) == MapThenSumSet(LAMBDA f : f.amount, txes[hash].fees)

OtherAt(time, share(_)) ==
  IF Day(time) \in PastDays /\ time = Day(time) * DayLength THEN share(OtherDays[Day(time)]) ELSE 0

TxesAt(time) == {hash \in DOMAIN txes : txes[hash].time = time}
CountAt(time) == Cardinality(TxesAt(time)) + OtherAt(time, LAMBDA day : day.txs)
FeesAt(time) == MapThenSumSet(FeeOf, TxesAt(time)) + OtherAt(time, LAMBDA day : day.fees)

\* A sum for each day that has a row among the times.
ByDay(times, sum(_)) ==
  [d \in {Day(t) : t \in times} |-> MapThenSumSet(sum, {t \in times : Day(t) = d})]

\* WHERE timestamp >= NOW() - INTERVAL.
Within(days) == {t \in RowTimes : t >= now - days * DayLength}

\* The values under a key in the messages of some types of a transaction.
Values(hash, types, key) ==
  {a.value : a \in {a \in AttributeRows(hash) : a.msgType \in types /\ a.key = key}}

\* transactions_normalized: a row for each account, transaction and role.
TransactionsNormalized ==
  UNION {{[account |-> v.word, hash |-> hash, role |-> role, time |-> txes[hash].time] :
            v \in Values(hash, {"send"}, role)} :
          hash \in DOMAIN txes, role \in {"sender", "receiver"}}

Rank(value) == CHOOSE i \in DOMAIN TextOrder : TextOrder[i] = value.word

\* max() of texts; of none it is NULL.
MaxText(values) ==
  IF values = {} THEN [word |-> None, n |-> 0]
  ELSE CHOOSE v \in values : \A w \in values :
         Rank(w) < Rank(v) \/ (Rank(w) = Rank(v) /\ w.n <= v.n)

VoteTypes == {"vote", "exec"}

VoteValues(hash, key) ==
  {a.value : a \in {a \in AttributeRows(hash) : /\ a.msgType \in VoteTypes
                                                /\ a.type = "proposal_vote" /\ a.key = key}}

\* The text of the option; its number is how many "option:..." it holds.
OptionOf(hash) == MaxText(VoteValues(hash, "option"))

\* votes_normalized: one group for a transaction, each column the maximum over all
\* its votes, and a row for every match of the regular expression in the option.
VotesNormalized ==
  UNION {LET option == OptionOf(hash)
         IN  {[hash |-> hash, match |-> k, time |-> txes[hash].time, option |-> option.word,
               voter |-> MaxText(VoteValues(hash, "voter")).word,
               proposal |-> MaxText(VoteValues(hash, "proposal_id")).n] : k \in 1 .. option.n} :
         hash \in DOMAIN txes}

\* idx_votes_normalized_hash_id: the refresh fails when two rows have one hash.
VotesUnique == \A hash \in DOMAIN txes : OptionOf(hash).n <= 1

\* depositors_normalized: a row for a transaction that submits, in the same way.
DepositorsNormalized ==
  LET column(hash, key) == MaxText(Values(hash, {"submit"}, key))
  IN  {[hash |-> hash, time |-> txes[hash].time, amount |-> column(hash, "amount").n,
        sender |-> column(hash, "sender").word, proposal |-> column(hash, "proposal_id").n] :
         hash \in {key[1] : key \in {key \in DOMAIN messages : messages[key].type = "submit"}}}

DailyFees == ByDay(Within(Month), FeesAt)

DailyTxCounts == ByDay(Within(Year), CountAt)

\* A day without a wallet has no row.
DailyWallets ==
  LET times == Within(Year)
      seen == {n \in TransactionsNormalized : n.time \in times}
      others == {d \in PastDays : d * DayLength \in times}
      wallets(d) == {n.account : n \in {n \in seen : Day(n.time) = d}}
  IN  [d \in others \cup {Day(n.time) : n \in seen} |->
         IF d \in others THEN OtherDays[d].wallets ELSE Cardinality(wallets(d))]

Refreshed == [normalized |-> TransactionsNormalized, votes |-> VotesNormalized,
              deposits |-> DepositorsNormalized, fees |-> DailyFees,
              counts |-> DailyTxCounts, wallets |-> DailyWallets]

\* Variant: the views after the votes are refreshed only while there is no vote.
RefreshAllWithoutVotes == VotesNormalized = {} /\ views' = Refreshed

RefreshAll == VotesUnique /\ views' = Refreshed

\* The first statement that fails ends UpdateViews.
RefreshFailsAtVotes ==
  /\ ~VotesUnique
  /\ views' = [views EXCEPT !.normalized = TransactionsNormalized]

UpdateViews == RefreshAll \/ RefreshFailsAtVotes
=============================================================================
