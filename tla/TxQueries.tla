------------------------------- MODULE TxQueries -------------------------------
(***************************************************************************)
(* The queries about transactions (pkg/repository/txs.go) over the tables, *)
(* the views and the aggregates.                                           *)
(*                                                                         *)
(* A paged query is two statements, the page and the total.  Its listing   *)
(* is a record: rows is what the first one pages through with LIMIT and    *)
(* OFFSET, all is the second.  An answer is Failed when a statement        *)
(* returns NULL, or no row, where the code scans a number.                 *)
(***************************************************************************)
EXTENDS MaterializedViews, Aggregates

CONSTANT Failed         \* the answer of a call whose statement fails

Listing(rows, all) == [rows |-> rows, all |-> all]

SumOver(f, S) == MapThenSumSet(LAMBDA x : f[x], S \cap DOMAIN f)

-----------------------------------------------------------------------------
(* Totals over the daily views. *)

\* sum() over an empty view is NULL.
TotalTxs == IF DOMAIN views.counts = {} THEN Failed ELSE SumOver(views.counts, DOMAIN views.counts)

\* Both ends of the period count.
txCountPerPeriod(from, to) == SumOver(views.counts, from .. to)

volumePerPeriod(from, to) == SumOver(views.fees, from .. to)

\* The day before counts together with the current one.
TransactionsPerPeriod(day) ==
  IF TotalTxs = Failed THEN Failed
  ELSE [all |-> TotalTxs, all24H |-> txCountPerPeriod(day, day),
        all48H |-> txCountPerPeriod(day - 1, day), all30D |-> txCountPerPeriod(day - Month, day)]

VolumePerPeriod(day) ==
  [total24H |-> volumePerPeriod(day - 1, day), total30D |-> volumePerPeriod(day - Month, day)]

GetWalletsCount(day) ==
  IF DOMAIN views.wallets = {} THEN Failed
  ELSE [count24H |-> SumOver(views.wallets, {day}),
        count48H |-> SumOver(views.wallets, {d \in DOMAIN views.wallets : d >= day - 1}),
        total |-> SumOver(views.wallets, DOMAIN views.wallets)]

\* An empty sum is NULL here.
GetWalletsCountPerPeriod(from, to) ==
  IF DOMAIN views.wallets \cap (from .. to) = {} THEN Failed ELSE SumOver(views.wallets, from .. to)

\* The charts read txes, however old, not the views.  The points are those of the
\* last hours, and the totals beside them those of the days they fall in.
ChartTransactionsByHour(to) ==
  [points |-> [t \in RowTimes \cap ((to - DayLength) .. to) |-> CountAt(t)],
   total24H |-> txCountPerPeriod(Day(to) - 1, Day(to)),
   total48H |-> txCountPerPeriod(Day(to) - 2, Day(to) - 1)]

ChartTxByDay(from, to) == ByDay(RowTimes \cap (from .. to), CountAt)

\* The sum of an hour without fees is NULL.
ChartTransactionsVolume(to) ==
  LET hours == RowTimes \cap ((to - DayLength) .. to)
  IN  IF \E t \in hours : FeesAt(t) = 0 THEN Failed ELSE [t \in hours |-> FeesAt(t)]

-----------------------------------------------------------------------------
(* A transaction. *)

PartyTypes == {"transfer", "fungible_token_packet", "delegate", "coin_received", "coin_spent"}

SenderKeys == {"sender", "spender"}
ReceiverKeys == {"recipient", "receiver"}

\* GetEvents by the id of the row.
GetEvents(hash) == AttributeRows(hash)

GetEventsV2(hash) == {k \in DOMAIN eventRows : k.hash = hash}

\* GetSenderAndReceiver: the last value of each key, over all messages.
GetSenderAndReceiver(hash) ==
  LET events == {e \in AttributeRows(hash) : e.type \in PartyTypes}
      last(keys) == LastOf({e \in events : e.key \in keys})
  IN  [sender |-> WordOf(last(SenderKeys)), receiver |-> WordOf(last(ReceiverKeys)),
       amount |-> IF last({"amount"}) = {} THEN 0 ELSE The(last({"amount"})).value.n]

\* GetSenderAndReceiverV2 reads the aggregate, ordered by its two indexes.  Rows
\* equal in both come in any order, so each answer is one of several.
GetSenderAndReceiverV2(hash) ==
  LET ks == {k \in GetEventsV2(hash) : k.type \in PartyTypes}
      before(k, j) == k.index1 < j.index1 \/ (k.index1 = j.index1 /\ k.index2 < j.index2)
      lastOf(keys) == {k \in ks : k.key \in keys /\ ~\E j \in ks : j.key \in keys /\ before(k, j)}
  IN  [senders |-> {eventRows[k].word : k \in lastOf(SenderKeys)},
       receivers |-> {eventRows[k].word : k \in lastOf(ReceiverKeys)},
       amounts |-> {eventRows[k].n : k \in lastOf({"amount"})}]

feesByTransaction(hash) == txes[hash].fees

blockInfo(hash) == IF flags[txes[hash].block] = {} THEN None ELSE txes[hash].block

\* The row of a transaction in the answers; the tip and the response are those
\* of its auth info and tx_responses rows.
TxRow(hash) ==
  [hash |-> hash, code |-> txes[hash].code, responseCode |-> txes[hash].responseCode,
   tip |-> txes[hash].tip, block |-> blockInfo(hash), fees |-> feesByTransaction(hash),
   parties |-> GetSenderAndReceiverV2(hash)]

\* Messages: a transaction without messages is one row of NULLs, which cannot
\* be scanned.
Messages(hash) ==
  LET indexes == {k[2] : k \in {k \in DOMAIN messages : k[1] = hash}}
  IN  IF hash \in DOMAIN txes /\ indexes = {} THEN Failed
      ELSE {[index |-> k, type |-> messages[<<hash, k>>].type, raw |-> messages[<<hash, k>>].raw] :
              k \in indexes}

-----------------------------------------------------------------------------
(* Listings of transactions. *)

TxsOfBlock(h) == {hash \in DOMAIN txes : txes[hash].block = h /\ flags[h] # {}}

\* Transactions without a filter: the total is that of the view, which counts
\* those of the other days as well.
Transactions == Listing(DOMAIN txes, TotalTxs)

\* By height: without a row of the block the total is that of the view.
TransactionsByBlock(h) ==
  Listing(TxsOfBlock(h), IF flags[h] = {} THEN TotalTxs ELSE Cardinality(TxsOfBlock(h)))

\* By hash; the total is computed and dropped, and fails the call with it.
TransactionByHash(hash) ==
  IF TotalTxs = Failed \/ hash \notin DOMAIN txes THEN Failed ELSE TxRow(hash)

AllAttributeRows == UNION {AttributeRows(hash) : hash \in DOMAIN txes}

\* getTransactionsByTypes: the total counts an attribute each.
getTransactionsByTypes(account, types) ==
  LET hits == {e \in AllAttributeRows : e.msgType \in types /\ e.value.word = account}
  IN  Listing({e.hash : e \in hits}, Cardinality(hits))

PowerTypes == {"delegate", "undelegate"}

GetPowerEvents(account) == getTransactionsByTypes(account, PowerTypes)

\* The rows of tx_events_vals_aggregateds that match.
EventValueHits(values, types) ==
  {k \in DOMAIN eventVals : k.msgType \in types /\ k.value.word \in values}

\* Each group of transactionsByEventValuePrepareV2 is one row, so two values
\* are never found together.
transactionsByEventValuePrepareV2(values, types) ==
  IF Cardinality(values) # 1 THEN {} ELSE {k.hash : k \in EventValueHits(values, types)}

transactionsByEventValueTotals(values, types) ==
  LET hits == EventValueHits(values, types)
  IN  IF {k.value.word : k \in hits} # values THEN 0 ELSE Cardinality({k.hash : k \in hits})

TransactionsByEventValue(values, types) ==
  LET hashes == transactionsByEventValuePrepareV2(values, types)
  IN  IF hashes = {} THEN Listing({}, 0)
      ELSE Listing(hashes \cap DOMAIN txes, transactionsByEventValueTotals(values, types))

\* DelegatesByValidator groups its total by denom: without a row there is none.
DelegatesByValidator(validator) ==
  LET hashes == {hash \in DOMAIN delegates : delegates[hash].validator = validator}
  IN  IF hashes = {} THEN Failed
      ELSE [rows |-> hashes, all |-> Cardinality(hashes),
            sum |-> MapThenSumSet(LAMBDA hash : delegates[hash].amount, hashes)]

-----------------------------------------------------------------------------
(* Votes, deposits and accounts. *)

\* GetVotes; with uniqueProposals the latest vote on each proposal.
GetVotes(account, unique) ==
  LET votes == {v \in views.votes : v.voter = account}
      rows == IF unique THEN {v.proposal : v \in votes} ELSE votes
  IN  Listing(rows, Cardinality(rows))

\* GetVotesByAccounts: unique keeps the votes of the latest time of the voter.
GetVotesByAccounts(accounts, exclude, option, proposal, unique) ==
  LET among == {v \in views.votes :
                  /\ v.option = option /\ v.proposal = proposal
                  /\ accounts = {} \/ (v.voter \in accounts) = ~exclude}
      rows == {v \in among : unique => \A w \in views.votes :
                 (w.voter = v.voter /\ w.option = option /\ w.proposal = proposal)
                   => w.time <= v.time}
  IN  Listing(rows, Cardinality(rows))

ProposalDepositors(proposal) ==
  LET rows == {d \in views.deposits : d.proposal = proposal}
  IN  Listing(rows, Cardinality(rows))

RowsOfAccount(account) == {n \in views.normalized : n.account = account}

\* A row for each role: who sends to itself is counted twice.
TxCountByAccounts(accounts) ==
  [a \in {a \in accounts : RowsOfAccount(a) # {}} |-> Cardinality(RowsOfAccount(a))]

\* No row is an account without transactions (service AccountInfo).
AccountInfo(account) == Cardinality({n.hash : n \in RowsOfAccount(account)})

\* GetWalletsWithTx: a row for each sender and block time, and the total counts
\* the attributes.
GetWalletsWithTx ==
  LET sent == {e \in AllAttributeRows : e.key = "sender"}
  IN  Listing({<<e.value.word, txes[e.hash].time>> : e \in sent}, Cardinality(sent))
=============================================================================
