------------------------------ MODULE TxTables ------------------------------
(***************************************************************************)
(* The rows below a block: its signatures, txes with what they own and     *)
(* messages with their events, as IndexNewBlock (db/db.go) and             *)
(* IndexBlockEvents (db/events.go) write them.  Each of the two is one     *)
(* database transaction; addAddresses writes on the plain connection and   *)
(* its rows stay when the transaction is rolled back.                      *)
(*                                                                         *)
(* A hash may come in two blocks: a transaction that failed may be         *)
(* broadcast again and succeed.  The rows of tx_auth_info, tx_responses    *)
(* and fees that belong to a row of txes are fields of it.                 *)
(***************************************************************************)
EXTENDS TxParser

CONSTANT MaxHeight      \* the chain of the model has blocks 1 .. MaxHeight

Heights == 1 .. MaxHeight

VARIABLES
  chain,        \* what the node serves: [txs, signers, events] of each block
  flags,        \* blocks: which of tx_indexed ("tx") and block_events_indexed
                \* ("events") each row has; a block with neither has no row
  signatures,   \* block_signatures: the validators of each block
  txes,         \* txes by hash
  firstTip,     \* tipper of the first row of tx_tip
  messages,     \* messages and their events by <<hash, message_index>>
  addresses     \* addresses

tables == <<flags, signatures, txes, firstTip, messages, addresses>>

NoTipRow == "no row"

Hashes == UNION {{chain[h].txs[i].hash : i \in DOMAIN chain[h].txs} : h \in Heights}

TxTablesInit ==
  /\ flags = [h \in Heights |-> {}]
  /\ signatures = [h \in Heights |-> {}]
  /\ txes = <<>>
  /\ firstTip = NoTipRow
  /\ messages = <<>>
  /\ addresses = {}

\* ProcessRPC*TXs over the transactions of the block at height h.
Parsed(h, wanted, path) ==
  [i \in DOMAIN chain[h].txs |-> TxDBWrapper(chain[h].txs[i], h, wanted, path)]

\* uniqueTxes: of two wrappers with one hash the last.
UniqueTxes(wrappers) ==
  {wrappers[i] : i \in {i \in DOMAIN wrappers :
                          \A j \in DOMAIN wrappers : wrappers[j].hash = wrappers[i].hash => j <= i}}

AddressesOf(wrappers) ==
  UNION {wrappers[i].signers \cup {f.payer : f \in wrappers[i].fees} : i \in DOMAIN wrappers}

addAddresses(wrappers) == addresses' = addresses \cup AddressesOf(wrappers)

-----------------------------------------------------------------------------
(* What one transaction of the block leaves in txes. *)

\* tx_auth_info.tip_id: FirstOrCreate of an empty tip asks for no column, so a
\* transaction without a tip gets the first row of the table.
TipOf(w, first) == IF w.tip = None THEN first ELSE w.tip

NewTx(w, first) ==
  [block |-> w.height, code |-> w.code, time |-> w.height, tip |-> TipOf(w, first),
   signers |-> w.signers, fees |-> w.fees, responseCode |-> w.code, info |-> w.info]

\* Variant: a fee is inserted beside the one that is there.
InsertFees(old, new) == old \cup new

\* fees: ON CONFLICT (tx_id, denomination_id) DO UPDATE SET amount.
UpsertFees(old, new) ==
  IF old = {} \/ new = {} THEN old \cup new
  ELSE {[o EXCEPT !.amount = n.amount] : o \in old, n \in new}

\* Variant: the conflict on the hash updates the block only.
UpsertTxBlockOnly(old, w) ==
  [old EXCEPT !.block = w.height, !.signers = @ \cup w.signers, !.fees = UpsertFees(@, w.fees)]

\* txes: ON CONFLICT (hash) DO UPDATE SET code, block_id, and the associations;
\* time, auth info and tx_responses stay those of the first pass.
UpsertTx(old, w) ==
  [old EXCEPT !.block = w.height, !.code = w.code,
              !.signers = @ \cup w.signers, !.fees = UpsertFees(@, w.fees)]

UpsertTxes(unique, first) ==
  LET passed == {w.hash : w \in unique}
      of(hash) == CHOOSE w \in unique : w.hash = hash
  IN  [hash \in passed \cup DOMAIN txes |->
         IF hash \notin passed THEN txes[hash]
         ELSE IF hash \in DOMAIN txes THEN UpsertTx(txes[hash], of(hash))
         ELSE NewTx(of(hash), first)]

-----------------------------------------------------------------------------
(* What it leaves in messages, message_events and message_event_attributes.
   Every insert is ON CONFLICT DO NOTHING on the position, so of what is there
   nothing changes and only a longer tail is new. *)

LongerTail(old, new) ==
  IF Len(new) <= Len(old) THEN old ELSE old \o SubSeq(new, Len(old) + 1, Len(new))

MergeEvents(old, new) ==
  LET merged == [i \in DOMAIN old |->
                   IF i \in DOMAIN new
                     THEN [old[i] EXCEPT !.attrs = LongerTail(@, new[i].attrs)]
                     ELSE old[i]]
  IN  LongerTail(merged, new)

\* Variant: a message of the pass replaces the row it finds.
UpsertMessageReplaces(old, m) == m

UpsertMessage(old, m) == [old EXCEPT !.events = MergeEvents(@, m.events)]

UpsertMessages(wrappers) ==
  LET passed == UNION {{<<w.hash, k>> : k \in DOMAIN w.messages} : w \in Range(wrappers)}
      of(key) == CHOOSE w \in Range(wrappers) : w.hash = key[1] /\ key[2] \in DOMAIN w.messages
      new(key) == of(key).messages[key[2]]
  IN  [key \in passed \cup DOMAIN messages |->
         IF key \notin passed THEN messages[key]
         ELSE IF key \in DOMAIN messages THEN UpsertMessage(messages[key], new(key))
         ELSE new(key)]

-----------------------------------------------------------------------------
(* The transactions. *)

\* FirstOrCreate of a signature names no column: it creates a row only while
\* the table has none.
NewBlockSignatures(h) ==
  IF chain[h].signers = <<>> \/ \E g \in Heights : signatures[g] # {} THEN signatures
  ELSE [signatures EXCEPT ![h] = {Head(chain[h].signers)}]

IndexNewBlock(h, wrappers) ==
  LET unique == UniqueTxes(wrappers)
  IN  /\ flags' = [flags EXCEPT ![h] = @ \cup {"tx"}]
      /\ signatures' = NewBlockSignatures(h)
      /\ firstTip' \in (IF firstTip = NoTipRow /\ unique # {} THEN {w.tip : w \in unique}
                                                              ELSE {firstTip})
      /\ txes' = UpsertTxes(unique, firstTip')
      /\ messages' = UpsertMessages(wrappers)
      /\ addAddresses(wrappers)

\* The transaction fails after addAddresses.
RolledBack(wrappers) ==
  /\ addAddresses(wrappers)
  /\ UNCHANGED <<flags, signatures, txes, firstTip, messages>>

\* Variant: the signatures are written as in IndexNewBlock.
IndexBlockEventsFirstOrCreate(h) ==
  /\ flags' = [flags EXCEPT ![h] = @ \cup {"events"}]
  /\ signatures' = NewBlockSignatures(h)
  /\ UNCHANGED <<txes, firstTip, messages, addresses>>

IndexBlockEvents(h) ==
  /\ flags' = [flags EXCEPT ![h] = @ \cup {"events"}]
  /\ signatures' = [signatures EXCEPT ![h] = @ \cup Range(chain[h].signers)]
  /\ UNCHANGED <<txes, firstTip, messages, addresses>>

\* GetBlockByHeight(h).ID > 0.
BlockAlreadyIndexed(h) == "tx" \in flags[h]

\* The attribute rows of a transaction with where they stand: message, event and
\* attribute.  All three count from 1 here.
AttributeRows(hash) ==
  UNION {UNION {{[hash |-> hash, msg |-> k[2], event |-> e, attr |-> a,
                  msgType |-> messages[k].type, type |-> messages[k].events[e].type,
                  key |-> messages[k].events[e].attrs[a].key,
                  value |-> messages[k].events[e].attrs[a].value] :
                    a \in DOMAIN messages[k].events[e].attrs} :
                  e \in DOMAIN messages[k].events} :
           k \in {k \in DOMAIN messages : k[1] = hash}}

\* The order in which GetEvents returns them.
Before(e, f) ==
  \/ e.msg < f.msg
  \/ e.msg = f.msg /\ e.event < f.event
  \/ e.msg = f.msg /\ e.event = f.event /\ e.attr < f.attr
=============================================================================
