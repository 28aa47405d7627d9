------------------------------ MODULE TxParser ------------------------------
(***************************************************************************)
(* From a transaction of a block to what is written of it: the two parsers *)
(* of core/tx/parser.go and the processor they share.  ProcessRPCTXs takes *)
(* the answer of the transaction search, ProcessRPCBlockByHeightTXs the    *)
(* block and its results; what a transaction holds is the same in both.    *)
(*                                                                         *)
(* A transaction as the chain has it is a record:                          *)
(*   hash, code     code 0 is success                                      *)
(*   logs           whether the node reports events per message (ABCI      *)
(*                  logs, before SDK 0.50) or only for the transaction     *)
(*   msgs           sequence of messages, each with its type, whether the  *)
(*                  codec knows it (decodes), whether it passes            *)
(*                  ValidateBasic (valid), its signer and its events       *)
(*   infoSigners    addresses of the public keys in its auth info          *)
(*   payer          the fee payer, or None                                 *)
(*   fee            amount of its one fee coin                             *)
(*   tip            the tipper, or None                                    *)
(* An event is a type and a sequence of attributes with key and value, a   *)
(* value is a word and a number ("10uatom" is 10 of uatom).                *)
(* The bytes of a message are kept, as with flags.index-tx-message-raw:    *)
(* without it IndexNewBlock writes none.                                   *)
(* A filter is the set of message types it lets through, {} when there is  *)
(* none.  Messages count from 1 here and from 0 in the code.               *)
(***************************************************************************)
EXTENDS Ascending, Sequences, SequencesExt

None == "none"
Paths == {"search", "results"}

\* messageTypeShouldIndex: some filter matches, or there is none.
ShouldIndex(type, wanted) == wanted = {} \/ type \in wanted

Wanted(tx, wanted, i) == ShouldIndex(tx.msgs[i].type, wanted)

\* Variant: a message that is filtered out leaves no nil in its place.
SlotsClosedUp(tx, wanted) ==
  InOrder({i \in DOMAIN tx.msgs : Wanted(tx, wanted, i) /\ tx.msgs[i].decodes})

\* currMessages: for each slot the message it came from.  A message that is
\* filtered out leaves nil in its slot, one that does not decode leaves no slot.
Slots(tx, wanted) ==
  InOrder({i \in DOMAIN tx.msgs : Wanted(tx, wanted, i) => tx.msgs[i].decodes})

\* messagesRaw: the search parser appends the bytes before it finds that the
\* message does not decode, the other one after.
RawMessages(tx, wanted, path) ==
  LET of == IF path = "search" THEN [i \in DOMAIN tx.msgs |-> i] ELSE Slots(tx, wanted)
  IN  [k \in DOMAIN of |-> IF Wanted(tx, wanted, of[k]) THEN of[k] ELSE 0]

AllEvents(tx) == FlattenSeq([i \in DOMAIN tx.msgs |-> tx.msgs[i].events])

\* currLogMsgs: the events kept for message i of the transaction, under the
\* index i.  Without logs the search parser keeps none, and the other one
\* every event of the transaction for each message.
HasLog(tx, wanted, path, i) ==
  \/ ~Wanted(tx, wanted, i)
  \/ tx.msgs[i].decodes /\ (path = "search" => tx.logs /\ tx.code = 0)

LogEvents(tx, wanted, path, i) ==
  IF ~Wanted(tx, wanted, i) \/ tx.code # 0 THEN <<>>
  ELSE IF path = "search" \/ tx.logs THEN tx.msgs[i].events ELSE AllEvents(tx)

\* ProcessMessage with GetMessageLogForIndex: slot k has the type of its
\* message and the events logged under the index k.
ProcessMessage(tx, wanted, path, k) ==
  [type |-> tx.msgs[Slots(tx, wanted)[k]].type,
   events |-> IF HasLog(tx, wanted, path, k) THEN LogEvents(tx, wanted, path, k) ELSE <<>>]

\* ProcessTx: the messages to be written, by index; none when the transaction
\* failed.  raw is the message whose bytes are stored.
ProcessTx(tx, wanted, path) ==
  LET slots == Slots(tx, wanted)
      kept == {k \in DOMAIN slots : tx.code = 0 /\ Wanted(tx, wanted, slots[k])}
      raw == RawMessages(tx, wanted, path)
  IN  [k \in kept |->
         LET m == ProcessMessage(tx, wanted, path, k)
         IN  [type |-> m.type, raw |-> raw[k], events |-> m.events]]

\* Each address once, where it comes first.
Unique(addresses) ==
  FoldLeft(LAMBDA seen, a : IF Contains(seen, a) THEN seen ELSE Append(seen, a), <<>>, addresses)

\* ProcessSigners: the keys of the auth info, then the signers of the messages
\* that were kept (valid ones only, from block results), then the fee payer.
ProcessSigners(tx, wanted, path) ==
  LET kept == InOrder({i \in DOMAIN tx.msgs : /\ Wanted(tx, wanted, i)
                                              /\ tx.msgs[i].decodes
                                              /\ path = "search" \/ tx.msgs[i].valid})
  IN  Unique(tx.infoSigners
             \o [k \in DOMAIN kept |-> tx.msgs[kept[k]].signer]
             \o (IF tx.payer = None THEN <<>> ELSE <<tx.payer>>))

\* ProcessFees: zero coins are left out; the payer is the fee payer or else the
\* first signer.
ProcessFees(tx, signers) ==
  IF tx.fee = 0 THEN {}
  ELSE {[amount |-> tx.fee,
         payer |-> IF tx.payer # None THEN tx.payer
                   ELSE IF signers = <<>> THEN None ELSE signers[1]]}

\* What IndexNewBlock is given for one transaction of the block at height h.
\* The search parser leaves Data and Info out of the response it stores.
TxDBWrapper(tx, h, wanted, path) ==
  LET signers == ProcessSigners(tx, wanted, path)
  IN  [hash |-> tx.hash, code |-> tx.code, height |-> h, signers |-> Range(signers),
       fees |-> ProcessFees(tx, signers), tip |-> tx.tip, info |-> path = "results",
       messages |-> ProcessTx(tx, wanted, path)]
=============================================================================
