------------------------------ MODULE Aggregates ------------------------------
(***************************************************************************)
(* What is derived from a transaction once its block is written            *)
(* (doDBUpdates and the save functions of cmd/index.go): for each          *)
(* transaction of the block the DB worker starts a goroutine that reads    *)
(* the events of the transaction back and writes them to three tables      *)
(* that the queries of the server read.  The same tables are filled once   *)
(* from all rows by versions 4 and 5 of the migration                      *)
(* (db/local_migration.go), which runs beside.                             *)
(*                                                                         *)
(* A goroutine is a record: the pass that started it, the transaction with *)
(* the time of its block, and the table it writes next.  The loop over the *)
(* events that writes one table is one step.  Queries do not fail here.    *)
(***************************************************************************)
EXTENDS TxTables

CONSTANT MigrationFrom  \* for each chain the versions its database may be at

VARIABLES
  todo,         \* transactions the loop after IndexNewBlock has not come to
  goroutines,   \* the goroutines that have not ended
  delegates,    \* tx_delegate_aggregateds by hash
  eventVals,    \* tx_events_vals_aggregateds: [hash, msgType, value] -> time
  eventRows,    \* tx_events_aggregateds by the columns of its unique index
  migration     \* the next version of the migration

aggregates == <<todo, goroutines, delegates, eventVals, eventRows, migration>>

AggregatesInit ==
  /\ todo = <<>>
  /\ goroutines = {}
  /\ delegates = <<>>
  /\ eventVals = <<>>
  /\ eventRows = <<>>
  /\ migration \in MigrationFrom[chain]

-----------------------------------------------------------------------------
(* The rows of the three tables. *)

\* The last of some events, as a set of one, or {}.
LastOf(events) == {e \in events : \A f \in events : ~Before(e, f)}

The(S) == CHOOSE e \in S : TRUE

WordOf(S) == IF S = {} THEN None ELSE The(S).value.word

SeenBy(events, type, e) == \E f \in events : f.msgType = type /\ ~Before(e, f)

DelegateTypes == {"delegate", "undelegate"}

IsAmount(e) == e.type = "coin_received" /\ e.key = "amount"

\* isMsgDelegate is never reset, so what follows a delegation is added, too.
Amount(events) ==
  LET last == LastOf({e \in events : /\ IsAmount(e)
                                     /\ \E type \in DelegateTypes : SeenBy(events, type, e)})
  IN  IF last = {} THEN 0
      ELSE IF SeenBy(events, "delegate", The(last)) THEN The(last).value.n
      ELSE -The(last).value.n

\* INSERT ... ON CONFLICT DO NOTHING: where both have a key the row in the table
\* stays.
InsertNew(table, rows) ==
  [key \in DOMAIN table \cup DOMAIN rows |->
     IF key \in DOMAIN table THEN table[key] ELSE rows[key]]

\* saveAggregated: one row for a transaction, the type of its last event, the
\* last validator, amount and sender of all its messages.
DelegateRow(g) ==
  [type |-> The(LastOf(g.events)).msgType,
   validator |-> WordOf(LastOf({e \in g.events : e.key = "validator"})),
   amount |-> Amount(g.events),
   sender |-> WordOf(LastOf({e \in g.events : e.type = "coin_spent" /\ e.key = "spender"})),
   height |-> g.time, time |-> g.time]

\* ExtractNumber fails on an amount without digits, and the row is not saved.
Delegates(events) ==
  /\ \E e \in events : e.msgType \in DelegateTypes
  /\ \A e \in events : IsAmount(e) => e.value.n > 0

EventValsOf(hash, time, events) ==
  [key \in {[hash |-> hash, msgType |-> e.msgType, value |-> e.value] : e \in events} |-> time]

StraightKey(hash, e) ==
  [hash |-> hash, msgType |-> e.msgType, index1 |-> e.event, type |-> e.type,
   index2 |-> e.attr, key |-> e.key]

\* Variant: both indexes are that of the attribute.
KeyOfAttribute(hash, e) ==
  [hash |-> hash, msgType |-> e.msgType, index1 |-> e.attr, type |-> e.type,
   index2 |-> e.attr, key |-> e.key]

\* saveAggregatedEvents: message_type_index takes the index of the attribute
\* and message_event_attr_index that of the event.  The index of the message is
\* in neither.
SavedKey(hash, e) ==
  [hash |-> hash, msgType |-> e.msgType, index1 |-> e.attr, type |-> e.type,
   index2 |-> e.event, key |-> e.key]

\* ON CONFLICT DO NOTHING: of several events with one key the first stays.  keyOf
\* has the key of each event.
EventRowsOf(keyOf) ==
  LET events == DOMAIN keyOf
  IN  [k \in Range(keyOf) |->
         (CHOOSE e \in events : /\ keyOf[e] = k
                                /\ \A f \in events : keyOf[f] = k => ~Before(f, e)).value]

-----------------------------------------------------------------------------
(* The steps. *)

\* The loop over the transactions of the block just written.
StartLoop(wrappers, pass) ==
  todo' = [i \in DOMAIN wrappers |->
             [pass |-> pass, hash |-> wrappers[i].hash, time |-> wrappers[i].height]]

\* Variant: the goroutine closes over a variable of the loop, which has moved on,
\* instead of being passed the transaction.
SpawnWithLast ==
  /\ todo # <<>>
  /\ todo' = Tail(todo)
  /\ goroutines' = goroutines \cup
       {[pass |-> Last(todo).pass, hash |-> Last(todo).hash, time |-> Last(todo).time,
         at |-> "read", events |-> {}]}
  /\ UNCHANGED <<delegates, eventVals, eventRows, migration>>

Spawn ==
  /\ todo # <<>>
  /\ todo' = Tail(todo)
  /\ goroutines' = goroutines \cup
       {[pass |-> Head(todo).pass, hash |-> Head(todo).hash, time |-> Head(todo).time,
         at |-> "read", events |-> {}]}
  /\ UNCHANGED <<delegates, eventVals, eventRows, migration>>

Goto(g, at) == goroutines' = (goroutines \ {g}) \cup {[g EXCEPT !.at = at]}

\* GetEvents; without events none of the three tables is written.
ReadEvents(g) ==
  /\ g.at = "read"
  /\ LET events == AttributeRows(g.hash)
     IN  goroutines' = (goroutines \ {g}) \cup
           (IF events = {} THEN {} ELSE {[g EXCEPT !.at = "delegate", !.events = events]})
  /\ UNCHANGED <<todo, delegates, eventVals, eventRows, migration>>

SaveAggregated(g) ==
  /\ g.at = "delegate"
  /\ delegates' = (IF Delegates(g.events)
                   THEN InsertNew(delegates, [hash \in {g.hash} |-> DelegateRow(g)])
                   ELSE delegates)
  /\ Goto(g, "values")
  /\ UNCHANGED <<todo, eventVals, eventRows, migration>>

SaveAggregatedEventValues(g) ==
  /\ g.at = "values"
  /\ eventVals' = InsertNew(eventVals, EventValsOf(g.hash, g.time, g.events))
  /\ Goto(g, "events")
  /\ UNCHANGED <<todo, delegates, eventRows, migration>>

SaveAggregatedEvents(g) ==
  /\ g.at = "events"
  /\ eventRows' = InsertNew(eventRows,
                             EventRowsOf([e \in g.events |-> SavedKey(g.hash, e)]))
  /\ goroutines' = goroutines \ {g}
  /\ UNCHANGED <<todo, delegates, eventVals, migration>>

\* The statement goes through all transactions; rows is what it makes of each,
\* and their keys have the hash.
MergedOver(rows) ==
  [key \in UNION {DOMAIN rows[hash] : hash \in DOMAIN rows} |-> rows[key.hash][key]]

TxEventsValsMigration ==
  /\ migration = 4
  /\ migration' = 5
  /\ eventVals' = InsertNew(eventVals,
       MergedOver([hash \in DOMAIN txes |->
         EventValsOf(hash, txes[hash].time, AttributeRows(hash))]))
  /\ UNCHANGED <<todo, goroutines, delegates, eventRows>>

TxEventsMigration ==
  /\ migration = 5
  /\ migration' = 6
  /\ eventRows' = InsertNew(eventRows,
       MergedOver([hash \in DOMAIN txes |->
         EventRowsOf([e \in AttributeRows(hash) |-> StraightKey(hash, e)])]))
  /\ UNCHANGED <<todo, goroutines, delegates, eventVals>>

\* The loop and the goroutines die with the process.
LoseGoroutines ==
  /\ todo' = <<>>
  /\ goroutines' = {}
  /\ UNCHANGED <<delegates, eventVals, eventRows, migration>>
=============================================================================
