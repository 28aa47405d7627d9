---------------------------- MODULE Announcements ----------------------------
(***************************************************************************)
(* What follows a block that has been parsed or written: its entry in the  *)
(* list of latest blocks and latest transactions (Redis lists), and its    *)
(* hash in the search index (a MongoDB collection), which consumers fill   *)
(* from Redis pub/sub while LocalMigrator drops and refills it from        *)
(* PostgreSQL.  The parser and the DB worker are those of IndexerPipeline, *)
(* reduced to what they announce and when.                                 *)
(*                                                                         *)
(* Blocks and transactions are announced alike, so most variables are      *)
(* functions of the kind.  A block has at most one transaction here, so a  *)
(* height stands for the hash of either.                                   *)
(***************************************************************************)
EXTENDS Integers, FiniteSets, Sequences, SequencesExt

CONSTANTS
  MaxHeight,      \* bound of the model: blocks 1 .. MaxHeight
  HasTxs,         \* heights of blocks with a transaction
  OldEntries,     \* entries of older blocks on each list at the start
  ListSize,       \* maxTransactionsCacheSize and maxBlocksCacheSize, 50
  MayFail,        \* whether PUBLISH and writes to MongoDB may fail
  MaxCrashes      \* bound of the model on crashes

Heights == 1 .. MaxHeight
Kinds == {"block", "transaction"}
Writers == Kinds \cup {"migrator"}

ASSUME AnnouncementsAssumption ==
  /\ MaxHeight \in Nat \ {0}
  /\ HasTxs \subseteq Heights
  /\ OldEntries \in Nat
  /\ ListSize \in Nat \ {0}
  /\ MayFail \in BOOLEAN
  /\ MaxCrashes \in Nat

VARIABLES
  crashes,
  \* PostgreSQL: hashes of each kind that a query can see
  rows,
  \* parser and DB worker
  todo,        \* heights still to be parsed
  prs,         \* parser: height and step
  txChan,      \* heights on txDataChan
  wr,          \* DB worker: height and step
  latest,      \* c/latest_blocks and c/latest_transactions, newest first
  pushed,      \* history: what was pushed on them, oldest first
  \* search index
  subscribed,
  topic,       \* published and not yet received
  docs,        \* the collection: hash, type, block_height and a copy number
  uniqueIndex, \* whether idx_txhash_type exists
  adding,      \* for each writer the AddHash in progress
  version,     \* the last migration that completed
  migPc,       \* where the migration to version + 1 is
  toCopy,      \* hashes its query returned and it has not yet added
  lost         \* history: announcements nobody will act on, kind and height

dbVars     == <<rows, todo, prs, txChan, wr>>
listVars   == <<latest, pushed>>
topicVars  == <<subscribed, topic>>
docVars    == <<docs, uniqueIndex, adding>>
migVars    == <<version, migPc, toCopy>>
vars == <<crashes, dbVars, listVars, topicVars, docVars, migVars, lost>>

Idle == [h |-> 1, step |-> "idle"]
NoAdd == [h |-> 1, type |-> "block", height |-> 0, step |-> "idle", seen |-> FALSE]

\* LTRIM key 0 ListSize: both ends are inclusive, so one more than ListSize stays.
Trim(list) == SubSeq(list, 1, IF Len(list) <= ListSize THEN Len(list) ELSE ListSize + 1)

Init ==
  /\ crashes = 0
  /\ rows = [k \in Kinds |-> {}]
  /\ todo = Heights
  /\ prs = Idle /\ wr = Idle
  /\ txChan = <<>>
  /\ pushed = [k \in Kinds |-> [i \in 1 .. OldEntries |-> i - OldEntries]]
  /\ latest = [k \in Kinds |-> Trim(Reverse(pushed[k]))]
  /\ subscribed = [k \in Kinds |-> FALSE]
  /\ topic = [k \in Kinds |-> <<>>]
  /\ version = 0 /\ migPc = "idle" /\ toCopy = {}
  /\ docs = {} /\ uniqueIndex = FALSE
  /\ adding = [w \in Writers |-> NoAdd]
  /\ lost = {}

-----------------------------------------------------------------------------
(* The parser sends a block to the DB worker, then to the list of latest   *)
(* blocks, and then publishes it.                                          *)

\* processBlocks.  Blocks whose row comes from IndexBlockEvents, and those
\* that end in failed_blocks, are announced the same way and left out.
ParseBlock(h) ==
  /\ prs.step = "idle"
  /\ h \in todo
  /\ todo' = todo \ {h}
  /\ txChan' = Append(txChan, h)
  /\ prs' = [h |-> h, step |-> "announce"]
  /\ UNCHANGED <<crashes, rows, wr, listVars, topicVars, docVars, migVars, lost>>

\* Variant: a list that is already full takes no new entry.
AddEntryWhenFull(k, h) ==
  LET list == IF Len(latest[k]) > ListSize THEN latest[k] ELSE <<h>> \o latest[k]
  IN  /\ latest' = [latest EXCEPT ![k] = list]
      /\ pushed' = [pushed EXCEPT ![k] = Append(@, h)]

\* AddBlock and AddTransaction, LPUSH and then LTRIM, by the one consumer of
\* the channel the entry is sent on.  Nothing else reads the channel, so the
\* send and the two commands are one step; either command may fail or be cut
\* off by a crash, and an entry that is still in the channel then is lost.
AddEntry(k, h) ==
  LET list == <<h>> \o latest[k]
  IN  \/ /\ \/ latest' = [latest EXCEPT ![k] = Trim(list)]
            \/ MayFail /\ latest' = [latest EXCEPT ![k] = list]
         /\ pushed' = [pushed EXCEPT ![k] = Append(@, h)]
      \/ MayFail /\ UNCHANGED listVars

\* PUBLISH reaches the subscribers of the moment and fails silently.
Publish(k, h) ==
  \/ /\ subscribed[k]
     /\ topic' = [topic EXCEPT ![k] = Append(@, h)]
     /\ UNCHANGED <<subscribed, lost>>
  \/ /\ MayFail \/ ~subscribed[k]
     /\ lost' = lost \cup {<<k, h>>}
     /\ UNCHANGED topicVars

\* The list and the topic of the block; PublishBlock comes second.
AnnounceBlock ==
  /\ prs.step = "announce"
  /\ AddEntry("block", prs.h)
  /\ Publish("block", prs.h)
  /\ prs' = Idle
  /\ UNCHANGED <<crashes, rows, todo, txChan, wr, docVars, migVars>>

Parser == (\E h \in Heights : ParseBlock(h)) \/ AnnounceBlock

-----------------------------------------------------------------------------
(* The DB worker commits, and then lists and publishes each transaction.   *)

WriteTxs ==
  /\ wr.step = "idle"
  /\ txChan # <<>>
  /\ txChan' = Tail(txChan)
  /\ LET h == Head(txChan)
     IN  /\ rows' = [k \in Kinds |-> rows[k] \cup (IF k = "block" \/ h \in HasTxs THEN {h} ELSE {})]
         /\ wr' = IF h \in HasTxs THEN [h |-> h, step |-> "announce"] ELSE Idle
  /\ UNCHANGED <<crashes, todo, prs, listVars, topicVars, docVars, migVars, lost>>

AnnounceTx ==
  /\ wr.step = "announce"
  /\ AddEntry("transaction", wr.h)
  /\ Publish("transaction", wr.h)
  /\ wr' = Idle
  /\ UNCHANGED <<crashes, rows, todo, prs, txChan, docVars, migVars>>

DBWriter == WriteTxs \/ AnnounceTx

-----------------------------------------------------------------------------
(* AddHash: an upsert by hash and type.  MongoDB looks for a document and  *)
(* then updates or inserts; only a unique index keeps two writers that     *)
(* both found none from both inserting.                                    *)

docFrame == <<crashes, dbVars, listVars>>

StartAdd(w, h, k, height) ==
  /\ adding[w].step = "idle"
  /\ adding' = [adding EXCEPT ![w] =
       [h |-> h, type |-> k, height |-> height, step |-> "find", seen |-> FALSE]]
  /\ UNCHANGED <<docs, uniqueIndex>>

Found(a) == {d \in docs : d.hash = a.h /\ d.type = a.type}

AddFind(w) ==
  /\ adding[w].step = "find"
  /\ adding' = [adding EXCEPT ![w].step = "write", ![w].seen = Found(adding[w]) # {}]
  /\ UNCHANGED <<docFrame, topicVars, migVars, lost, docs, uniqueIndex>>

\* Variant: the unique index does not refuse the second insert.
AddInsertBlind(w) ==
  LET a == adding[w]
  IN  /\ a.step = "write" /\ ~a.seen
      /\ docs' = docs \cup {[hash |-> a.h, type |-> a.type, height |-> a.height,
                             n |-> Cardinality(Found(a)) + 1]}
      /\ adding' = [adding EXCEPT ![w] = NoAdd]
      /\ UNCHANGED <<docFrame, topicVars, migVars, lost, uniqueIndex>>

AddInsert(w) ==
  LET a == adding[w]
  IN  /\ a.step = "write"
      /\ Found(a) = {} \/ (~a.seen /\ ~uniqueIndex)
      /\ docs' = docs \cup {[hash |-> a.h, type |-> a.type, height |-> a.height,
                             n |-> Cardinality(Found(a)) + 1]}
      /\ adding' = [adding EXCEPT ![w] = NoAdd]
      /\ UNCHANGED <<docFrame, topicVars, migVars, lost, uniqueIndex>>

AddUpdate(w) ==
  LET a == adding[w]
  IN  /\ a.step = "write"
      /\ a.seen \/ uniqueIndex
      /\ \E d \in Found(a) : docs' = (docs \ {d}) \cup {[d EXCEPT !.height = a.height]}
      /\ adding' = [adding EXCEPT ![w] = NoAdd]
      /\ UNCHANGED <<docFrame, topicVars, migVars, lost, uniqueIndex>>

\* The error is logged.
AddFails(w) ==
  /\ MayFail
  /\ adding[w].step = "write"
  /\ lost' = lost \cup {<<adding[w].type, adding[w].h>>}
  /\ adding' = [adding EXCEPT ![w] = NoAdd]
  /\ UNCHANGED <<docFrame, topicVars, migVars, docs, uniqueIndex>>

AddHash(w) == AddFind(w) \/ AddInsert(w) \/ AddUpdate(w) \/ AddFails(w)

\* SearchBlocksConsumer and SearchTxConsumer.
Subscribe(k) ==
  /\ ~subscribed[k]
  /\ subscribed' = [subscribed EXCEPT ![k] = TRUE]
  /\ UNCHANGED <<docFrame, topic, docVars, migVars, lost>>

Consume(k) ==
  /\ topic[k] # <<>>
  /\ StartAdd(k, Head(topic[k]), k, Head(topic[k]))
  /\ topic' = [topic EXCEPT ![k] = Tail(@)]
  /\ UNCHANGED <<docFrame, subscribed, migVars, lost>>

-----------------------------------------------------------------------------
(* LocalMigrator: versions 1 to 3 of the search collection.  Versions 4    *)
(* and 5 fill tables of PostgreSQL (Aggregates).  The library runs each    *)
(* migration above the stored version and stores the version after         *)
(* it.                                                                     *)

migFrame == <<docFrame, topicVars, lost>>

\* Variant: the version stored is the next to run.
MigrateDoneNext(v) ==
  /\ version' = v + 1
  /\ migPc' = "idle"
  /\ toCopy' = {}

MigrateDone(v) ==
  /\ version' = v
  /\ migPc' = "idle"
  /\ toCopy' = {}

\* Version 1: drop, and then a unique index.
DropForIndex ==
  /\ version = 0 /\ migPc = "idle"
  /\ docs' = {} /\ uniqueIndex' = FALSE
  /\ migPc' = "index"
  /\ UNCHANGED <<migFrame, adding, version, toCopy>>

CreateIndex ==
  /\ migPc = "index"
  /\ uniqueIndex' = TRUE
  /\ MigrateDone(1)
  /\ UNCHANGED <<migFrame, docs, adding>>

\* Variant: version 3 copies blocks only.
QueryTxsOnce ==
  /\ \/ version = 1 /\ migPc = "idle"
     \/ version = 2 /\ migPc = "dropped"
  /\ toCopy' = IF version = 1 THEN rows["transaction"] ELSE {}
  /\ migPc' = "transaction"
  /\ UNCHANGED <<migFrame, docVars, version>>

\* Version 2 starts with its first query, version 3 with the drop.
QueryTxs ==
  /\ \/ version = 1 /\ migPc = "idle"
     \/ version = 2 /\ migPc = "dropped"
  /\ toCopy' = rows["transaction"]
  /\ migPc' = "transaction"
  /\ UNCHANGED <<migFrame, docVars, version>>

\* Variant: version 3 queries the transactions before it drops the collection.
DropAndQueryEarly ==
  /\ version = 2 /\ migPc \in {"idle", "early"}
  /\ IF migPc = "idle"
     THEN toCopy' = rows["transaction"] /\ migPc' = "early" /\ UNCHANGED <<docs, uniqueIndex>>
     ELSE docs' = {} /\ uniqueIndex' = FALSE /\ migPc' = "transaction" /\ UNCHANGED toCopy
  /\ UNCHANGED <<migFrame, adding, version>>

\* Version 3 drops the collection, and the index with it; it goes on when the
\* drop fails.
DropForHeights ==
  /\ version = 2 /\ migPc = "idle"
  /\ \/ docs' = {} /\ uniqueIndex' = FALSE
     \/ MayFail /\ UNCHANGED <<docs, uniqueIndex>>
  /\ migPc' = "dropped"
  /\ UNCHANGED <<migFrame, adding, version, toCopy>>

\* Variant: version 3 leaves the heights of blocks out, as version 2 does.
HeightOfNone(k, h) == 0

\* Only blocks get their height, and only in version 3.
HeightOf(k, h) == IF version = 2 /\ k = "block" THEN h ELSE 0

CopyHash(h) ==
  /\ migPc \in Kinds
  /\ h \in toCopy
  /\ StartAdd("migrator", h, migPc, HeightOf(migPc, h))
  /\ toCopy' = toCopy \ {h}
  /\ UNCHANGED <<migFrame, version, migPc>>

QueryBlocks ==
  /\ migPc = "transaction" /\ toCopy = {}
  /\ adding["migrator"].step = "idle"
  /\ toCopy' = rows["block"]
  /\ migPc' = "block"
  /\ UNCHANGED <<migFrame, docVars, version>>

CopiesDone ==
  /\ migPc = "block" /\ toCopy = {}
  /\ adding["migrator"].step = "idle"
  /\ MigrateDone(version + 1)
  /\ UNCHANGED <<migFrame, docVars>>

Migrate ==
  \/ DropForIndex \/ CreateIndex
  \/ QueryTxs \/ DropForHeights
  \/ (\E h \in Heights : CopyHash(h)) \/ QueryBlocks \/ CopiesDone

-----------------------------------------------------------------------------
(* The process dies and is started again: what was announced and not yet   *)
(* acted on is lost, and so is what was parsed and not yet committed,      *)
(* which a later run parses again.  An AddHash that has reached MongoDB    *)
(* is counted as lost, whether it took effect or not.                      *)

InFlight(k) ==
  Range(topic[k])
  \cup {a.h : a \in {x \in {adding[w] : w \in Writers} : x.step # "idle" /\ x.type = k}}
  \cup (IF k = "block" /\ prs.step # "idle" THEN {prs.h} ELSE {})
  \cup (IF k = "transaction" /\ wr.step # "idle" THEN {wr.h} ELSE {})

CrashAndRestart ==
  /\ crashes < MaxCrashes
  /\ crashes' = crashes + 1
  /\ todo' = (Heights \ rows["block"]) \cup (HasTxs \ rows["transaction"])
  /\ prs' = Idle /\ wr' = Idle /\ txChan' = <<>>
  /\ subscribed' = [k \in Kinds |-> FALSE]
  /\ topic' = [k \in Kinds |-> <<>>]
  /\ adding' = [w \in Writers |-> NoAdd]
  /\ migPc' = "idle" /\ toCopy' = {}
  /\ lost' = lost \cup {p \in Kinds \X Heights : p[2] \in InFlight(p[1])}
  /\ UNCHANGED <<rows, latest, pushed, docs, uniqueIndex, version>>

-----------------------------------------------------------------------------
(* GetBlocks and GetTransactions of the cache: LRANGE start (start+stop)-1 *)
(* with stop cut to ListSize; Redis counts an end of -1 from the tail.     *)

\* Variant: the inclusive end of LRANGE is forgotten.
PageTooLong(list, start, stop) ==
  LET n == IF stop > ListSize THEN ListSize ELSE stop
  IN  SubSeq(list, start + 1, IF start + n + 1 > Len(list) THEN Len(list) ELSE start + n + 1)

Page(list, start, stop) ==
  LET n == IF stop > ListSize THEN ListSize ELSE stop
  IN  IF start + n = 0 THEN list
      ELSE SubSeq(list, start + 1, IF start + n > Len(list) THEN Len(list) ELSE start + n)

-----------------------------------------------------------------------------
Next ==
  \/ Parser \/ DBWriter
  \/ \E k \in Kinds : Subscribe(k) \/ Consume(k)
  \/ \E w \in Writers : AddHash(w)
  \/ Migrate
  \/ CrashAndRestart

Spec == Init /\ [][Next]_vars

\* The DB worker, the consumer and the migration go on when they can: none of
\* them waits for a lock or for its turn, and a call to MongoDB returns.
Fairness ==
  /\ WF_vars(DBWriter) /\ WF_vars(Migrate)
  /\ WF_vars(Consume("transaction"))
  /\ WF_vars(AddHash("transaction")) /\ WF_vars(AddHash("migrator"))

FairSpec == Spec /\ Fairness

-----------------------------------------------------------------------------
(* Correctness.                                                            *)

Prefix(list, n) == SubSeq(list, 1, IF n > Len(list) THEN Len(list) ELSE n)

\* Variables hold values the program can produce.
TypeOK ==
  /\ crashes \in 0 .. MaxCrashes
  /\ rows \in [Kinds -> SUBSET Heights] /\ todo \subseteq Heights
  /\ prs \in [h : Heights, step : {"idle", "announce"}]
  /\ wr \in [h : HasTxs \cup {1}, step : {"idle", "announce"}]
  /\ txChan \in Seq(Heights)
  /\ {latest, pushed} \subseteq [Kinds -> Seq(1 - OldEntries .. MaxHeight)]
  /\ topic \in [Kinds -> Seq(Heights)]
  /\ subscribed \in [Kinds -> BOOLEAN]
  /\ docs \subseteq [hash : Heights, type : Kinds, height : 0 .. MaxHeight, n : Nat]
  /\ adding \in [Writers -> [h : Heights, type : Kinds, height : 0 .. MaxHeight,
                             step : {"idle", "find", "write"}, seen : BOOLEAN]]
  /\ version \in 0 .. 3 /\ uniqueIndex \in BOOLEAN
  /\ migPc \in {"idle", "index", "dropped"} \cup Kinds /\ toCopy \subseteq Heights
  /\ lost \subseteq Kinds \X Heights

\* cache.go, AddBlock and AddTransaction: whatever fails or crashes between a
\* push and its trim, a list holds the newest entries without a gap, newest
\* first, and never fewer than ListSize of those that were pushed.
LatestIsNewest ==
  \A k \in Kinds :
    /\ IsPrefix(latest[k], Reverse(pushed[k]))
    /\ Len(latest[k]) >= Len(Prefix(pushed[k], ListSize))

\* cache.go, GetBlocks and GetTransactions: following the pages with any limit
\* up to ListSize returns every entry of the list once and in order, although
\* the list holds more than ListSize.
PagesTile ==
  \A k \in Kinds, limit \in 1 .. ListSize :
    FlattenSeq([i \in 1 .. Len(latest[k]) |-> Page(latest[k], (i - 1) * limit, limit)]) = latest[k]

\* Hashes of kind k that the migration has still to query or to add.
StillToCopy(k) ==
  IF \/ version = 0
     \/ version \in {1, 2} /\ migPc \in {"idle", "dropped"}
     \/ version \in {1, 2} /\ migPc = "transaction" /\ k = "block"
  THEN Heights
  ELSE IF migPc = k THEN toCopy ELSE {}

DocsOf(k) == {d.hash : d \in {x \in docs : x.type = k}}

\* index.go:967-1006 and local_migration.go: a transaction that a client can
\* read from PostgreSQL is in the search index, or on its way there by the
\* topic or the migration, or its announcement was lost.  Commit, publish,
\* drop, query and copy interleave, so it holds only because the DB worker
\* commits before it publishes and version 3 drops before it queries.
CommittedTxsSearchable ==
  rows["transaction"] \subseteq
    DocsOf("transaction") \cup InFlight("transaction") \cup StillToCopy("transaction")
    \cup {h \in Heights : <<"transaction", h>> \in lost}

\* search.go, AddHash under version 1's index: while the index exists two
\* writers that look for the same hash at once do not both insert it.
UniqueWhileIndexed ==
  uniqueIndex => \A d, e \in docs : (d.hash = e.hash /\ d.type = e.type) => d = e

\* local_migration.go, version 3: once it has completed, every block in the
\* index that was not lost has its height, whichever of the consumer, version
\* 2 and version 3 wrote the hash first.
BlocksHaveHeights ==
  version = 3 =>
    \A d \in docs : d.type = "block" => d.height = d.hash \/ <<"block", d.hash>> \in lost

\* A committed transaction is at last in the index to stay, whatever the
\* migration drops meanwhile, or its announcement was lost.
CommittedTxsFound ==
  \A h \in HasTxs :
    h \in rows["transaction"] ~> [](h \in DocsOf("transaction") \/ <<"transaction", h>> \in lost)
=============================================================================
