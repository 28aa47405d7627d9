------------------------- MODULE AnnouncementsProofs -------------------------
(***************************************************************************)
(* Theorems about Announcements, for every chain height, every length of   *)
(* the lists, and any number of crashes: committed transactions stay       *)
(* searchable, the index of version 1 keeps hashes unique, version 3       *)
(* leaves every block its height, and the lists of the cache are the       *)
(* newest entries, which their pages tile.                                 *)
(***************************************************************************)
EXTENDS Announcements, CommonLemmas, FiniteSetTheorems, TLAPS

-----------------------------------------------------------------------------
(* Types.                                                                  *)

\* A copy number counts documents, so there are finitely many.
TypeInv == TypeOK /\ IsFiniteSet(docs)

Entries == 1 - OldEntries .. MaxHeight

\* A start value of the model is a height: the chain has a first block.
LEMMA Constants ==
  /\ MaxHeight \in Nat \ {0} /\ OldEntries \in Nat /\ ListSize \in Nat \ {0}
  /\ 1 \in Heights /\ Heights \subseteq Entries
  /\ HasTxs \subseteq Heights /\ MaxCrashes \in Nat
  BY AnnouncementsAssumption DEF AnnouncementsAssumption, Heights, Entries

\* LTRIM leaves a list.
LEMMA TrimType ==
  ASSUME NEW list \in Seq(Entries)
  PROVE  Trim(list) \in Seq(Entries)
<1>1. Len(list) \in Nat /\ ListSize \in Nat
  BY Constants
<1>2. CASE Len(list) <= ListSize
  BY <1>1, <1>2 DEF Trim
<1>3. CASE ~(Len(list) <= ListSize)
  <2>1. ListSize + 1 \in Nat /\ ListSize + 1 <= Len(list)
    BY <1>1, <1>3
  <2>2. Trim(list) = SubSeq(list, 1, ListSize + 1)
    BY <1>3 DEF Trim
  <2> QED
    BY <2>1, <2>2, RangePrefix
<1> QED
  BY <1>2, <1>3

\* A push leaves two lists.
LEMMA AddEntryType ==
  ASSUME TypeInv, NEW k \in Kinds, NEW h \in Heights, AddEntry(k, h)
  PROVE  {latest, pushed}' \subseteq [Kinds -> Seq(Entries)]
<1>1. /\ latest \in [Kinds -> Seq(Entries)] /\ pushed \in [Kinds -> Seq(Entries)]
      /\ h \in Entries
  BY Constants DEF TypeInv, TypeOK, Entries
<1>2. <<h>> \o latest[k] \in Seq(Entries) /\ Append(pushed[k], h) \in Seq(Entries)
  BY <1>1
<1>3. Trim(<<h>> \o latest[k]) \in Seq(Entries)
  BY <1>2, TrimType
<1>4. CASE UNCHANGED listVars
  BY <1>1, <1>4 DEF listVars
<1>5. ASSUME NEW new \in Seq(Entries), latest' = [latest EXCEPT ![k] = new],
             pushed' = [pushed EXCEPT ![k] = Append(@, h)]
      PROVE  {latest, pushed}' \subseteq [Kinds -> Seq(Entries)]
  <2>1. latest' \in [Kinds -> Seq(Entries)]
    BY <1>1, <1>5
  <2>2. pushed' \in [Kinds -> Seq(Entries)]
    BY <1>1, <1>2, <1>5
  <2> QED
    BY <2>1, <2>2
<1>6. CASE /\ latest' = [latest EXCEPT ![k] = Trim(<<h>> \o latest[k])]
           /\ pushed' = [pushed EXCEPT ![k] = Append(@, h)]
  BY ONLY <1>3, <1>5, <1>6
<1>7. CASE /\ latest' = [latest EXCEPT ![k] = <<h>> \o latest[k]]
           /\ pushed' = [pushed EXCEPT ![k] = Append(@, h)]
  BY ONLY <1>2, <1>5, <1>7
<1> QED
  BY ONLY AddEntry(k, h), <1>4, <1>6, <1>7 DEF AddEntry

\* A publication leaves two topics.
LEMMA PublishType ==
  ASSUME TypeInv, NEW k \in Kinds, NEW h \in Heights, Publish(k, h)
  PROVE  /\ topic' \in [Kinds -> Seq(Heights)] /\ subscribed' = subscribed
         /\ lost' \subseteq Kinds \X Heights
<1>1. /\ topic \in [Kinds -> Seq(Heights)] /\ lost \subseteq Kinds \X Heights
      /\ <<k, h>> \in Kinds \X Heights
  BY DEF TypeInv, TypeOK
<1>2. Append(topic[k], h) \in Seq(Heights)
  BY <1>1
<1>3. CASE topic' = [topic EXCEPT ![k] = Append(@, h)] /\ UNCHANGED <<subscribed, lost>>
  BY <1>1, <1>2, <1>3
<1>4. CASE lost' = lost \cup {<<k, h>>} /\ UNCHANGED topicVars
  BY <1>1, <1>4 DEF topicVars
<1> QED
  BY ONLY Publish(k, h), <1>3, <1>4 DEF Publish

\* Everything is empty, idle or as long as OldEntries.
LEMMA InitType == Init => TypeInv
<1> SUFFICES ASSUME Init PROVE TypeInv
  OBVIOUS
<1>1. [i \in 1 .. OldEntries |-> i - OldEntries] \in Seq(Entries)
  <2>1. \A i \in 1 .. OldEntries : i - OldEntries \in Entries
    BY Constants DEF Entries
  <2> QED
    BY <2>1, Constants
<1>2. ASSUME NEW s \in Seq(Entries) PROVE Reverse(s) \in Seq(Entries)
  <2>1. \A i \in 1 .. Len(s) : s[Len(s) - i + 1] \in Entries
    OBVIOUS
  <2> QED
    BY <2>1 DEF Reverse
<1>3. {latest, pushed} \subseteq [Kinds -> Seq(Entries)]
  <2>1. pushed \in [Kinds -> Seq(Entries)]
    BY <1>1 DEF Init
  <2>2. \A k \in Kinds : Trim(Reverse(pushed[k])) \in Seq(Entries)
    BY <2>1, <1>2, TrimType
  <2> QED
    BY <2>1, <2>2 DEF Init
<1>4. IsFiniteSet(docs)
  BY FS_EmptySet DEF Init
<1>5. /\ rows \in [Kinds -> SUBSET Heights] /\ subscribed \in [Kinds -> BOOLEAN]
      /\ txChan \in Seq(Heights) /\ topic \in [Kinds -> Seq(Heights)]
  BY DEF Init
<1>6. /\ prs \in [h : Heights, step : {"idle", "announce"}]
      /\ wr \in [h : HasTxs \cup {1}, step : {"idle", "announce"}]
  BY Constants DEF Init, Idle
<1>7. NoAdd \in [h : Heights, type : Kinds, height : 0 .. MaxHeight,
                 step : {"idle", "find", "write"}, seen : BOOLEAN]
  BY Constants DEF NoAdd, Kinds
<1>8. /\ crashes = 0 /\ version = 0 /\ todo = Heights
      /\ migPc = "idle" /\ toCopy = {} /\ docs = {} /\ lost = {} /\ uniqueIndex = FALSE
      /\ adding = [w \in Writers |-> NoAdd]
  BY DEF Init
<1>9. 0 \in 0 .. MaxCrashes /\ 0 \in 0 .. 3
  BY Constants
<1> QED
  BY <1>3, <1>4, <1>5, <1>6, <1>7, <1>8, <1>9 DEF TypeInv, TypeOK, Entries

(* One lemma for each part of the next-state relation. *)

AddRecords ==
  [h : Heights, type : Kinds, height : 0 .. MaxHeight,
   step : {"idle", "find", "write"}, seen : BOOLEAN]

DocRecords == [hash : Heights, type : Kinds, height : 0 .. MaxHeight, n : Nat]

\* The record of a writer that adds nothing is of the type.
LEMMA NoAddType == NoAdd \in AddRecords
  BY Constants DEF NoAdd, AddRecords, Kinds

\* Parsing and announcing a block.
LEMMA ParserType ==
  ASSUME TypeInv, Parser
  PROVE  TypeInv'
<1>1. ASSUME NEW h \in Heights, ParseBlock(h) PROVE TypeInv'
  <2>1. /\ txChan \in Seq(Heights) /\ todo \subseteq Heights
    BY DEF TypeInv, TypeOK
  <2>2. txChan' \in Seq(Heights) /\ todo' \subseteq Heights
    BY <1>1, <2>1 DEF ParseBlock
  <2>3. prs' \in [h : Heights, step : {"idle", "announce"}]
    BY <1>1 DEF ParseBlock
  <2>4. UNCHANGED <<crashes, rows, wr, listVars, topicVars, docVars, migVars, lost>>
    BY <1>1 DEF ParseBlock
  <2> QED
    BY <2>2, <2>3, <2>4 DEF TypeInv, TypeOK, listVars, topicVars, docVars, migVars
<1>2. ASSUME AnnounceBlock PROVE TypeInv'
  <2>1. prs.h \in Heights /\ "block" \in Kinds
    BY DEF TypeInv, TypeOK, Kinds
  <2>2. AddEntry("block", prs.h) /\ Publish("block", prs.h)
    BY <1>2 DEF AnnounceBlock
  <2>3. {latest, pushed}' \subseteq [Kinds -> Seq(Entries)]
    BY <2>1, <2>2, AddEntryType
  <2>4. /\ topic' \in [Kinds -> Seq(Heights)] /\ subscribed' = subscribed
        /\ lost' \subseteq Kinds \X Heights
    BY <2>1, <2>2, PublishType
  <2>5. prs' \in [h : Heights, step : {"idle", "announce"}]
    BY <1>2, Constants DEF AnnounceBlock, Idle
  <2>6. UNCHANGED <<crashes, rows, todo, txChan, wr, docVars, migVars>>
    BY <1>2 DEF AnnounceBlock
  <2> QED
    BY <2>3, <2>4, <2>5, <2>6 DEF TypeInv, TypeOK, docVars, migVars, Entries
<1> QED
  BY <1>1, <1>2 DEF Parser

\* Committing and announcing transactions.
LEMMA DBWriterType ==
  ASSUME TypeInv, DBWriter
  PROVE  TypeInv'
<1>1. ASSUME WriteTxs PROVE TypeInv'
  <2>1. txChan \in Seq(Heights) /\ txChan # <<>> /\ rows \in [Kinds -> SUBSET Heights]
    BY <1>1 DEF TypeInv, TypeOK, WriteTxs
  <2>2. Head(txChan) \in Heights /\ Tail(txChan) \in Seq(Heights)
    BY <2>1, RangeTail
  <2>3. rows' \in [Kinds -> SUBSET Heights]
    BY <1>1, <2>1, <2>2 DEF WriteTxs
  <2>4. wr' \in [h : HasTxs \cup {1}, step : {"idle", "announce"}]
    BY <1>1 DEF WriteTxs, Idle
  <2>5. /\ txChan' = Tail(txChan)
        /\ UNCHANGED <<crashes, todo, prs, listVars, topicVars, docVars, migVars, lost>>
    BY <1>1 DEF WriteTxs
  <2> QED
    BY <2>2, <2>3, <2>4, <2>5 DEF TypeInv, TypeOK, listVars, topicVars, docVars, migVars
<1>2. ASSUME AnnounceTx PROVE TypeInv'
  <2>1. wr.h \in Heights /\ "transaction" \in Kinds
    BY Constants DEF TypeInv, TypeOK, Kinds
  <2>2. AddEntry("transaction", wr.h) /\ Publish("transaction", wr.h)
    BY <1>2 DEF AnnounceTx
  <2>3. {latest, pushed}' \subseteq [Kinds -> Seq(Entries)]
    BY <2>1, <2>2, AddEntryType
  <2>4. /\ topic' \in [Kinds -> Seq(Heights)] /\ subscribed' = subscribed
        /\ lost' \subseteq Kinds \X Heights
    BY <2>1, <2>2, PublishType
  <2>5. wr' \in [h : HasTxs \cup {1}, step : {"idle", "announce"}]
    BY <1>2 DEF AnnounceTx, Idle
  <2>6. UNCHANGED <<crashes, rows, todo, prs, txChan, docVars, migVars>>
    BY <1>2 DEF AnnounceTx
  <2> QED
    BY <2>3, <2>4, <2>5, <2>6 DEF TypeInv, TypeOK, docVars, migVars, Entries
<1> QED
  BY <1>1, <1>2 DEF DBWriter

\* What a write to the index changes, and what it may not.
LEMMA DocsType ==
  ASSUME TypeInv,
         adding' \in [Writers -> AddRecords],
         docs' \subseteq DocRecords, IsFiniteSet(docs)',
         uniqueIndex' \in BOOLEAN, lost' \subseteq Kinds \X Heights,
         UNCHANGED <<docFrame, topicVars, migVars>>
  PROVE  TypeInv'
  BY DEF TypeInv, TypeOK, AddRecords, DocRecords, docFrame, dbVars, listVars, topicVars, migVars

\* One more document.
LEMMA NewDocType ==
  ASSUME TypeInv, NEW w \in Writers
  PROVE  LET a == adding[w]
             new == [hash |-> a.h, type |-> a.type, height |-> a.height,
                     n |-> Cardinality(Found(a)) + 1]
         IN  docs \cup {new} \subseteq DocRecords /\ IsFiniteSet(docs \cup {new})
<1> DEFINE a == adding[w]
<1>1. a \in AddRecords /\ docs \subseteq DocRecords /\ IsFiniteSet(docs)
  BY DEF TypeInv, TypeOK, AddRecords, DocRecords
<1>2. Found(a) \subseteq docs
  BY DEF Found
<1>3. Cardinality(Found(a)) \in Nat
  BY <1>1, <1>2, FS_Subset, FS_CardinalityType
<1>4. [hash |-> a.h, type |-> a.type, height |-> a.height,
       n |-> Cardinality(Found(a)) + 1] \in DocRecords
  BY <1>1, <1>3 DEF AddRecords, DocRecords
<1> QED
  BY <1>1, <1>4, FS_AddElement

\* The steps of AddHash.
LEMMA AddHashType ==
  ASSUME TypeInv, NEW w \in Writers, AddHash(w)
  PROVE  TypeInv'
<1>1. /\ adding \in [Writers -> AddRecords] /\ docs \subseteq DocRecords /\ IsFiniteSet(docs)
      /\ uniqueIndex \in BOOLEAN /\ lost \subseteq Kinds \X Heights
  BY DEF TypeInv, TypeOK, AddRecords, DocRecords
<1>2. [adding EXCEPT ![w] = NoAdd] \in [Writers -> AddRecords]
  BY <1>1, NoAddType
<1>3. CASE AddFind(w)
  <2>1. adding' \in [Writers -> AddRecords]
    BY <1>1, <1>3 DEF AddFind, AddRecords
  <2> QED
    BY <1>1, <1>3, <2>1, DocsType DEF AddFind
<1>4. CASE AddInsert(w)
  <2>1. docs' \subseteq DocRecords /\ IsFiniteSet(docs')
    BY <1>4, NewDocType DEF AddInsert
  <2> QED
    BY <1>1, <1>2, <1>4, <2>1, DocsType DEF AddInsert
<1>5. CASE AddUpdate(w)
  <2>1. PICK d \in Found(adding[w]) : docs' = (docs \ {d}) \cup {[d EXCEPT !.height = adding[w].height]}
    BY <1>5 DEF AddUpdate
  <2>2. d \in DocRecords /\ adding[w] \in AddRecords
    BY <1>1, <2>1 DEF Found
  <2>3. [d EXCEPT !.height = adding[w].height] \in DocRecords
    BY <2>2 DEF AddRecords, DocRecords
  <2>4. IsFiniteSet(docs \ {d})
    BY <1>1, FS_Subset
  <2>5. docs' \subseteq DocRecords /\ IsFiniteSet(docs')
    BY <1>1, <2>1, <2>3, <2>4, FS_AddElement
  <2> QED
    BY <1>1, <1>2, <1>5, <2>5, DocsType DEF AddUpdate
<1>6. CASE AddFails(w)
  <2>1. lost' \subseteq Kinds \X Heights
    <3>1. adding[w].type \in Kinds /\ adding[w].h \in Heights
      BY <1>1 DEF AddRecords
    <3> QED
      BY <1>1, <1>6, <3>1 DEF AddFails
  <2> QED
    BY <1>1, <1>2, <1>6, <2>1, DocsType DEF AddFails
<1> QED
  BY <1>3, <1>4, <1>5, <1>6 DEF AddHash

\* The consumers.
LEMMA ConsumerType ==
  ASSUME TypeInv, NEW k \in Kinds, Subscribe(k) \/ Consume(k)
  PROVE  TypeInv'
<1>1. CASE Subscribe(k)
  <2>1. subscribed' \in [Kinds -> BOOLEAN]
    BY <1>1 DEF Subscribe, TypeInv, TypeOK
  <2>2. UNCHANGED <<docFrame, topic, docVars, migVars, lost>>
    BY <1>1 DEF Subscribe
  <2> QED
    BY <2>1, <2>2 DEF TypeInv, TypeOK, docFrame, dbVars, listVars, docVars, migVars
<1>2. CASE Consume(k)
  <2>1. /\ topic \in [Kinds -> Seq(Heights)] /\ topic[k] # <<>>
        /\ adding \in [Writers -> AddRecords] /\ k \in Writers
    BY <1>2 DEF Consume, TypeInv, TypeOK, AddRecords, Writers
  <2>2. Head(topic[k]) \in Heights /\ Tail(topic[k]) \in Seq(Heights)
    BY <2>1, RangeTail
  <2>3. topic' \in [Kinds -> Seq(Heights)]
    BY <1>2, <2>1, <2>2 DEF Consume
  <2>4. Head(topic[k]) \in 0 .. MaxHeight
    BY <2>2, Constants DEF Heights
  <2>5. adding' \in [Writers -> AddRecords]
    BY <1>2, <2>1, <2>2, <2>4 DEF Consume, StartAdd, AddRecords
  <2>6. UNCHANGED <<docFrame, subscribed, migVars, lost, docs, uniqueIndex>>
    BY <1>2 DEF Consume, StartAdd
  <2> QED
    BY <2>3, <2>5, <2>6 DEF TypeInv, TypeOK, AddRecords, docFrame, dbVars, listVars, migVars
<1> QED
  BY <1>1, <1>2

\* What a step of the migration changes, and what it may not.
LEMMA MigrationType ==
  ASSUME TypeInv, UNCHANGED migFrame,
         \/ docs' = {} /\ uniqueIndex' \in BOOLEAN
         \/ docs' = docs /\ uniqueIndex' \in BOOLEAN,
         adding' \in [Writers -> AddRecords],
         version' \in 0 .. 3, toCopy' \subseteq Heights,
         migPc' \in {"idle", "index", "dropped"} \cup Kinds
  PROVE  TypeInv'
<1>1. IsFiniteSet(docs)' /\ uniqueIndex' \in BOOLEAN
  BY FS_EmptySet DEF TypeInv
<1> QED
  BY <1>1 DEF TypeInv, TypeOK, AddRecords, migFrame, docFrame, dbVars, listVars, topicVars

(* Where the migration stands: which version runs which step, and that version 1
   adds nothing. *)
Stage ==
  /\ migPc = "index" => version = 0
  /\ migPc = "dropped" => version = 2
  /\ migPc \in Kinds => version \in {1, 2}
  /\ version = 0 => adding["migrator"].step = "idle"

\* The versions of LocalMigrator.
LEMMA MigrateType ==
  ASSUME TypeInv, Stage, Migrate
  PROVE  TypeInv'
<1>1. /\ adding \in [Writers -> AddRecords] /\ rows \in [Kinds -> SUBSET Heights]
      /\ uniqueIndex \in BOOLEAN /\ version \in 0 .. 3 /\ toCopy \subseteq Heights
      /\ migPc \in {"idle", "index", "dropped"} \cup Kinds
  BY DEF TypeInv, TypeOK, AddRecords
<1>2. rows["transaction"] \subseteq Heights /\ rows["block"] \subseteq Heights
  BY <1>1 DEF Kinds
<1>3. CASE DropForIndex
  BY <1>1, <1>3, MigrationType DEF DropForIndex
<1>4. CASE CreateIndex
  BY <1>1, <1>4, MigrationType DEF CreateIndex, MigrateDone
<1>5. CASE QueryTxs
  <2>1. "transaction" \in Kinds
    BY DEF Kinds
  <2> QED
    BY <1>1, <1>2, <1>5, <2>1, MigrationType DEF QueryTxs, docVars
<1>6. CASE DropForHeights
  BY <1>1, <1>6, MigrationType DEF DropForHeights
<1>7. ASSUME NEW h \in Heights, CopyHash(h) PROVE TypeInv'
  <2>1. migPc \in Kinds /\ HeightOf(migPc, h) \in 0 .. MaxHeight
    BY <1>7, Constants DEF CopyHash, HeightOf, Heights
  <2>2. adding' \in [Writers -> AddRecords]
    BY <1>1, <1>7, <2>1 DEF CopyHash, StartAdd, AddRecords, Writers
  <2>3. toCopy' \subseteq Heights /\ UNCHANGED <<migFrame, version, migPc, docs, uniqueIndex>>
    BY <1>1, <1>7 DEF CopyHash, StartAdd
  <2> QED
    BY <1>1, <2>2, <2>3, MigrationType
<1>8. CASE QueryBlocks
  <2>1. "block" \in Kinds
    BY DEF Kinds
  <2> QED
    BY <1>1, <1>2, <1>8, <2>1, MigrationType DEF QueryBlocks, docVars
<1>9. CASE CopiesDone
  <2>1. migPc = "block" /\ MigrateDone(version + 1) /\ UNCHANGED <<migFrame, docVars>>
    BY <1>9 DEF CopiesDone
  <2>2. version + 1 \in 0 .. 3
    BY <2>1 DEF Stage, Kinds
  <2> QED
    BY <1>1, <2>1, <2>2, MigrationType DEF MigrateDone, docVars
<1> QED
  BY <1>3, <1>4, <1>5, <1>6, <1>7, <1>8, <1>9 DEF Migrate

\* What dies with the process was of heights.
LEMMA CrashType ==
  ASSUME TypeInv, CrashAndRestart
  PROVE  TypeInv'
<1>1. crashes' \in 0 .. MaxCrashes
  BY Constants DEF TypeInv, TypeOK, CrashAndRestart
<1>2. todo' \subseteq Heights
  BY Constants DEF CrashAndRestart
<1>3. /\ prs' \in [h : Heights, step : {"idle", "announce"}]
      /\ wr' \in [h : HasTxs \cup {1}, step : {"idle", "announce"}]
      /\ txChan' \in Seq(Heights) /\ topic' \in [Kinds -> Seq(Heights)]
      /\ subscribed' \in [Kinds -> BOOLEAN]
  BY Constants DEF CrashAndRestart, Idle
<1>4. adding' \in [Writers -> AddRecords]
  BY NoAddType DEF CrashAndRestart
<1>5. lost' \subseteq Kinds \X Heights
  BY DEF TypeInv, TypeOK, CrashAndRestart
<1>6. /\ migPc' = "idle" /\ toCopy' = {}
      /\ UNCHANGED <<rows, latest, pushed, docs, uniqueIndex, version>>
  BY DEF CrashAndRestart
<1> QED
  BY <1>1, <1>2, <1>3, <1>4, <1>5, <1>6 DEF TypeInv, TypeOK, AddRecords

\* Every step keeps the types.
LEMMA NextType == TypeInv /\ Stage /\ [Next]_vars => TypeInv'
<1> SUFFICES ASSUME TypeInv, Stage, [Next]_vars PROVE TypeInv'
  OBVIOUS
<1>1. CASE UNCHANGED vars
  BY <1>1 DEF TypeInv, TypeOK, vars, dbVars, listVars, topicVars, docVars, migVars
<1> QED
  BY <1>1, ParserType, DBWriterType, ConsumerType, AddHashType, MigrateType, CrashType
     DEF Next

-----------------------------------------------------------------------------
(* The steps as the migration and the index see them. *)

\* A step that touches neither.  Rows and losses only grow.
Elsewhere ==
  /\ UNCHANGED <<docVars, migVars>>
  /\ rows["block"] \subseteq rows'["block"]
  /\ lost \subseteq lost'

\* The other steps are those of an upsert, the migration and a crash.
LEMMA NextCases ==
  ASSUME TypeInv, [Next]_vars
  PROVE  \/ Elsewhere
         \/ \E k \in Kinds : Consume(k)
         \/ \E w \in Writers : AddFind(w) \/ AddInsert(w) \/ AddUpdate(w) \/ AddFails(w)
         \/ DropForIndex \/ CreateIndex \/ QueryTxs \/ DropForHeights
         \/ \E h \in Heights : CopyHash(h)
         \/ QueryBlocks \/ CopiesDone \/ CrashAndRestart
<1>1. ASSUME NEW h \in Heights, ParseBlock(h) PROVE Elsewhere
  BY <1>1 DEF ParseBlock, Elsewhere
<1>2. ASSUME NEW k \in Kinds, NEW h \in Heights, Publish(k, h) PROVE lost \subseteq lost'
  BY <1>2 DEF Publish
<1>3. ASSUME AnnounceBlock PROVE Elsewhere
  <2>1. prs.h \in Heights /\ "block" \in Kinds
    BY DEF TypeInv, TypeOK, Kinds
  <2> QED
    BY <1>2, <1>3, <2>1 DEF AnnounceBlock, Elsewhere
<1>4. ASSUME WriteTxs PROVE Elsewhere
  <2>1. rows'["block"] = rows["block"] \cup {Head(txChan)}
    BY <1>4 DEF WriteTxs, Kinds
  <2> QED
    BY <1>4, <2>1 DEF WriteTxs, Elsewhere
<1>5. ASSUME AnnounceTx PROVE Elsewhere
  <2>1. wr.h \in Heights /\ "transaction" \in Kinds
    BY Constants DEF TypeInv, TypeOK, Kinds
  <2> QED
    BY <1>2, <1>5, <2>1 DEF AnnounceTx, Elsewhere
<1>6. ASSUME NEW k \in Kinds, Subscribe(k) PROVE Elsewhere
  BY <1>6 DEF Subscribe, Elsewhere, docFrame, dbVars
<1>7. ASSUME UNCHANGED vars PROVE Elsewhere
  BY <1>7 DEF vars, Elsewhere, dbVars
<1> QED
  BY <1>1, <1>3, <1>4, <1>5, <1>6, <1>7 DEF Next, Parser, DBWriter, AddHash, Migrate

\* The migration starts at the first version, and each version at its first step.
LEMMA InitStage == Init => Stage
  BY DEF Init, Stage, Kinds, NoAdd, Writers

\* Every step keeps version and migPc together.
LEMMA NextStage == TypeInv /\ Stage /\ [Next]_vars => Stage'
<1> SUFFICES ASSUME TypeInv, Stage, [Next]_vars PROVE Stage'
  OBVIOUS
<1>0. adding \in [Writers -> AddRecords] /\ "migrator" \in Writers /\ version \in 0 .. 3
      /\ "migrator" \notin Kinds
  BY DEF TypeInv, TypeOK, AddRecords, Writers, Kinds
<1>1. CASE Elsewhere
  BY <1>1 DEF Elsewhere, docVars, migVars, Stage
<1>2. ASSUME NEW k \in Kinds, Consume(k) PROVE Stage'
  BY <1>0, <1>2 DEF Consume, StartAdd, migVars, Stage, Writers
<1>3. ASSUME NEW w \in Writers, AddFind(w) \/ AddInsert(w) \/ AddUpdate(w) \/ AddFails(w)
      PROVE  Stage'
  <2>1. /\ adding[w].step # "idle"
        /\ \A v \in Writers \ {w} : adding'[v] = adding[v]
        /\ UNCHANGED migVars
    BY <1>0, <1>3 DEF AddFind, AddInsert, AddUpdate, AddFails
  <2> QED
    BY <1>0, <2>1 DEF Stage, migVars
<1>4. CASE DropForIndex \/ CreateIndex \/ QueryTxs \/ DropForHeights \/ QueryBlocks
  BY <1>4 DEF DropForIndex, CreateIndex, QueryTxs, DropForHeights, QueryBlocks, MigrateDone,
              docVars, Stage, Kinds
<1>5. ASSUME NEW h \in Heights, CopyHash(h) PROVE Stage'
  BY <1>5 DEF CopyHash, Stage
<1>6. CASE CopiesDone
  BY <1>6 DEF CopiesDone, MigrateDone, Stage, Kinds
<1>7. CASE CrashAndRestart
  BY <1>0, <1>7 DEF CrashAndRestart, Stage, Kinds, NoAdd
<1> QED
  BY NextCases, <1>1, <1>2, <1>3, <1>4, <1>5, <1>6, <1>7

(* The variables of Announcements keep their types: among others the migration of
   LocalMigrator stops at version 3 and copies only hashes of the chain. *)
THEOREM TypeCorrect == Spec => []TypeOK
<1>1. Init => TypeInv /\ Stage
  BY InitType, InitStage
<1>2. TypeInv /\ Stage /\ [Next]_vars => (TypeInv /\ Stage)'
  BY NextType, NextStage
<1>3. TypeInv => TypeOK
  BY DEF TypeInv
<1> QED
  BY <1>1, <1>2, <1>3, PTL DEF Spec

-----------------------------------------------------------------------------
(* Committed transactions stay searchable. *)

\* The places where the hash of a committed transaction may be.
Announced(h) ==
  \/ \E d \in docs : d.type = "transaction" /\ d.hash = h
  \/ h \in Range(topic["transaction"])
  \/ \E w \in Writers : /\ adding[w].step # "idle" /\ adding[w].type = "transaction"
                        /\ adding[w].h = h
  \/ wr.step # "idle" /\ wr.h = h
  \/ h \in StillToCopy("transaction")
  \/ <<"transaction", h>> \in lost

Searchable == \A h \in rows["transaction"] : Announced(h)

\* What is announced is in the index, on its way or lost.
LEMMA SearchableMeans == TypeInv /\ Searchable => CommittedTxsSearchable
<1> SUFFICES ASSUME TypeInv, Searchable, NEW h \in rows["transaction"]
             PROVE  h \in DocsOf("transaction") \cup InFlight("transaction")
                            \cup StillToCopy("transaction")
                            \cup {g \in Heights : <<"transaction", g>> \in lost}
  BY DEF CommittedTxsSearchable
<1>1. h \in Heights /\ Announced(h)
  BY DEF TypeInv, TypeOK, Searchable, Kinds
<1>2. ASSUME NEW w \in Writers, adding[w].step # "idle", adding[w].type = "transaction",
             adding[w].h = h
      PROVE  h \in InFlight("transaction")
  BY <1>2 DEF InFlight
<1>3. wr.step # "idle" /\ wr.h = h => h \in InFlight("transaction")
  BY DEF InFlight
<1>4. h \in Range(topic["transaction"]) => h \in InFlight("transaction")
  BY DEF InFlight
<1>5. (\E d \in docs : d.type = "transaction" /\ d.hash = h) => h \in DocsOf("transaction")
  BY DEF DocsOf
<1> QED
  BY <1>1, <1>2, <1>3, <1>4, <1>5 DEF Announced

\* The parser announces blocks, and what it changes holds no transaction.
LEMMA ParserSearchable ==
  ASSUME TypeInv, Searchable, Parser
  PROVE  Searchable'
<1>1. ASSUME NEW h \in Heights, ParseBlock(h) PROVE Searchable'
  BY <1>1 DEF ParseBlock, Searchable, Announced, topicVars, docVars, migVars, StillToCopy
<1>2. ASSUME AnnounceBlock PROVE Searchable'
  <2>1. topic'["transaction"] = topic["transaction"] /\ lost \subseteq lost'
    BY <1>2 DEF AnnounceBlock, Publish, topicVars, TypeInv, TypeOK, Kinds
  <2>2. UNCHANGED <<rows, wr, docVars, migVars>>
    BY <1>2 DEF AnnounceBlock
  <2> QED
    BY <2>1, <2>2 DEF Searchable, Announced, docVars, migVars, StillToCopy
<1> QED
  BY <1>1, <1>2 DEF Parser

\* The DB worker commits, holds the transaction, and hands it to the topic.
LEMMA DBWriterSearchable ==
  ASSUME TypeInv, Searchable, DBWriter
  PROVE  Searchable'
<1>1. ASSUME WriteTxs PROVE Searchable'
  <2> SUFFICES ASSUME NEW h \in rows'["transaction"] PROVE Announced(h)'
    BY DEF Searchable
  <2>1. UNCHANGED <<topicVars, docVars, migVars, lost>>
    BY <1>1 DEF WriteTxs
  <2>2. CASE h \in rows["transaction"]
    <3>1. wr.step = "idle" /\ Announced(h)
      BY <1>1, <2>2 DEF WriteTxs, Searchable
    <3> QED
      BY <2>1, <3>1 DEF Announced, topicVars, docVars, migVars, StillToCopy
  <2>3. CASE h \notin rows["transaction"]
    <3>1. h = Head(txChan) /\ h \in HasTxs
      BY <1>1, <2>3 DEF WriteTxs, Kinds
    <3>2. wr'.step # "idle" /\ wr'.h = h
      BY <1>1, <3>1 DEF WriteTxs
    <3> QED
      BY <3>2 DEF Announced
  <2> QED
    BY <2>2, <2>3
<1>2. ASSUME AnnounceTx PROVE Searchable'
  <2> SUFFICES ASSUME NEW h \in rows'["transaction"] PROVE Announced(h)'
    BY DEF Searchable
  <2>1. UNCHANGED <<rows, docVars, migVars>> /\ Publish("transaction", wr.h)
    BY <1>2 DEF AnnounceTx
  <2>2. topic["transaction"] \in Seq(Heights) /\ wr.h \in Heights /\ "transaction" \in Kinds
        /\ topic \in [Kinds -> Seq(Heights)]
    BY Constants DEF TypeInv, TypeOK, Kinds
  <2>3. /\ Range(topic["transaction"]) \subseteq Range(topic'["transaction"])
        /\ lost \subseteq lost'
        /\ wr.h \in Range(topic'["transaction"]) \/ <<"transaction", wr.h>> \in lost'
    <3>1. Range(Append(topic["transaction"], wr.h)) = Range(topic["transaction"]) \cup {wr.h}
      BY <2>2, RangeAppend
    <3> QED
      BY <2>1, <2>2, <3>1 DEF Publish, topicVars
  <2>4. Announced(h)
    BY <2>1 DEF Searchable
  <2> QED
    BY <2>1, <2>3, <2>4 DEF Announced, docVars, migVars, StillToCopy
<1> QED
  BY <1>1, <1>2 DEF DBWriter

\* A consumer takes a hash from the topic to its upsert.
LEMMA ConsumerSearchable ==
  ASSUME TypeInv, Searchable, NEW k \in Kinds, Subscribe(k) \/ Consume(k)
  PROVE  Searchable'
<1>1. CASE Subscribe(k)
  BY <1>1 DEF Subscribe, docFrame, dbVars, docVars, migVars, Searchable, Announced, StillToCopy
<1>2. CASE Consume(k)
  <2> SUFFICES ASSUME NEW h \in rows'["transaction"] PROVE Announced(h)'
    BY DEF Searchable
  <2>1. /\ adding \in [Writers -> AddRecords] /\ topic \in [Kinds -> Seq(Heights)]
        /\ "transaction" \in Kinds /\ k \in Writers
    BY DEF TypeInv, TypeOK, AddRecords, Kinds, Writers
  <2>2. UNCHANGED <<docFrame, migVars, lost, docs>> /\ adding[k].step = "idle" /\ topic[k] # <<>>
    BY <1>2 DEF Consume, StartAdd
  <2>3. /\ adding'[k].h = Head(topic[k]) /\ adding'[k].type = k /\ adding'[k].step = "find"
        /\ \A w \in Writers : w # k => adding'[w] = adding[w]
    BY <1>2, <2>1 DEF Consume, StartAdd
  <2>4. Range(topic[k]) = Range(topic'[k]) \cup {Head(topic[k])}
    <3>1. Range(topic[k]) = Range(Tail(topic[k])) \cup {Head(topic[k])}
      BY <2>1, <2>2, RangeTail
    <3> QED
      BY <1>2, <2>1, <3>1 DEF Consume
  <2>5. k # "transaction" => topic'["transaction"] = topic["transaction"]
    BY <1>2, <2>1 DEF Consume
  <2>6. Announced(h)
    BY <2>2 DEF Searchable, docFrame, dbVars
  <2>7. CASE h \in Range(topic["transaction"])
    <3>1. CASE k = "transaction" /\ h = Head(topic[k])
      BY <2>1, <2>3, <3>1 DEF Announced
    <3>2. CASE h \in Range(topic'["transaction"])
      BY <3>2 DEF Announced
    <3> QED
      BY <2>4, <2>5, <2>7, <3>1, <3>2
  <2>8. CASE \E w \in Writers : /\ adding[w].step # "idle" /\ adding[w].type = "transaction"
                               /\ adding[w].h = h
    BY <2>2, <2>3, <2>8 DEF Announced
  <2>9. /\ UNCHANGED <<docs, wr, lost>>
        /\ StillToCopy("transaction")' = StillToCopy("transaction")
    BY <2>2 DEF docFrame, dbVars, migVars, StillToCopy
  <2> QED
    BY <2>6, <2>7, <2>8, <2>9 DEF Announced
<1> QED
  BY <1>1, <1>2

\* An upsert leaves a document, or a loss.
LEMMA AddHashSearchable ==
  ASSUME TypeInv, Searchable, NEW w \in Writers, AddHash(w)
  PROVE  Searchable'
<1> SUFFICES ASSUME NEW h \in rows'["transaction"] PROVE Announced(h)'
  BY DEF Searchable
<1>1. UNCHANGED <<docFrame, topicVars, migVars>> /\ adding[w].step # "idle"
  BY DEF AddHash, AddFind, AddInsert, AddUpdate, AddFails
<1>2. Announced(h)
  BY <1>1 DEF Searchable, docFrame, dbVars
<1>3. adding \in [Writers -> AddRecords]
  BY DEF TypeInv, TypeOK, AddRecords
<1>4. \A v \in Writers : v # w => adding'[v] = adding[v]
  BY <1>3 DEF AddHash, AddFind, AddInsert, AddUpdate, AddFails
<1>5. lost \subseteq lost'
  BY DEF AddHash, AddFind, AddInsert, AddUpdate, AddFails
<1>6. ASSUME NEW d \in docs PROVE \E e \in docs' : e.type = d.type /\ e.hash = d.hash
  <2>1. docs \subseteq DocRecords
    BY DEF TypeInv, TypeOK, DocRecords
  <2>2. CASE AddUpdate(w)
    <3>1. PICK f \in Found(adding[w]) : docs' = (docs \ {f}) \cup {[f EXCEPT !.height = adding[w].height]}
      BY <2>2 DEF AddUpdate
    <3>2. f \in DocRecords
      BY <2>1, <3>1 DEF Found
    <3>3. [f EXCEPT !.height = adding[w].height].type = f.type
          /\ [f EXCEPT !.height = adding[w].height].hash = f.hash
      BY <3>2 DEF DocRecords
    <3> QED
      BY <3>1, <3>3
  <2>3. CASE ~AddUpdate(w)
    <3>1. docs \subseteq docs'
      BY <2>3 DEF AddHash, AddFind, AddInsert, AddFails
    <3> QED
      BY <3>1
  <2> QED
    BY <2>2, <2>3
<1>7. ASSUME adding[w].type = "transaction", adding[w].h = h PROVE Announced(h)'
  <2>1. CASE AddFind(w)
    <3>1. /\ adding'[w].step = "write" /\ adding'[w].type = adding[w].type
          /\ adding'[w].h = adding[w].h
      BY <1>3, <2>1 DEF AddFind, AddRecords
    <3> QED
      BY <1>7, <3>1 DEF Announced
  <2>2. CASE AddInsert(w)
    <3> DEFINE new == [hash |-> adding[w].h, type |-> adding[w].type,
                       height |-> adding[w].height, n |-> Cardinality(Found(adding[w])) + 1]
    <3>1. new \in docs'
      BY <2>2 DEF AddInsert
    <3>2. new.type = "transaction" /\ new.hash = h
      BY <1>7
    <3>3. \E d \in docs' : d.type = "transaction" /\ d.hash = h
      BY <3>1, <3>2
    <3> QED
      BY <3>3 DEF Announced
  <2>3. CASE AddUpdate(w)
    <3>1. PICK d \in docs : d.hash = h /\ d.type = "transaction"
      BY <1>7, <2>3 DEF AddUpdate, Found
    <3> QED
      BY <1>6, <3>1 DEF Announced
  <2>4. CASE AddFails(w)
    BY <1>7, <2>4 DEF AddFails, Announced
  <2> QED
    BY <2>1, <2>2, <2>3, <2>4 DEF AddHash
<1>8. CASE \E d \in docs : d.type = "transaction" /\ d.hash = h
  BY <1>6, <1>8 DEF Announced
<1>9. CASE \E v \in Writers : /\ adding[v].step # "idle" /\ adding[v].type = "transaction"
                             /\ adding[v].h = h
  BY <1>4, <1>7, <1>9 DEF Announced
<1> QED
  BY <1>1, <1>2, <1>5, <1>8, <1>9 DEF Announced, docFrame, dbVars, topicVars, migVars, StillToCopy

\* The migration drops only what it has still to copy, and copies what it queried.
LEMMA MigrateSearchable ==
  ASSUME TypeInv, Stage, Searchable, Migrate
  PROVE  Searchable'
<1> SUFFICES ASSUME NEW h \in rows'["transaction"] PROVE Announced(h)'
  BY DEF Searchable
<1>1. UNCHANGED <<rows, wr, topic, lost>>
  BY DEF Migrate, DropForIndex, CreateIndex, QueryTxs, DropForHeights, CopyHash, QueryBlocks,
         CopiesDone, migFrame, docFrame, dbVars, topicVars
<1>2. Announced(h) /\ h \in Heights
  BY <1>1 DEF Searchable, TypeInv, TypeOK, Kinds
<1>3. CASE DropForIndex \/ CreateIndex \/ QueryTxs \/ DropForHeights
  <2>1. h \in StillToCopy("transaction")'
    BY <1>1, <1>2, <1>3 DEF DropForIndex, CreateIndex, QueryTxs, DropForHeights, MigrateDone,
                            StillToCopy, Kinds
  <2> QED
    BY <2>1 DEF Announced
<1>4. ASSUME NEW g \in Heights, CopyHash(g) PROVE Announced(h)'
  <2>1. adding \in [Writers -> AddRecords] /\ "migrator" \in Writers
    BY DEF TypeInv, TypeOK, AddRecords, Writers
  <2>2. /\ adding["migrator"].step = "idle" /\ adding'["migrator"].step = "find"
        /\ adding'["migrator"].type = migPc /\ adding'["migrator"].h = g
        /\ \A w \in Writers : w # "migrator" => adding'[w] = adding[w]
    BY <1>4, <2>1 DEF CopyHash, StartAdd
  <2>3. /\ UNCHANGED <<docs, version, migPc>> /\ g \in toCopy /\ toCopy' = toCopy \ {g}
        /\ migPc \in Kinds
    BY <1>4 DEF CopyHash, StartAdd
  <2>4. CASE h \in StillToCopy("transaction")
    <3>1. CASE migPc = "transaction" /\ h = g
      BY <2>1, <2>2, <3>1 DEF Announced
    <3>2. CASE ~(migPc = "transaction" /\ h = g)
      <4>1. h \in StillToCopy("transaction")'
        BY <2>3, <2>4, <3>2 DEF StillToCopy, Kinds
      <4> QED
        BY <4>1 DEF Announced
    <3> QED
      BY <3>1, <3>2
  <2>5. CASE \E w \in Writers : /\ adding[w].step # "idle" /\ adding[w].type = "transaction"
                               /\ adding[w].h = h
    BY <2>2, <2>5 DEF Announced
  <2> QED
    BY <1>1, <1>2, <2>3, <2>4, <2>5 DEF Announced
<1>5. CASE QueryBlocks \/ CopiesDone
  <2>1. UNCHANGED <<docs, adding>> /\ toCopy = {}
    BY <1>5 DEF QueryBlocks, CopiesDone, docVars
  <2>2. h \in StillToCopy("transaction") => h \in StillToCopy("transaction")'
    BY <1>2, <1>5, <2>1 DEF QueryBlocks, CopiesDone, MigrateDone, StillToCopy, Stage, Kinds
  <2> QED
    BY <1>1, <1>2, <2>1, <2>2 DEF Announced
<1> QED
  BY <1>3, <1>4, <1>5 DEF Migrate

\* A crash loses announcements, and restarts the migration at its version.
LEMMA CrashSearchable ==
  ASSUME TypeInv, Stage, Searchable, CrashAndRestart
  PROVE  Searchable'
<1> SUFFICES ASSUME NEW h \in rows'["transaction"] PROVE Announced(h)'
  BY DEF Searchable
<1>1. /\ UNCHANGED <<rows, docs, version>> /\ migPc' = "idle" /\ toCopy' = {}
      /\ lost' = lost \cup {p \in Kinds \X Heights : p[2] \in InFlight(p[1])}
  BY DEF CrashAndRestart
<1>2. Announced(h) /\ h \in Heights
  BY <1>1 DEF Searchable, TypeInv, TypeOK, Kinds
<1>3. ASSUME h \in InFlight("transaction") PROVE Announced(h)'
  <2>1. <<"transaction", h>> \in Kinds \X Heights
    BY <1>2 DEF Kinds
  <2>2. <<"transaction", h>> \in lost'
    BY <1>1, <1>3, <2>1
  <2> QED
    BY <2>2 DEF Announced
<1>4. ASSUME h \in StillToCopy("transaction") PROVE h \in StillToCopy("transaction")'
  BY <1>1, <1>2, <1>4 DEF StillToCopy, Stage, Kinds, TypeInv, TypeOK
<1>5. ASSUME NEW w \in Writers, adding[w].step # "idle", adding[w].type = "transaction",
             adding[w].h = h
      PROVE  h \in InFlight("transaction")
  BY <1>5 DEF InFlight
<1>6. h \in Range(topic["transaction"]) \/ (wr.step # "idle" /\ wr.h = h)
        => h \in InFlight("transaction")
  BY DEF InFlight
<1> QED
  BY <1>1, <1>2, <1>3, <1>4, <1>5, <1>6 DEF Announced

\* At the start no transaction is committed that is not in the index or still to be copied.
LEMMA InitSearchable == Init => Searchable
  BY DEF Init, Searchable, Kinds

(* A transaction that a client can read from PostgreSQL is in the search index, or
   on its way there by the topic or the migration, or its announcement was lost:
   doDBUpdates commits before it publishes, and every drop of LocalMigrator comes
   before its query. *)
THEOREM CommittedStaySearchable == Spec => []CommittedTxsSearchable
<1>1. Init => TypeInv /\ Stage /\ Searchable
  BY InitType, InitStage, InitSearchable
<1>2. TypeInv /\ Stage /\ Searchable /\ [Next]_vars => (TypeInv /\ Stage /\ Searchable)'
  <2> SUFFICES ASSUME TypeInv, Stage, Searchable, [Next]_vars PROVE Searchable'
    BY NextType, NextStage
  <2>1. CASE UNCHANGED vars
    BY <2>1 DEF vars, dbVars, topicVars, docVars, migVars, Searchable, Announced, StillToCopy
  <2> QED
    BY <2>1, ParserSearchable, DBWriterSearchable, ConsumerSearchable, AddHashSearchable,
       MigrateSearchable, CrashSearchable DEF Next
<1>3. TypeInv /\ Searchable => CommittedTxsSearchable
  BY SearchableMeans
<1> QED
  BY <1>1, <1>2, <1>3, PTL DEF Spec

-----------------------------------------------------------------------------
(* Hashes are unique while the index exists. *)

Unique == \A d, e \in docs : (d.hash = e.hash /\ d.type = e.type) => d = e

(* Before the index exists there is one writer for each type, the consumer, so
   what it has not found nobody else has added. *)
UniqueInv ==
  /\ \A k \in Kinds : adding[k].step # "idle" => adding[k].type = k
  /\ version = 0 => \A k \in Kinds : adding[k].step = "write" /\ ~adding[k].seen
                                      => Found(adding[k]) = {}
  /\ uniqueIndex \/ version = 0 => Unique
  /\ version = 1 => uniqueIndex

\* At the start no document is there twice.
LEMMA InitUnique == Init => UniqueInv
<1> SUFFICES ASSUME Init PROVE UniqueInv
  OBVIOUS
<1>1. \A w \in Writers : adding[w].step = "idle"
  BY DEF Init, NoAdd
<1>2. Kinds \subseteq Writers
  BY DEF Writers
<1> QED
  BY <1>1, <1>2 DEF Init, UniqueInv, Unique

\* A step that leaves the documents, the index and the version, and starts no
\* write that has not looked.
LEMMA SameDocsUnique ==
  ASSUME TypeInv, UniqueInv, UNCHANGED <<docs, uniqueIndex, version>>,
         \A k \in Kinds :
           \/ adding'[k] = adding[k]
           \/ adding'[k].step = "idle"
           \/ adding'[k].step = "find" /\ adding'[k].type = k
  PROVE  UniqueInv'
<1>1. \A a : Found(a)' = Found(a)
  BY DEF Found
<1>2. \A k \in Kinds : adding'[k].step # "idle" => adding'[k].type = k
  BY DEF UniqueInv
<1>3. ASSUME version = 0, NEW k \in Kinds, adding'[k].step = "write", ~adding'[k].seen
      PROVE  Found(adding[k])' = {}
  <2>1. adding'[k] = adding[k]
    BY <1>3
  <2>2. Found(adding[k]) = {}
    BY <1>3, <2>1 DEF UniqueInv
  <2> QED
    BY <2>1, <2>2 DEF Found
<1>4. (uniqueIndex \/ version = 0 => Unique)' /\ (version = 1 => uniqueIndex)'
  BY DEF UniqueInv, Unique
<1> QED
  BY <1>2, <1>3, <1>4 DEF UniqueInv

\* An insert of what is not found, or without the index.
LEMMA AddInsertUnique ==
  ASSUME TypeInv, Stage, UniqueInv, NEW w \in Writers, AddInsert(w)
  PROVE  UniqueInv'
<1> DEFINE a == adding[w]
           new == [hash |-> a.h, type |-> a.type, height |-> a.height,
                   n |-> Cardinality(Found(a)) + 1]
<1>1. /\ a.step = "write" /\ (Found(a) = {} \/ (~a.seen /\ ~uniqueIndex))
      /\ docs' = docs \cup {new} /\ UNCHANGED <<uniqueIndex, version>>
      /\ adding' = [adding EXCEPT ![w] = NoAdd]
  BY DEF AddInsert, migVars
<1>2. adding \in [Writers -> AddRecords] /\ Kinds \subseteq Writers /\ "migrator" \in Writers
      /\ Writers = Kinds \cup {"migrator"}
  BY DEF TypeInv, TypeOK, AddRecords, Writers
<1>3. adding'[w].step = "idle" /\ \A v \in Writers : v # w => adding'[v] = adding[v]
  BY <1>1, <1>2 DEF NoAdd
<1>4. version = 0 => w \in Kinds /\ a.type = w
  BY <1>1, <1>2 DEF Stage, UniqueInv
<1>5. uniqueIndex \/ version = 0 => Found(a) = {}
  BY <1>1, <1>4 DEF UniqueInv
<1>6. \A k \in Kinds : adding'[k].step # "idle" => adding'[k].type = k
  BY <1>2, <1>3 DEF UniqueInv
<1>7. ASSUME version' = 0, NEW k \in Kinds, adding'[k].step = "write", ~adding'[k].seen
      PROVE  Found(adding[k])' = {}
  <2>1. k # w /\ adding'[k] = adding[k] /\ adding[k].type = k
    BY <1>2, <1>3, <1>7 DEF UniqueInv
  <2>2. Found(adding[k]) = {} /\ new.type # k
    BY <1>1, <1>4, <1>7, <2>1 DEF UniqueInv
  <2> QED
    BY <1>1, <2>1, <2>2 DEF Found
<1>8. ASSUME uniqueIndex' \/ version' = 0 PROVE Unique'
  <2>1. Unique /\ Found(a) = {}
    BY <1>1, <1>5, <1>8 DEF UniqueInv
  <2>2. ASSUME NEW d \in docs PROVE d.hash # new.hash \/ d.type # new.type
    BY <2>1, <2>2 DEF Found
  <2> QED
    BY <1>1, <2>1, <2>2 DEF Unique
<1> QED
  BY <1>1, <1>6, <1>7, <1>8 DEF UniqueInv

\* An update keeps the hash and the type of the document.
LEMMA AddUpdateUnique ==
  ASSUME TypeInv, Stage, UniqueInv, NEW w \in Writers, AddUpdate(w)
  PROVE  UniqueInv'
<1>1. PICK d \in Found(adding[w]) : docs' = (docs \ {d}) \cup {[d EXCEPT !.height = adding[w].height]}
  BY DEF AddUpdate
<1> DEFINE new == [d EXCEPT !.height = adding[w].height]
<1>2. d \in docs /\ new.hash = d.hash /\ new.type = d.type
  BY <1>1 DEF Found, TypeInv, TypeOK
<1>3. UNCHANGED <<uniqueIndex, version>> /\ adding' = [adding EXCEPT ![w] = NoAdd]
  BY DEF AddUpdate, migVars
<1>4. adding \in [Writers -> AddRecords] /\ Kinds \subseteq Writers
  BY DEF TypeInv, TypeOK, AddRecords, Writers
<1>5. adding'[w].step = "idle" /\ \A v \in Writers : v # w => adding'[v] = adding[v]
  BY <1>3, <1>4 DEF NoAdd
<1>6. \A k \in Kinds : adding'[k].step # "idle" => adding'[k].type = k
  BY <1>4, <1>5 DEF UniqueInv
<1>7. ASSUME version' = 0, NEW k \in Kinds, adding'[k].step = "write", ~adding'[k].seen
      PROVE  Found(adding[k])' = {}
  <2>1. adding'[k] = adding[k]
    BY <1>4, <1>5, <1>7
  <2>2. Found(adding[k]) = {}
    BY <1>3, <1>7, <2>1 DEF UniqueInv
  <2>3. ASSUME NEW e \in docs' PROVE e.hash # adding[k].h \/ e.type # adding[k].type
    <3>1. CASE e \in docs
      BY <2>2, <3>1 DEF Found
    <3>2. CASE e = new
      BY <1>2, <2>2, <3>2 DEF Found
    <3> QED
      BY <1>1, <3>1, <3>2
  <2> QED
    BY <2>1, <2>3 DEF Found
<1>8. ASSUME uniqueIndex' \/ version' = 0 PROVE Unique'
  <2>1. Unique
    BY <1>3, <1>8 DEF UniqueInv
  <2>2. ASSUME NEW e \in docs \ {d} PROVE e.hash # new.hash \/ e.type # new.type
    BY <1>2, <2>1, <2>2 DEF Unique
  <2>3. ASSUME NEW e \in docs', NEW f \in docs', e.hash = f.hash, e.type = f.type
        PROVE  e = f
    <3>1. (e \in docs \ {d} \/ e = new) /\ (f \in docs \ {d} \/ f = new)
      BY <1>1
    <3> QED
      BY <2>1, <2>2, <2>3, <3>1 DEF Unique
  <2> QED
    BY <2>3 DEF Unique
<1> QED
  BY <1>3, <1>6, <1>7, <1>8 DEF UniqueInv

\* Every step keeps one writer for each type before the index, and one document under it.
LEMMA NextUnique == TypeInv /\ Stage /\ UniqueInv /\ [Next]_vars => UniqueInv'
<1> SUFFICES ASSUME TypeInv, Stage, UniqueInv, [Next]_vars PROVE UniqueInv'
  OBVIOUS
<1>0. adding \in [Writers -> AddRecords] /\ Kinds \subseteq Writers /\ "migrator" \notin Kinds
      /\ "migrator" \in Writers
  BY DEF TypeInv, TypeOK, AddRecords, Writers, Kinds
<1>1. CASE Elsewhere
  BY <1>1, SameDocsUnique DEF Elsewhere, docVars, migVars
<1>2. ASSUME NEW k \in Kinds, Consume(k) PROVE UniqueInv'
  <2>1. \A j \in Kinds :
          \/ adding'[j] = adding[j]
          \/ adding'[j].step = "find" /\ adding'[j].type = j
    BY <1>0, <1>2 DEF Consume, StartAdd
  <2>2. UNCHANGED <<docs, uniqueIndex, version>>
    BY <1>2 DEF Consume, StartAdd, migVars
  <2> QED
    BY <2>1, <2>2, SameDocsUnique
<1>3. ASSUME NEW w \in Writers, AddFind(w) PROVE UniqueInv'
  <2>1. /\ adding'[w].step = "write" /\ adding'[w].seen = (Found(adding[w]) # {})
        /\ adding'[w].type = adding[w].type /\ adding'[w].h = adding[w].h
        /\ \A v \in Writers : v # w => adding'[v] = adding[v]
        /\ adding[w].step = "find"
    BY <1>0, <1>3 DEF AddFind, AddRecords
  <2>2. UNCHANGED <<docs, uniqueIndex, version>>
    BY <1>3 DEF AddFind, migVars
  <2>3. \A k \in Kinds : adding'[k].step # "idle" => adding'[k].type = k
    BY <1>0, <2>1 DEF UniqueInv
  <2>4. ASSUME version' = 0, NEW k \in Kinds, adding'[k].step = "write", ~adding'[k].seen
        PROVE  Found(adding[k])' = {}
    <3>1. CASE k = w
      BY <2>1, <2>2, <2>4, <3>1 DEF Found
    <3>2. CASE k # w
      BY <1>0, <2>1, <2>2, <2>4, <3>2 DEF UniqueInv, Found
    <3> QED
      BY <3>1, <3>2
  <2> QED
    BY <2>2, <2>3, <2>4 DEF UniqueInv, Unique
<1>4. ASSUME NEW w \in Writers, AddFails(w) PROVE UniqueInv'
  <2>1. UNCHANGED <<docs, uniqueIndex, version>>
    BY <1>4 DEF AddFails, migVars
  <2>2. \A k \in Kinds : adding'[k] = adding[k] \/ adding'[k].step = "idle"
    BY <1>0, <1>4 DEF AddFails, NoAdd
  <2> QED
    BY <2>1, <2>2, SameDocsUnique
<1>5. ASSUME NEW w \in Writers, AddInsert(w) \/ AddUpdate(w) PROVE UniqueInv'
  BY <1>5, AddInsertUnique, AddUpdateUnique
<1>6. ASSUME docs' = {}, uniqueIndex' = FALSE, version # 1, adding' = adding, version' = version
      PROVE  UniqueInv'
  BY <1>6 DEF UniqueInv, Unique, Found
<1>7. CASE DropForIndex
  <2>1. /\ docs' = {} /\ uniqueIndex' = FALSE /\ version # 1
        /\ adding' = adding /\ version' = version
    BY <1>7 DEF DropForIndex
  <2> QED
    BY <1>6, <2>1
<1>8. CASE DropForHeights
  <2>1. version # 1 /\ adding' = adding /\ version' = version
    BY <1>8 DEF DropForHeights
  <2>2. CASE docs' = {} /\ uniqueIndex' = FALSE
    BY <1>6, <2>1, <2>2
  <2>3. CASE UNCHANGED <<docs, uniqueIndex>>
    <3>1. UNCHANGED <<docs, uniqueIndex, version>> /\ \A k \in Kinds : adding'[k] = adding[k]
      BY <2>1, <2>3
    <3> QED
      BY <3>1, SameDocsUnique
  <2> QED
    BY <1>8, <2>2, <2>3 DEF DropForHeights
<1>9. CASE CreateIndex
  <2>1. version = 0 /\ version' = 1 /\ uniqueIndex' = TRUE /\ UNCHANGED <<docs, adding>>
    BY <1>9 DEF CreateIndex, MigrateDone, Stage
  <2> QED
    BY <2>1 DEF UniqueInv, Unique
<1>10. CASE QueryTxs \/ QueryBlocks
  BY <1>10, SameDocsUnique DEF QueryTxs, QueryBlocks, docVars
<1>11. ASSUME NEW h \in Heights, CopyHash(h) PROVE UniqueInv'
  <2>1. UNCHANGED <<docs, uniqueIndex, version>> /\ \A k \in Kinds : adding'[k] = adding[k]
    BY <1>0, <1>11 DEF CopyHash, StartAdd
  <2> QED
    BY <2>1, SameDocsUnique
<1>12. CASE CopiesDone
  <2>1. version \in {1, 2} /\ version' = version + 1 /\ UNCHANGED <<docs, uniqueIndex, adding>>
    BY <1>12 DEF CopiesDone, MigrateDone, docVars, Stage, Kinds
  <2> QED
    BY <2>1 DEF UniqueInv, Unique
<1>13. CASE CrashAndRestart
  <2>1. UNCHANGED <<docs, uniqueIndex, version>> /\ \A k \in Kinds : adding'[k].step = "idle"
    BY <1>0, <1>13 DEF CrashAndRestart, NoAdd
  <2> QED
    BY <2>1, SameDocsUnique
<1> QED
  BY NextCases, <1>1, <1>2, <1>3, <1>4, <1>5, <1>7, <1>8, <1>9, <1>10, <1>11, <1>12, <1>13

(* While the index of version 1 exists the consumers and LocalMigrator do not both
   insert the same hash, whoever of them looked first. *)
THEOREM IndexKeepsUnique == Spec => []UniqueWhileIndexed
<1>1. Init => TypeInv /\ Stage /\ UniqueInv
  BY InitType, InitStage, InitUnique
<1>2. TypeInv /\ Stage /\ UniqueInv /\ [Next]_vars => (TypeInv /\ Stage /\ UniqueInv)'
  BY NextType, NextStage, NextUnique
<1>3. UniqueInv => UniqueWhileIndexed
  BY DEF UniqueInv, Unique, UniqueWhileIndexed
<1> QED
  BY <1>1, <1>2, <1>3, PTL DEF Spec

-----------------------------------------------------------------------------
(* Version 3 leaves every block its height. *)

\* Documents of blocks without their height, whose announcement is not lost.
Wrong ==
  {d \in docs : d.type = "block" /\ d.height # d.hash /\ <<"block", d.hash>> \notin lost}

Copying(h) ==
  /\ adding["migrator"].step # "idle" /\ adding["migrator"].type = "block"
  /\ adding["migrator"].h = h

(* Only version 2 writes a wrong height, and only for a block that PostgreSQL has,
   so version 3 finds it there and comes to it; since the index survives with the
   document (both go with the drop) there is no second document to miss. *)
HeightsInv ==
  /\ \A w \in Writers : adding[w].step # "idle" /\ adding[w].type = "block" =>
       \/ adding[w].height = adding[w].h
       \/ w = "migrator" /\ version = 1 /\ adding[w].h \in rows["block"]
  /\ version = 0 => Wrong = {}
  /\ Wrong # {} => uniqueIndex
  /\ \A d \in Wrong : d.hash \in rows["block"]
  /\ version = 1 /\ migPc = "block" => toCopy \subseteq rows["block"]
  /\ version = 2 /\ migPc = "block" => \A d \in Wrong : d.hash \in toCopy \/ Copying(d.hash)
  /\ version = 3 => Wrong = {}

\* At the start no version has written a wrong height.
LEMMA InitHeights == Init => HeightsInv
<1> SUFFICES ASSUME Init PROVE HeightsInv
  OBVIOUS
<1>1. Wrong = {} /\ \A w \in Writers : adding[w].step = "idle"
  BY DEF Init, Wrong, NoAdd
<1> QED
  BY <1>1 DEF Init, HeightsInv

\* A step that leaves the documents and the migration where they are.
LEMMA FrameHeights ==
  ASSUME HeightsInv, docs' = docs, uniqueIndex' = uniqueIndex,
         version' = version, migPc' = migPc, toCopy' = toCopy,
         lost \subseteq lost', rows["block"] \subseteq rows'["block"],
         \A w \in Writers :
           adding'[w].step # "idle" /\ adding'[w].type = "block" =>
             \/ adding'[w].height = adding'[w].h
             \/ w = "migrator" /\ version = 1 /\ adding'[w].h \in rows["block"],
         \A d \in Wrong' : Copying(d.hash) => Copying(d.hash)'
  PROVE  HeightsInv'
<1>1. Wrong' \subseteq Wrong
  BY DEF Wrong
<1> QED
  BY <1>1 DEF HeightsInv

\* An insert writes a wrong height in version 1 only.
LEMMA AddInsertHeights ==
  ASSUME TypeInv, UniqueInv, HeightsInv, NEW w \in Writers, AddInsert(w)
  PROVE  HeightsInv'
<1> DEFINE a == adding[w]
           new == [hash |-> a.h, type |-> a.type, height |-> a.height,
                   n |-> Cardinality(Found(a)) + 1]
<1>1. /\ a.step = "write" /\ (Found(a) = {} \/ (~a.seen /\ ~uniqueIndex))
      /\ docs' = docs \cup {new} /\ adding' = [adding EXCEPT ![w] = NoAdd]
      /\ UNCHANGED <<uniqueIndex, version, migPc, toCopy, lost, rows>>
  BY DEF AddInsert, migVars, docFrame, dbVars
<1>2. adding \in [Writers -> AddRecords]
  BY DEF TypeInv, TypeOK, AddRecords
<1>3. adding'[w].step = "idle" /\ \A v \in Writers : v # w => adding'[v] = adding[v]
  BY <1>1, <1>2 DEF NoAdd
<1>4. \/ Wrong' = Wrong
      \/ /\ Wrong' = Wrong \cup {new} /\ version = 1 /\ uniqueIndex
         /\ new.hash \in rows["block"]
  <2>1. CASE new.type = "block" /\ new.height # new.hash /\ <<"block", new.hash>> \notin lost
    <3>1. version = 1 /\ new.hash \in rows["block"]
      BY <1>1, <2>1 DEF HeightsInv
    <3> QED
      BY <1>1, <2>1, <3>1 DEF Wrong, UniqueInv
  <2>2. CASE ~(new.type = "block" /\ new.height # new.hash /\ <<"block", new.hash>> \notin lost)
    BY <1>1, <2>2 DEF Wrong
  <2> QED
    BY <2>1, <2>2
<1>5. ASSUME version = 2, migPc = "block", NEW d \in Wrong
      PROVE  d.hash \in toCopy \/ Copying(d.hash)'
  <2>1. d.hash \in toCopy \/ Copying(d.hash)
    BY <1>5 DEF HeightsInv
  <2>2. CASE w = "migrator" /\ Copying(d.hash)
    <3>1. d \in Found(a) /\ uniqueIndex
      BY <2>2 DEF Copying, Wrong, Found, HeightsInv
    <3> QED
      BY <1>1, <3>1
  <2>3. CASE w # "migrator"
    BY <1>3, <2>1, <2>3 DEF Copying, Writers
  <2> QED
    BY <2>1, <2>2, <2>3
<1> QED
  BY <1>1, <1>3, <1>4, <1>5 DEF HeightsInv

\* An update writes a wrong height in version 1 only, and rights the one it finds.
LEMMA AddUpdateHeights ==
  ASSUME TypeInv, UniqueInv, HeightsInv, NEW w \in Writers, AddUpdate(w)
  PROVE  HeightsInv'
<1> DEFINE a == adding[w]
<1>1. PICK d0 \in Found(a) : docs' = (docs \ {d0}) \cup {[d0 EXCEPT !.height = a.height]}
  BY DEF AddUpdate
<1> DEFINE new == [d0 EXCEPT !.height = a.height]
<1>2. /\ a.step = "write" /\ adding' = [adding EXCEPT ![w] = NoAdd]
      /\ UNCHANGED <<uniqueIndex, version, migPc, toCopy, lost, rows>>
  BY DEF AddUpdate, migVars, docFrame, dbVars
<1>3. adding \in [Writers -> AddRecords] /\ docs \subseteq DocRecords
  BY DEF TypeInv, TypeOK, AddRecords, DocRecords
<1>4. adding'[w].step = "idle" /\ \A v \in Writers : v # w => adding'[v] = adding[v]
  BY <1>2, <1>3 DEF NoAdd
<1>5. /\ d0 \in docs /\ new.hash = a.h /\ new.type = a.type /\ new.height = a.height
      /\ d0.hash = a.h /\ d0.type = a.type
  BY <1>1, <1>3 DEF Found, DocRecords
<1>6. ASSUME NEW d \in Wrong', d \notin Wrong
      PROVE  version = 1 /\ uniqueIndex /\ d.hash \in rows["block"]
  <2>1. d = new /\ d.type = "block" /\ d.height # d.hash
    BY <1>1, <1>2, <1>6 DEF Wrong
  <2>2. version = 1 /\ d.hash \in rows["block"]
    BY <1>2, <1>5, <2>1 DEF HeightsInv
  <2> QED
    BY <2>2 DEF UniqueInv
<1>7. ASSUME version = 2, migPc = "block", NEW d \in Wrong'
      PROVE  d.hash \in toCopy \/ Copying(d.hash)'
  <2>1. d \in Wrong /\ (d.hash \in toCopy \/ Copying(d.hash))
    BY <1>6, <1>7 DEF HeightsInv
  <2>2. CASE w = "migrator" /\ Copying(d.hash)
    <3>1. d.hash = d0.hash /\ d.type = d0.type /\ d \in docs /\ Unique
      BY <1>5, <2>1, <2>2 DEF Copying, Wrong, HeightsInv, UniqueInv
    <3>2. d = d0
      BY <1>5, <3>1 DEF Unique
    <3>3. d = new
      BY <1>1, <1>7, <3>2 DEF Wrong
    <3>4. d.height = d.hash
      BY <1>2, <1>5, <1>7, <2>2, <3>3 DEF HeightsInv, Copying
    <3> QED
      BY <1>7, <3>4 DEF Wrong
  <2>3. CASE w # "migrator"
    BY <1>4, <2>1, <2>3 DEF Copying, Writers
  <2> QED
    BY <2>1, <2>2, <2>3
<1>8. \A v \in Writers : adding'[v].step # "idle" /\ adding'[v].type = "block" =>
        \/ adding'[v].height = adding'[v].h
        \/ v = "migrator" /\ version' = 1 /\ adding'[v].h \in rows'["block"]
  BY <1>2, <1>4 DEF HeightsInv
<1>9. (version = 0 \/ version = 3) => Wrong' = {}
  BY <1>6 DEF HeightsInv
<1>10. Wrong' # {} => uniqueIndex
  BY <1>6 DEF HeightsInv
<1>11. \A d \in Wrong' : d.hash \in rows["block"]
  BY <1>6 DEF HeightsInv
<1>12. version = 1 /\ migPc = "block" => toCopy \subseteq rows["block"]
  BY DEF HeightsInv
<1> QED
  BY <1>2, <1>7, <1>8, <1>9, <1>10, <1>11, <1>12 DEF HeightsInv

\* A loss is no longer wrong.
LEMMA AddFailsHeights ==
  ASSUME TypeInv, HeightsInv, NEW w \in Writers, AddFails(w)
  PROVE  HeightsInv'
<1>1. /\ adding' = [adding EXCEPT ![w] = NoAdd]
      /\ lost' = lost \cup {<<adding[w].type, adding[w].h>>}
      /\ UNCHANGED <<docs, uniqueIndex, version, migPc, toCopy, rows>>
  BY DEF AddFails, migVars, docFrame, dbVars
<1>2. adding'[w].step = "idle" /\ \A v \in Writers : v # w => adding'[v] = adding[v]
  BY <1>1 DEF NoAdd, TypeInv, TypeOK
<1>3. \A v \in Writers : adding'[v].step # "idle" /\ adding'[v].type = "block" =>
        \/ adding'[v].height = adding'[v].h
        \/ v = "migrator" /\ version = 1 /\ adding'[v].h \in rows["block"]
  BY <1>2 DEF HeightsInv
<1>4. ASSUME NEW d \in Wrong', Copying(d.hash) PROVE Copying(d.hash)'
  <2>1. CASE w = "migrator"
    <3>1. <<"block", d.hash>> \in lost'
      BY <1>1, <1>4, <2>1 DEF Copying
    <3> QED
      BY <1>4, <3>1 DEF Wrong
  <2>2. CASE w # "migrator"
    BY <1>2, <1>4, <2>2 DEF Copying, Writers
  <2> QED
    BY <2>1, <2>2
<1> QED
  BY <1>1, <1>3, <1>4, FrameHeights

\* The migration copies right heights in version 3, and is done when none is left.
LEMMA MigrateHeights ==
  ASSUME TypeInv, Stage, HeightsInv, Migrate
  PROVE  HeightsInv'
<1>0. /\ adding \in [Writers -> AddRecords] /\ "migrator" \in Writers
      /\ "block" \in Kinds /\ "transaction" # "block"
  BY DEF TypeInv, TypeOK, AddRecords, Writers, Kinds
<1>1. UNCHANGED <<rows, lost>>
  BY DEF Migrate, DropForIndex, CreateIndex, QueryTxs, DropForHeights, CopyHash, QueryBlocks,
         CopiesDone, migFrame, docFrame, dbVars
<1>2. CASE docs' = {} /\ adding' = adding /\ version' = version /\ migPc' # "block"
  <2>1. Wrong' = {}
    BY <1>2 DEF Wrong
  <2> QED
    BY <1>1, <1>2, <2>1 DEF HeightsInv
<1>3. CASE docs' = docs /\ uniqueIndex' = uniqueIndex /\ adding' = adding
           /\ version' = version /\ migPc' # "block"
  <2>1. Wrong' = Wrong
    BY <1>1, <1>3 DEF Wrong
  <2> QED
    BY <1>1, <1>3, <2>1 DEF HeightsInv
<1>4. CASE DropForIndex
  BY <1>2, <1>4 DEF DropForIndex
<1>5. CASE CreateIndex
  <2>1. /\ version = 0 /\ version' = 1 /\ migPc' = "idle" /\ docs' = docs /\ adding' = adding
    BY <1>5 DEF CreateIndex, MigrateDone, Stage
  <2>2. Wrong' = {}
    BY <1>1, <2>1 DEF Wrong, HeightsInv
  <2> QED
    BY <1>1, <2>1, <2>2 DEF HeightsInv
<1>6. CASE QueryTxs
  BY <1>3, <1>6 DEF QueryTxs, docVars
<1>7. CASE DropForHeights
  BY <1>2, <1>3, <1>7 DEF DropForHeights
<1>8. ASSUME NEW h \in Heights, CopyHash(h) PROVE HeightsInv'
  <2>1. /\ adding["migrator"].step = "idle" /\ adding'["migrator"].step = "find"
        /\ adding'["migrator"].type = migPc /\ adding'["migrator"].h = h
        /\ adding'["migrator"].height = HeightOf(migPc, h)
        /\ \A w \in Writers : w # "migrator" => adding'[w] = adding[w]
    BY <1>0, <1>8 DEF CopyHash, StartAdd
  <2>2. /\ docs' = docs /\ uniqueIndex' = uniqueIndex /\ version' = version /\ migPc' = migPc
        /\ migPc \in Kinds /\ h \in toCopy /\ toCopy' = toCopy \ {h} /\ version \in {1, 2}
    BY <1>8 DEF CopyHash, StartAdd, Stage
  <2>3. Wrong' = Wrong
    BY <1>1, <2>2 DEF Wrong
  <2>4. migPc = "block" => \/ version = 2 /\ adding'["migrator"].height = h
                           \/ version = 1 /\ h \in rows["block"]
    BY <2>1, <2>2 DEF HeightOf, HeightsInv
  <2>5. \A w \in Writers : adding'[w].step # "idle" /\ adding'[w].type = "block" =>
          \/ adding'[w].height = adding'[w].h
          \/ w = "migrator" /\ version = 1 /\ adding'[w].h \in rows["block"]
    BY <2>1, <2>4 DEF HeightsInv
  <2>6. ASSUME version = 2, migPc = "block", NEW d \in Wrong
        PROVE  d.hash \in toCopy' \/ Copying(d.hash)'
    <3>1. d.hash \in toCopy
      BY <2>1, <2>6 DEF HeightsInv, Copying
    <3>2. CASE d.hash = h
      BY <2>1, <2>6, <3>2 DEF Copying
    <3> QED
      BY <2>2, <3>1, <3>2
  <2> QED
    BY <1>1, <2>2, <2>3, <2>5, <2>6 DEF HeightsInv
<1>9. CASE QueryBlocks
  <2>1. /\ docs' = docs /\ uniqueIndex' = uniqueIndex /\ adding' = adding
        /\ version' = version /\ toCopy' = rows["block"]
    BY <1>9 DEF QueryBlocks, docVars
  <2>2. Wrong' = Wrong
    BY <1>1, <2>1 DEF Wrong
  <2> QED
    BY <1>1, <2>1, <2>2 DEF HeightsInv
<1>10. CASE CopiesDone
  <2>1. /\ docs' = docs /\ uniqueIndex' = uniqueIndex /\ adding' = adding
        /\ version' = version + 1 /\ migPc' = "idle" /\ migPc = "block" /\ toCopy = {}
        /\ adding["migrator"].step = "idle" /\ version \in {1, 2}
    BY <1>0, <1>10 DEF CopiesDone, MigrateDone, docVars, Stage
  <2>2. Wrong' = Wrong
    BY <1>1, <2>1 DEF Wrong
  <2>3. version = 2 => Wrong = {}
    BY <2>1 DEF HeightsInv, Copying
  <2>4. \A w \in Writers : adding'[w].step # "idle" /\ adding'[w].type = "block" =>
          adding'[w].height = adding'[w].h
    BY <2>1 DEF HeightsInv
  <2> QED
    BY <1>1, <2>1, <2>2, <2>3, <2>4 DEF HeightsInv
<1> QED
  BY <1>4, <1>5, <1>6, <1>7, <1>8, <1>9, <1>10 DEF Migrate

\* Every step keeps wrong heights where version 3 will find them.
LEMMA NextHeights ==
  TypeInv /\ Stage /\ UniqueInv /\ HeightsInv /\ [Next]_vars => HeightsInv'
<1> SUFFICES ASSUME TypeInv, Stage, UniqueInv, HeightsInv, [Next]_vars PROVE HeightsInv'
  OBVIOUS
<1>0. adding \in [Writers -> AddRecords] /\ Kinds \subseteq Writers /\ "migrator" \notin Kinds
      /\ "migrator" \in Writers
  BY DEF TypeInv, TypeOK, AddRecords, Writers, Kinds
<1>1. CASE Elsewhere
  <2>1. /\ docs' = docs /\ uniqueIndex' = uniqueIndex /\ adding' = adding
        /\ version' = version /\ migPc' = migPc /\ toCopy' = toCopy
        /\ lost \subseteq lost' /\ rows["block"] \subseteq rows'["block"]
    BY <1>1 DEF Elsewhere, docVars, migVars
  <2>2. \A h : Copying(h)' = Copying(h)
    BY <2>1 DEF Copying
  <2>3. Wrong' \subseteq Wrong
    BY <2>1 DEF Wrong
  <2> QED
    BY <2>1, <2>2, <2>3 DEF HeightsInv
<1>2. ASSUME NEW k \in Kinds, Consume(k) PROVE HeightsInv'
  <2>1. /\ adding'[k].height = adding'[k].h
        /\ \A w \in Writers : w # k => adding'[w] = adding[w]
    BY <1>0, <1>2 DEF Consume, StartAdd
  <2>2. /\ docs' = docs /\ uniqueIndex' = uniqueIndex /\ version' = version /\ migPc' = migPc
        /\ toCopy' = toCopy /\ lost' = lost /\ rows' = rows
    BY <1>2 DEF Consume, StartAdd, docFrame, dbVars, migVars
  <2>3. \A h : Copying(h) => Copying(h)'
    BY <1>0, <2>1 DEF Copying
  <2>4. \A w \in Writers : adding'[w].step # "idle" /\ adding'[w].type = "block" =>
          \/ adding'[w].height = adding'[w].h
          \/ w = "migrator" /\ version = 1 /\ adding'[w].h \in rows["block"]
    BY <2>1 DEF HeightsInv
  <2> QED
    BY <2>2, <2>3, <2>4, FrameHeights
<1>3. ASSUME NEW w \in Writers, AddFind(w) PROVE HeightsInv'
  <2>1. /\ adding'[w].step # "idle" /\ adding[w].step # "idle"
        /\ adding'[w].type = adding[w].type /\ adding'[w].h = adding[w].h
        /\ adding'[w].height = adding[w].height
        /\ \A v \in Writers : v # w => adding'[v] = adding[v]
    BY <1>0, <1>3 DEF AddFind, AddRecords
  <2>2. /\ docs' = docs /\ uniqueIndex' = uniqueIndex /\ version' = version /\ migPc' = migPc
        /\ toCopy' = toCopy /\ lost' = lost /\ rows' = rows
    BY <1>3 DEF AddFind, docFrame, dbVars, migVars
  <2>3. \A h : Copying(h) => Copying(h)'
    BY <1>0, <2>1 DEF Copying
  <2>4. \A v \in Writers : adding'[v].step # "idle" /\ adding'[v].type = "block" =>
          \/ adding'[v].height = adding'[v].h
          \/ v = "migrator" /\ version = 1 /\ adding'[v].h \in rows["block"]
    BY <2>1 DEF HeightsInv
  <2> QED
    BY <2>2, <2>3, <2>4, FrameHeights
<1>4. ASSUME NEW w \in Writers, AddInsert(w) \/ AddUpdate(w) \/ AddFails(w) PROVE HeightsInv'
  BY <1>4, AddInsertHeights, AddUpdateHeights, AddFailsHeights
<1>5. CASE CrashAndRestart
  <2>1. /\ docs' = docs /\ uniqueIndex' = uniqueIndex /\ version' = version /\ migPc' = "idle"
        /\ rows' = rows /\ lost \subseteq lost' /\ \A w \in Writers : adding'[w].step = "idle"
    BY <1>5 DEF CrashAndRestart, NoAdd
  <2>2. Wrong' \subseteq Wrong
    BY <2>1 DEF Wrong
  <2> QED
    BY <2>1, <2>2 DEF HeightsInv
<1>6. ASSUME Migrate PROVE HeightsInv'
  BY <1>6, MigrateHeights
<1> QED
  BY NextCases, <1>1, <1>2, <1>3, <1>4, <1>5, <1>6 DEF Migrate

(* Once version 3 has completed every block in the index that was not lost has its
   height, although version 2 wrote none and the drop of version 3 may fail. *)
THEOREM BlocksKeepHeights == Spec => []BlocksHaveHeights
<1>1. Init => TypeInv /\ Stage /\ UniqueInv /\ HeightsInv
  BY InitType, InitStage, InitUnique, InitHeights
<1>2. TypeInv /\ Stage /\ UniqueInv /\ HeightsInv /\ [Next]_vars
        => (TypeInv /\ Stage /\ UniqueInv /\ HeightsInv)'
  BY NextType, NextStage, NextUnique, NextHeights
<1>3. HeightsInv => BlocksHaveHeights
  BY DEF HeightsInv, Wrong, BlocksHaveHeights
<1> QED
  BY <1>1, <1>2, <1>3, PTL DEF Spec

-----------------------------------------------------------------------------
(* The lists of the cache (cache.go).                                      *)

(* list is the newest of what was pushed, newest first, and enough of it. *)
Newest(list, all) ==
  /\ Len(list) <= Len(all)
  /\ \A i \in 1 .. Len(list) : list[i] = all[Len(all) - i + 1]
  /\ Len(list) >= ListSize \/ Len(list) >= Len(all)

NewestInv == \A k \in Kinds : Newest(latest[k], pushed[k])

\* LTRIM leaves enough.
LEMMA TrimNewest ==
  ASSUME NEW list \in Seq(Entries), NEW all \in Seq(Entries), Newest(list, all)
  PROVE  Newest(Trim(list), all)
<1>1. Len(list) \in Nat /\ ListSize \in Nat /\ Len(all) \in Nat
  BY Constants
<1>2. CASE Len(list) <= ListSize
  <2>1. Trim(list) = list
    BY <1>2, SubSeqFull DEF Trim
  <2> QED
    BY <2>1
<1>3. CASE ~(Len(list) <= ListSize)
  <2>1. Trim(list) = SubSeq(list, 1, ListSize + 1)
    BY <1>3 DEF Trim
  <2>2. ListSize + 1 \in 1 .. Len(list)
    BY <1>1, <1>3
  <2>3. /\ Len(Trim(list)) = ListSize + 1
        /\ \A i \in 1 .. ListSize + 1 : Trim(list)[i] = list[i]
    BY <2>1, <2>2
  <2> QED
    BY <1>1, <2>2, <2>3 DEF Newest
<1> QED
  BY <1>2, <1>3

\* LPUSH puts the new entry first.
LEMMA PushNewest ==
  ASSUME NEW list \in Seq(Entries), NEW all \in Seq(Entries), Newest(list, all), NEW h \in Entries
  PROVE  Newest(<<h>> \o list, Append(all, h))
<1>1. /\ Len(<<h>> \o list) = Len(list) + 1 /\ Len(list) \in Nat /\ Len(all) \in Nat
      /\ Len(Append(all, h)) = Len(all) + 1
      /\ ListSize \in Nat
  BY Constants
<1>2. ASSUME NEW i \in 1 .. Len(list) + 1
      PROVE  (<<h>> \o list)[i] = Append(all, h)[Len(all) + 1 - i + 1]
  <2>1. CASE i = 1
    BY <1>1, <2>1
  <2>2. CASE i # 1
    <3>1. i - 1 \in 1 .. Len(list) /\ Len(all) - (i - 1) + 1 \in 1 .. Len(all)
      BY <1>1, <2>2 DEF Newest
    <3>2. (<<h>> \o list)[i] = list[i - 1]
      BY <1>1, <2>2
    <3>3. Append(all, h)[Len(all) + 1 - i + 1] = all[Len(all) - (i - 1) + 1]
      BY <1>1, <3>1
    <3> QED
      BY <3>1, <3>2, <3>3 DEF Newest
  <2> QED
    BY <2>1, <2>2
<1> DEFINE list2 == <<h>> \o list
           all2 == Append(all, h)
<1>3. /\ Len(list2) = Len(list) + 1 /\ Len(all2) = Len(all) + 1
      /\ \A i \in 1 .. Len(list) + 1 : list2[i] = all2[Len(all) + 1 - i + 1]
  BY <1>1, <1>2
<1>4. Len(list2) <= Len(all2) /\ (Len(list2) >= ListSize \/ Len(list2) >= Len(all2))
  BY <1>1 DEF Newest
<1> HIDE DEF list2, all2
<1>5. Newest(list2, all2)
  BY <1>3, <1>4 DEF Newest
<1> QED
  BY <1>5 DEF list2, all2

LEMMA AddEntryNewest ==
  ASSUME TypeInv, NewestInv, NEW k \in Kinds, NEW h \in Heights, AddEntry(k, h)
  PROVE  NewestInv'
<1>1. /\ latest \in [Kinds -> Seq(Entries)] /\ pushed \in [Kinds -> Seq(Entries)]
      /\ h \in Entries
  BY Constants DEF TypeInv, TypeOK, Entries
<1> DEFINE list == <<h>> \o latest[k]
           all == Append(pushed[k], h)
<1>2. list \in Seq(Entries) /\ all \in Seq(Entries)
  BY <1>1
<1>3. Newest(list, all)
  BY <1>1, PushNewest DEF NewestInv
<1>4. Newest(Trim(list), all)
  BY <1>2, <1>3, TrimNewest
<1> HIDE DEF list, all
<1>5. CASE UNCHANGED listVars
  BY <1>5 DEF listVars, NewestInv, Newest
<1>6. ASSUME NEW new, Newest(new, all), latest' = [latest EXCEPT ![k] = new],
             pushed' = [pushed EXCEPT ![k] = all]
      PROVE  NewestInv'
  <2>1. ASSUME NEW j \in Kinds PROVE Newest(latest'[j], pushed'[j])
    BY <1>1, <1>6 DEF NewestInv
  <2> QED
    BY <2>1 DEF NewestInv, Newest
<1>7. CASE /\ latest' = [latest EXCEPT ![k] = Trim(list)]
           /\ pushed' = [pushed EXCEPT ![k] = all]
  BY <1>4, <1>6, <1>7
<1>8. CASE /\ latest' = [latest EXCEPT ![k] = list]
           /\ pushed' = [pushed EXCEPT ![k] = all]
  BY <1>3, <1>6, <1>8
<1> QED
  BY <1>5, <1>7, <1>8 DEF AddEntry, list, all

\* The entries of older blocks were trimmed to begin with.
LEMMA InitNewest == Init => NewestInv
<1> SUFFICES ASSUME Init, NEW k \in Kinds PROVE Newest(latest[k], pushed[k])
  BY DEF NewestInv
<1> DEFINE all == [i \in 1 .. OldEntries |-> i - OldEntries]
<1>1. latest[k] = Trim(Reverse(all)) /\ pushed[k] = all
  BY DEF Init
<1>2. all \in Seq(Entries)
  <2>1. \A i \in 1 .. OldEntries : i - OldEntries \in Entries
    BY Constants DEF Entries
  <2> QED
    BY <2>1, Constants
<1> HIDE DEF all
<1>3. Len(all) \in Nat /\ \A i \in 1 .. Len(all) : all[Len(all) - i + 1] \in Entries
  BY <1>2
<1>4. /\ Reverse(all) \in Seq(Entries) /\ Len(Reverse(all)) = Len(all)
      /\ \A i \in 1 .. Len(all) : Reverse(all)[i] = all[Len(all) - i + 1]
  BY <1>3 DEF Reverse
<1>5. Newest(Reverse(all), all)
  BY <1>3, <1>4 DEF Newest
<1> QED
  BY <1>1, <1>2, <1>4, <1>5, TrimNewest

\* Only an announcement touches the lists.
LEMMA NextNewest == TypeInv /\ NewestInv /\ [Next]_vars => NewestInv'
<1> SUFFICES ASSUME TypeInv, NewestInv, [Next]_vars PROVE NewestInv'
  OBVIOUS
<1>1. ASSUME UNCHANGED listVars PROVE NewestInv'
  BY <1>1 DEF listVars, NewestInv, Newest
<1>2. CASE AnnounceBlock
  <2>1. prs.h \in Heights /\ "block" \in Kinds /\ AddEntry("block", prs.h)
    BY <1>2 DEF TypeInv, TypeOK, Kinds, AnnounceBlock
  <2> QED
    BY <2>1, AddEntryNewest
<1>3. CASE AnnounceTx
  <2>1. wr.h \in Heights /\ "transaction" \in Kinds /\ AddEntry("transaction", wr.h)
    BY <1>3, Constants DEF TypeInv, TypeOK, Kinds, AnnounceTx
  <2> QED
    BY <2>1, AddEntryNewest
<1>4. ASSUME NEW h \in Heights, ParseBlock(h) PROVE UNCHANGED listVars
  BY <1>4 DEF ParseBlock
<1>5. WriteTxs => UNCHANGED listVars
  BY DEF WriteTxs
<1>6. ASSUME NEW k \in Kinds, Subscribe(k) \/ Consume(k) PROVE UNCHANGED listVars
  BY <1>6 DEF Subscribe, Consume, docFrame
<1>7. ASSUME NEW w \in Writers, AddHash(w) PROVE UNCHANGED listVars
  BY <1>7 DEF AddHash, AddFind, AddInsert, AddUpdate, AddFails, docFrame
<1>8. Migrate => UNCHANGED listVars
  BY DEF Migrate, DropForIndex, CreateIndex, QueryTxs, DropForHeights, CopyHash, QueryBlocks,
         CopiesDone, migFrame, docFrame
<1>9. CrashAndRestart => UNCHANGED listVars
  BY DEF CrashAndRestart, listVars
<1>10. UNCHANGED vars => UNCHANGED listVars
  BY DEF vars
<1> QED
  BY <1>1, <1>2, <1>3, <1>4, <1>5, <1>6, <1>7, <1>8, <1>9, <1>10 DEF Next, Parser, DBWriter

LEMMA NewestMeans == TypeInv /\ NewestInv => LatestIsNewest
<1> SUFFICES ASSUME TypeInv, NewestInv, NEW k \in Kinds
             PROVE  /\ IsPrefix(latest[k], Reverse(pushed[k]))
                    /\ Len(latest[k]) >= Len(Prefix(pushed[k], ListSize))
  BY DEF LatestIsNewest
<1> DEFINE list == latest[k]
           all == pushed[k]
<1>1. list \in Seq(Entries) /\ all \in Seq(Entries) /\ Newest(list, all)
  BY DEF TypeInv, TypeOK, NewestInv, Entries
<1> HIDE DEF list, all
<1>2. Len(list) \in Nat /\ Len(all) \in Nat /\ ListSize \in Nat /\ Len(list) <= Len(all)
  BY <1>1, Constants DEF Newest
<1>3. \A i \in 1 .. Len(all) : all[Len(all) - i + 1] \in Entries
  BY <1>1, <1>2
<1>4. /\ Reverse(all) \in Seq(Entries) /\ Len(Reverse(all)) = Len(all)
      /\ \A i \in 1 .. Len(all) : Reverse(all)[i] = all[Len(all) - i + 1]
  BY <1>2, <1>3 DEF Reverse
<1>5. SubSeq(list, 1, Len(list)) = SubSeq(Reverse(all), 1, Len(list))
  <2> DEFINE s == SubSeq(list, 1, Len(list))
             t == SubSeq(Reverse(all), 1, Len(list))
  <2>1. s \in Seq(Entries) /\ Len(s) = Len(list) /\ \A i \in 1 .. Len(list) : s[i] = list[i]
    BY <1>1, SubSeqFull
  <2>2. /\ t \in Seq(Entries) /\ Len(t) = Len(list)
        /\ \A i \in 1 .. Len(list) : t[i] = Reverse(all)[i]
    <3>1. \A i \in 1 .. Len(list) : Reverse(all)[i] \in Entries
      BY <1>2, <1>3, <1>4
    <3> QED
      BY <1>2, <3>1, SubSeqProperties
  <2>3. \A i \in 1 .. Len(list) : s[i] = t[i]
    BY <1>1, <1>2, <1>4, <2>1, <2>2 DEF Newest
  <2> HIDE DEF s, t
  <2>4. s = t
    BY <2>1, <2>2, <2>3, SeqEqual
  <2> QED
    BY <2>4 DEF s, t
<1>6. IsPrefix(list, Reverse(all))
  BY <1>2, <1>4, <1>5 DEF IsPrefix
<1>7. Len(list) >= Len(Prefix(all, ListSize))
  <2>1. CASE ListSize > Len(all)
    <3>1. Prefix(all, ListSize) = all
      BY <1>1, <2>1, SubSeqFull DEF Prefix
    <3> QED
      BY <1>1, <1>2, <2>1, <3>1 DEF Newest
  <2>2. CASE ~(ListSize > Len(all))
    <3>1. Len(Prefix(all, ListSize)) = ListSize
      BY <1>1, <1>2, <2>2 DEF Prefix
    <3> QED
      BY <1>1, <1>2, <2>2, <3>1 DEF Newest
  <2> QED
    BY <2>1, <2>2
<1> QED
  BY <1>6, <1>7 DEF list, all

(* AddBlock and AddTransaction: for every size of the lists they hold the newest
   entries without a gap, newest first, and at least maxBlocksCacheSize or
   maxTransactionsCacheSize of them once so many were pushed, although LPUSH and
   LTRIM may fail one without the other. *)
THEOREM ListsStayNewest == Spec => []LatestIsNewest
<1>1. Init => TypeInv /\ Stage /\ NewestInv
  BY InitType, InitStage, InitNewest
<1>2. TypeInv /\ Stage /\ NewestInv /\ [Next]_vars => (TypeInv /\ Stage /\ NewestInv)'
  BY NextType, NextStage, NextNewest
<1>3. TypeInv /\ NewestInv => LatestIsNewest
  BY NewestMeans
<1> QED
  BY <1>1, <1>2, <1>3, PTL DEF Spec

-----------------------------------------------------------------------------
(* The pages of the cache.                                                 *)

\* The i-th page of a list of n entries goes from where the one before it ends.
LEMMA PageIs ==
  ASSUME NEW list, NEW n \in Nat \ {0}, Len(list) = n,
         NEW limit \in 1 .. ListSize, NEW i \in 1 .. n
  PROVE  Page(list, (i - 1) * limit, limit)
           = SubSeq(list, (i - 1) * limit + 1, IF i * limit > n THEN n ELSE i * limit)
<1> DEFINE a == (i - 1) * limit
<1>1. limit \in Nat \ {0} /\ limit <= ListSize /\ ListSize \in Nat
  BY Constants
<1>2. a \in Nat /\ i * limit = a + limit
  BY <1>1
<1> HIDE DEF a
<1>3. Page(list, a, limit) = SubSeq(list, a + 1, IF a + limit > n THEN n ELSE a + limit)
  BY <1>1, <1>2 DEF Page
<1> QED
  BY <1>2, <1>3 DEF a

\* So the pages up to the i-th are the first entries of the list.
LEMMA PagesJoin ==
  ASSUME NEW list \in Seq(Entries), NEW limit \in 1 .. ListSize
  PROVE  FlattenSeq([i \in 1 .. Len(list) |-> Page(list, (i - 1) * limit, limit)]) = list
<1> DEFINE n == Len(list)
           seqs == [i \in 1 .. n |-> Page(list, (i - 1) * limit, limit)]
           End(i) == IF i * limit > n THEN n ELSE i * limit
           g == [i \in 1 .. n |-> SubSeq(list, 1, End(i))]
<1>1. n \in Nat /\ limit \in Nat \ {0}
  BY Constants
<1>4. Len(seqs) = n
  BY <1>1
<1>2. CASE n = 0
  <2>1. seqs = list
    BY <1>2
  <2>2. FlattenSeq(seqs) = seqs
    BY <1>4, <1>2 DEF FlattenSeq
  <2> QED
    BY <2>1, <2>2
<1>3. CASE n # 0
  <2>0. n \in Nat \ {0}
    BY <1>1, <1>3
  <2>1. ASSUME NEW i \in 1 .. n
        PROVE  /\ seqs[i] = SubSeq(list, (i - 1) * limit + 1, End(i))
               /\ End(i) \in 0 .. n
    <3> DEFINE m == i * limit
    <3>1. m \in Nat
      BY <1>1
    <3>2. Page(list, (i - 1) * limit, limit) = SubSeq(list, (i - 1) * limit + 1, End(i))
      BY <2>0, PageIs
    <3>3. seqs[i] = Page(list, (i - 1) * limit, limit)
      OBVIOUS
    <3>4. End(i) = IF m > n THEN n ELSE m
      OBVIOUS
    <3> HIDE DEF m, End
    <3>5. End(i) \in 0 .. n
      BY ONLY <1>1, <3>1, <3>4
    <3> HIDE DEF seqs
    <3> QED
      BY ONLY <3>2, <3>3, <3>5
  <2>2. End(1) = IF limit > n THEN n ELSE limit
    BY <1>1
  <2>3. ASSUME NEW i \in 1 .. n
        PROVE  g[i] = IF i = 1 THEN seqs[i] ELSE g[i - 1] \o seqs[i]
    <3>1. CASE i = 1
      <4>1. (i - 1) * limit + 1 = 1
        BY <1>1, <3>1
      <4> QED
        BY <2>1, <3>1, <4>1
    <3>2. CASE i # 1
      <4> DEFINE a == (i - 1) * limit
      <4>1. i - 1 \in 1 .. n /\ a \in Nat /\ i * limit = a + limit
        BY <1>1, <3>2
      <4>2. g[i] = SubSeq(list, 1, End(i)) /\ g[i - 1] = SubSeq(list, 1, End(i - 1))
        BY <4>1
      <4>3. seqs[i] = SubSeq(list, a + 1, End(i)) /\ End(i) \in 0 .. n
        BY <2>1
      <4>4. /\ End(i - 1) = IF a > n THEN n ELSE a
            /\ End(i) = IF a + limit > n THEN n ELSE a + limit
        BY <4>1
      <4> HIDE DEF a, g, seqs, End
      <4>5. CASE a <= n
        <5>1. End(i - 1) = a /\ a \in 0 .. n /\ End(i) \in a .. n
          BY <1>1, <4>1, <4>4, <4>5
        <5>2. SubSeq(list, 1, a) \o SubSeq(list, a + 1, End(i)) = SubSeq(list, 1, End(i))
          <6>1. 1 \in 1 .. Len(list) + 1 /\ a \in 1 - 1 .. Len(list) /\ End(i) \in a .. Len(list)
            BY <1>1, <5>1
          <6> QED
            BY <6>1, ConcatAdjacentSubSeq
        <5> QED
          BY <3>2, <4>2, <4>3, <5>1, <5>2
      <4>6. CASE ~(a <= n)
        <5>1. End(i - 1) = n /\ End(i) = n
          BY <1>1, <4>1, <4>4, <4>6
        <5>2. SubSeq(list, a + 1, n) = <<>>
          BY <1>1, <4>1, <4>6, SubSeqEmpty
        <5>3. SubSeq(list, 1, n) = list
          BY SubSeqFull
        <5>4. list \o <<>> = list
          BY ConcatEmptySeq
        <5> QED
          BY <3>2, <4>2, <4>3, <5>1, <5>2, <5>3, <5>4
      <4> QED
        BY <1>1, <4>1, <4>5, <4>6
    <3> QED
      BY <3>1, <3>2
  <2>4. Joins(g, seqs, n)
    <3>1. g = [i \in 1 .. n |-> g[i]]
      OBVIOUS
    <3> HIDE DEF g, seqs
    <3> QED
      BY <2>3, <3>1 DEF Joins
  <2>5. g[n] = list
    <3>1. n * limit >= n
      <4>1. 1 * n <= limit * n
        BY <1>1, TimesOrdered
      <4> QED
        BY <1>1, <4>1
    <3>2. n * limit \in Nat
      BY <1>1
    <3>3. End(n) = n
      <4> DEFINE m == n * limit
      <4>1. m \in Nat /\ m >= n /\ End(n) = IF m > n THEN n ELSE m
        BY <3>1, <3>2
      <4> HIDE DEF m, End
      <4> QED
        BY <1>1, <4>1
    <3>4. g[n] = SubSeq(list, 1, n)
      BY <2>0, <3>3
    <3> QED
      BY <3>4, SubSeqFull
  <2> HIDE DEF g, seqs, n, End
  <2>6. FlattenSeq(seqs) = g[n]
    BY <1>4, <2>0, <2>4, FlattenIs
  <2> QED
    BY <2>5, <2>6 DEF seqs, n
<1> QED
  BY <1>2, <1>3

(* GetBlocks and GetTransactions: for every length of the lists and every limit
   up to it, following the pages returns every entry once and in order. *)
THEOREM PagesTileAlways == Spec => []PagesTile
<1>1. TypeInv => PagesTile
  BY PagesJoin DEF TypeInv, TypeOK, Entries, PagesTile
<1>2. Init => TypeInv /\ Stage
  BY InitType, InitStage
<1>3. TypeInv /\ Stage /\ [Next]_vars => (TypeInv /\ Stage)'
  BY NextType, NextStage
<1> QED
  BY <1>1, <1>2, <1>3, PTL DEF Spec
=============================================================================
