---------------------------- MODULE IndexerTables ----------------------------
(***************************************************************************)
(* The PostgreSQL tables that decide which blocks are indexed: blocks (its *)
(* flags tx_indexed and block_events_indexed), failed_blocks and           *)
(* failed_event_blocks, of one chain.  Each operator below is one          *)
(* committed gorm transaction of src/db, so it is one step; a transaction  *)
(* that returns an error changes nothing.                                  *)
(***************************************************************************)
EXTENDS Integers, FiniteSets, Sequences, Functions

CONSTANT MaxHeight      \* bound of the model: the highest block the chain makes

ASSUME MaxHeightAssumption == MaxHeight \in Nat

Heights == 1 .. MaxHeight

VARIABLES
  txIndexed,          \* heights whose row of blocks has tx_indexed = true
  eventsIndexed,      \* heights whose row of blocks has block_events_indexed = true
  customIndexed,      \* heights whose custom block event data was committed
  failedBlocks,       \* heights in failed_blocks
  failedEventBlocks,  \* heights in failed_event_blocks
  txsStored           \* heights whose transactions are all in txes

tables == <<txIndexed, eventsIndexed, customIndexed, failedBlocks,
            failedEventBlocks, txsStored>>

TablesTypeOK ==
  /\ txIndexed \subseteq Heights
  /\ eventsIndexed \subseteq Heights
  /\ customIndexed \subseteq Heights
  /\ failedBlocks \subseteq Heights
  /\ failedEventBlocks \subseteq Heights
  /\ txsStored \subseteq Heights

TablesInit ==
  /\ txIndexed = {}
  /\ eventsIndexed = {}
  /\ customIndexed = {}
  /\ failedBlocks = {}
  /\ failedEventBlocks = {}
  /\ txsStored = {}

\* A row of blocks is created by whichever of IndexNewBlock and
\* IndexBlockEvents comes first, with only its own flag set.
BlockRows == txIndexed \cup eventsIndexed

UpsertFailedBlock(h) ==
  /\ failedBlocks' = failedBlocks \cup {h}
  /\ UNCHANGED <<txIndexed, eventsIndexed, customIndexed, failedEventBlocks, txsStored>>

UpsertFailedEventBlock(h) ==
  /\ failedEventBlocks' = failedEventBlocks \cup {h}
  /\ UNCHANGED <<txIndexed, eventsIndexed, customIndexed, failedBlocks, txsStored>>

\* Variant: the row of failed_blocks stays.
IndexNewBlockKeepsFailed(h, complete) ==
  /\ txIndexed' = txIndexed \cup {h}
  /\ txsStored' = IF complete THEN txsStored \cup {h} ELSE txsStored
  /\ UNCHANGED <<eventsIndexed, customIndexed, failedBlocks, failedEventBlocks>>

\* One transaction: the row of failed_blocks goes, the block row and its
\* transactions come.  "complete" says that the caller's list holds every
\* transaction of the block.
IndexNewBlock(h, complete) ==
  /\ failedBlocks' = failedBlocks \ {h}
  /\ txIndexed' = txIndexed \cup {h}
  /\ txsStored' = IF complete THEN txsStored \cup {h} ELSE txsStored
  /\ UNCHANGED <<eventsIndexed, customIndexed, failedEventBlocks>>

\* Variant: the row is deleted from the other failure table.
IndexBlockEventsWrongTable(h) ==
  /\ failedBlocks' = failedBlocks \ {h}
  /\ eventsIndexed' = eventsIndexed \cup {h}
  /\ UNCHANGED <<txIndexed, customIndexed, failedEventBlocks, txsStored>>

IndexBlockEvents(h) ==
  /\ failedEventBlocks' = failedEventBlocks \ {h}
  /\ eventsIndexed' = eventsIndexed \cup {h}
  /\ UNCHANGED <<txIndexed, customIndexed, failedBlocks, txsStored>>

IndexCustomBlockEvents(h) ==
  /\ customIndexed' = customIndexed \cup {h}
  /\ UNCHANGED <<txIndexed, eventsIndexed, failedBlocks, failedEventBlocks, txsStored>>

\* GetBlockByHeight(h).ID > 0: the query asks for tx_indexed = true.
BlockAlreadyIndexed(h) == h \in txIndexed

\* GetBlocksFromStart: ORDER BY height DESC LIMIT 1, so at most one height.
GetBlocksFromStart(start, end) ==
  LET inRange == {h \in BlockRows : h >= start /\ (end = -1 \/ h <= end)}
  IN  {h \in inRange : \A g \in inRange : g <= h}

\* GetHighestIndexedBlock(...).Height: the zero value when there is none.
GetHighestIndexedBlock ==
  IF txIndexed = {} THEN 0
                    ELSE CHOOSE h \in txIndexed : \A g \in txIndexed : g <= h
=============================================================================
