---------------------------- MODULE BlockEnqueue ----------------------------
(***************************************************************************)
(* The block enqueue functions of src/core/block_enqueue.go as runIndexer  *)
(* uses them: one goroutine that writes heights on blockEnqueueChan.       *)
(* Generate*EnqueueFunction reads the tables once, at start-up; the        *)
(* function it returns then runs against a chain that keeps growing and    *)
(* against the RPC workers that drain the channel.                         *)
(*                                                                         *)
(* Validate (config/index_config.go) refuses base.index-transactions =     *)
(* false, so EnqueueData.IndexTransactions is always true and an element   *)
(* of the channel is a height.                                             *)
(***************************************************************************)
EXTENDS IndexerTables

CONSTANTS
  Configs,          \* the configurations the process may be started with
  QueueCap,         \* cap(blockEnqueueChan), 100000 in runIndexer
  InitialHeight,    \* the chain's latest height when the model starts
  EarliestHeight,   \* the lowest height the node still serves
  InputFile,        \* mode blockFile: the set of heights in the file
  MsgTypeCount      \* mode msgType: messages of the wanted type in each block

(* The settings of IndexConfig.Base that choose and drive an enqueue function. *)
Config == [mode : {"default", "blockFile", "msgType"},
           startBlock : Int \ {0},
           endBlock : {-1} \cup (Nat \ {0}),
           reIndex : BOOLEAN,
           reattemptFailedBlocks : BOOLEAN,
           exitWhenCaughtUp : BOOLEAN]

ASSUME EnqueueAssumption ==
  /\ Configs \subseteq Config
  /\ QueueCap \in Nat \ {0}
  /\ InitialHeight \in Heights
  /\ EarliestHeight \in Heights
  /\ InputFile \subseteq Nat
  /\ MsgTypeCount \in [Heights -> Nat]

VARIABLES
  config,          \* what this run of the process was started with
  head,            \* the latest height of the chain
  blockChan,       \* blockEnqueueChan: a sequence of heights
  enqPc,           \* where the enqueue goroutine is
  planned,         \* how often each height of the start-up list is still to be sent
  currBlock,       \* currBlock of the default function
  latestBlock,     \* latestBlock of the default function
  blocksInDB       \* heights of blocksInDB with TxIndexed, as read at start-up

enqVars == <<blockChan, enqPc, planned, currBlock, latestBlock, blocksInDB>>

EnqPcs == {"init", "planned", "check", "fill", "done"}

\* math.MaxInt64 as the first latestBlock: above every height.
MaxInt64 == MaxHeight + 1

NothingPlanned == [h \in Heights |-> 0]

\* Variant: the start block -1 of a resumed run is not replaced.
FirstBlockUnchecked == config.startBlock

FirstBlock == IF config.startBlock <= 0 THEN 1 ELSE config.startBlock

InRange(h) == config.endBlock = -1 \/ h <= config.endBlock

EnqTypeOK ==
  /\ config \in Configs
  /\ head \in Heights
  /\ blockChan \in Seq(Heights)
  /\ Len(blockChan) <= QueueCap
  /\ enqPc \in EnqPcs
  /\ planned \in [Heights -> Nat]
  /\ currBlock \in Nat \ {0}
  /\ latestBlock \in 1 .. MaxInt64
  /\ blocksInDB \subseteq Heights

\* The volatile state of the enqueue goroutine when the process starts.
EnqReset ==
  /\ blockChan' = <<>>
  /\ enqPc' = "init"
  /\ planned' = NothingPlanned
  /\ currBlock' = 1
  /\ latestBlock' = MaxInt64
  /\ blocksInDB' = {}

EnqInit ==
  /\ config \in Configs
  /\ head = InitialHeight
  /\ blockChan = <<>>
  /\ enqPc = "init"
  /\ planned = NothingPlanned
  /\ currBlock = 1
  /\ latestBlock = MaxInt64
  /\ blocksInDB = {}

-----------------------------------------------------------------------------
(* Start-up: what each generator reads from the tables, the file and the node. *)

\* Each height of a set once.
Once(S) == [h \in Heights |-> IF h \in S THEN 1 ELSE 0]

\* Variant: a row counts as indexed whatever its tx_indexed says.
GenerateDefaultAnyRow ==
  LET found == IF config.reIndex THEN {}
                                 ELSE GetBlocksFromStart(FirstBlock, config.endBlock)
  IN  /\ config.mode = "default"
      /\ planned' = Once(IF config.reattemptFailedBlocks THEN failedBlocks ELSE {})
      /\ currBlock' \in IF found = {} THEN {FirstBlock} ELSE found
      /\ blocksInDB' = found

\* Variant: only the failed blocks of the range are reattempted.
GenerateDefaultFailedInRange ==
  LET found == IF config.reIndex THEN {}
                                 ELSE GetBlocksFromStart(FirstBlock, config.endBlock)
  IN  /\ config.mode = "default"
      /\ planned' = Once({h \in failedBlocks : config.reattemptFailedBlocks /\ h >= FirstBlock})
      /\ currBlock' \in IF found = {} THEN {FirstBlock} ELSE found
      /\ blocksInDB' = found \cap txIndexed

GenerateDefault ==
  LET found == IF config.reIndex THEN {}
                                 ELSE GetBlocksFromStart(FirstBlock, config.endBlock)
  IN  /\ config.mode = "default"
      /\ planned' = Once(IF config.reattemptFailedBlocks THEN failedBlocks ELSE {})
      /\ currBlock' \in IF found = {} THEN {FirstBlock} ELSE found
      /\ blocksInDB' = found \cap txIndexed

\* Variant: the heights of the file are taken as they are.
GenerateBlockFileUnchecked ==
  /\ config.mode = "blockFile"
  /\ planned' = Once(InputFile)
  /\ UNCHANGED <<currBlock, blocksInDB>>

\* Duplicates are removed and heights outside earliest..latest are skipped.
GenerateBlockFile ==
  /\ config.mode = "blockFile"
  /\ planned' = Once(InputFile \cap (EarliestHeight .. head))
  /\ UNCHANGED <<currBlock, blocksInDB>>

\* How many messages of the wanted type the tables may hold of a block: of one that
\* was stored without some of its transactions, any number of them.
StoredOfMsgType(h) ==
  IF h \in txsStored THEN {MsgTypeCount[h]}
  ELSE IF h \in txIndexed THEN 0 .. MsgTypeCount[h] ELSE {0}

\* The query joins messages and has no DISTINCT: a height comes once for each
\* message of the wanted type.
GenerateMsgType ==
  LET last == IF config.endBlock = -1 THEN GetHighestIndexedBlock ELSE config.endBlock
  IN  /\ config.mode = "msgType"
      /\ planned' \in [Heights -> UNION {0 .. MsgTypeCount[h] : h \in Heights}]
      /\ \A h \in Heights :
           planned'[h] \in IF config.startBlock <= h /\ h <= last THEN StoredOfMsgType(h) ELSE {0}
      /\ UNCHANGED <<currBlock, blocksInDB>>

Generate ==
  /\ enqPc = "init"
  /\ GenerateDefault \/ GenerateBlockFile \/ GenerateMsgType
  /\ enqPc' = "planned"
  /\ UNCHANGED <<config, head, blockChan, latestBlock, tables>>

-----------------------------------------------------------------------------
(* The enqueue function itself. *)

\* blockChan <- height: blocks while the channel is full.
SendHeight(h) ==
  /\ Len(blockChan) < QueueCap
  /\ blockChan' = Append(blockChan, h)

\* The start-up list: sorted by height, except for msgType, whose rows come in
\* the order the database likes.
EnqueuePlanned ==
  /\ enqPc = "planned"
  /\ \E h \in Heights :
       /\ planned[h] > 0
       /\ config.mode # "msgType" => \A g \in Heights : planned[g] > 0 => h <= g
       /\ SendHeight(h)
       /\ planned' = [planned EXCEPT ![h] = @ - 1]
  /\ UNCHANGED <<config, head, enqPc, currBlock, latestBlock, blocksInDB, tables>>

\* The list is sent: the default function goes on to the range, the other two
\* return and runIndexer closes the channel.
PlannedSent ==
  /\ enqPc = "planned"
  /\ planned = NothingPlanned
  /\ enqPc' = IF config.mode = "default" THEN "check" ELSE "done"
  /\ UNCHANGED <<config, head, blockChan, planned, currBlock, latestBlock, blocksInDB, tables>>

PastEnd == ~InRange(currBlock)
CaughtUp == config.exitWhenCaughtUp /\ currBlock > latestBlock

\* The two returns at the top of the loop; runIndexer then closes the channel.
ExitEnqueue ==
  /\ enqPc = "check"
  /\ PastEnd \/ CaughtUp
  /\ enqPc' = "done"
  /\ UNCHANGED <<config, head, blockChan, planned, currBlock, latestBlock, blocksInDB, tables>>

\* Variant: the latest height is asked for once.
RefreshLatestOnce ==
  /\ enqPc = "check"
  /\ ~PastEnd /\ ~CaughtUp
  /\ Len(blockChan) <= QueueCap \div 4
  /\ latestBlock' = IF latestBlock = MaxInt64 THEN head ELSE latestBlock
  /\ enqPc' = "fill"
  /\ UNCHANGED <<config, head, blockChan, planned, currBlock, blocksInDB, tables>>

\* Only when the queue is at most a quarter full; otherwise the loop spins.
RefreshLatest ==
  /\ enqPc = "check"
  /\ ~PastEnd /\ ~CaughtUp
  /\ Len(blockChan) <= QueueCap \div 4
  /\ latestBlock' = head
  /\ enqPc' = "fill"
  /\ UNCHANGED <<config, head, blockChan, planned, currBlock, blocksInDB, tables>>

\* Variant: the end block is compared only at the top of the loop.
MoreToFillPastEnd ==
  /\ currBlock < latestBlock
  /\ Len(blockChan) # QueueCap

MoreToFill ==
  /\ currBlock < latestBlock
  /\ InRange(currBlock)
  /\ Len(blockChan) # QueueCap

SkipIndexed ==
  /\ enqPc = "fill"
  /\ MoreToFill
  /\ ~config.reIndex /\ currBlock \in blocksInDB
  /\ currBlock' = currBlock + 1
  /\ UNCHANGED <<config, head, blockChan, enqPc, planned, latestBlock, blocksInDB, tables>>

\* Variant: what is in blocksInDB is sent as well.
EnqueueNextAlways ==
  /\ enqPc = "fill"
  /\ MoreToFill
  /\ SendHeight(currBlock)
  /\ currBlock' = currBlock + 1
  /\ UNCHANGED <<config, head, enqPc, planned, latestBlock, blocksInDB, tables>>

\* A row without TxIndexed and a height without a row are sent alike.
EnqueueNext ==
  /\ enqPc = "fill"
  /\ MoreToFill
  /\ config.reIndex \/ currBlock \notin blocksInDB
  /\ SendHeight(currBlock)
  /\ currBlock' = currBlock + 1
  /\ UNCHANGED <<config, head, enqPc, planned, latestBlock, blocksInDB, tables>>

StopFilling ==
  /\ enqPc = "fill"
  /\ ~MoreToFill
  /\ enqPc' = "check"
  /\ UNCHANGED <<config, head, blockChan, planned, currBlock, latestBlock, blocksInDB, tables>>

EnqueueStep ==
  \/ Generate \/ EnqueuePlanned \/ PlannedSent
  \/ ExitEnqueue \/ RefreshLatest
  \/ SkipIndexed \/ EnqueueNext \/ StopFilling

\* The environment: the chain makes a block.
ChainGrows ==
  /\ head < MaxHeight
  /\ head' = head + 1
  /\ UNCHANGED <<config, enqVars, tables>>
=============================================================================
