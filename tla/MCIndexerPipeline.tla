-------------------------- MODULE MCIndexerPipeline --------------------------
(* Instances of IndexerPipeline for TLC. *)
EXTENDS IndexerPipeline, TLC

Default(first, last) ==
  [mode |-> "default", startBlock |-> first, endBlock |-> last, reIndex |-> FALSE,
   reattemptFailedBlocks |-> FALSE, exitWhenCaughtUp |-> FALSE]

\* Indexing for ever.
Endless == {Default(1, -1)}

\* A bounded run, and one that resumes from the highest block indexed.
Resuming == {Default(1, 2), Default(-1, -1)}

\* Every way to choose blocks.
AllModes ==
  LET d == Default(1, 1)
  IN  {d, [d EXCEPT !.reattemptFailedBlocks = TRUE], [d EXCEPT !.reIndex = TRUE],
       [d EXCEPT !.mode = "blockFile"], [d EXCEPT !.mode = "msgType"]}

\* Redis delivers all that is published.
DeliveredSpec == Init /\ [][Next /\ \A w \in Workers : ~PublishLost(w)]_vars

\* Messages of the type to reindex: two in block 1.
TwoInFirst == [h \in Heights |-> IF h = 1 THEN 2 ELSE 0]

\* The RPC workers are interchangeable.
WorkerSymmetry == Permutations(Workers)
=============================================================================
