----------------------------- MODULE MCEnqueueRun -----------------------------
(* Instances of EnqueueRun for TLC. *)
EXTENDS EnqueueRun

Base == [mode |-> "default", startBlock |-> 1, endBlock |-> -1, reIndex |-> FALSE,
         reattemptFailedBlocks |-> FALSE, exitWhenCaughtUp |-> FALSE]

\* The default function with and without each of its settings, and the other two.
EveryConfig ==
  {[Base EXCEPT !.startBlock = first, !.endBlock = last, !.reIndex = re,
                !.reattemptFailedBlocks = failed] :
     first \in {-1, 2}, last \in {-1, 2}, re \in BOOLEAN, failed \in BOOLEAN}
  \cup {[Base EXCEPT !.mode = "blockFile"], [Base EXCEPT !.mode = "msgType"]}

\* base.exit-when-caught-up as in config.toml.example.
ExitCaughtUp == {[Base EXCEPT !.exitWhenCaughtUp = TRUE]}

TwoInFirst == [h \in Heights |-> IF h = 1 THEN 2 ELSE 1]
=============================================================================
