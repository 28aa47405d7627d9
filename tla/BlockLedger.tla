----------------------------- MODULE BlockLedger -----------------------------
(***************************************************************************)
(* What the indexer promises about a block, whatever its stages, channels  *)
(* and processes are: a block that has been requested is pending until it  *)
(* is either indexed or recorded as failed, or is lost in transit; once    *)
(* indexed it is never failed, lost or requested again.                    *)
(***************************************************************************)
CONSTANT Blocks

VARIABLES pending, indexed, failed, lost

ledger == <<pending, indexed, failed, lost>>

Init ==
  /\ pending = {}
  /\ indexed = {}
  /\ failed = {}
  /\ lost = {}

\* A failed or lost block may be requested again, an indexed one may not.
Request(b) ==
  /\ b \notin pending \cup indexed
  /\ pending' = pending \cup {b}
  /\ UNCHANGED <<indexed, failed, lost>>

Index(b) ==
  /\ b \in pending
  /\ pending' = pending \ {b}
  /\ indexed' = indexed \cup {b}
  /\ failed' = failed \ {b}
  /\ UNCHANGED lost

Fail(b) ==
  /\ b \in pending
  /\ pending' = pending \ {b}
  /\ failed' = failed \cup {b}
  /\ UNCHANGED <<indexed, lost>>

Lose(S) ==
  /\ S \subseteq pending
  /\ pending' = pending \ S
  /\ lost' = lost \cup S
  /\ UNCHANGED <<indexed, failed>>

Next ==
  \/ \E b \in Blocks : Request(b) \/ Index(b) \/ Fail(b)
  \/ \E S \in SUBSET pending : Lose(S)

Spec == Init /\ [][Next]_ledger
=============================================================================
