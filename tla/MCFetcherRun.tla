----------------------------- MODULE MCFetcherRun -----------------------------
(* Instances of FetcherRun for TLC. *)
EXTENDS FetcherRun

TwoRanges == [startBlock |-> 1, endBlock |-> 2, steps |-> 1, reIndex |-> FALSE,
              reattempt |-> TRUE, exitCaughtUp |-> FALSE, maxAttempts |-> 0, maxWait |-> 30]

OneRange == [TwoRanges EXCEPT !.startBlock = 2, !.steps = 2, !.exitCaughtUp = TRUE]

\* Two ranges without retries; one with some, and with endless ones up to a
\* maximum next to the greatest duration and with a product that overflows to a
\* negative and to a small wait.
MCSettings ==
  {TwoRanges, [TwoRanges EXCEPT !.reIndex = TRUE, !.reattempt = FALSE]}
  \cup {[OneRange EXCEPT !.maxAttempts = 2, !.maxWait = 1]}
  \cup {[OneRange EXCEPT !.maxAttempts = -1, !.maxWait = wait] : wait \in {1, 30, 40, 70}}

MCMaxRestarts == [s \in MCSettings |-> IF s.maxAttempts = 2 THEN 1 ELSE 0]

NoRows == [h \in Heights |-> "none"]

MCEarlierRuns ==
  {[rows |-> NoRows, failed |-> {1}],
   [rows |-> [NoRows EXCEPT ![2] = "events"], failed |-> {}],
   [rows |-> [NoRows EXCEPT ![1] = "events", ![2] = "tx"], failed |-> {}]}
=============================================================================
