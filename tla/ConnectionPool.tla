---------------------------- MODULE ConnectionPool ----------------------------
(***************************************************************************)
(* The pgx connection pool (connectPgxPool, cmd/index.go) that the queries *)
(* of the server share with the DB worker, the goroutines it starts, the   *)
(* refresh of the views and the migration.                                 *)
(*                                                                         *)
(* A query keeps its connection until its rows are read to the end.  Three *)
(* kinds of calls ask for another one while they read:                     *)
(*   getTransactionsByTypes, GetVotes and DelegatesByValidator call        *)
(*   Transactions for each row, and Transactions calls blockInfo,          *)
(*   feesByTransaction and GetSenderAndReceiverV2 for each of its rows.    *)
(* So a call holds up to three connections, one for each level of nesting, *)
(* and waits without a timeout for the next.  Nothing relates the size of  *)
(* the pool to the number of calls.                                        *)
(***************************************************************************)
EXTENDS Integers, FiniteSets

CONSTANTS
  Calls,        \* calls of the server that may run at a time
  Conns         \* size of the pool

MaxNesting == 3

ASSUME PoolAssumption ==
  /\ IsFiniteSet(Calls)
  /\ Conns \in Nat \ {0}

VARIABLES
  held,         \* connections each call holds
  waiting       \* the calls that wait for a connection

pool == <<held, waiting>>

Held == {p \in Calls \X (1 .. MaxNesting) : p[2] <= held[p[1]]}

Free == Conns - Cardinality(Held)

PoolInit ==
  /\ held = [c \in Calls |-> 0]
  /\ waiting = {}

\* db.Query or db.QueryRow at the next level.
Query(c) ==
  /\ c \notin waiting
  /\ held[c] < MaxNesting
  /\ waiting' = waiting \cup {c}
  /\ UNCHANGED held

\* The pool has a connection for the call.
Acquire(c) ==
  /\ c \in waiting
  /\ Free > 0
  /\ waiting' = waiting \ {c}
  /\ held' = [held EXCEPT ![c] = @ + 1]

\* Variant: rows that are not read to the end are closed only two levels down.
CloseLeaks(c) ==
  /\ c \notin waiting
  /\ held[c] = MaxNesting
  /\ held' = [held EXCEPT ![c] = @ - 1]
  /\ UNCHANGED waiting

\* The rows of the innermost query are read or closed.
Close(c) ==
  /\ c \notin waiting
  /\ held[c] > 0
  /\ held' = [held EXCEPT ![c] = @ - 1]
  /\ UNCHANGED waiting

PoolNext == \E c \in Calls : Query(c) \/ Acquire(c) \/ Close(c)

PoolSpec == PoolInit /\ [][PoolNext]_pool

PoolTypeOK ==
  /\ held \in [Calls -> 0 .. MaxNesting]
  /\ waiting \subseteq Calls
=============================================================================
