------------------------------ MODULE RpcRetry ------------------------------
(***************************************************************************)
(* How long a failed RPC query waits before it is made again:              *)
(* GetBackoffDurationForAttempts of rpc/blocks.go, for the loops of        *)
(* GetBlockResultWithRetry (rpc/blocks.go) and                             *)
(* GetLatestBlockHeightWithRetry (clients/chain_rpc.go), which are the     *)
(* same.  A time.Duration is a signed word that counts fractions of a      *)
(* second; here both are small.                                            *)
(***************************************************************************)
EXTENDS Integers

CONSTANTS
  Second,       \* time.Second, 10^9 in the code
  MaxDuration   \* the greatest time.Duration, 2^63 - 1 in the code

ASSUME DurationAssumption ==
  /\ Second \in Nat \ {0}
  /\ MaxDuration \in Nat
  /\ 30 * Second <= MaxDuration

MinDuration == -MaxDuration - 1

\* Integer arithmetic on durations wraps around.
Wrapped(n) == ((n - MinDuration) % (2 * MaxDuration + 2)) + MinDuration

\* A float that is out of range converts to the least or, on other processors,
\* to the greatest duration.
Converted(n) == IF n > MaxDuration THEN {MinDuration, MaxDuration} ELSE {n}

AtLeastTwo(wait) == IF wait < 2 THEN 2 ELSE wait

\* retryMaxWaitSeconds, with the guard against the overflow of the product.
MaxRetryTime(wait) ==
  LET time == Wrapped(AtLeastTwo(wait) * Second)
  IN  IF time < 0 THEN 30 * Second ELSE time

Power(base) == LET power[n \in Nat] == IF n = 0 THEN 1 ELSE base * power[n - 1] IN power

\* math.Pow(1.5, attempts) seconds.
PowerOfBackoff(attempts) == (Second * Power(3)[attempts]) \div Power(2)[attempts]

\* Variant: only a duration that is too long is capped.
CappedAbove(duration, max) ==
  IF duration > max THEN [wait |-> max, maxReached |-> TRUE]
                    ELSE [wait |-> duration, maxReached |-> FALSE]

Capped(duration, max) ==
  IF duration > max \/ duration < 0 THEN [wait |-> max, maxReached |-> TRUE]
                                    ELSE [wait |-> duration, maxReached |-> FALSE]

GetBackoffDurationForAttempts(attempts, max) ==
  {Capped(duration, max) : duration \in Converted(PowerOfBackoff(attempts))}

\* Variant: the attempt before the first retry is not counted.
MayRetryOnceMore(attempts, maxAttempts) == maxAttempts < 0 \/ attempts - 1 <= maxAttempts

\* Is a query that has failed for the attempts-th time made again?
MayRetry(attempts, maxAttempts) == maxAttempts < 0 \/ attempts <= maxAttempts
=============================================================================
