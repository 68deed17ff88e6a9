----------------------------- MODULE TokenBucket -----------------------------
(***************************************************************************)
(* The token bucket of src/src/token-bucket.ts, as operators on a bucket   *)
(* record.  Tokens are counted in grains (Grain of them to a token) and    *)
(* time in ticks (Second of them to a second), so that the fractional      *)
(* refill of the code is exact here: a bucket gains drip grains per tick.  *)
(* The code computes in doubles; their rounding is not modelled.           *)
(***************************************************************************)
EXTENDS Integers

CONSTANTS
  Grain,    \* grains in one token
  Second    \* ticks in one second

ASSUME BucketAssumption == Grain \in Nat \ {0} /\ Second \in Nat \ {0}

Bucket == [size : Nat \ {0}, drip : Nat \ {0}, tokens : Nat, last : Nat]

\* What every operation below keeps: a bucket never holds more than its size.
WithinSize(b) == b.tokens <= b.size * Grain

CeilDiv(a, d) == (a + d - 1) \div d

\* new TokenBucket(rate, bucketSize): it starts full.
NewBucket(size, drip, now) ==
  [size |-> size, drip |-> drip, tokens |-> size * Grain, last |-> now]

AtMost(cap, n) == IF n <= cap THEN n ELSE cap

\* Mutant of Refilled: no protection against a clock that went back.
RefilledSkewed(b, now) ==
  [b EXCEPT !.tokens = AtMost(b.size * Grain, @ + (now - b.last) * b.drip),
            !.last = now]

\* Mutant of Refilled: lastRefill is not moved on.
RefilledTwice(b, now) ==
  IF now <= b.last THEN b
  ELSE [b EXCEPT !.tokens = AtMost(b.size * Grain, @ + (now - b.last) * b.drip)]

\* refill(): time passed since the last refill, if any, becomes tokens.
Refilled(b, now) ==
  IF now <= b.last THEN b
  ELSE [b EXCEPT !.tokens = AtMost(b.size * Grain, @ + (now - b.last) * b.drip),
                 !.last = now]

\* if (count <= 0) count = 1
Cost(n) == IF n <= 0 THEN 1 ELSE n

\* consume(count): allowed, the bucket it leaves, and retryAfterSec.
Admits(b, n, now) == Refilled(b, now).tokens >= Cost(n) * Grain

\* Mutant of Spent: takes the tokens whether or not they are there.
SpentBlindly(b, n, now) == [Refilled(b, now) EXCEPT !.tokens = @ - Cost(n) * Grain]

Spent(b, n, now) ==
  IF Admits(b, n, now)
    THEN [Refilled(b, now) EXCEPT !.tokens = @ - Cost(n) * Grain]
    ELSE Refilled(b, now)

\* Mutant of RetryAfter: rounded down.
RetryAfterFloor(b, n, now) ==
  IF Admits(b, n, now) THEN 0
  ELSE (Cost(n) * Grain - Refilled(b, now).tokens) \div (b.drip * Second)

\* Mutant of RetryAfter: a second too many.
RetryAfterPadded(b, n, now) ==
  IF Admits(b, n, now) THEN 0
  ELSE (Cost(n) * Grain - Refilled(b, now).tokens) \div (b.drip * Second) + 1

RetryAfter(b, n, now) ==
  IF Admits(b, n, now) THEN 0
  ELSE CeilDiv(Cost(n) * Grain - Refilled(b, now).tokens, b.drip * Second)

\* drain(): used when the upstream answers 429.
Drained(b, now) == [b EXCEPT !.tokens = 0, !.last = now]

\* getRemaining() and getSecondsUntilRefill(); both leave Refilled(b, now).
Remaining(b, now) == Refilled(b, now).tokens \div Grain

SecondsUntilRefill(b, now) ==
  IF Refilled(b, now).tokens >= Grain THEN 0
  ELSE CeilDiv(Grain - Refilled(b, now).tokens, b.drip * Second)
=============================================================================
