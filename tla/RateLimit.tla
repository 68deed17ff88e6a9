------------------------------ MODULE RateLimit ------------------------------
(***************************************************************************)
(* One token bucket in use: requests of several sizes, drains after an     *)
(* upstream 429, reads of the remaining tokens, and a clock (Date.now())   *)
(* that may also be set back.  Two histories are kept: what was admitted   *)
(* since the bucket was created or last drained, and the last promise made *)
(* by a Retry-After header.                                                *)
(***************************************************************************)
EXTENDS TokenBucket

CONSTANTS
  Size,       \* bucketSize
  Drip,       \* rate, in grains per tick
  Requests,   \* token counts that requests ask for
  NoPromise,
  MaxClock    \* bound on the clock (model checking only)

ASSUME RateLimitAssumption ==
  /\ Size \in Nat \ {0} /\ Drip \in Nat \ {0}
  /\ Requests \subseteq Int
  /\ MaxClock \in Nat
  /\ NoPromise \notin [count : Int, at : Int]

VARIABLES
  bucket,
  clock,
  used,      \* tokens admitted since the ledger was opened (history)
  base,      \* grains in the bucket when the ledger was opened (history)
  since,     \* when the ledger was opened (history)
  promise    \* the count last refused and when it was told to retry (history)

vars == <<bucket, clock, used, base, since, promise>>

Init ==
  /\ clock = 0
  /\ bucket = NewBucket(Size, Drip, 0)
  /\ used = 0
  /\ base = Size * Grain
  /\ since = 0
  /\ promise = NoPromise

\* A refusal is a promise only when waiting can help (the request fits the
\* bucket) and the clock has not been set back behind the last refill.
Promise(n) ==
  IF Cost(n) <= Size /\ clock >= bucket.last
    THEN [count |-> n, at |-> clock + RetryAfter(bucket, n, clock) * Second]
    ELSE NoPromise

Admit(n) ==
  /\ Admits(bucket, n, clock)
  /\ bucket' = Spent(bucket, n, clock)
  /\ used' = used + Cost(n)
  /\ promise' = NoPromise
  /\ UNCHANGED <<clock, base, since>>

Refuse(n) ==
  /\ ~Admits(bucket, n, clock)
  /\ bucket' = Spent(bucket, n, clock)
  /\ promise' = Promise(n)
  /\ UNCHANGED <<clock, used, base, since>>

Drain ==
  /\ bucket' = Drained(bucket, clock)
  /\ used' = 0 /\ base' = 0 /\ since' = clock
  /\ promise' = NoPromise
  /\ UNCHANGED clock

\* getRemaining, getSecondsUntilRefill
Observe ==
  /\ bucket' = Refilled(bucket, clock)
  /\ UNCHANGED <<clock, used, base, since, promise>>

Tick ==
  /\ clock < MaxClock
  /\ clock' = clock + 1
  /\ UNCHANGED <<bucket, used, base, since, promise>>

\* The host's clock is corrected backwards; a promise made by the old clock
\* says nothing on the new one.
SetBack ==
  /\ clock > 0
  /\ clock' \in 0 .. clock - 1
  /\ promise' = NoPromise
  /\ UNCHANGED <<bucket, used, base, since>>

Next ==
  \/ \E n \in Requests : Admit(n)
  \/ \E n \in Requests : Refuse(n)
  \/ Drain
  \/ Observe
  \/ Tick
  \/ SetBack

Spec == Init /\ [][Next]_vars

-----------------------------------------------------------------------------
\* Type invariant; a bucket never holds more than its size nor a debt.
TypeOK ==
  /\ bucket \in Bucket /\ bucket.size = Size /\ bucket.drip = Drip
  /\ WithinSize(bucket)
  /\ clock \in Nat /\ used \in Nat /\ base \in Nat /\ since \in Nat
  /\ promise \in [count : Int, at : Nat] \cup {NoPromise}

\* The limit itself: between two drains, what the bucket has admitted never
\* exceeds what it held at the start plus its rate times the time that passed,
\* even when the clock is set back and runs over the same interval again.
AdmissionBounded ==
  used * Grain <= base + (bucket.last - since) * Drip

\* Retry-After is kept: a refused request that waits as long as it was told,
\* with no other request admitted and no drain in between, is admitted.
RetryAfterSuffices ==
  promise # NoPromise /\ clock >= promise.at => Admits(bucket, promise.count, clock)

\* Retry-After is not padded: a whole second earlier the request would still
\* have been refused.
RetryAfterTight ==
  promise # NoPromise /\ clock + Second <= promise.at
    => ~Admits(bucket, promise.count, clock)
=============================================================================
