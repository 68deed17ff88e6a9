--------------------------- MODULE TokenBucketProofs ---------------------------
(***************************************************************************)
(* Lemmas about the operators of TokenBucket, for every size, rate, grain  *)
(* and instant: what a refill and a purchase return, and what they leave   *)
(* of a ledger that accounts for every token by burst or elapsed time.     *)
(***************************************************************************)
EXTENDS TokenBucket, TLAPS

(***************************************************************************)
(* Arithmetic.                                                             *)
(***************************************************************************)
LEMMA TimesPlus ==
  ASSUME NEW a \in Int, NEW b \in Int, NEW c \in Int
  PROVE  (a + b) * c = a * c + b * c
BY SMT

LEMMA TimesMonotone ==
  ASSUME NEW a \in Int, NEW b \in Int, NEW c \in Nat, a <= b
  PROVE  a * c <= b * c
BY SMT

LEMMA TimesNat ==
  ASSUME NEW a \in Nat, NEW b \in Nat
  PROVE  a * b \in Nat
BY SMT

LEMMA TimesInt ==
  ASSUME NEW a \in Int, NEW b \in Int
  PROVE  a * b \in Int
BY SMT

LEMMA TimesRegroup ==
  ASSUME NEW a \in Int, NEW b \in Int, NEW c \in Int
  PROVE  (a * b) * c = a * (c * b)
BY SMT

\* Rounding up to a multiple goes far enough, and less than one step too far.
LEMMA CeilDivBounds ==
  ASSUME NEW a \in Nat, NEW d \in Nat \ {0}
  PROVE  /\ CeilDiv(a, d) \in Nat
         /\ a <= CeilDiv(a, d) * d
         /\ CeilDiv(a, d) * d < a + d
BY SMT DEF CeilDiv

-----------------------------------------------------------------------------
(***************************************************************************)
(* The operations of a bucket.                                             *)
(***************************************************************************)

\* A request costs at least one token, whatever count it names.
LEMMA CostPositive ==
  ASSUME NEW n \in Int
  PROVE  Cost(n) \in Nat \ {0} /\ Cost(n) * Grain \in Nat
BY BucketAssumption, TimesNat DEF Cost

\* A refill moves lastRefill forward only, and adds what the time is worth
\* unless the bucket fills up.
LEMMA RefillFacts ==
  ASSUME NEW b \in Bucket, WithinSize(b), NEW now \in Nat,
         NEW r, r = Refilled(b, now)
  PROVE  /\ r \in Bucket /\ WithinSize(r)
         /\ r.size = b.size /\ r.drip = b.drip
         /\ b.last <= r.last
         /\ now >= b.last => r.last = now
         /\ now < b.last => r = b
         /\ r.tokens <= b.tokens + (r.last - b.last) * b.drip
         /\ \/ r.tokens = b.tokens + (r.last - b.last) * b.drip
            \/ r.tokens = b.size * Grain
<1> DEFINE gain == (now - b.last) * b.drip
           held == AtMost(b.size * Grain, b.tokens + gain)
<1>1. /\ b.size \in Nat \ {0} /\ b.drip \in Nat \ {0}
      /\ b.tokens \in Nat /\ b.last \in Nat
  BY DEF Bucket
<1>2. b.size * Grain \in Nat
  BY <1>1, BucketAssumption, TimesNat
<1>3. CASE now <= b.last
  <2>1. r = b
    BY <1>3 DEF Refilled
  <2>2. (r.last - b.last) * b.drip = 0
    BY <1>1, <2>1, SMT
  <2>3. QED
    BY <1>1, <1>3, <2>1, <2>2
<1>4. CASE now > b.last
  <2>1. gain \in Nat
    BY <1>1, <1>4, TimesNat
  <2>2. r = [b EXCEPT !.tokens = held, !.last = now]
    BY <1>1, <1>4 DEF Refilled
  <2> HIDE DEF gain
  <2>3. /\ held \in Nat /\ held <= b.size * Grain /\ held <= b.tokens + gain
        /\ held = b.tokens + gain \/ held = b.size * Grain
    BY <1>1, <1>2, <2>1 DEF AtMost
  <2> HIDE DEF held
  <2>4. /\ r \in Bucket /\ r.size = b.size /\ r.drip = b.drip
        /\ r.last = now /\ r.tokens = held
    BY <2>2, <2>3 DEF Bucket
  <2>5. WithinSize(r)
    BY <2>3, <2>4 DEF WithinSize
  <2>6. /\ r.tokens <= b.tokens + gain
        /\ r.tokens = b.tokens + gain \/ r.tokens = b.size * Grain
    BY <2>3, <2>4
  <2>7. (r.last - b.last) * b.drip = gain
    BY <2>4 DEF gain
  <2>8. QED
    BY <1>1, <1>4, <2>4, <2>5, <2>6, <2>7
<1>5. QED
  BY <1>1, <1>3, <1>4

\* At a time no earlier than the last refill, lastRefill is then that time.
LEMMA RefillNow ==
  ASSUME NEW b \in Bucket, WithinSize(b), NEW now \in Nat, b.last <= now
  PROVE  LET r == Refilled(b, now)
         IN  /\ r \in Bucket /\ WithinSize(r)
             /\ r.size = b.size /\ r.drip = b.drip /\ r.last = now
<1> DEFINE r == Refilled(b, now)
<1>1. now >= b.last
  BY DEF Bucket
<1>2. /\ r \in Bucket /\ WithinSize(r)
      /\ r.size = b.size /\ r.drip = b.drip
      /\ now >= b.last => r.last = now
  BY RefillFacts
<1>3. QED
  BY <1>1, <1>2

\* consume either takes the cost out of the refilled bucket or leaves it.
LEMMA SpendFacts ==
  ASSUME NEW b \in Bucket, WithinSize(b), NEW now \in Nat, NEW n \in Int
  PROVE  LET r == Refilled(b, now)
             s == Spent(b, n, now)
         IN  /\ s \in Bucket /\ WithinSize(s)
             /\ s.size = b.size /\ s.drip = b.drip /\ s.last = r.last
             /\ Admits(b, n, now) => s.tokens = r.tokens - Cost(n) * Grain
             /\ ~Admits(b, n, now) => s = r /\ r.tokens < Cost(n) * Grain
<1> DEFINE r == Refilled(b, now)
           s == Spent(b, n, now)
           c == Cost(n) * Grain
<1>1. r \in Bucket /\ WithinSize(r) /\ r.size = b.size /\ r.drip = b.drip
  BY RefillFacts
<1>2. c \in Nat /\ r.tokens \in Nat /\ r.size * Grain \in Nat
  BY <1>1, CostPositive, BucketAssumption, TimesNat DEF Bucket
<1>3. r.tokens <= r.size * Grain
  BY <1>1 DEF WithinSize
<1>4. CASE Admits(b, n, now)
  <2>1. s = [r EXCEPT !.tokens = r.tokens - c] /\ c <= r.tokens
    BY <1>1, <1>2, <1>4 DEF Spent, Admits
  <2> HIDE DEF r, c
  <2>2. r.tokens - c \in Nat /\ r.tokens - c <= r.size * Grain
    BY <1>2, <1>3, <2>1
  <2> HIDE DEF s
  <2>3. /\ s \in Bucket /\ s.size = r.size /\ s.drip = r.drip
        /\ s.last = r.last /\ s.tokens = r.tokens - c
    BY <1>1, <2>1, <2>2 DEF Bucket
  <2>4. WithinSize(s)
    BY <2>2, <2>3 DEF WithinSize
  <2>5. QED
    BY <1>1, <1>4, <2>3, <2>4 DEF r, s, c
<1>5. CASE ~Admits(b, n, now)
  <2>1. s = r /\ ~(r.tokens >= c)
    BY <1>5 DEF Spent, Admits
  <2>2. r.tokens < c
    BY <1>2, <2>1
  <2>3. QED
    BY <1>1, <1>5, <2>1, <2>2
<1>6. QED
  BY <1>4, <1>5

-----------------------------------------------------------------------------
(***************************************************************************)
(* The ledger: what was paid out of a bucket since an instant and what it  *)
(* still holds came from the opening balance or from the time since.       *)
(***************************************************************************)
Accounted(b, paid, base, since) ==
  /\ since <= b.last
  /\ paid * Grain + b.tokens <= base + (b.last - since) * b.drip

\* Opening a bucket opens its ledger.
LEMMA NewAccounted ==
  ASSUME NEW size \in Nat \ {0}, NEW drip \in Nat \ {0}, NEW now \in Nat
  PROVE  LET b == NewBucket(size, drip, now)
         IN  /\ b \in Bucket /\ WithinSize(b)
             /\ b.size = size /\ b.drip = drip /\ b.last = now
             /\ Accounted(b, 0, b.size * Grain, now)
<1> DEFINE b == NewBucket(size, drip, now)
<1>1. size * Grain \in Nat
  BY BucketAssumption, TimesNat
<1>2. /\ b.size = size /\ b.drip = drip /\ b.last = now /\ b.tokens = size * Grain
      /\ b \in Bucket
  BY <1>1 DEF NewBucket, Bucket
<1>3. 0 * Grain = 0 /\ (now - now) * drip = 0
  BY BucketAssumption
<1>4. WithinSize(b) /\ Accounted(b, 0, b.size * Grain, now)
  <2> HIDE DEF b
  <2>1. b.tokens = b.size * Grain /\ b.size * Grain \in Nat
    BY <1>1, <1>2
  <2>2. (b.last - now) * b.drip = 0
    BY <1>2, <1>3
  <2>3. QED
    BY <1>2, <1>3, <2>1, <2>2 DEF WithinSize, Accounted
<1>5. QED
  BY <1>2, <1>4

\* A refill adds no more than the time is worth.
LEMMA RefillAccounted ==
  ASSUME NEW b \in Bucket, WithinSize(b), NEW now \in Nat,
         NEW paid \in Nat, NEW base \in Nat, NEW since \in Nat,
         Accounted(b, paid, base, since)
  PROVE  Accounted(Refilled(b, now), paid, base, since)
<1> DEFINE r == Refilled(b, now)
<1>1. /\ b.last \in Nat /\ b.tokens \in Nat /\ b.drip \in Nat
      /\ Grain \in Nat
  BY BucketAssumption DEF Bucket
<1>2. /\ r \in Bucket /\ r.drip = b.drip /\ b.last <= r.last
      /\ r.tokens <= b.tokens + (r.last - b.last) * b.drip
  BY RefillFacts
<1>3. r.last \in Nat /\ r.tokens \in Nat
  BY <1>2 DEF Bucket
<1> HIDE DEF r
<1>4. ((b.last - since) + (r.last - b.last)) * b.drip
        = (b.last - since) * b.drip + (r.last - b.last) * b.drip
  BY <1>1, <1>3, TimesPlus
<1>5. (b.last - since) + (r.last - b.last) = r.last - since
  BY <1>1, <1>3
<1>6. /\ paid * Grain \in Int /\ (b.last - since) * b.drip \in Int
      /\ (r.last - b.last) * b.drip \in Int
  BY <1>1, <1>3, TimesInt
<1>7. since <= r.last /\ paid * Grain + r.tokens <= base + (r.last - since) * b.drip
  BY <1>1, <1>2, <1>3, <1>4, <1>5, <1>6 DEF Accounted
<1>8. QED
  BY <1>2, <1>7 DEF Accounted, r

\* A purchase moves what it takes from one side of the ledger to the other.
LEMMA SpendAccounted ==
  ASSUME NEW b \in Bucket, WithinSize(b), NEW now \in Nat, NEW n \in Int,
         NEW paid \in Nat, NEW base \in Nat, NEW since \in Nat,
         Accounted(b, paid, base, since)
  PROVE  Accounted(Spent(b, n, now),
                   IF Admits(b, n, now) THEN paid + Cost(n) ELSE paid, base, since)
<1> DEFINE r == Refilled(b, now)
           s == Spent(b, n, now)
           c == Cost(n)
<1>1. Accounted(r, paid, base, since)
  BY RefillAccounted
<1>2. r \in Bucket /\ r.drip = b.drip
  BY RefillFacts
<1>3. CASE Admits(b, n, now)
  <2>1. /\ s.last = r.last /\ s.drip = r.drip
        /\ s.tokens = r.tokens - c * Grain
    BY <1>2, <1>3, SpendFacts
  <2>2. /\ c \in Nat /\ c * Grain \in Nat /\ paid * Grain \in Int
        /\ r.tokens \in Nat /\ r.last \in Nat /\ r.drip \in Nat
    BY <1>2, CostPositive, TimesInt, BucketAssumption DEF Bucket
  <2>3. (paid + c) * Grain = paid * Grain + c * Grain
    BY <2>2, BucketAssumption, TimesPlus
  <2> HIDE DEF r, s, c
  <2>4. (r.last - since) * r.drip \in Int
    BY <2>2, TimesInt
  <2>5. (paid + c) * Grain + s.tokens = paid * Grain + r.tokens
    BY <2>1, <2>2, <2>3
  <2>6. Accounted(s, paid + c, base, since)
    BY <1>1, <2>1, <2>5 DEF Accounted
  <2>7. QED
    BY <1>3, <2>6 DEF s, c
<1>4. CASE ~Admits(b, n, now)
  BY <1>1, <1>4, SpendFacts
<1>5. QED
  BY <1>3, <1>4

\* An accounted bucket has paid out no more than burst plus rate times time.
LEMMA AccountedBound ==
  ASSUME NEW b \in Bucket, NEW paid \in Nat, NEW base \in Nat, NEW since \in Nat,
         NEW now \in Nat, b.last <= now, Accounted(b, paid, base, since)
  PROVE  paid * Grain <= base + (now - since) * b.drip
<1>1. b.last \in Nat /\ b.tokens \in Nat /\ b.drip \in Nat
  BY DEF Bucket
<1>2. (b.last - since) * b.drip <= (now - since) * b.drip
  BY <1>1, TimesMonotone
<1>3. /\ paid * Grain \in Int /\ (b.last - since) * b.drip \in Int
      /\ (now - since) * b.drip \in Int
  BY <1>1, BucketAssumption, TimesInt
<1>4. QED
  BY <1>1, <1>2, <1>3 DEF Accounted

\* Draining a bucket forgets tokens, never a payment.
LEMMA DrainAccounted ==
  ASSUME NEW b \in Bucket, NEW paid \in Nat, NEW base \in Nat, NEW since \in Nat,
         NEW now \in Nat, b.last <= now, Accounted(b, paid, base, since)
  PROVE  LET d == Drained(b, now)
         IN  /\ d \in Bucket /\ WithinSize(d)
             /\ d.size = b.size /\ d.drip = b.drip /\ d.last = now
             /\ Accounted(d, paid, base, since)
<1> DEFINE d == Drained(b, now)
<1>1. /\ d \in Bucket /\ d.size = b.size /\ d.drip = b.drip
      /\ d.last = now /\ d.tokens = 0
  BY DEF Drained, Bucket
<1>2. d.size * Grain \in Nat
  BY <1>1, BucketAssumption, TimesNat DEF Bucket
<1>3. WithinSize(d)
  BY <1>1, <1>2 DEF WithinSize
<1>4. paid * Grain <= base + (now - since) * b.drip
  BY AccountedBound
<1>5. paid * Grain \in Int
  BY BucketAssumption, TimesInt
<1>6. b.last \in Nat
  BY DEF Bucket
<1>7. Accounted(d, paid, base, since)
  BY <1>1, <1>4, <1>5, <1>6 DEF Accounted
<1>8. QED
  BY <1>1, <1>3, <1>7
================================================================================
