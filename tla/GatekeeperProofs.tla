--------------------------- MODULE GatekeeperProofs ---------------------------
(***************************************************************************)
(* Proofs about Gatekeeper, for any number of purges, keys and zones, any  *)
(* settings, an unbounded clock and any number of rebuilds and restarts.   *)
(* The inductive invariant has parts that no step couples: the account     *)
(* buckets with the ledger of what they paid for, the per-key buckets with *)
(* the rows they were built from, the order in which those buckets would   *)
(* be evicted, and the bookkeeping of the purges.  The collapser inside    *)
(* the object is an instance of RequestCollapse, and so are its proofs.    *)
(***************************************************************************)
EXTENDS Gatekeeper, TokenBucketProofs, FiniteSetTheorems, FunctionTheorems,
        SequenceTheorems

\* The bucket in force of class c: its settings, its clock, its ledger.
AccountInOrder(c) ==
  /\ account[c] \in Bucket /\ WithinSize(account[c])
  /\ account[c].size = config[c].size /\ account[c].drip = config[c].drip
  /\ account[c].last <= clock
  /\ sent[c] \in Nat /\ opened[c] \in Nat
  /\ Accounted(account[c], sent[c], account[c].size * Grain, opened[c])

AccountPart ==
  /\ config \in Configs /\ clock \in Nat
  /\ DOMAIN account = Classes /\ DOMAIN sent = Classes /\ DOMAIN opened = Classes
  /\ account = [c \in Classes |-> account[c]]
  /\ sent = [c \in Classes |-> sent[c]]
  /\ opened = [c \in Classes |-> opened[c]]
  /\ \A c \in Classes : AccountInOrder(c)

\* A bucket b that serves class c of key k.
KeyBucketInOrder(b, k, c) ==
  /\ b \in Bucket /\ WithinSize(b)
  /\ b.size = OrDefault(rows[k].limits[c].size, config[c].size)
  /\ b.drip = OrDefault(rows[k].limits[c].drip, config[c].drip)

KeyInOrder(k) ==
  keyBuckets[k] # NoBuckets =>
    /\ rows[k] # NoRow
    /\ keyBuckets[k] \in [Classes -> Bucket]
    /\ \A c \in Classes : KeyBucketInOrder(keyBuckets[k][c], k, c)

KeyPart ==
  /\ rows \in [KeyIds -> KeyRow \cup {NoRow}]
  /\ keyBuckets \in [KeyIds -> [Classes -> Bucket] \cup {NoBuckets}]
  /\ \A k \in KeyIds : KeyInOrder(k)

IInv == AccountPart /\ KeyPart

-----------------------------------------------------------------------------
(***************************************************************************)
(* What the assumptions say of settings.                                   *)
(***************************************************************************)

\* Every configuration gives every class a size and a rate.
LEMMA SettingOfConfig ==
  ASSUME NEW cfg \in Configs, NEW c \in Classes
  PROVE  /\ cfg \in [Classes -> Setting]
         /\ cfg[c].size \in Nat \ {0} /\ cfg[c].drip \in Nat \ {0}
<1>1. cfg \in [Classes -> Setting]
  BY GatekeeperAssumption
<1>2. cfg[c] \in Setting
  BY <1>1
<1>3. QED
  BY <1>1, <1>2 DEF Setting

\* So does a row's limit with the configuration as its default.
LEMMA SettingOfKey ==
  ASSUME NEW cfg \in Configs, NEW c \in Classes, NEW row \in KeyRow
  PROVE  /\ OrDefault(row.limits[c].size, cfg[c].size) \in Nat \ {0}
         /\ OrDefault(row.limits[c].drip, cfg[c].drip) \in Nat \ {0}
<1>1. row.limits \in [Classes -> KeySetting]
  BY GatekeeperAssumption DEF KeyRow
<1>2. row.limits[c] \in KeySetting
  BY <1>1
<1>3. /\ row.limits[c].size \in (Nat \ {0}) \cup {Null}
      /\ row.limits[c].drip \in (Nat \ {0}) \cup {Null}
  BY <1>2 DEF KeySetting
<1>4. QED
  BY <1>3, SettingOfConfig DEF OrDefault

-----------------------------------------------------------------------------
(***************************************************************************)
(* The account buckets.                                                    *)
(***************************************************************************)

\* A step that leaves the account buckets alone; the clock may move on.
LEMMA AccountKept ==
  ASSUME AccountPart, UNCHANGED <<config, account, sent, opened>>,
         clock' \in Nat, clock <= clock'
  PROVE  AccountPart'
<1> SUFFICES ASSUME NEW c \in Classes PROVE AccountInOrder(c)'
  BY DEF AccountPart
<1>1. AccountInOrder(c) /\ clock \in Nat
  BY DEF AccountPart
<1>2. account[c].last \in Nat
  BY <1>1 DEF AccountInOrder, Bucket
<1>3. account[c].last <= clock'
  BY <1>1, <1>2 DEF AccountInOrder
<1>4. QED
  BY <1>1, <1>3 DEF AccountInOrder

\* A step that replaces the bucket of one class by another state of it.
LEMMA AccountStepped ==
  ASSUME AccountPart, NEW c \in Classes, UNCHANGED <<config, opened, clock>>,
         NEW b \in Bucket, WithinSize(b), b.last <= clock,
         b.size = account[c].size, b.drip = account[c].drip,
         NEW paid \in Nat, Accounted(b, paid, account[c].size * Grain, opened[c]),
         account' = [account EXCEPT ![c] = b],
         sent' = [sent EXCEPT ![c] = paid]
  PROVE  AccountPart'
<1>1. /\ account' = [d \in Classes |-> IF d = c THEN b ELSE account[d]]
      /\ sent' = [d \in Classes |-> IF d = c THEN paid ELSE sent[d]]
  BY DEF AccountPart
<1>2. /\ DOMAIN account' = Classes /\ DOMAIN sent' = Classes
      /\ account' = [d \in Classes |-> account'[d]]
      /\ sent' = [d \in Classes |-> sent'[d]]
  BY <1>1
<1>3. ASSUME NEW d \in Classes PROVE AccountInOrder(d)'
  <2>1. AccountInOrder(d)
    BY DEF AccountPart
  <2>2. CASE d = c
    <3>1. account'[d] = b /\ sent'[d] = paid
      BY <1>1, <2>2
    <3>2. QED
      BY <2>1, <2>2, <3>1 DEF AccountInOrder
  <2>3. CASE d # c
    <3>1. account'[d] = account[d] /\ sent'[d] = sent[d]
      BY <1>1, <2>3
    <3>2. QED
      BY <2>1, <3>1 DEF AccountInOrder
  <2>4. QED
    BY <2>2, <2>3
<1>4. QED
  BY <1>2, <1>3 DEF AccountPart

\* The bucket in force, as the bucket lemmas want it.
LEMMA AccountFacts ==
  ASSUME AccountPart, NEW c \in Classes
  PROVE  /\ account[c] \in Bucket /\ WithinSize(account[c])
         /\ account[c].last \in Nat /\ account[c].last <= clock /\ clock \in Nat
         /\ account[c].size * Grain \in Nat
         /\ sent[c] \in Nat /\ opened[c] \in Nat
         /\ Accounted(account[c], sent[c], account[c].size * Grain, opened[c])
<1>1. AccountInOrder(c) /\ clock \in Nat
  BY DEF AccountPart
<1>2. account[c].last \in Nat /\ account[c].size \in Nat
  BY <1>1 DEF AccountInOrder, Bucket
<1>3. account[c].size * Grain \in Nat
  BY <1>2, BucketAssumption, TimesNat
<1>4. QED
  BY <1>1, <1>2, <1>3 DEF AccountInOrder

\* consume(): purges, retries and DNS requests.
LEMMA ConsumeKeepsAccount ==
  ASSUME AccountPart, NEW c \in Classes, NEW n \in Int, Consume(c, n),
         UNCHANGED <<config, opened, clock>>
  PROVE  AccountPart'
<1> DEFINE b == Spent(account[c], n, clock)
           paid == IF Admits(account[c], n, clock) THEN sent[c] + Cost(n) ELSE sent[c]
<1>1. /\ account[c] \in Bucket /\ WithinSize(account[c])
      /\ account[c].last \in Nat /\ account[c].last <= clock /\ clock \in Nat
      /\ account[c].size * Grain \in Nat /\ sent[c] \in Nat /\ opened[c] \in Nat
      /\ Accounted(account[c], sent[c], account[c].size * Grain, opened[c])
  BY AccountFacts
<1>2. Refilled(account[c], clock).last = clock
  BY <1>1, RefillNow
<1>3. /\ b \in Bucket /\ WithinSize(b) /\ b.last = clock
      /\ b.size = account[c].size /\ b.drip = account[c].drip
  BY <1>1, <1>2, SpendFacts
<1>4. Accounted(b, paid, account[c].size * Grain, opened[c])
  BY <1>1, SpendAccounted
<1>5. paid \in Nat
  BY <1>1, CostPositive
<1>6. /\ account' = [account EXCEPT ![c] = b]
      /\ sent' = [sent EXCEPT ![c] = paid]
  BY DEF Consume
<1>7. b.last <= clock
  BY <1>1, <1>3
<1> HIDE DEF b, paid
<1>8. QED
  BY <1>3, <1>4, <1>5, <1>6, <1>7, AccountStepped

\* A reading of the bucket in force refills it; an upstream 429 drains it.
LEMMA TouchKeepsAccount ==
  ASSUME AccountPart, NEW c \in Classes, NEW b,
         b = Refilled(account[c], clock) \/ b = Drained(account[c], clock)
           \/ b = account[c],
         account' = [account EXCEPT ![c] = b],
         UNCHANGED <<config, sent, opened, clock>>
  PROVE  AccountPart'
<1>1. /\ account[c] \in Bucket /\ WithinSize(account[c])
      /\ account[c].last \in Nat /\ account[c].last <= clock /\ clock \in Nat
      /\ account[c].size * Grain \in Nat /\ sent[c] \in Nat /\ opened[c] \in Nat
      /\ Accounted(account[c], sent[c], account[c].size * Grain, opened[c])
  BY AccountFacts
<1>2. /\ b \in Bucket /\ WithinSize(b) /\ b.last <= clock
      /\ b.size = account[c].size /\ b.drip = account[c].drip
      /\ Accounted(b, sent[c], account[c].size * Grain, opened[c])
  <2>1. CASE b = Refilled(account[c], clock)
    <3>1. /\ b \in Bucket /\ WithinSize(b) /\ b.last = clock
          /\ b.size = account[c].size /\ b.drip = account[c].drip
      BY <1>1, <2>1, RefillNow
    <3>2. Accounted(b, sent[c], account[c].size * Grain, opened[c])
      BY <1>1, <2>1, RefillAccounted
    <3>3. QED
      BY <1>1, <3>1, <3>2
  <2>2. CASE b = Drained(account[c], clock)
    <3>1. /\ b \in Bucket /\ WithinSize(b) /\ b.last = clock
          /\ b.size = account[c].size /\ b.drip = account[c].drip
          /\ Accounted(b, sent[c], account[c].size * Grain, opened[c])
      BY <1>1, <2>2, DrainAccounted
    <3>2. QED
      BY <1>1, <3>1
  <2>3. CASE b = account[c]
    BY <1>1, <2>3
  <2>4. QED
    BY <2>1, <2>2, <2>3
<1>3. sent' = [sent EXCEPT ![c] = sent[c]]
  BY DEF AccountPart
<1>4. QED
  BY <1>1, <1>2, <1>3, AccountStepped

\* A new bucket of the configured size and rate, with an empty ledger.
LEMMA NewAccount ==
  ASSUME NEW cfg \in Configs, NEW c \in Classes, NEW now \in Nat
  PROVE  LET b == NewBucket(cfg[c].size, cfg[c].drip, now)
         IN  /\ b \in Bucket /\ WithinSize(b)
             /\ b.size = cfg[c].size /\ b.drip = cfg[c].drip /\ b.last = now
             /\ Accounted(b, 0, b.size * Grain, now)
BY SettingOfConfig, NewAccounted

\* rebuildBuckets: a class whose settings changed gets a new bucket.
LEMMA SetConfigKeepsAccount ==
  ASSUME AccountPart, NEW new \in Configs, SetConfig(new)
  PROVE  AccountPart'
<1>1. /\ config' = new /\ clock' = clock
      /\ account' = [c \in Classes |->
           IF Rebuilt(c) THEN NewBucket(new[c].size, new[c].drip, clock) ELSE account[c]]
      /\ sent' = [c \in Classes |-> IF Rebuilt(c) THEN 0 ELSE sent[c]]
      /\ opened' = [c \in Classes |-> IF Rebuilt(c) THEN clock ELSE opened[c]]
  BY DEF SetConfig
<1>2. clock \in Nat
  BY DEF AccountPart
<1>3. ASSUME NEW c \in Classes PROVE AccountInOrder(c)'
  <2>1. AccountInOrder(c)
    BY DEF AccountPart
  <2>2. CASE Rebuilt(c)
    <3> DEFINE b == NewBucket(new[c].size, new[c].drip, clock)
    <3>1. account'[c] = b /\ sent'[c] = 0 /\ opened'[c] = clock
      BY <1>1, <2>2
    <3>2. /\ b \in Bucket /\ WithinSize(b)
          /\ b.size = new[c].size /\ b.drip = new[c].drip /\ b.last = clock
          /\ Accounted(b, 0, b.size * Grain, clock)
      BY <1>2, NewAccount
    <3> HIDE DEF b
    <3>3. b.last <= clock
      BY <1>2, <3>2
    <3>4. QED
      BY <1>1, <1>2, <3>1, <3>2, <3>3 DEF AccountInOrder
  <2>3. CASE ~Rebuilt(c)
    <3>1. account'[c] = account[c] /\ sent'[c] = sent[c] /\ opened'[c] = opened[c]
      BY <1>1, <2>3
    <3>2. config'[c] = config[c]
      BY <2>3 DEF Rebuilt
    <3>3. QED
      BY <1>1, <2>1, <3>1, <3>2 DEF AccountInOrder
  <2>4. QED
    BY <2>2, <2>3
<1>4. QED
  BY <1>1, <1>2, <1>3 DEF AccountPart

\* A restart replaces them all.
LEMMA RestartKeepsAccount ==
  ASSUME AccountPart, Restart
  PROVE  AccountPart'
<1>1. /\ config' = config /\ clock' = clock
      /\ account' = [c \in Classes |-> NewBucket(config[c].size, config[c].drip, clock)]
      /\ sent' = [c \in Classes |-> 0]
      /\ opened' = [c \in Classes |-> clock]
  BY DEF Restart
<1>2. clock \in Nat /\ config \in Configs
  BY DEF AccountPart
<1>3. ASSUME NEW c \in Classes PROVE AccountInOrder(c)'
  <2> DEFINE b == NewBucket(config[c].size, config[c].drip, clock)
  <2>1. account'[c] = b /\ sent'[c] = 0 /\ opened'[c] = clock
    BY <1>1
  <2>2. /\ b \in Bucket /\ WithinSize(b)
        /\ b.size = config[c].size /\ b.drip = config[c].drip /\ b.last = clock
        /\ Accounted(b, 0, b.size * Grain, clock)
    BY <1>2, NewAccount
  <2> HIDE DEF b
  <2>3. b.last <= clock
    BY <1>2, <2>2
  <2>4. QED
    BY <1>1, <1>2, <2>1, <2>2, <2>3 DEF AccountInOrder
<1>4. QED
  BY <1>1, <1>2, <1>3 DEF AccountPart

-----------------------------------------------------------------------------
(***************************************************************************)
(* The per-key buckets.                                                    *)
(***************************************************************************)

\* A step that leaves rows, configuration and buckets alone.
LEMMA KeysKept ==
  ASSUME KeyPart, UNCHANGED <<rows, config, keyBuckets>>
  PROVE  KeyPart'
<1>1. ASSUME NEW k \in KeyIds PROVE KeyInOrder(k)'
  BY DEF KeyPart, KeyInOrder, KeyBucketInOrder
<1>2. QED
  BY <1>1 DEF KeyPart

\* A step that forgets all of them.
LEMMA KeysCleared ==
  ASSUME KeyPart, rows' = rows, keyBuckets' = [k \in KeyIds |-> NoBuckets]
  PROVE  KeyPart'
<1>1. ASSUME NEW k \in KeyIds PROVE KeyInOrder(k)'
  BY DEF KeyInOrder
<1>2. QED
  BY <1>1 DEF KeyPart

\* A step that changes the row of one key and forgets its buckets.
LEMMA KeyDropped ==
  ASSUME KeyPart, NEW k \in KeyIds, DropKeyBuckets(k), config' = config,
         NEW row \in KeyRow \cup {NoRow}, rows' = [rows EXCEPT ![k] = row]
  PROVE  KeyPart'
<1>1. keyBuckets' = [keyBuckets EXCEPT ![k] = NoBuckets]
  BY DEF DropKeyBuckets
<1>2. /\ rows' \in [KeyIds -> KeyRow \cup {NoRow}]
      /\ keyBuckets' \in [KeyIds -> [Classes -> Bucket] \cup {NoBuckets}]
  BY <1>1 DEF KeyPart
<1>3. ASSUME NEW j \in KeyIds PROVE KeyInOrder(j)'
  <2>1. CASE j = k
    <3>1. keyBuckets'[j] = NoBuckets
      BY <1>1, <2>1 DEF KeyPart
    <3>2. QED
      BY <3>1 DEF KeyInOrder
  <2>2. CASE j # k
    <3>1. keyBuckets'[j] = keyBuckets[j] /\ rows'[j] = rows[j] /\ KeyInOrder(j)
      BY <1>1, <2>2 DEF KeyPart
    <3>2. QED
      BY <3>1 DEF KeyInOrder, KeyBucketInOrder
  <2>3. QED
    BY <2>1, <2>2
<1>4. QED
  BY <1>2, <1>3 DEF KeyPart

\* Expiry revokes the row and keeps its limits, so its buckets stay right.
LEMMA ExpiryKeepsKeys ==
  ASSUME KeyPart, NEW k \in KeyIds, ExpireKey(k)
  PROVE  KeyPart'
<1>1. /\ rows[k] # NoRow /\ rows[k] \in KeyRow
      /\ rows' = [rows EXCEPT ![k] = [rows[k] EXCEPT !.revoked = TRUE]]
      /\ config' = config /\ keyBuckets' = keyBuckets
  BY DEF ExpireKey, KeyPart
<1> DEFINE row == [rows[k] EXCEPT !.revoked = TRUE]
<1>2. row \in KeyRow /\ row.limits = rows[k].limits
  BY <1>1 DEF KeyRow
<1>3. row # NoRow
  BY <1>2, GatekeeperAssumption DEF KeyRow
<1> HIDE DEF row
<1>4. rows' = [rows EXCEPT ![k] = row]
  BY <1>1 DEF row
<1>5. rows' \in [KeyIds -> KeyRow \cup {NoRow}]
  BY <1>2, <1>4 DEF KeyPart
<1>6. ASSUME NEW j \in KeyIds PROVE KeyInOrder(j)'
  <2>1. KeyInOrder(j)
    BY DEF KeyPart
  <2>2. /\ rows'[j].limits = rows[j].limits
        /\ rows[j] # NoRow => rows'[j] # NoRow
    BY <1>2, <1>3, <1>4 DEF KeyPart
  <2>3. QED
    BY <1>1, <2>1, <2>2 DEF KeyInOrder, KeyBucketInOrder
<1>7. QED
  BY <1>1, <1>5, <1>6 DEF KeyPart

\* The buckets of a key, created if need be, follow its row.
LEMMA BucketsOfKey ==
  ASSUME KeyPart, config \in Configs, clock \in Nat,
         NEW k \in KeyIds, rows[k] # NoRow
  PROVE  /\ BucketsOf(k) \in [Classes -> Bucket]
         /\ \A c \in Classes : KeyBucketInOrder(BucketsOf(k)[c], k, c)
<1>1. rows[k] \in KeyRow
  BY DEF KeyPart
<1>2. CASE keyBuckets[k] = NoBuckets
  <2>1. BucketsOf(k) = [c \in Classes |-> NewKeyBucket(k, c)]
    BY <1>2 DEF BucketsOf
  <2>2. ASSUME NEW c \in Classes
        PROVE  /\ NewKeyBucket(k, c) \in Bucket
               /\ KeyBucketInOrder(NewKeyBucket(k, c), k, c)
    <3> DEFINE size == OrDefault(rows[k].limits[c].size, config[c].size)
               drip == OrDefault(rows[k].limits[c].drip, config[c].drip)
    <3>1. size \in Nat \ {0} /\ drip \in Nat \ {0}
      BY <1>1, SettingOfKey
    <3> HIDE DEF size, drip
    <3>2. /\ NewBucket(size, drip, clock) \in Bucket
          /\ WithinSize(NewBucket(size, drip, clock))
          /\ NewBucket(size, drip, clock).size = size
          /\ NewBucket(size, drip, clock).drip = drip
      BY <3>1, NewAccounted
    <3>3. NewKeyBucket(k, c) = NewBucket(size, drip, clock)
      BY DEF NewKeyBucket, size, drip
    <3>4. QED
      BY <3>2, <3>3 DEF KeyBucketInOrder, size, drip
  <2>3. QED
    BY <2>1, <2>2
<1>3. CASE keyBuckets[k] # NoBuckets
  BY <1>3 DEF BucketsOf, KeyPart, KeyInOrder
<1>4. QED
  BY <1>2, <1>3

\* checkPerKeyRateLimit: the key pays, another key's buckets may be evicted.
LEMMA ChargeKeepsKeys ==
  ASSUME KeyPart, config \in Configs, clock \in Nat, UNCHANGED <<rows, config>>,
         NEW k \in KeyIds, NEW c \in Classes, NEW n \in Int,
         rows[k] # NoRow, ChargeKey(k, c, n)
  PROVE  KeyPart'
<1> DEFINE old == BucketsOf(k)
           b == Spent(old[c], n, clock)
           paid == [old EXCEPT ![c] = b]
<1>1. /\ old \in [Classes -> Bucket]
      /\ \A d \in Classes : KeyBucketInOrder(old[d], k, d)
  BY BucketsOfKey
<1>2. b \in Bucket /\ KeyBucketInOrder(b, k, c)
  <2>1. old[c] \in Bucket /\ WithinSize(old[c])
    BY <1>1 DEF KeyBucketInOrder
  <2> HIDE DEF old
  <2>2. /\ b \in Bucket /\ WithinSize(b)
        /\ b.size = old[c].size /\ b.drip = old[c].drip
    BY <2>1, SpendFacts
  <2>3. QED
    BY <1>1, <2>2 DEF KeyBucketInOrder
<1>3. keyBuckets' = [j \in KeyIds |->
        IF j = k THEN paid ELSE IF j \in Evicted(k) THEN NoBuckets ELSE keyBuckets[j]]
  BY DEF ChargeKey
<1> HIDE DEF old, b
<1>4. /\ paid \in [Classes -> Bucket]
      /\ \A d \in Classes : KeyBucketInOrder(paid[d], k, d)
  BY <1>1, <1>2
<1> HIDE DEF paid
<1>5. keyBuckets' \in [KeyIds -> [Classes -> Bucket] \cup {NoBuckets}]
  BY <1>3, <1>4 DEF KeyPart
<1>6. ASSUME NEW j \in KeyIds PROVE KeyInOrder(j)'
  <2>1. CASE j = k
    <3>1. keyBuckets'[j] = paid
      BY <1>3, <2>1
    <3>2. QED
      BY <1>4, <2>1, <3>1 DEF KeyInOrder, KeyBucketInOrder
  <2>2. CASE j # k
    <3>1. keyBuckets'[j] = keyBuckets[j] \/ keyBuckets'[j] = NoBuckets
      BY <1>3, <2>2
    <3>2. KeyInOrder(j)
      BY DEF KeyPart
    <3>3. QED
      BY <3>1, <3>2 DEF KeyInOrder, KeyBucketInOrder
  <2>3. QED
    BY <2>1, <2>2
<1>7. QED
  BY <1>5, <1>6 DEF KeyPart

\* A purge has its key charged if the key's row limits the class.
LEMMA CheckKeepsKeys ==
  ASSUME KeyPart, config \in Configs, clock \in Nat, UNCHANGED <<rows, config>>,
         NEW r \in Reqs, CheckPerKeyRateLimit(r)
  PROVE  KeyPart'
<1>1. /\ Ask[r].key \in KeyIds /\ Ask[r].class \in Classes /\ Ask[r].cost \in Int
  BY GatekeeperAssumption
<1>2. CASE Limits(Ask[r].key, Ask[r].class)
  BY <1>1, <1>2, ChargeKeepsKeys DEF CheckPerKeyRateLimit, Limits
<1>3. CASE ~Limits(Ask[r].key, Ask[r].class)
  BY <1>3, KeysKept DEF CheckPerKeyRateLimit
<1>4. QED
  BY <1>2, <1>3

\* A configuration that changes nothing leaves the buckets; any other clears
\* them.
LEMMA SetConfigKeepsKeys ==
  ASSUME KeyPart, config \in Configs, NEW new \in Configs, SetConfig(new)
  PROVE  KeyPart'
<1>1. rows' = rows /\ config' = new
  BY DEF SetConfig
<1>2. CASE \E c \in Classes : Rebuilt(c)
  BY <1>1, <1>2, KeysCleared DEF SetConfig
<1>3. CASE ~\E c \in Classes : Rebuilt(c)
  <2>1. keyBuckets' = keyBuckets
    BY <1>3 DEF SetConfig
  <2>2. \A c \in Classes : new[c] = config[c]
    BY <1>1, <1>3 DEF Rebuilt
  <2>3. config \in [Classes -> Setting] /\ new \in [Classes -> Setting]
    BY GatekeeperAssumption
  <2>4. new = config
    BY <2>2, <2>3
  <2>5. QED
    BY <1>1, <2>1, <2>4, KeysKept
<1>4. QED
  BY <1>2, <1>3

-----------------------------------------------------------------------------
(***************************************************************************)
(* The invariant is kept by every step.                                    *)
(***************************************************************************)
LEMMA Initially == Init => IInv
<1> SUFFICES ASSUME Init PROVE IInv
  OBVIOUS
<1>1. /\ config \in Configs /\ clock = 0
      /\ account = [c \in Classes |-> NewBucket(config[c].size, config[c].drip, 0)]
      /\ sent = [c \in Classes |-> 0] /\ opened = [c \in Classes |-> 0]
  BY DEF Init, Collapser!Init
<1>2. ASSUME NEW c \in Classes PROVE AccountInOrder(c)
  <2> DEFINE b == NewBucket(config[c].size, config[c].drip, 0)
  <2>1. /\ b \in Bucket /\ WithinSize(b)
        /\ b.size = config[c].size /\ b.drip = config[c].drip /\ b.last = 0
        /\ Accounted(b, 0, b.size * Grain, 0)
    BY <1>1, NewAccount
  <2>2. account[c] = b /\ sent[c] = 0 /\ opened[c] = 0
    BY <1>1
  <2> HIDE DEF b
  <2>3. QED
    BY <1>1, <2>1, <2>2 DEF AccountInOrder
<1>3. AccountPart
  BY <1>1, <1>2 DEF AccountPart
<1>4. KeyPart
  <2>1. rows \in [KeyIds -> KeyRow \cup {NoRow}]
    BY DEF Init, KeyRow
  <2>2. QED
    BY <2>1 DEF Init, KeyPart, KeyInOrder
<1>5. QED
  BY <1>3, <1>4 DEF IInv

\* A step that concerns only purges in flight and the clock.
LEMMA NeitherTouched ==
  ASSUME IInv, UNCHANGED core, clock' \in Nat, clock <= clock'
  PROVE  IInv'
<1>1. UNCHANGED <<rows, config, account, keyBuckets, sent, opened>>
  BY DEF core
<1>2. AccountPart'
  BY <1>1, AccountKept DEF IInv
<1>3. KeyPart'
  BY <1>1, KeysKept DEF IInv
<1>4. QED
  BY <1>2, <1>3 DEF IInv

\* The first step of a purge that its key's budget admits or refuses.
LEMMA PurgeKeepsIInv ==
  ASSUME IInv, NEW r \in Reqs, Purge(r)
  PROVE  IInv'
<1>1. /\ AccountPart /\ KeyPart /\ config \in Configs /\ clock \in Nat
      /\ Ask[r].class \in Classes /\ Ask[r].cost \in Int
  BY GatekeeperAssumption DEF IInv, AccountPart
<1>2. /\ CheckPerKeyRateLimit(r)
      /\ UNCHANGED <<rows, config, opened, clock>>
  BY DEF Purge, PurgeKeyLimited, PurgeLead, PurgeFollow, Collapser!Lead,
         Collapser!Follow
<1>3. KeyPart'
  BY <1>1, <1>2, CheckKeepsKeys
<1>4. AccountPart'
  <2>1. CASE PurgeLead(r)
    <3>1. Consume(Ask[r].class, Ask[r].cost)
      BY <2>1 DEF PurgeLead, StartPurge
    <3>2. QED
      BY <1>1, <1>2, <3>1, ConsumeKeepsAccount
  <2>2. CASE PurgeKeyLimited(r) \/ PurgeFollow(r)
    <3>1. UNCHANGED <<account, sent>>
      BY <2>2 DEF PurgeKeyLimited, PurgeFollow
    <3>2. QED
      BY <1>1, <1>2, <3>1, AccountKept
  <2>3. QED
    BY <2>1, <2>2 DEF Purge
<1>5. QED
  BY <1>3, <1>4 DEF IInv

\* The other steps of a purge: its retry, its answer, its end.
LEMMA ServeKeepsIInv ==
  ASSUME IInv, NEW r \in Reqs,
         Repurge(r) \/ UpstreamThrottles(r) \/ PurgeEnds(r) \/ Respond(r) \/ Cleanup(r)
  PROVE  IInv'
<1>1. /\ AccountPart /\ KeyPart /\ clock \in Nat
      /\ Ask[r].class \in Classes /\ Ask[r].cost \in Int
  BY GatekeeperAssumption DEF IInv, AccountPart
<1>2. account = [account EXCEPT ![Ask[r].class] = account[Ask[r].class]]
  BY <1>1 DEF AccountPart
<1>3. CASE Repurge(r)
  <2>1. /\ Consume(Ask[r].class, Ask[r].cost)
        /\ UNCHANGED <<rows, config, keyBuckets, opened, clock>>
    BY <1>3 DEF Repurge, StartPurge, Collapser!Retry
  <2>2. AccountPart'
    BY <1>1, <2>1, ConsumeKeepsAccount
  <2>3. KeyPart'
    BY <1>1, <2>1, KeysKept
  <2>4. QED
    BY <2>2, <2>3 DEF IInv
<1>4. CASE UpstreamThrottles(r)
  <2> DEFINE b == IF HoldsBucketInForce(r) THEN Drained(account[Ask[r].class], clock)
                                           ELSE account[Ask[r].class]
  <2>1. /\ account' = [account EXCEPT ![Ask[r].class] = b]
        /\ UNCHANGED <<rows, config, keyBuckets, sent, opened, clock>>
    BY <1>4 DEF UpstreamThrottles
  <2>2. AccountPart'
    BY <1>1, <2>1, TouchKeepsAccount
  <2>3. KeyPart'
    BY <1>1, <2>1, KeysKept
  <2>4. QED
    BY <2>2, <2>3 DEF IInv
<1>5. CASE \E o \in {"ok", "unreachable"} : Answered(r, o)
  <2> DEFINE b == IF HoldsBucketInForce(r) THEN Refilled(account[Ask[r].class], clock)
                                           ELSE account[Ask[r].class]
  <2>1. /\ account' = [account EXCEPT ![Ask[r].class] = b]
        /\ UNCHANGED <<rows, config, keyBuckets, sent, opened, clock>>
    BY <1>5 DEF Answered, Collapser!Settle
  <2>2. AccountPart'
    BY <1>1, <2>1, TouchKeepsAccount
  <2>3. KeyPart'
    BY <1>1, <2>1, KeysKept
  <2>4. QED
    BY <2>2, <2>3 DEF IInv
<1>6. CASE BodyLost(r)
  <2>1. UNCHANGED <<rows, config, account, keyBuckets, sent, opened, clock>>
    BY <1>6 DEF BodyLost, Collapser!Settle
  <2>2. AccountPart'
    BY <1>1, <2>1, AccountKept
  <2>3. KeyPart'
    BY <1>1, <2>1, KeysKept
  <2>4. QED
    BY <2>2, <2>3 DEF IInv
<1>7. CASE AccountLimited(r) \/ Throttled(r) \/ Respond(r) \/ Cleanup(r)
  <2>1. UNCHANGED core /\ clock' = clock
    BY <1>7 DEF AccountLimited, Throttled, Respond, Cleanup, Collapser!Settle,
                Collapser!Share, Collapser!Finish, Collapser!Sweep
  <2>2. QED
    BY <1>1, <2>1, NeitherTouched
<1>8. QED
  BY <1>3, <1>4, <1>5, <1>6, <1>7 DEF PurgeEnds

\* Key administration, expiry and changes of the configuration.
LEMMA AdministerKeepsIInv ==
  ASSUME IInv, Administer
  PROVE  IInv'
<1>1. AccountPart /\ KeyPart /\ clock \in Nat /\ config \in Configs
  BY DEF IInv, AccountPart
<1>2. CASE \E k \in KeyIds, limits \in RowLimits : UpdateKey(k, limits)
  <2>1. PICK k \in KeyIds, limits \in RowLimits : UpdateKey(k, limits)
    BY <1>2
  <2>2. /\ rows[k] \in KeyRow
        /\ rows' = [rows EXCEPT ![k] = [rows[k] EXCEPT !.limits = limits]]
        /\ DropKeyBuckets(k) /\ UNCHANGED <<config, account, sent, opened, clock>>
    BY <1>1, <2>1 DEF UpdateKey, KeyPart
  <2>3. [rows[k] EXCEPT !.limits = limits] \in KeyRow
    BY <2>2 DEF KeyRow
  <2>4. KeyPart'
    BY <1>1, <2>2, <2>3, KeyDropped
  <2>5. AccountPart'
    BY <1>1, <2>2, AccountKept
  <2>6. QED
    BY <2>4, <2>5 DEF IInv
<1>3. CASE \E k \in KeyIds : RevokeKey(k)
  <2>1. PICK k \in KeyIds : RevokeKey(k)
    BY <1>3
  <2>2. /\ rows[k] \in KeyRow
        /\ rows' = [rows EXCEPT ![k] = [rows[k] EXCEPT !.revoked = TRUE]]
        /\ DropKeyBuckets(k) /\ UNCHANGED <<config, account, sent, opened, clock>>
    BY <1>1, <2>1 DEF RevokeKey, KeyPart
  <2>3. [rows[k] EXCEPT !.revoked = TRUE] \in KeyRow
    BY <2>2 DEF KeyRow
  <2>4. KeyPart'
    BY <1>1, <2>2, <2>3, KeyDropped
  <2>5. AccountPart'
    BY <1>1, <2>2, AccountKept
  <2>6. QED
    BY <2>4, <2>5 DEF IInv
<1>4. CASE \E k \in KeyIds : DeleteKey(k)
  <2>1. PICK k \in KeyIds : DeleteKey(k)
    BY <1>4
  <2>2. /\ rows' = [rows EXCEPT ![k] = NoRow]
        /\ DropKeyBuckets(k) /\ UNCHANGED <<config, account, sent, opened, clock>>
    BY <2>1 DEF DeleteKey
  <2>3. KeyPart'
    BY <1>1, <2>2, KeyDropped
  <2>4. AccountPart'
    BY <1>1, <2>2, AccountKept
  <2>5. QED
    BY <2>3, <2>4 DEF IInv
<1>5. CASE \E k \in KeyIds : ExpireKey(k)
  <2>1. PICK k \in KeyIds : ExpireKey(k)
    BY <1>5
  <2>2. UNCHANGED <<config, account, sent, opened, clock>>
    BY <2>1 DEF ExpireKey, collapser
  <2>3. AccountPart'
    BY <1>1, <2>2, AccountKept
  <2>4. QED
    BY <1>1, <2>1, <2>3, ExpiryKeepsKeys DEF IInv
<1>6. CASE \E new \in Configs : SetConfig(new)
  <2>1. PICK new \in Configs : SetConfig(new)
    BY <1>6
  <2>2. AccountPart' /\ KeyPart'
    BY <1>1, <2>1, SetConfigKeepsAccount, SetConfigKeepsKeys
  <2>3. QED
    BY <2>2 DEF IInv
<1>7. QED
  BY <1>2, <1>3, <1>4, <1>5, <1>6 DEF Administer

LEMMA Inductive == IInv /\ [Next]_vars => IInv'
<1> SUFFICES ASSUME IInv, [Next]_vars PROVE IInv'
  OBVIOUS
<1>1. AccountPart /\ KeyPart /\ clock \in Nat
  BY DEF IInv, AccountPart
<1>2. CASE ServePurges
  BY <1>2, PurgeKeepsIInv, ServeKeepsIInv DEF ServePurges
<1>3. CASE Administer
  BY <1>3, AdministerKeepsIInv
<1>4. CASE ConsumeForDns
  <2>1. /\ Consume("bulk", 1) /\ "bulk" \in Classes
        /\ UNCHANGED <<rows, config, keyBuckets, opened, clock>>
    BY <1>4, GatekeeperAssumption DEF ConsumeForDns
  <2>2. AccountPart'
    BY <1>1, <2>1, ConsumeKeepsAccount
  <2>3. KeyPart'
    BY <1>1, <2>1, KeysKept
  <2>4. QED
    BY <2>2, <2>3 DEF IInv
<1>5. CASE Restart
  <2>1. rows' = rows /\ keyBuckets' = [k \in KeyIds |-> NoBuckets]
    BY <1>5 DEF Restart
  <2>2. AccountPart' /\ KeyPart'
    BY <1>1, <1>5, <2>1, RestartKeepsAccount, KeysCleared
  <2>3. QED
    BY <2>2 DEF IInv
<1>6. CASE Tick
  <2>1. UNCHANGED core /\ clock' = clock + 1
    BY <1>6 DEF Tick, Collapser!Tick
  <2>2. QED
    BY <1>1, <2>1, NeitherTouched
<1>7. CASE UNCHANGED vars
  BY <1>1, <1>7, NeitherTouched DEF vars
<1>8. QED
  BY <1>2, <1>3, <1>4, <1>5, <1>6, <1>7 DEF Next

THEOREM Invariance == Spec => []IInv
<1>1. Init => IInv
  BY Initially
<1>2. IInv /\ [Next]_vars => IInv'
  BY Inductive
<1>3. QED
  BY <1>1, <1>2, PTL DEF Spec

-----------------------------------------------------------------------------
\* Every bucket consulted, of the account or of a key, has the settings in
\* force: rebuildBuckets, updateKey, deletion and eviction leave no stale one.
THEOREM SettingsStayInForce == Spec => []SettingsInForce
<1>1. IInv => SettingsInForce
  BY DEF IInv, AccountPart, AccountInOrder, KeyPart, KeyInOrder, KeyBucketInOrder,
         SettingsInForce
<1>2. QED
  BY <1>1, Invariance, PTL

\* doPurge never spends more on the upstream than the account bucket's burst
\* and rate allow since it was created, retries of followers included.
THEOREM UpstreamStaysWithinLimit == Spec => []UpstreamWithinLimit
<1>1. IInv => UpstreamWithinLimit
  <2> SUFFICES ASSUME IInv, NEW c \in Classes
               PROVE  sent[c] * Grain
                        <= account[c].size * Grain + (clock - opened[c]) * account[c].drip
    BY DEF UpstreamWithinLimit
  <2>1. AccountPart
    BY DEF IInv
  <2>2. /\ account[c] \in Bucket /\ account[c].last <= clock /\ clock \in Nat
        /\ account[c].size * Grain \in Nat /\ sent[c] \in Nat /\ opened[c] \in Nat
        /\ Accounted(account[c], sent[c], account[c].size * Grain, opened[c])
    BY <2>1, AccountFacts
  <2>3. QED
    BY <2>2, AccountedBound
<1>2. QED
  BY <1>1, Invariance, PTL

-----------------------------------------------------------------------------
(***************************************************************************)
(* Lists without repetitions: the insertion order of a JavaScript Map.     *)
(***************************************************************************)
ListsOnce(s) == \A i, j \in DOMAIN s : s[i] = s[j] => i = j

Listed(s) == {s[i] : i \in DOMAIN s}

\* A list without repetitions is as long as what it lists is large.
LEMMA ListedCount ==
  ASSUME NEW S, NEW s \in Seq(S), ListsOnce(s)
  PROVE  Cardinality(Listed(s)) = Len(s)
<1>1. Len(s) \in Nat /\ DOMAIN s = 1 .. Len(s) /\ s \in [1 .. Len(s) -> S]
  BY LenProperties
<1>2. s \in [1 .. Len(s) -> Listed(s)]
  BY <1>1 DEF Listed
<1>3. s \in Bijection(1 .. Len(s), Listed(s))
  <2>1. \A i, j \in 1 .. Len(s) : s[i] = s[j] => i = j
    BY <1>1 DEF ListsOnce
  <2>2. \A e \in Listed(s) : \E i \in 1 .. Len(s) : s[i] = e
    BY <1>1 DEF Listed
  <2>3. QED
    BY <1>2, <2>1, <2>2, Fun_IsBij
<1>4. IsFiniteSet(1 .. Len(s)) /\ Cardinality(1 .. Len(s)) = Len(s)
  BY <1>1, FS_Interval
<1>5. ExistsBijection(1 .. Len(s), Listed(s))
  BY <1>3 DEF ExistsBijection
<1>6. QED
  BY <1>4, <1>5, FS_Bijection

\* Map.delete takes one key out of the order, if it is there.
LEMMA WithoutOne ==
  ASSUME NEW S, NEW s \in Seq(S), ListsOnce(s), NEW k
  PROVE  /\ Without(s, k) \in Seq(S) /\ ListsOnce(Without(s, k))
         /\ Listed(Without(s, k)) = Listed(s) \ {k}
         /\ Len(Without(s, k)) <= Len(s)
<1>1. Len(s) \in Nat /\ DOMAIN s = 1 .. Len(s) /\ \A i \in DOMAIN s : s[i] \in S
  BY LenProperties
<1>2. CASE ~\E i \in DOMAIN s : s[i] = k
  BY <1>1, <1>2 DEF Without, Listed
<1>3. CASE \E i \in DOMAIN s : s[i] = k
  <2> DEFINE at == CHOOSE i \in DOMAIN s : s[i] = k
             front == SubSeq(s, 1, at - 1)
             back == SubSeq(s, at + 1, Len(s))
             t == front \o back
  <2>1. at \in 1 .. Len(s) /\ s[at] = k
    BY <1>1, <1>3
  <2>2. Without(s, k) = t
    BY <1>3 DEF Without
  <2> HIDE DEF at
  <2>3. /\ front \in Seq(S) /\ Len(front) = at - 1
        /\ \A i \in 1 .. at - 1 : front[i] = s[i]
    <3>1. /\ 1 \in Int /\ at - 1 \in Int
          /\ \A i \in 1 .. at - 1 : s[i] \in S
      BY <1>1, <2>1
    <3>2. /\ front \in Seq(S)
          /\ Len(front) = IF 1 <= at - 1 THEN (at - 1) - 1 + 1 ELSE 0
          /\ \A i \in 1 .. (at - 1) - 1 + 1 : front[i] = s[1 + i - 1]
      BY <3>1, SubSeqProperties
    <3> HIDE DEF front
    <3>3. QED
      BY <2>1, <3>2
  <2>4. /\ back \in Seq(S) /\ Len(back) = Len(s) - at
        /\ \A i \in 1 .. Len(s) - at : back[i] = s[at + i]
    <3>1. /\ at + 1 \in Int /\ Len(s) \in Int
          /\ \A i \in at + 1 .. Len(s) : s[i] \in S
      BY <1>1, <2>1
    <3>2. /\ back \in Seq(S)
          /\ Len(back) = IF at + 1 <= Len(s) THEN Len(s) - (at + 1) + 1 ELSE 0
          /\ \A i \in 1 .. Len(s) - (at + 1) + 1 : back[i] = s[(at + 1) + i - 1]
      BY <3>1, SubSeqProperties
    <3> HIDE DEF back
    <3>3. ASSUME NEW i \in 1 .. Len(s) - at PROVE back[i] = s[at + i]
      <4>1. i \in 1 .. Len(s) - (at + 1) + 1 /\ (at + 1) + i - 1 = at + i
        BY <1>1, <2>1
      <4>2. QED
        BY <3>2, <4>1
    <3>4. Len(back) = Len(s) - at
      <4>1. CASE at + 1 <= Len(s)
        BY <1>1, <2>1, <3>2, <4>1
      <4>2. CASE at = Len(s)
        BY <1>1, <2>1, <3>2, <4>2
      <4>3. at + 1 <= Len(s) \/ at = Len(s)
        <5>1. Len(s) \in Nat /\ at \in Nat /\ at <= Len(s)
          BY <1>1, <2>1
        <5>2. QED
          BY <5>1
      <4>4. QED
        BY <4>1, <4>2, <4>3
    <3>5. QED
      BY <3>2, <3>3, <3>4
  <2> HIDE DEF front, back
  <2>5. /\ t \in Seq(S) /\ Len(t) = Len(s) - 1
        /\ \A i \in 1 .. Len(s) - 1 : t[i] = s[IF i < at THEN i ELSE i + 1]
    <3>1. /\ t \in Seq(S)
          /\ Len(t) = Len(front) + Len(back)
          /\ \A i \in 1 .. Len(front) + Len(back) :
               t[i] = IF i <= Len(front) THEN front[i] ELSE back[i - Len(front)]
      BY <2>3, <2>4, ConcatProperties
    <3> HIDE DEF t
    <3>0. Len(front) + Len(back) = Len(s) - 1
      BY <1>1, <2>1, <2>3, <2>4
    <3>2. ASSUME NEW i \in 1 .. Len(s) - 1 PROVE t[i] = s[IF i < at THEN i ELSE i + 1]
      <4>1. CASE i < at
        <5>1. i \in 1 .. at - 1 /\ i <= Len(front) /\ i \in 1 .. Len(front) + Len(back)
          BY <1>1, <2>1, <2>3, <3>0, <4>1
        <5>2. QED
          BY <2>3, <3>1, <4>1, <5>1
      <4>2. CASE ~(i < at)
        <5>1. /\ i \in 1 .. Len(front) + Len(back) /\ ~(i <= Len(front))
              /\ i - (at - 1) \in 1 .. Len(s) - at
              /\ at + (i - (at - 1)) = i + 1
          BY <1>1, <2>1, <2>3, <3>0, <4>2
        <5>2. t[i] = back[i - (at - 1)]
          BY <2>3, <3>1, <5>1
        <5>3. QED
          BY <2>4, <4>2, <5>1, <5>2
      <4>3. QED
        BY <4>1, <4>2
    <3>3. QED
      BY <1>1, <2>1, <2>3, <2>4, <3>1, <3>2
  <2> HIDE DEF t
  <2>6. DOMAIN t = 1 .. Len(s) - 1
    BY <2>5, LenProperties
  <2>7. ListsOnce(t)
    <3> SUFFICES ASSUME NEW i \in 1 .. Len(s) - 1, NEW j \in 1 .. Len(s) - 1, t[i] = t[j]
                 PROVE  i = j
      BY <2>6 DEF ListsOnce
    <3> DEFINE p(n) == IF n < at THEN n ELSE n + 1
    <3>1. p(i) \in DOMAIN s /\ p(j) \in DOMAIN s
      BY <1>1, <2>1
    <3>2. s[p(i)] = s[p(j)]
      BY <2>5
    <3>3. p(i) = p(j)
      BY <3>1, <3>2 DEF ListsOnce
    <3>4. QED
      BY <2>1, <3>3
  <2>8. Listed(t) = Listed(s) \ {k}
    <3>1. ASSUME NEW e \in Listed(t) PROVE e \in Listed(s) /\ e # k
      BY <1>1, <2>1, <2>5, <2>6 DEF Listed, ListsOnce
    <3>2. ASSUME NEW e \in Listed(s), e # k PROVE e \in Listed(t)
      <4>1. PICK i \in 1 .. Len(s) : s[i] = e
        BY <1>1 DEF Listed
      <4>2. CASE i < at
        <5>1. i \in 1 .. Len(s) - 1 /\ t[i] = e
          BY <1>1, <2>1, <2>5, <4>1, <4>2
        <5>2. QED
          BY <2>6, <5>1 DEF Listed
      <4>3. CASE i > at
        <5>1. i - 1 \in 1 .. Len(s) - 1 /\ t[i - 1] = e
          BY <1>1, <2>1, <2>5, <4>1, <4>3
        <5>2. QED
          BY <2>6, <5>1 DEF Listed
      <4>4. i # at
        BY <2>1, <3>2, <4>1
      <4>5. QED
        BY <2>1, <4>1, <4>2, <4>3, <4>4
    <3>3. QED
      BY <3>1, <3>2
  <2>9. QED
    BY <1>1, <2>2, <2>5, <2>7, <2>8
<1>4. QED
  BY <1>2, <1>3

\* Evicting the least recently used key.
LEMMA WithoutFirst ==
  ASSUME NEW S, NEW s \in Seq(S), ListsOnce(s), s # <<>>
  PROVE  /\ Tail(s) \in Seq(S) /\ ListsOnce(Tail(s))
         /\ Listed(Tail(s)) = Listed(s) \ {Head(s)}
         /\ Len(Tail(s)) = Len(s) - 1
<1> DEFINE t == Tail(s)
<1>1. Len(s) \in Nat \ {0} /\ DOMAIN s = 1 .. Len(s) /\ Head(s) = s[1]
  BY LenProperties, EmptySeq
<1>2. /\ t \in Seq(S) /\ Len(t) = Len(s) - 1
      /\ \A i \in 1 .. Len(t) : t[i] = s[i + 1]
  BY HeadTailProperties
<1> HIDE DEF t
<1>3. DOMAIN t = 1 .. Len(s) - 1
  BY <1>2, LenProperties
<1>4. ListsOnce(t)
  <2> SUFFICES ASSUME NEW i \in 1 .. Len(s) - 1, NEW j \in 1 .. Len(s) - 1, t[i] = t[j]
               PROVE  i = j
    BY <1>3 DEF ListsOnce
  <2>1. i + 1 \in DOMAIN s /\ j + 1 \in DOMAIN s /\ s[i + 1] = s[j + 1]
    BY <1>1, <1>2
  <2>2. i + 1 = j + 1
    BY <2>1 DEF ListsOnce
  <2>3. QED
    BY <2>2
<1>5. Listed(t) = Listed(s) \ {s[1]}
  <2>1. ASSUME NEW e \in Listed(t) PROVE e \in Listed(s) /\ e # s[1]
    BY <1>1, <1>2, <1>3 DEF Listed, ListsOnce
  <2>2. ASSUME NEW e \in Listed(s), e # s[1] PROVE e \in Listed(t)
    <3>1. PICK i \in 2 .. Len(s) : s[i] = e
      BY <1>1, <2>2 DEF Listed
    <3>2. i - 1 \in 1 .. Len(s) - 1 /\ t[i - 1] = e
      BY <1>1, <1>2, <3>1
    <3>3. QED
      BY <1>3, <3>2 DEF Listed
  <2>3. QED
    BY <2>1, <2>2
<1>6. QED
  BY <1>1, <1>2, <1>4, <1>5 DEF t

\* Map.set of a key that is not in the order puts it last.
LEMMA AppendNew ==
  ASSUME NEW S, NEW s \in Seq(S), ListsOnce(s), NEW k \in S, k \notin Listed(s)
  PROVE  /\ Append(s, k) \in Seq(S) /\ ListsOnce(Append(s, k))
         /\ Listed(Append(s, k)) = Listed(s) \cup {k}
         /\ Len(Append(s, k)) = Len(s) + 1
<1> DEFINE t == Append(s, k)
<1>1. Len(s) \in Nat /\ DOMAIN s = 1 .. Len(s)
  BY LenProperties
<1>2. /\ t \in Seq(S) /\ Len(t) = Len(s) + 1
      /\ \A i \in 1 .. Len(s) : t[i] = s[i]
      /\ t[Len(s) + 1] = k
  BY AppendProperties
<1> HIDE DEF t
<1>3. DOMAIN t = 1 .. Len(s) + 1
  BY <1>2, LenProperties
<1>4. ListsOnce(t)
  BY <1>1, <1>2, <1>3 DEF ListsOnce, Listed
<1>5. Listed(t) = Listed(s) \cup {k}
  <2>1. \A i \in DOMAIN s : i \in DOMAIN t /\ t[i] = s[i]
    BY <1>1, <1>2, <1>3
  <2>2. \A i \in DOMAIN t : i \in DOMAIN s \/ i = Len(s) + 1
    BY <1>1, <1>3
  <2>3. Len(s) + 1 \in DOMAIN t
    BY <1>1, <1>3
  <2>4. QED
    BY <1>2, <2>1, <2>2, <2>3 DEF Listed
<1>6. QED
  BY <1>2, <1>4, <1>5 DEF t

-----------------------------------------------------------------------------
(***************************************************************************)
(* The order of the per-key buckets lists the keys that have some, each    *)
(* once, and is never longer than the map may be.                          *)
(***************************************************************************)
Cached == {k \in KeyIds : keyBuckets[k] # NoBuckets}

OrderPart ==
  /\ recency \in Seq(KeyIds) /\ ListsOnce(recency)
  /\ Listed(recency) = Cached
  /\ Len(recency) <= MaxKeyBuckets

\* The empty order lists nothing.
LEMMA EmptyOrder ==
  /\ <<>> \in Seq(KeyIds) /\ ListsOnce(<<>>) /\ Listed(<<>>) = {}
  /\ Len(<<>>) <= MaxKeyBuckets
<1>1. /\ <<>> \in Seq(KeyIds) /\ Len(<<>>) = 0 /\ DOMAIN <<>> = {}
  BY EmptySeq, LenProperties
<1>2. Len(<<>>) <= MaxKeyBuckets
  BY <1>1, GatekeeperAssumption
<1>3. QED
  BY <1>1, <1>2 DEF ListsOnce, Listed

\* A step that forgets all buckets forgets their order.
LEMMA OrderCleared ==
  ASSUME keyBuckets' = [k \in KeyIds |-> NoBuckets], recency' = <<>>
  PROVE  OrderPart'
<1>1. Cached' = {}
  BY DEF Cached
<1>2. QED
  BY <1>1, EmptyOrder DEF OrderPart

\* keyBuckets.delete
LEMMA OrderDropped ==
  ASSUME OrderPart, KeyPart, NEW k \in KeyIds, DropKeyBuckets(k)
  PROVE  OrderPart'
<1>1. /\ keyBuckets' = [keyBuckets EXCEPT ![k] = NoBuckets]
      /\ recency' = Without(recency, k)
  BY DEF DropKeyBuckets
<1>2. Cached' = Cached \ {k}
  BY <1>1 DEF Cached, KeyPart
<1>3. /\ recency' \in Seq(KeyIds) /\ ListsOnce(recency')
      /\ Listed(recency') = Listed(recency) \ {k}
      /\ Len(recency') <= Len(recency)
  BY <1>1, WithoutOne DEF OrderPart
<1>4. Len(recency) \in Nat /\ Len(recency') \in Nat /\ MaxKeyBuckets \in Nat
  BY <1>3, GatekeeperAssumption, LenProperties DEF OrderPart
<1>5. QED
  BY <1>2, <1>3, <1>4 DEF OrderPart

\* The charged key has buckets, the evicted one has none, no other changes.
LEMMA CachedAfterCharge ==
  ASSUME KeyPart, config \in Configs, clock \in Nat,
         NEW k \in KeyIds, NEW c \in Classes, NEW n \in Int,
         rows[k] # NoRow, ChargeKey(k, c, n), k \notin Evicted(k)
  PROVE  Cached' = (Cached \ Evicted(k)) \cup {k}
<1> DEFINE paid == [BucketsOf(k) EXCEPT ![c] = Spent(@, n, clock)]
<1>1. /\ BucketsOf(k) \in [Classes -> Bucket]
      /\ BucketsOf(k)[c] \in Bucket /\ WithinSize(BucketsOf(k)[c])
  BY BucketsOfKey DEF KeyBucketInOrder
<1>2. Spent(BucketsOf(k)[c], n, clock) \in Bucket
  BY <1>1, SpendFacts
<1>3. paid \in [Classes -> Bucket]
  BY <1>1, <1>2
<1>4. paid # NoBuckets
  BY <1>3, GatekeeperAssumption
<1>5. keyBuckets' = [j \in KeyIds |->
        IF j = k THEN paid ELSE IF j \in Evicted(k) THEN NoBuckets ELSE keyBuckets[j]]
  BY DEF ChargeKey
<1> HIDE DEF paid
<1>6. QED
  BY <1>4, <1>5 DEF Cached

\* checkPerKeyRateLimit puts the key last, after the eviction of the first key
\* when the map is full and the key is new.
LEMMA OrderCharged ==
  ASSUME OrderPart, KeyPart, config \in Configs, clock \in Nat,
         NEW k \in KeyIds, NEW c \in Classes, NEW n \in Int,
         rows[k] # NoRow, ChargeKey(k, c, n)
  PROVE  OrderPart'
<1> DEFINE left == IF Evicted(k) = {} THEN recency ELSE Tail(recency)
           rest == Without(left, k)
<1>1. /\ recency \in Seq(KeyIds) /\ ListsOnce(recency) /\ Listed(recency) = Cached
      /\ Len(recency) \in Nat /\ Len(recency) <= MaxKeyBuckets
      /\ MaxKeyBuckets \in Nat \ {0}
  BY GatekeeperAssumption, LenProperties DEF OrderPart
<1>2. recency' = Append(rest, k)
  BY DEF ChargeKey
<1>3. /\ left \in Seq(KeyIds) /\ ListsOnce(left)
      /\ Listed(left) = Cached \ Evicted(k)
      /\ k \notin Evicted(k)
      /\ k \in Cached \/ Len(left) < MaxKeyBuckets
  <2>1. CASE Evicted(k) = {}
    <3>1. left = recency
      BY <2>1
    <3>2. k \in Cached \/ Len(recency) < MaxKeyBuckets
      BY <1>1, <2>1 DEF Evicted, Cached
    <3>3. QED
      BY <1>1, <2>1, <3>1, <3>2
  <2>2. CASE Evicted(k) # {}
    <3>1. /\ keyBuckets[k] = NoBuckets /\ Len(recency) >= MaxKeyBuckets
          /\ Evicted(k) = {Head(recency)}
      BY <2>2 DEF Evicted
    <3>2. recency # <<>>
      <4>1. Len(recency) # 0
        BY <1>1, <3>1
      <4>2. QED
        BY <4>1
    <3>3. /\ Tail(recency) \in Seq(KeyIds) /\ ListsOnce(Tail(recency))
          /\ Listed(Tail(recency)) = Listed(recency) \ {Head(recency)}
          /\ Len(Tail(recency)) = Len(recency) - 1
      BY <1>1, <3>2, WithoutFirst
    <3>4. Head(recency) \in Listed(recency)
      <4>1. Head(recency) = recency[1] /\ 1 \in DOMAIN recency
        BY <1>1, <3>1, LenProperties
      <4>2. QED
        BY <4>1 DEF Listed
    <3>5. Head(recency) # k
      BY <1>1, <3>1, <3>4 DEF Cached
    <3>6. left = Tail(recency)
      BY <2>2
    <3> HIDE DEF left
    <3>7. Len(left) < MaxKeyBuckets
      BY <1>1, <3>3, <3>6
    <3>8. Listed(left) = Cached \ Evicted(k) /\ k \notin Evicted(k)
      BY <1>1, <3>1, <3>3, <3>5, <3>6
    <3>9. QED
      BY <3>3, <3>6, <3>7, <3>8
  <2>3. QED
    BY <2>1, <2>2
<1> HIDE DEF left
<1>4. /\ rest \in Seq(KeyIds) /\ ListsOnce(rest)
      /\ Listed(rest) = Listed(left) \ {k} /\ Len(rest) <= Len(left)
  BY <1>3, WithoutOne
<1> HIDE DEF rest
<1>5. /\ recency' \in Seq(KeyIds) /\ ListsOnce(recency')
      /\ Listed(recency') = Listed(rest) \cup {k} /\ Len(recency') = Len(rest) + 1
  BY <1>2, <1>4, AppendNew
<1>6. Cached' = (Cached \ Evicted(k)) \cup {k}
  BY <1>3, CachedAfterCharge
<1>7. Listed(recency') = Cached'
  BY <1>3, <1>4, <1>5, <1>6
<1>8. Len(recency') <= MaxKeyBuckets
  <2>1. CASE k \in Cached
    <3>1. Evicted(k) = {}
      BY <2>1 DEF Evicted, Cached
    <3>2. Cached' = Cached
      BY <1>6, <2>1, <3>1
    <3>3. /\ Cardinality(Listed(recency')) = Len(recency')
          /\ Cardinality(Listed(recency)) = Len(recency)
      BY <1>1, <1>5, ListedCount
    <3>4. QED
      BY <1>1, <1>7, <3>2, <3>3
  <2>2. CASE Len(left) < MaxKeyBuckets
    <3>1. Len(left) \in Nat /\ Len(rest) \in Nat
      BY <1>3, <1>4, LenProperties
    <3>2. QED
      BY <1>1, <1>4, <1>5, <2>2, <3>1
  <2>3. QED
    BY <1>3, <2>1, <2>2
<1>9. QED
  BY <1>5, <1>7, <1>8 DEF OrderPart

\* Every step keeps the order true to the map.
LEMMA OrderInductive ==
  ASSUME OrderPart, IInv, [Next]_vars
  PROVE  OrderPart'
<1>1. AccountPart /\ KeyPart /\ clock \in Nat /\ config \in Configs
  BY DEF IInv, AccountPart
<1>2. ASSUME UNCHANGED <<keyBuckets, recency>> PROVE OrderPart'
  BY <1>2 DEF OrderPart, Cached
<1>3. CASE \E r \in Reqs : Purge(r)
  <2>1. PICK r \in Reqs : Purge(r)
    BY <1>3
  <2>2. CheckPerKeyRateLimit(r)
    BY <2>1 DEF Purge, PurgeKeyLimited, PurgeLead, PurgeFollow
  <2>3. /\ Ask[r].key \in KeyIds /\ Ask[r].class \in Classes /\ Ask[r].cost \in Int
    BY GatekeeperAssumption
  <2>4. CASE Limits(Ask[r].key, Ask[r].class)
    BY <1>1, <2>2, <2>3, <2>4, OrderCharged DEF CheckPerKeyRateLimit, Limits
  <2>5. CASE ~Limits(Ask[r].key, Ask[r].class)
    BY <1>2, <2>2, <2>5 DEF CheckPerKeyRateLimit
  <2>6. QED
    BY <2>4, <2>5
<1>4. ASSUME NEW r \in Reqs,
             Repurge(r) \/ UpstreamThrottles(r) \/ PurgeEnds(r) \/ Respond(r) \/ Cleanup(r)
      PROVE  OrderPart'
  <2>1. UNCHANGED <<keyBuckets, recency>>
    BY <1>4 DEF Repurge, UpstreamThrottles, PurgeEnds, AccountLimited, Answered,
                Throttled, BodyLost, Respond, Cleanup, core
  <2>2. QED
    BY <1>2, <2>1
<1>5. CASE Administer
  <2>1. ASSUME NEW k \in KeyIds,
               (\E limits \in RowLimits : UpdateKey(k, limits)) \/ RevokeKey(k) \/ DeleteKey(k)
        PROVE  OrderPart'
    <3>1. DropKeyBuckets(k)
      BY <2>1 DEF UpdateKey, RevokeKey, DeleteKey
    <3>2. QED
      BY <1>1, <3>1, OrderDropped
  <2>2. ASSUME NEW k \in KeyIds, ExpireKey(k) PROVE OrderPart'
    BY <1>2, <2>2 DEF ExpireKey
  <2>3. ASSUME NEW new \in Configs, SetConfig(new) PROVE OrderPart'
    BY <1>2, <2>3, OrderCleared DEF SetConfig
  <2>4. QED
    BY <1>5, <2>1, <2>2, <2>3 DEF Administer
<1>6. CASE ConsumeForDns
  BY <1>2, <1>6 DEF ConsumeForDns
<1>7. CASE Restart
  BY <1>7, OrderCleared DEF Restart
<1>8. CASE Tick
  BY <1>2, <1>8 DEF Tick, core
<1>9. CASE UNCHANGED vars
  BY <1>2, <1>9 DEF vars, core
<1>10. QED
  BY <1>3, <1>4, <1>5, <1>6, <1>7, <1>8, <1>9 DEF Next, ServePurges

LEMMA OrderInvariance == Spec => []OrderPart
<1>1. Init => OrderPart
  BY EmptyOrder DEF Init, OrderPart, Cached
<1>2. OrderPart /\ IInv /\ [Next]_vars => OrderPart'
  BY OrderInductive
<1>3. QED
  BY <1>1, <1>2, Invariance, PTL DEF Spec

\* checkPerKeyRateLimit keeps at most MAX_KEY_BUCKETS keys, and the order that
\* it evicts by lists each of them once, whatever is deleted in between.
THEOREM KeyBucketsStayBounded == Spec => []KeyBucketsBounded
<1>1. OrderPart => KeyBucketsBounded
  <2> SUFFICES ASSUME OrderPart PROVE KeyBucketsBounded
    OBVIOUS
  <2>1. Cardinality(Listed(recency)) = Len(recency)
    BY ListedCount DEF OrderPart
  <2>2. QED
    BY <2>1 DEF OrderPart, Cached, Listed, KeyBucketsBounded
<1>2. QED
  BY <1>1, OrderInvariance, PTL

-----------------------------------------------------------------------------
(***************************************************************************)
(* The object's collapser.  Its steps are those of RequestCollapse, with   *)
(* each purge calling for its own zone and body, and the restart, which    *)
(* ends what was in flight: of the collapser's invariant, types and form   *)
(* survive it.                                                             *)
(***************************************************************************)
CollapserProofs == INSTANCE RequestCollapseProofs
                     WITH Calls <- Reqs, Keys <- Zones \X Bodies

FormPart == CollapserProofs!TypeOK /\ CollapserProofs!WellFormed

\* What RequestCollapse assumes of its constants.
LEMMA ObjectCollapses ==
  /\ CollapserProofs!CollapseAssumption
  /\ \A r \in Reqs : CollapseKey(r) \in Zones \X Bodies
<1>1. CollapserProofs!CollapseAssumption
  BY GatekeeperAssumption DEF CollapserProofs!CollapseAssumption
<1>2. ASSUME NEW r \in Reqs PROVE CollapseKey(r) \in Zones \X Bodies
  BY GatekeeperAssumption DEF CollapseKey
<1>3. QED
  BY <1>1, <1>2

\* The collapser's part of every step but the restart.
LEMMA CollapserSteps ==
  ASSUME [Next]_vars, ~Restart
  PROVE  [CollapserProofs!Next]_(CollapserProofs!vars)
<1>1. ASSUME NEW r \in Reqs, NEW k \in Zones \X Bodies,
             Collapser!Lead(r, k) \/ Collapser!Follow(r, k)
      PROVE  CollapserProofs!Next
  <2>1. CollapserProofs!Lead(r, k) \/ CollapserProofs!Follow(r, k)
    BY <1>1 DEF Collapser!Lead, Collapser!Follow, Collapser!Joinable, Collapser!Stale,
                Collapser!Settled, Collapser!Start, CollapserProofs!Lead,
                CollapserProofs!Follow, CollapserProofs!Joinable,
                CollapserProofs!Stale, CollapserProofs!Settled, CollapserProofs!Start
  <2>2. QED
    BY <2>1 DEF CollapserProofs!Next
<1>2. ASSUME NEW r \in Reqs,
             \/ Collapser!Settle(r, "ok") \/ Collapser!Settle(r, "failed")
             \/ Collapser!Share(r) \/ Collapser!Retry(r) \/ Collapser!Finish(r)
             \/ Collapser!Sweep(r)
      PROVE  CollapserProofs!Next
  <2>1. \/ CollapserProofs!Settle(r, "ok") \/ CollapserProofs!Settle(r, "failed")
        \/ CollapserProofs!Share(r) \/ CollapserProofs!Retry(r)
        \/ CollapserProofs!Finish(r) \/ CollapserProofs!Sweep(r)
    BY <1>2 DEF Collapser!Settle, Collapser!Share, Collapser!Retry, Collapser!Start,
                Collapser!Finish, Collapser!Settled, Collapser!Sweep,
                CollapserProofs!Settle, CollapserProofs!Share, CollapserProofs!Retry,
                CollapserProofs!Start, CollapserProofs!Finish, CollapserProofs!Settled,
                CollapserProofs!Sweep
  <2>2. QED
    BY <2>1 DEF CollapserProofs!Next, CollapserProofs!Resume
<1>3. ASSUME NEW r \in Reqs, Purge(r) PROVE [CollapserProofs!Next]_(CollapserProofs!vars)
  <2>1. CASE PurgeKeyLimited(r)
    BY <2>1 DEF PurgeKeyLimited, collapser, CollapserProofs!vars
  <2>2. CASE PurgeLead(r) \/ PurgeFollow(r)
    BY <1>1, <2>2, ObjectCollapses DEF PurgeLead, PurgeFollow
  <2>3. QED
    BY <1>3, <2>1, <2>2 DEF Purge
<1>4. ASSUME NEW r \in Reqs,
             Repurge(r) \/ UpstreamThrottles(r) \/ PurgeEnds(r) \/ Respond(r) \/ Cleanup(r)
      PROVE  [CollapserProofs!Next]_(CollapserProofs!vars)
  <2>1. CASE Repurge(r) \/ PurgeEnds(r) \/ Respond(r) \/ Cleanup(r)
    BY <1>2, <2>1 DEF Repurge, PurgeEnds, AccountLimited, Answered, Throttled, BodyLost,
                      Respond, Cleanup
  <2>2. CASE UpstreamThrottles(r)
    BY <2>2 DEF UpstreamThrottles, collapser, CollapserProofs!vars
  <2>3. QED
    BY <1>4, <2>1, <2>2
<1>5. CASE Administer
  BY <1>5 DEF Administer, UpdateKey, RevokeKey, DeleteKey, ExpireKey, SetConfig,
              collapser, CollapserProofs!vars
<1>6. CASE ConsumeForDns
  BY <1>6 DEF ConsumeForDns, collapser, CollapserProofs!vars
<1>7. CASE Tick
  BY <1>7 DEF Tick, Collapser!Tick, CollapserProofs!Tick, CollapserProofs!Next
<1>8. CASE UNCHANGED vars
  BY <1>8 DEF vars, collapser, CollapserProofs!vars
<1>9. QED
  BY <1>3, <1>4, <1>5, <1>6, <1>7, <1>8 DEF Next, ServePurges

\* What a restart does to one purge: its call ends, its flight is settled.
LEMMA RestartEnds ==
  ASSUME FormPart, Restart, NEW r \in Reqs
  PROVE  /\ calls'[r] \in CollapserProofs!CallState
         /\ flights'[r] \in CollapserProofs!FlightState
         /\ calls'[r].pc \notin {"leading", "following"}
         /\ calls'[r].pc = "idle" <=> calls[r].pc = "idle"
         /\ calls'[r].flight = calls[r].flight /\ calls'[r].key = calls[r].key
         /\ flights'[r].status = "none" <=> flights[r].status = "none"
         /\ flights'[r].key = flights[r].key
<1>1. /\ calls[r] \in CollapserProofs!CallState
      /\ flights[r] \in CollapserProofs!FlightState /\ clock \in Nat
  BY DEF FormPart, CollapserProofs!TypeOK
<1>2. /\ calls'[r] = IF calls[r].pc \in {"leading", "following"}
                       THEN [calls[r] EXCEPT !.pc = "rejected"] ELSE calls[r]
      /\ flights'[r] = IF Pending(r)
                         THEN [flights[r] EXCEPT !.status = "failed", !.settledAt = clock]
                         ELSE flights[r]
  BY DEF Restart
<1>3. /\ calls'[r] \in CollapserProofs!CallState
      /\ calls'[r].pc \notin {"leading", "following"}
      /\ calls'[r].pc = "idle" <=> calls[r].pc = "idle"
      /\ calls'[r].flight = calls[r].flight /\ calls'[r].key = calls[r].key
  BY <1>1, <1>2 DEF CollapserProofs!CallState
<1>4. /\ flights'[r] \in CollapserProofs!FlightState
      /\ flights'[r].status = "none" <=> flights[r].status = "none"
      /\ flights'[r].key = flights[r].key
  BY <1>1, <1>2 DEF CollapserProofs!FlightState, Pending
<1>5. QED
  BY <1>3, <1>4

\* The collapser starts afresh with empty maps and the ended calls.
LEMMA RestartKeepsForm ==
  ASSUME FormPart, Restart
  PROVE  FormPart'
<1>1. /\ inflight' = [k \in Zones \X Bodies |-> NoFlight] /\ timers' = {}
      /\ clock' = clock
      /\ calls' = [r \in Reqs |-> calls'[r]] /\ flights' = [r \in Reqs |-> flights'[r]]
  BY DEF Restart
<1>2. CollapserProofs!TypeOK'
  BY <1>1, RestartEnds DEF FormPart, CollapserProofs!TypeOK
<1>3. CollapserProofs!WellFormed'
  <2>1. \A k \in Zones \X Bodies : inflight'[k] = NoFlight
    BY <1>1
  <2>2. ASSUME NEW r \in Reqs
        PROVE  /\ calls'[r].pc # "idle" =>
                    /\ calls'[r].flight \in Reqs
                    /\ flights'[calls'[r].flight].status # "none"
                    /\ flights'[calls'[r].flight].key = calls'[r].key
               /\ calls'[r].pc = "leading" => calls'[r].flight = r
               /\ flights'[r].status # "none" => calls'[r].pc \notin {"idle", "following"}
    BY RestartEnds DEF FormPart, CollapserProofs!WellFormed, CollapserProofs!Started
  <2>3. QED
    BY <1>1, <2>1, <2>2 DEF CollapserProofs!WellFormed, CollapserProofs!Started
<1>4. QED
  BY <1>2, <1>3 DEF FormPart

LEMMA FormInductive ==
  ASSUME FormPart, [Next]_vars
  PROVE  FormPart'
<1>1. CASE Restart
  BY <1>1, RestartKeepsForm
<1>2. CASE ~Restart
  <2>1. [CollapserProofs!Next]_(CollapserProofs!vars)
    BY <1>2, CollapserSteps
  <2>2. CollapserProofs!TypeOK' /\ CollapserProofs!WellFormed'
    BY <2>1, CollapserProofs!FormKept, ObjectCollapses DEF FormPart
  <2>3. QED
    BY <2>2 DEF FormPart
<1>3. QED
  BY <1>1, <1>2

LEMMA FormInitially == Init => FormPart
<1> SUFFICES ASSUME Init PROVE FormPart
  OBVIOUS
<1>1. CollapserProofs!Init
  BY DEF Init, Collapser!Init, CollapserProofs!Init
<1>2. CollapserProofs!IInv
  BY <1>1, CollapserProofs!Initially, ObjectCollapses
<1>3. QED
  BY <1>2 DEF FormPart, CollapserProofs!IInv

-----------------------------------------------------------------------------
(***************************************************************************)
(* A purge collapses with purges of its own zone and body only.            *)
(***************************************************************************)
KeyedPart ==
  \A r \in Reqs :
    /\ calls[r].pc # "idle" => calls[r].key = CollapseKey(r)
    /\ flights[r].status # "none" => flights[r].key = CollapseKey(r)

\* A flight starts for the key of the purge that leads it.
LEMMA StartKeyed ==
  ASSUME FormPart, KeyedPart, NEW r \in Reqs,
         \/ Collapser!Lead(r, CollapseKey(r)) \/ Collapser!Follow(r, CollapseKey(r))
         \/ Collapser!Retry(r)
  PROVE  KeyedPart'
<1>1. /\ calls \in [Reqs -> CollapserProofs!CallState]
      /\ flights \in [Reqs -> CollapserProofs!FlightState]
  BY DEF FormPart, CollapserProofs!TypeOK
<1>2. /\ \A s \in Reqs : s # r => calls'[s] = calls[s] /\ flights'[s] = flights[s]
      /\ calls'[r].key = CollapseKey(r)
      /\ flights'[r] = flights[r] \/ flights'[r].key = CollapseKey(r)
  <2>1. CASE Collapser!Lead(r, CollapseKey(r))
    BY <1>1, <2>1 DEF Collapser!Lead, Collapser!Start
  <2>2. CASE Collapser!Follow(r, CollapseKey(r))
    BY <1>1, <2>2 DEF Collapser!Follow
  <2>3. CASE Collapser!Retry(r)
    BY <1>1, <2>3 DEF Collapser!Retry, Collapser!Start, CollapserProofs!CallState, KeyedPart
  <2>4. QED
    BY <2>1, <2>2, <2>3
<1>3. QED
  BY <1>2 DEF KeyedPart, CollapseKey

\* No other step of the collapser gives anything a key.
LEMMA KeysStay ==
  ASSUME FormPart, KeyedPart, NEW r \in Reqs,
         \/ Collapser!Settle(r, "ok") \/ Collapser!Settle(r, "failed")
         \/ Collapser!Share(r) \/ Collapser!Finish(r) \/ Collapser!Sweep(r)
  PROVE  KeyedPart'
<1>1. /\ calls \in [Reqs -> CollapserProofs!CallState]
      /\ flights \in [Reqs -> CollapserProofs!FlightState]
  BY DEF FormPart, CollapserProofs!TypeOK
<1>2. ASSUME NEW s \in Reqs
      PROVE  /\ calls'[s].key = calls[s].key /\ flights'[s].key = flights[s].key
             /\ calls[s].pc = "idle" => calls'[s].pc = "idle"
             /\ flights[s].status = "none" => flights'[s].status = "none"
  <2>1. ASSUME NEW o, Collapser!Settle(r, o)
        PROVE  /\ flights'[s].key = flights[s].key /\ calls' = calls
               /\ flights[s].status = "none" => flights'[s].status = "none"
    BY <1>1, <2>1 DEF Collapser!Settle, CollapserProofs!FlightState
  <2>2. CASE Collapser!Share(r) \/ Collapser!Finish(r)
    BY <1>1, <2>2 DEF Collapser!Share, Collapser!Finish, CollapserProofs!CallState
  <2>3. CASE Collapser!Sweep(r)
    BY <2>3 DEF Collapser!Sweep
  <2>4. QED
    BY <2>1, <2>2, <2>3
<1>3. QED
  BY <1>2 DEF KeyedPart, CollapseKey

LEMMA KeyedInductive ==
  ASSUME FormPart, KeyedPart, [Next]_vars
  PROVE  KeyedPart'
<1>1. ASSUME UNCHANGED <<calls, flights>> PROVE KeyedPart'
  BY <1>1 DEF KeyedPart, CollapseKey
<1>2. ASSUME NEW r \in Reqs, Purge(r) PROVE KeyedPart'
  <2>1. CASE PurgeKeyLimited(r)
    BY <1>1, <2>1 DEF PurgeKeyLimited, collapser
  <2>2. CASE PurgeLead(r) \/ PurgeFollow(r)
    BY <2>2, StartKeyed DEF PurgeLead, PurgeFollow
  <2>3. QED
    BY <1>2, <2>1, <2>2 DEF Purge
<1>3. ASSUME NEW r \in Reqs,
             Repurge(r) \/ UpstreamThrottles(r) \/ PurgeEnds(r) \/ Respond(r) \/ Cleanup(r)
      PROVE  KeyedPart'
  <2>1. CASE Repurge(r)
    BY <2>1, StartKeyed DEF Repurge
  <2>2. CASE UpstreamThrottles(r)
    BY <1>1, <2>2 DEF UpstreamThrottles, collapser
  <2>3. CASE PurgeEnds(r) \/ Respond(r) \/ Cleanup(r)
    BY <2>3, KeysStay DEF PurgeEnds, AccountLimited, Answered, Throttled, BodyLost,
                          Respond, Cleanup
  <2>4. QED
    BY <1>3, <2>1, <2>2, <2>3
<1>4. CASE Administer
  BY <1>1, <1>4 DEF Administer, UpdateKey, RevokeKey, DeleteKey, ExpireKey, SetConfig,
                    collapser
<1>5. CASE ConsumeForDns \/ Tick
  BY <1>1, <1>5 DEF ConsumeForDns, Tick, Collapser!Tick, collapser
<1>6. CASE Restart
  BY <1>6, RestartEnds DEF KeyedPart, CollapseKey
<1>7. CASE UNCHANGED vars
  BY <1>1, <1>7 DEF vars, collapser
<1>8. QED
  BY <1>2, <1>3, <1>4, <1>5, <1>6, <1>7 DEF Next, ServePurges

\* The collapser's part of the invariant.
LEMMA CollapserInvariance == Spec => [](FormPart /\ KeyedPart)
<1>1. Init => FormPart /\ KeyedPart
  <2>1. Init => KeyedPart
    BY DEF Init, Collapser!Init, KeyedPart
  <2>2. QED
    BY <2>1, FormInitially
<1>2. FormPart /\ KeyedPart /\ [Next]_vars => (FormPart /\ KeyedPart)'
  BY FormInductive, KeyedInductive
<1>3. QED
  BY <1>1, <1>2, PTL DEF Spec

-----------------------------------------------------------------------------
(***************************************************************************)
(* The rest of the state, for the type invariant.                          *)
(***************************************************************************)
TallyPart ==
  /\ epoch \in [Classes -> Nat]
  /\ rpc \in [Reqs -> {"none", "open", "keyLimited"}]
  /\ outcome \in [Reqs -> {"none", "fetching", "limited", "throttled", "ok",
                           "unreachable", "lost"}]
  /\ held \in [Reqs -> Nat]

LEMMA TallyInductive ==
  ASSUME TallyPart, [Next]_vars
  PROVE  TallyPart'
<1>1. \A r \in Reqs : Ask[r].class \in Classes
  BY GatekeeperAssumption
<1>2. ASSUME UNCHANGED <<epoch, rpc, outcome, held>> PROVE TallyPart'
  BY <1>2 DEF TallyPart
<1>3. ASSUME NEW r \in Reqs, StartPurge(r), epoch' = epoch,
             rpc' \in [Reqs -> {"none", "open", "keyLimited"}]
      PROVE  TallyPart'
  BY <1>1, <1>3 DEF TallyPart, StartPurge
<1>4. ASSUME NEW r \in Reqs, Purge(r) PROVE TallyPart'
  <2>1. /\ rpc' \in [Reqs -> {"none", "open", "keyLimited"}]
        /\ epoch' = epoch
    BY <1>4 DEF TallyPart, Purge, PurgeKeyLimited, PurgeLead, PurgeFollow
  <2>2. CASE PurgeLead(r)
    BY <1>3, <2>1, <2>2 DEF PurgeLead
  <2>3. CASE PurgeKeyLimited(r) \/ PurgeFollow(r)
    BY <2>1, <2>3 DEF TallyPart, PurgeKeyLimited, PurgeFollow
  <2>4. QED
    BY <1>4, <2>2, <2>3 DEF Purge
<1>5. ASSUME NEW r \in Reqs,
             Repurge(r) \/ UpstreamThrottles(r) \/ PurgeEnds(r) \/ Respond(r) \/ Cleanup(r)
      PROVE  TallyPart'
  <2>1. CASE Repurge(r)
    BY <1>3, <2>1 DEF Repurge, TallyPart
  <2>2. CASE \/ UpstreamThrottles(r) \/ BodyLost(r)
             \/ \E o \in {"ok", "unreachable"} : Answered(r, o)
    BY <2>2 DEF UpstreamThrottles, Answered, BodyLost, TallyPart
  <2>3. CASE AccountLimited(r) \/ Throttled(r) \/ Respond(r) \/ Cleanup(r)
    BY <1>2, <2>3 DEF AccountLimited, Throttled, Respond, Cleanup, core
  <2>4. QED
    BY <1>5, <2>1, <2>2, <2>3 DEF PurgeEnds
<1>6. CASE Administer
  <2>1. ASSUME NEW k \in KeyIds,
               \/ \E limits \in RowLimits : UpdateKey(k, limits)
               \/ RevokeKey(k) \/ DeleteKey(k) \/ ExpireKey(k)
        PROVE  TallyPart'
    BY <1>2, <2>1 DEF UpdateKey, RevokeKey, DeleteKey, ExpireKey
  <2>2. ASSUME NEW new \in Configs, SetConfig(new) PROVE TallyPart'
    BY <2>2 DEF SetConfig, TallyPart
  <2>3. QED
    BY <1>6, <2>1, <2>2 DEF Administer
<1>7. CASE ConsumeForDns \/ Tick
  BY <1>2, <1>7 DEF ConsumeForDns, Tick, core
<1>8. CASE Restart
  <2>1. /\ epoch' = [c \in Classes |-> epoch[c] + 1]
        /\ outcome' = [r \in Reqs |-> IF Pending(r) THEN "lost" ELSE outcome[r]]
        /\ UNCHANGED <<rpc, held>>
    BY <1>8 DEF Restart
  <2>2. epoch' \in [Classes -> Nat]
    BY <2>1 DEF TallyPart
  <2>3. QED
    BY <2>1, <2>2 DEF TallyPart
<1>9. CASE UNCHANGED vars
  BY <1>2, <1>9 DEF vars, core
<1>10. QED
  BY <1>4, <1>5, <1>6, <1>7, <1>8, <1>9 DEF Next, ServePurges

\* The object's state stays well typed: no bucket overflows its size, no
\* budget outlives its form, every call that awaits a promise has a flight.
THEOREM ObjectType == Spec => []TypeOK
<1>1. Init => TallyPart
  BY DEF Init, TallyPart
<1>2. TallyPart /\ [Next]_vars => TallyPart'
  BY TallyInductive
<1>3. Spec => []TallyPart
  BY <1>1, <1>2, PTL DEF Spec
<1>4. IInv /\ OrderPart /\ FormPart /\ TallyPart => TypeOK
  <2> SUFFICES ASSUME IInv, OrderPart, FormPart, TallyPart PROVE TypeOK
    OBVIOUS
  <2>1. /\ config \in Configs
        /\ account = [c \in Classes |-> account[c]]
        /\ sent = [c \in Classes |-> sent[c]]
        /\ opened = [c \in Classes |-> opened[c]]
        /\ \A c \in Classes : /\ account[c] \in Bucket /\ WithinSize(account[c])
                              /\ sent[c] \in Nat /\ opened[c] \in Nat
    BY DEF IInv, AccountPart, AccountInOrder
  <2>2. /\ account \in [Classes -> Bucket] /\ sent \in [Classes -> Nat]
        /\ opened \in [Classes -> Nat]
    BY <2>1
  <2>3. Collapser!TypeOK
    BY DEF FormPart, CollapserProofs!TypeOK, CollapserProofs!CallState,
           CollapserProofs!FlightState, Collapser!TypeOK, Collapser!CallState,
           Collapser!FlightState
  <2>4. QED
    BY <2>1, <2>2, <2>3 DEF IInv, KeyPart, OrderPart, TallyPart, TypeOK
<1>5. QED
  BY <1>3, <1>4, Invariance, OrderInvariance, CollapserInvariance, PTL
=============================================================================
