----------------------------- MODULE Gatekeeper -----------------------------
(***************************************************************************)
(* The purge path of the Gatekeeper Durable Object                         *)
(* (src/src/durable-object.ts): the purge RPC with its per-key budget,     *)
(* its request collapser and the account bucket; the upstream call; and    *)
(* what runs in between on the same object: key administration, changes of *)
(* the configuration that rebuild the buckets, expiry cleanup, and the     *)
(* eviction of the object.                                                 *)
(*                                                                         *)
(* The object is single-threaded, so a step runs from one await to the     *)
(* next.  A bucket that rebuildBuckets has replaced is still held by the   *)
(* purges that consumed from it, but nothing consumes from it again: such  *)
(* a purge holds an epoch older than the bucket in force.                  *)
(***************************************************************************)
EXTENDS TokenBucket, Sequences, FiniteSets

CONSTANTS
  Reqs,           \* purge RPCs
  Ask,            \* Ask[r]: what RPC r asks for
  KeyIds, Zones, Bodies, Classes,
  Configs,        \* account settings per class: functions to Setting
  RowLimits,      \* per-key settings per class: functions to KeySetting
  Null,           \* a rate-limit column that is NULL
  NoRow, NoBuckets, NoFlight,
  Grace,          \* graceMs of the collapser
  MaxKeyBuckets,  \* MAX_KEY_BUCKETS
  MaxClock,       \* bound on the clock (model checking only)
  MaxEpoch        \* bound on rebuilds and restarts (model checking only)

Setting == [size : Nat \ {0}, drip : Nat \ {0}]

KeySetting == [size : (Nat \ {0}) \cup {Null}, drip : (Nat \ {0}) \cup {Null}]

ASSUME GatekeeperAssumption ==
  /\ "bulk" \in Classes /\ Classes \subseteq {"bulk", "single"}
  /\ Ask \in [Reqs -> [key : KeyIds, zone : Zones, body : Bodies,
                       class : Classes, cost : Int]]
  /\ Configs \subseteq [Classes -> Setting]
  /\ RowLimits \subseteq [Classes -> KeySetting]
  /\ Null \notin Nat
  /\ NoRow \notin [revoked : BOOLEAN, limits : RowLimits]
  /\ NoBuckets \notin [Classes -> Bucket]
  /\ NoFlight \notin Reqs
  /\ Grace \in Nat /\ MaxClock \in Nat /\ MaxEpoch \in Nat
  /\ MaxKeyBuckets \in Nat \ {0}

VARIABLES
  rows,        \* rate-limit columns of api_keys
  config,      \* the resolved configuration, rate limits only
  account,     \* bulkBucket and singleBucket
  epoch,       \* which bucket of the class is in force
  keyBuckets,  \* keyBuckets, as a function
  recency,     \* and its insertion order: least recently used first
  rpc,         \* purge RPCs that arrived, and those refused by their key's budget
  outcome,     \* what doPurge has come to, per flight
  held,        \* the epoch of the bucket that doPurge captured
  sent,        \* tokens consumed from the bucket in force (history)
  opened,      \* when the bucket in force was created (history)
  calls, flights, inflight, timers, clock   \* the collapser's state

core == <<rows, config, account, epoch, keyBuckets, recency, rpc, outcome, held,
          sent, opened>>

collapser == <<calls, flights, inflight, timers>>

vars == <<core, collapser, clock>>

Collapser == INSTANCE RequestCollapse WITH Calls <- Reqs, Keys <- Zones \X Bodies

(***************************************************************************)
(* Mutants, as in Credentials, are definitions with a plausible mistake    *)
(* that no specification uses.                                             *)
(***************************************************************************)

\* Mutant of CollapseKey: the body alone.
CollapseKeyUnzoned(r) == <<CHOOSE z \in Zones : TRUE, Ask[r].body>>

CollapseKey(r) == <<Ask[r].zone, Ask[r].body>>

(***************************************************************************)
(* Per-key budgets.                                                        *)
(***************************************************************************)

\* The key's row limits the class: both of its columns are set.
Limits(k, c) ==
  /\ rows[k] # NoRow
  /\ rows[k].limits[c].size # Null /\ rows[k].limits[c].drip # Null

\* row value ?? account default
OrDefault(n, default) == IF n = Null THEN default ELSE n

NewKeyBucket(k, c) ==
  NewBucket(OrDefault(rows[k].limits[c].size, config[c].size),
            OrDefault(rows[k].limits[c].drip, config[c].drip),
            clock)

BucketsOf(k) ==
  IF keyBuckets[k] = NoBuckets THEN [c \in Classes |-> NewKeyBucket(k, c)]
                               ELSE keyBuckets[k]

\* Mutant of Evicted: one entry too many is kept.
EvictedLate(k) ==
  IF keyBuckets[k] = NoBuckets /\ Len(recency) > MaxKeyBuckets
    THEN {Head(recency)} ELSE {}

\* A new entry pushes the least recently used one out when the map is full.
Evicted(k) ==
  IF keyBuckets[k] = NoBuckets /\ Len(recency) >= MaxKeyBuckets
    THEN {Head(recency)} ELSE {}

\* Map.delete: the order without k, which it may list once.
Without(order, k) ==
  IF \E i \in DOMAIN order : order[i] = k
    THEN LET at == CHOOSE i \in DOMAIN order : order[i] = k
         IN  SubSeq(order, 1, at - 1) \o SubSeq(order, at + 1, Len(order))
    ELSE order

WithinKeyBudget(r) ==
  Limits(Ask[r].key, Ask[r].class) =>
    Admits(BucketsOf(Ask[r].key)[Ask[r].class], Ask[r].cost, clock)

ChargeKey(k, c, n) ==
  /\ keyBuckets' = [j \in KeyIds |->
       IF j = k THEN [BucketsOf(k) EXCEPT ![c] = Spent(@, n, clock)]
       ELSE IF j \in Evicted(k) THEN NoBuckets
       ELSE keyBuckets[j]]
  /\ recency' = Append(Without(IF Evicted(k) = {} THEN recency ELSE Tail(recency), k), k)

CheckPerKeyRateLimit(r) ==
  IF Limits(Ask[r].key, Ask[r].class)
    THEN ChargeKey(Ask[r].key, Ask[r].class, Ask[r].cost)
    ELSE UNCHANGED <<keyBuckets, recency>>

DropKeyBuckets(k) ==
  /\ keyBuckets' = [keyBuckets EXCEPT ![k] = NoBuckets]
  /\ recency' = Without(recency, k)

(***************************************************************************)
(* Initial state: the keys exist, the object has just been constructed.    *)
(***************************************************************************)
Init ==
  /\ rows \in [KeyIds -> [revoked : {FALSE}, limits : RowLimits]]
  /\ config \in Configs
  /\ account = [c \in Classes |-> NewBucket(config[c].size, config[c].drip, 0)]
  /\ epoch = [c \in Classes |-> 0]
  /\ keyBuckets = [k \in KeyIds |-> NoBuckets]
  /\ recency = <<>>
  /\ rpc = [r \in Reqs |-> "none"]
  /\ outcome = [r \in Reqs |-> "none"]
  /\ held = [r \in Reqs |-> 0]
  /\ sent = [c \in Classes |-> 0]
  /\ opened = [c \in Classes |-> 0]
  /\ Collapser!Init

(***************************************************************************)
(* The account bucket of a class.                                          *)
(***************************************************************************)

\* A purge or a DNS request consumes from the bucket in force.
Consume(c, n) ==
  /\ account' = [account EXCEPT ![c] = Spent(@, n, clock)]
  /\ sent' = [sent EXCEPT ![c] = IF Admits(account[c], n, clock) THEN @ + Cost(n) ELSE @]

HoldsBucketInForce(r) == held[r] = epoch[Ask[r].class]

\* doPurge up to its fetch, or to its refusal by the account bucket.
StartPurge(r) ==
  /\ Consume(Ask[r].class, Ask[r].cost)
  /\ outcome' = [outcome EXCEPT ![r] =
       IF Admits(account[Ask[r].class], Ask[r].cost, clock) THEN "fetching" ELSE "limited"]
  /\ held' = [held EXCEPT ![r] = epoch[Ask[r].class]]

(***************************************************************************)
(* The purge RPC.                                                          *)
(***************************************************************************)

\* The key's own budget refuses: nothing is collapsed, nothing is sent.
PurgeKeyLimited(r) ==
  /\ rpc[r] = "none" /\ calls[r].pc = "idle"
  /\ ~WithinKeyBudget(r)
  /\ CheckPerKeyRateLimit(r)
  /\ rpc' = [rpc EXCEPT ![r] = "keyLimited"]
  /\ UNCHANGED <<rows, config, account, epoch, outcome, held, sent, opened,
                 collapser, clock>>

PurgeLead(r) ==
  /\ rpc[r] = "none"
  /\ WithinKeyBudget(r)
  /\ CheckPerKeyRateLimit(r)
  /\ rpc' = [rpc EXCEPT ![r] = "open"]
  /\ Collapser!Lead(r, CollapseKey(r))
  /\ StartPurge(r)
  /\ UNCHANGED <<rows, config, epoch, opened>>

PurgeFollow(r) ==
  /\ rpc[r] = "none"
  /\ WithinKeyBudget(r)
  /\ CheckPerKeyRateLimit(r)
  /\ rpc' = [rpc EXCEPT ![r] = "open"]
  /\ Collapser!Follow(r, CollapseKey(r))
  /\ UNCHANGED <<rows, config, account, epoch, outcome, held, sent, opened>>

Purge(r) == PurgeKeyLimited(r) \/ PurgeLead(r) \/ PurgeFollow(r)

\* Mutant of Repurge: a retry takes the leader's token for its own.
RepurgeUnpaid(r) ==
  /\ Collapser!Retry(r)
  /\ outcome' = [outcome EXCEPT ![r] = "fetching"]
  /\ held' = [held EXCEPT ![r] = epoch[Ask[r].class]]
  /\ sent' = [sent EXCEPT ![Ask[r].class] = @ + Cost(Ask[r].cost)]
  /\ UNCHANGED <<rows, config, account, epoch, keyBuckets, recency, rpc, opened>>

\* A follower of a purge that threw runs doPurge itself, and pays for it.
Repurge(r) ==
  /\ Collapser!Retry(r)
  /\ StartPurge(r)
  /\ UNCHANGED <<rows, config, epoch, keyBuckets, recency, rpc, opened>>

\* The account bucket refused: doPurge returns its 429 without a fetch.  (In
\* the code no other request runs between the refusal and this step.)
AccountLimited(r) ==
  /\ outcome[r] = "limited"
  /\ Collapser!Settle(r, "ok")
  /\ UNCHANGED core

\* The upstream answers, or cannot be reached (a 502): both are results, and
\* both read what remains in the captured bucket.
Answered(r, o) ==
  /\ outcome[r] = "fetching"
  /\ Collapser!Settle(r, "ok")
  /\ outcome' = [outcome EXCEPT ![r] = o]
  /\ account' = [account EXCEPT ![Ask[r].class] =
       IF HoldsBucketInForce(r) THEN Refilled(@, clock) ELSE @]
  /\ UNCHANGED <<rows, config, epoch, keyBuckets, recency, rpc, held, sent, opened>>

\* An upstream 429 drains the bucket that doPurge captured; its body is still
\* to be read.
UpstreamThrottles(r) ==
  /\ outcome[r] = "fetching" /\ flights[r].status = "pending"
  /\ outcome' = [outcome EXCEPT ![r] = "throttled"]
  /\ account' = [account EXCEPT ![Ask[r].class] =
       IF HoldsBucketInForce(r) THEN Drained(@, clock) ELSE @]
  /\ UNCHANGED <<rows, config, epoch, keyBuckets, recency, rpc, held, sent, opened,
                 collapser, clock>>

Throttled(r) ==
  /\ outcome[r] = "throttled"
  /\ Collapser!Settle(r, "ok")
  /\ UNCHANGED core

\* The body of the upstream's answer cannot be read: doPurge throws.
BodyLost(r) ==
  /\ outcome[r] \in {"fetching", "throttled"}
  /\ Collapser!Settle(r, "failed")
  /\ outcome' = [outcome EXCEPT ![r] = "lost"]
  /\ UNCHANGED <<rows, config, account, epoch, keyBuckets, recency, rpc, held, sent,
                 opened>>

PurgeEnds(r) ==
  \/ AccountLimited(r)
  \/ \E o \in {"ok", "unreachable"} : Answered(r, o)
  \/ Throttled(r)
  \/ BodyLost(r)

Respond(r) == (Collapser!Share(r) \/ Collapser!Finish(r)) /\ UNCHANGED core

Cleanup(r) == Collapser!Sweep(r) /\ UNCHANGED core

(***************************************************************************)
(* What else consumes: one bulk token for each DNS request.                *)
(***************************************************************************)
ConsumeForDns ==
  /\ Consume("bulk", 1)
  /\ UNCHANGED <<rows, config, epoch, keyBuckets, recency, rpc, outcome, held, opened,
                 collapser, clock>>

(***************************************************************************)
(* Key administration, as far as it touches the budgets.                   *)
(***************************************************************************)

\* Mutant of UpdateKey: the key keeps the buckets built from its old limits.
UpdateKeyOnly(k, limits) ==
  /\ rows[k] # NoRow /\ ~rows[k].revoked
  /\ rows' = [rows EXCEPT ![k].limits = limits]
  /\ UNCHANGED <<config, account, epoch, keyBuckets, recency, rpc, outcome, held, sent,
                 opened, collapser, clock>>

UpdateKey(k, limits) ==
  /\ rows[k] # NoRow /\ ~rows[k].revoked
  /\ rows' = [rows EXCEPT ![k].limits = limits]
  /\ DropKeyBuckets(k)
  /\ UNCHANGED <<config, account, epoch, rpc, outcome, held, sent, opened, collapser,
                 clock>>

\* revokeKey and bulkRevokeKeys; a rotation does the same to the old key.
RevokeKey(k) ==
  /\ rows[k] # NoRow
  /\ rows' = [rows EXCEPT ![k].revoked = TRUE]
  /\ DropKeyBuckets(k)
  /\ UNCHANGED <<config, account, epoch, rpc, outcome, held, sent, opened, collapser,
                 clock>>

\* deleteKey and bulkDeleteKeys
DeleteKey(k) ==
  /\ rows[k] # NoRow
  /\ rows' = [rows EXCEPT ![k] = NoRow]
  /\ DropKeyBuckets(k)
  /\ UNCHANGED <<config, account, epoch, rpc, outcome, held, sent, opened, collapser,
                 clock>>

\* cleanupExpired revokes a key and leaves its buckets.
ExpireKey(k) ==
  /\ rows[k] # NoRow /\ ~rows[k].revoked
  /\ rows' = [rows EXCEPT ![k].revoked = TRUE]
  /\ UNCHANGED <<config, account, epoch, keyBuckets, recency, rpc, outcome, held, sent,
                 opened, collapser, clock>>

(***************************************************************************)
(* Configuration and restarts.                                             *)
(***************************************************************************)
Rebuilt(c) == config'[c] # config[c]

\* setConfig, or resetConfigKey of a key that was set.  A bucket is replaced
\* only if its own settings changed; any change clears the per-key buckets.
SetConfig(new) ==
  /\ \A c \in Classes : epoch[c] < MaxEpoch
  /\ config' = new
  /\ account' = [c \in Classes |->
       IF Rebuilt(c) THEN NewBucket(new[c].size, new[c].drip, clock) ELSE account[c]]
  /\ epoch' = [c \in Classes |-> IF Rebuilt(c) THEN epoch[c] + 1 ELSE epoch[c]]
  /\ sent' = [c \in Classes |-> IF Rebuilt(c) THEN 0 ELSE sent[c]]
  /\ opened' = [c \in Classes |-> IF Rebuilt(c) THEN clock ELSE opened[c]]
  /\ IF \E c \in Classes : Rebuilt(c)
       THEN keyBuckets' = [k \in KeyIds |-> NoBuckets] /\ recency' = <<>>
       ELSE UNCHANGED <<keyBuckets, recency>>
  /\ UNCHANGED <<rows, rpc, outcome, held, collapser, clock>>

Pending(r) == flights[r].status = "pending"

\* The object is evicted and constructed again: rows and configuration stay,
\* everything in memory is lost, and the RPCs in progress throw.
Restart ==
  /\ \A c \in Classes : epoch[c] < MaxEpoch
  /\ account' = [c \in Classes |-> NewBucket(config[c].size, config[c].drip, clock)]
  /\ epoch' = [c \in Classes |-> epoch[c] + 1]
  /\ sent' = [c \in Classes |-> 0]
  /\ opened' = [c \in Classes |-> clock]
  /\ keyBuckets' = [k \in KeyIds |-> NoBuckets]
  /\ recency' = <<>>
  /\ outcome' = [r \in Reqs |-> IF Pending(r) THEN "lost" ELSE outcome[r]]
  /\ flights' = [r \in Reqs |->
       IF Pending(r) THEN [flights[r] EXCEPT !.status = "failed", !.settledAt = clock]
                     ELSE flights[r]]
  /\ calls' = [r \in Reqs |->
       IF calls[r].pc \in {"leading", "following"}
         THEN [calls[r] EXCEPT !.pc = "rejected"] ELSE calls[r]]
  /\ inflight' = [k \in Zones \X Bodies |-> NoFlight]
  /\ timers' = {}
  /\ UNCHANGED <<rows, config, rpc, held, clock>>

Tick == Collapser!Tick /\ UNCHANGED core

Administer ==
  \/ \E k \in KeyIds, limits \in RowLimits : UpdateKey(k, limits)
  \/ \E k \in KeyIds : RevokeKey(k) \/ DeleteKey(k) \/ ExpireKey(k)
  \/ \E new \in Configs : SetConfig(new)

ServePurges ==
  \E r \in Reqs :
    Purge(r) \/ Repurge(r) \/ UpstreamThrottles(r) \/ PurgeEnds(r) \/ Respond(r) \/ Cleanup(r)

Next ==
  \/ ServePurges
  \/ Administer
  \/ ConsumeForDns
  \/ Restart
  \/ Tick

Spec == Init /\ [][Next]_vars

-----------------------------------------------------------------------------
KeyRow == [revoked : BOOLEAN, limits : RowLimits]

\* Type invariant.
TypeOK ==
  /\ rows \in [KeyIds -> KeyRow \cup {NoRow}]
  /\ config \in Configs
  /\ account \in [Classes -> Bucket]
  /\ \A c \in Classes : WithinSize(account[c])
  /\ epoch \in [Classes -> Nat]
  /\ keyBuckets \in [KeyIds -> [Classes -> Bucket] \cup {NoBuckets}]
  /\ recency \in Seq(KeyIds)
  /\ rpc \in [Reqs -> {"none", "open", "keyLimited"}]
  /\ outcome \in [Reqs -> {"none", "fetching", "limited", "throttled", "ok",
                           "unreachable", "lost"}]
  /\ held \in [Reqs -> Nat]
  /\ sent \in [Classes -> Nat]
  /\ opened \in [Classes -> Nat]
  /\ Collapser!TypeOK

\* The settings in force: at every moment the account buckets have the
\* configured rate and size, and a key's buckets those of its row, or of the
\* configuration where the row says nothing, whatever was updated, deleted,
\* reset or evicted in between.
SettingsInForce ==
  /\ \A c \in Classes : /\ account[c].size = config[c].size
                        /\ account[c].drip = config[c].drip
  /\ \A k \in KeyIds : keyBuckets[k] # NoBuckets =>
       /\ rows[k] # NoRow
       /\ \A c \in Classes :
            /\ keyBuckets[k][c].size = OrDefault(rows[k].limits[c].size, config[c].size)
            /\ keyBuckets[k][c].drip = OrDefault(rows[k].limits[c].drip, config[c].drip)

\* The map of per-key buckets is bounded, and its order lists each of its keys
\* once.
KeyBucketsBounded ==
  LET cached == {k \in KeyIds : keyBuckets[k] # NoBuckets} IN
  /\ Cardinality(cached) <= MaxKeyBuckets
  /\ {recency[i] : i \in DOMAIN recency} = cached
  /\ Len(recency) = Cardinality(cached)

\* The account limit holds for the upstream: since the bucket in force was
\* created, the tokens spent on upstream calls, retries of followers included,
\* never exceed its size plus its rate times the time.
UpstreamWithinLimit ==
  \A c \in Classes :
    sent[c] * Grain <= account[c].size * Grain + (clock - opened[c]) * account[c].drip

\* What the architecture document says of an upstream 429: it drains the
\* local bucket (the one that requests consume from) to zero.
ThrottleDrains ==
  [][\A r \in Reqs : outcome[r] = "fetching" /\ outcome'[r] = "throttled"
       => account'[Ask[r].class].tokens = 0]_vars
=============================================================================
