---------------------------- MODULE Credentials ----------------------------
(***************************************************************************)
(* The credential managers of the Gatekeeper Durable Object: the rows of   *)
(* the api_keys table (durable), the TTL cache in front of them (lost with *)
(* the object), and the RPCs that create, rotate, update, revoke, delete,  *)
(* clean up and authorize keys.  IamManager (src/src/iam.ts) and           *)
(* S3CredentialManager (src/src/s3/iam.ts) are two subclasses of one base  *)
(* (src/src/credential-manager.ts); they differ only in the zone scope and *)
(* the rate limits, which an S3 credential does not have: an S3 instance   *)
(* of this module has Zones = {one} and Scopes = {AnyZone}.                *)
(*                                                                         *)
(* Every RPC below runs without an await, so the object's single thread    *)
(* makes it one step.  Time is Date.now(), which only moves forward here.  *)
(***************************************************************************)
EXTENDS Integers, FiniteSets

CONSTANTS
  Ids,        \* key ids the random generator can produce
  Zones,      \* zones a request may name
  AnyZone,    \* zone_id = NULL: the key is not scoped to a zone
  Scopes,     \* the zone_id values keys are created with
  Contexts,   \* request contexts <<action, resource, fields>> told apart
  Policies,   \* the sets of contexts that a policy document may allow
  Upstreams,  \* upstream_token_id values, the empty one included
  Limits,     \* per-key rate-limit settings, the absent one included
  Lifetimes,  \* expires_in_days, in clock ticks
  Never,      \* expires_at = NULL
  Keep,       \* a field that an update leaves out
  NoRow,      \* no such row in the table
  NoEntry,    \* no such entry in the cache
  TTL,        \* key_cache_ttl_ms, read once when the object starts
  MaxClock    \* bound on the clock (model checking only)

Times == 0 .. MaxClock

Row == [revoked : BOOLEAN, expires : Nat \cup {Never}, scope : Scopes,
        policy : Policies, upstream : Upstreams, limit : Limits]

Entry == [row : Row, at : Nat]

ASSUME CredentialsAssumption ==
  /\ Scopes \subseteq Zones \cup {AnyZone}
  /\ Policies \subseteq SUBSET Contexts
  /\ Lifetimes \subseteq Nat \ {0}
  /\ Never \notin Nat /\ Keep \notin Nat \cup {Never} \cup Limits
  /\ NoRow \notin Row /\ NoEntry \notin Entry
  /\ TTL \in Nat /\ MaxClock \in Nat

VARIABLES
  rows,     \* api_keys: id -> row or NoRow
  cache,    \* CredentialManager.cache: id -> [row, cachedAt] or NoEntry
  issued,   \* ids handed out so far (history: random ids do not repeat)
  origin,   \* the first key of each key's chain of rotations (history)
  clock,    \* Date.now()
  verdict   \* what the last step answered to an authorize call, if it was one

vars == <<rows, cache, issued, origin, clock, verdict>>

NoVerdict == [answer |-> "none"]

Quiet == verdict' = NoVerdict

(***************************************************************************)
(* A definition commented "Mutant of D" is D with a plausible mistake.  No *)
(* specification uses it: it is put in D's place to see the property that  *)
(* guards against the mistake fail.                                        *)
(***************************************************************************)

(***************************************************************************)
(* What a row says of its key.                                             *)
(***************************************************************************)
Exists(i) == rows[i] # NoRow

Live(i) == Exists(i) /\ ~rows[i].revoked

\* Mutant of Expired: off by one tick.
ExpiredLate(row, now) == row.expires # Never /\ row.expires + 1 < now

\* entity.expires_at && entity.expires_at < Date.now()
Expired(row, now) == row.expires # Never /\ row.expires < now

\* The cleanup's WHERE clause, which is <= where authorization is <.
Overdue(row, now) ==
  /\ ~row.revoked
  /\ row.expires # Never
  /\ row.expires <= now

Expiry(life) == IF life = Never THEN Never ELSE clock + life

Forget(ids) == cache' = [i \in Ids |-> IF i \in ids THEN NoEntry ELSE cache[i]]

(***************************************************************************)
(* The answer of authorize to a request, from a row: the checks in the     *)
(* order the code makes them.                                              *)
(***************************************************************************)
Answer(row, zone, ctxs, now) ==
  IF row = NoRow THEN "invalid"
  ELSE IF row.revoked THEN "revoked"
  ELSE IF Expired(row, now) THEN "expired"
  ELSE IF row.scope # AnyZone /\ row.scope # zone THEN "zone_mismatch"
  ELSE IF ctxs \subseteq row.policy THEN "ok"
  ELSE "denied"

Request == [id : Ids, zone : Zones, ctxs : (SUBSET Contexts) \ {{}}]

(***************************************************************************)
(* Initial state: an empty table and a fresh object.                       *)
(***************************************************************************)
Init ==
  /\ rows = [i \in Ids |-> NoRow]
  /\ cache = [i \in Ids |-> NoEntry]
  /\ issued = {}
  /\ origin = [i \in Ids |-> i]
  /\ clock = 0
  /\ verdict = NoVerdict

(***************************************************************************)
(* Administration.                                                         *)
(***************************************************************************)
CreateKey(i, life, scope, policy, upstream, limit) ==
  /\ i \notin issued
  /\ rows' = [rows EXCEPT ![i] =
       [revoked |-> FALSE, expires |-> Expiry(life), scope |-> scope,
        policy |-> policy, upstream |-> upstream, limit |-> limit]]
  /\ issued' = issued \cup {i}
  /\ Quiet
  /\ UNCHANGED <<cache, origin, clock>>

\* Mutant of Rotatable: a key that was already rotated can be rotated again.
RotatableTwice(i) == Exists(i) /\ ~Expired(rows[i], clock)

Rotatable(i) == Live(i) /\ ~Expired(rows[i], clock)

\* Mutant of Successor: zone_id is not inherited.
SuccessorUnscoped(i, life) ==
  [rows[i] EXCEPT !.revoked = FALSE, !.expires = Expiry(life), !.scope = AnyZone]

\* The successor inherits everything but the expiry, which only the
\* overrides can set; the old key is revoked in the same step.
Successor(i, life) == [rows[i] EXCEPT !.revoked = FALSE, !.expires = Expiry(life)]

RotateKey(i, new, life) ==
  /\ Rotatable(i)
  /\ new \notin issued
  /\ rows' = [rows EXCEPT ![new] = Successor(i, life), ![i].revoked = TRUE]
  /\ issued' = issued \cup {new}
  /\ origin' = [origin EXCEPT ![new] = origin[i]]
  /\ Forget({i})
  /\ Quiet
  /\ UNCHANGED clock

\* Mutant of Updated: an omitted field is written.
UpdatedBlindly(row, expires, limit) ==
  [row EXCEPT !.expires = expires, !.limit = limit]

Updated(row, expires, limit) ==
  [row EXCEPT !.expires = IF expires = Keep THEN @ ELSE expires,
              !.limit = IF limit = Keep THEN @ ELSE limit]

\* Mutant of UpdateKey: the cached entry stays.
UpdateKeyStale(i, expires, limit) ==
  /\ Live(i)
  /\ rows' = [rows EXCEPT ![i] = Updated(@, expires, limit)]
  /\ Quiet
  /\ UNCHANGED <<cache, issued, origin, clock>>

UpdateKey(i, expires, limit) ==
  /\ Live(i)
  /\ rows' = [rows EXCEPT ![i] = Updated(@, expires, limit)]
  /\ Forget({i})
  /\ Quiet
  /\ UNCHANGED <<issued, origin, clock>>

\* UPDATE ... SET revoked = 1 WHERE revoked = 0, for each of ids.
Revoking(ids) ==
  rows' = [i \in Ids |-> IF i \in ids /\ Live(i)
                           THEN [rows[i] EXCEPT !.revoked = TRUE] ELSE rows[i]]

RevokeKey(i) ==
  /\ Revoking({i})
  /\ Forget({i})
  /\ Quiet
  /\ UNCHANGED <<issued, origin, clock>>

\* bulkRevoke reaches revokeById, and so the cache, only for live keys.
BulkRevoke(ids) ==
  /\ Revoking(ids)
  /\ Forget({i \in ids : Live(i)})
  /\ Quiet
  /\ UNCHANGED <<issued, origin, clock>>

DeleteKeys(ids) ==
  /\ rows' = [i \in Ids |-> IF i \in ids THEN NoRow ELSE rows[i]]
  /\ Forget(ids)
  /\ Quiet
  /\ UNCHANGED <<issued, origin, clock>>

\* The cron job's revokeExpired: one UPDATE, and the whole cache dropped when
\* it wrote a row.
RevokeExpired ==
  LET due == {i \in Ids : Exists(i) /\ Overdue(rows[i], clock)} IN
  /\ Revoking(due)
  /\ Forget(IF due = {} THEN {} ELSE Ids)
  /\ Quiet
  /\ UNCHANGED <<issued, origin, clock>>

(***************************************************************************)
(* Authorization, through the cache.                                       *)
(***************************************************************************)
Fresh(i) == cache[i] # NoEntry /\ clock - cache[i].at < TTL

\* getCachedOrLoad: the row the caller sees, and the cache it leaves.
Seen(i) == IF Fresh(i) THEN cache[i].row ELSE rows[i]

CacheAfterLoad(i) ==
  IF Fresh(i) THEN cache
  ELSE [cache EXCEPT ![i] = IF Exists(i) THEN [row |-> rows[i], at |-> clock]
                                         ELSE NoEntry]

Authorize(r) ==
  /\ cache' = CacheAfterLoad(r.id)
  /\ verdict' = [answer |-> Answer(Seen(r.id), r.zone, r.ctxs, clock), req |-> r]
  /\ UNCHANGED <<rows, issued, origin, clock>>

(***************************************************************************)
(* The environment: time passes; the object is evicted and started again,  *)
(* with its tables and without its memory.                                 *)
(***************************************************************************)
Tick ==
  /\ clock < MaxClock
  /\ clock' = clock + 1
  /\ Quiet
  /\ UNCHANGED <<rows, cache, issued, origin>>

Restart ==
  /\ Forget(Ids)
  /\ Quiet
  /\ UNCHANGED <<rows, issued, origin, clock>>

Create ==
  \E i \in Ids, life \in Lifetimes \cup {Never}, s \in Scopes, p \in Policies,
     u \in Upstreams, l \in Limits : CreateKey(i, life, s, p, u, l)

Rotate ==
  \E i, new \in Ids, life \in Lifetimes \cup {Never} : RotateKey(i, new, life)

Update ==
  \E i \in Ids, e \in (Times \ {0}) \cup {Never, Keep}, l \in Limits \cup {Keep} :
    UpdateKey(i, e, l)

Next ==
  \/ Create
  \/ Rotate
  \/ Update
  \/ \E i \in Ids : RevokeKey(i)
  \/ \E ids \in SUBSET Ids : BulkRevoke(ids)
  \/ \E ids \in SUBSET Ids : DeleteKeys(ids)
  \/ RevokeExpired
  \/ \E r \in Request : Authorize(r)
  \/ Tick
  \/ Restart

Spec == Init /\ [][Next]_vars

-----------------------------------------------------------------------------
(***************************************************************************)
(* Properties.                                                             *)
(***************************************************************************)

\* Type invariant of the manager's tables, cache and clock.
TypeOK ==
  /\ rows \in [Ids -> Row \cup {NoRow}]
  /\ cache \in [Ids -> Entry \cup {NoEntry}]
  /\ issued \subseteq Ids
  /\ origin \in [Ids -> Ids]
  /\ clock \in Nat
  /\ verdict \in {NoVerdict} \cup
       [answer : {"invalid", "revoked", "expired", "zone_mismatch", "denied", "ok"},
        req : Request]

\* Whatever the cache holds is what the table holds now: every write path of
\* the manager (update, rotate, revoke, delete, bulk, cleanup) drops the
\* entries it makes stale, so the TTL never decides what a caller may do.
CacheCoherent ==
  \A i \in Ids : cache[i] # NoEntry => Exists(i) /\ cache[i].row = rows[i]

\* A chain of rotations has at most one live key at any time: rotateKey
\* creates the successor and revokes the old key together, a second rotation
\* of the old key is refused, and no later update revives it.
OneLivePerLineage ==
  \A i, j \in Ids : origin[i] = origin[j] /\ Live(i) /\ Live(j) => i = j

\* Rotation hands on the authority it was given, no more and no less: all the
\* keys of a chain have one zone scope, one policy and one bound upstream.
RotationKeepsAuthority ==
  \A i, j \in Ids :
    origin[i] = origin[j] /\ Exists(i) /\ Exists(j)
      => /\ rows[i].scope = rows[j].scope
         /\ rows[i].policy = rows[j].policy
         /\ rows[i].upstream = rows[j].upstream

\* The manager with its cache, cleanup, restarts and bulk operations promises
\* what the directory without them does: every answer is the one the table
\* gives at that moment, and no key changes in a way its life cycle forbids.
NoDecision == [granted |-> "none"]

Directory == INSTANCE KeyDirectory WITH
  decision <- IF verdict = NoVerdict THEN NoDecision
              ELSE [granted |-> verdict.answer = "ok", req |-> verdict.req]

ImplementsDirectory == Directory!Spec
=============================================================================
