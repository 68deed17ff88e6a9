------------------------------ MODULE Upstreams ------------------------------
(***************************************************************************)
(* The two registries of upstream credentials in the Gatekeeper object:    *)
(* API tokens (UpstreamTokenManager, src/src/upstream-tokens.ts) and R2    *)
(* endpoints (UpstreamR2Manager, src/src/s3/upstream-r2.ts).  Each is a    *)
(* table with a cache of what lookups resolved to.  Any write to a table   *)
(* clears its cache; the passing of time does not, so an entry that        *)
(* expires is served until its cache entry is as old as the TTL.           *)
(*                                                                         *)
(* Every RPC runs without an await and is one step.  A credential stands   *)
(* for its id; a lookup resolves to the id of the credential it would use. *)
(***************************************************************************)
EXTENDS Integers

CONSTANTS
  Ids,        \* ids the random generator can produce
  Names,      \* zones, accounts, buckets and ids that lookups name
  AnyName,    \* "*"
  Coverage,   \* the lists of names a credential may be registered for
  Lookups,    \* the lookups that are made
  Lifetimes,  \* expires_in_days, in clock ticks
  Never,      \* expires_at = NULL
  Keep,       \* a field that an update leaves out
  NoRow, NoEntry, NoAnswer,
  Nobody,     \* the answer of a lookup that finds nothing
  TTL,        \* cacheTtlMs
  MaxClock    \* bound on the clock (model checking only)

TokenScopes == {"zone", "account"}
R2Scopes == {"bucket"}

Row == [scope : TokenScopes \cup R2Scopes, covers : Coverage,
        expires : Nat \cup {Never}, created : Nat]

\* What a lookup searches by: a zone, an account or the id of a token; a
\* bucket, no bucket in particular (ListBuckets) or the id of an endpoint.
LookupKinds == {"zone", "account", "token", "bucket", "list", "endpoint"}

Entry == [id : Ids, at : Nat]

ASSUME UpstreamsAssumption ==
  /\ AnyName \notin Names /\ Ids \subseteq Names
  /\ Coverage \subseteq SUBSET (Names \cup {AnyName})
  /\ Lookups \subseteq [by : LookupKinds, name : Names \cup {AnyName}]
  /\ Lifetimes \subseteq Nat \ {0}
  /\ Never \notin Nat /\ Keep \notin Nat \cup {Never}
  /\ NoRow \notin Row /\ NoEntry \notin Entry /\ Nobody \notin Ids
  /\ NoAnswer \notin [lookup : Lookups, id : Ids \cup {Nobody}]
  /\ TTL \in Nat /\ MaxClock \in Nat

VARIABLES
  rows,     \* upstream_tokens and upstream_r2: id -> row or NoRow
  cache,    \* both resolve caches: lookup -> [id, cachedAt] or NoEntry (in the
            \* code one Map for each registry, whose keys are the bare name of a
            \* zone or bucket, "account:" or "id:" before others: ids of zones
            \* are hexadecimal and buckets have no colon, so no two lookups
            \* share a key)
  issued,   \* ids handed out so far (history: random ids do not repeat)
  clock,    \* Date.now()
  answer    \* what the last step resolved a lookup to, if it was one

vars == <<rows, cache, issued, clock, answer>>

Quiet == answer' = NoAnswer

Init ==
  /\ rows = [i \in Ids |-> NoRow]
  /\ cache = [l \in Lookups |-> NoEntry]
  /\ issued = {}
  /\ clock = 0
  /\ answer = NoAnswer

(***************************************************************************)
(* What a lookup finds in the tables at a given time.                      *)
(***************************************************************************)
Exists(i) == rows[i] # NoRow

\* row.expires_at && row.expires_at <= now
Expired(row, now) == row.expires # Never /\ row.expires <= now

\* The rows that the query of each kind of lookup selects: a search for a
\* zone looks at every token, whatever its scope type.
Searched(by) ==
  CASE by = "account"                          -> {"account"}
    [] by \in {"zone", "token"}                -> TokenScopes
    [] by \in {"bucket", "list", "endpoint"}   -> R2Scopes

Active(by, now) ==
  {i \in Ids : Exists(i) /\ rows[i].scope \in Searched(by) /\ ~Expired(rows[i], now)}

\* ORDER BY created_at DESC: the newest, any of them if several are.
Newest(ids) == {i \in ids : \A j \in ids : rows[j].created <= rows[i].created}

Covering(ids, name) == {i \in ids : name \in rows[i].covers}

\* The first choice unless there is none.
OrElse(first, second) == IF first # {} THEN first ELSE second

\* By id, that one.  ListBuckets takes a wildcard before anything else, a
\* search for a name takes an exact match before a wildcard.
Matching(l, now) ==
  LET active == Active(l.by, now) IN
  CASE l.by \in {"token", "endpoint"} -> active \cap {l.name}
    [] l.by = "list" -> Newest(OrElse(Covering(active, AnyName), active))
    [] l.by \in {"zone", "account", "bucket"} ->
         Newest(OrElse(Covering(active, l.name), Covering(active, AnyName)))

(***************************************************************************)
(* Registration and removal.                                               *)
(***************************************************************************)

\* invalidateCache() of the registry whose table has these scopes.
Invalidate(table) ==
  cache' = [l \in Lookups |-> IF Searched(l.by) \subseteq table THEN NoEntry ELSE cache[l]]

Table(scope) == IF scope \in TokenScopes THEN TokenScopes ELSE R2Scopes

\* createToken, createEndpoint
Create(i, scope, covers, life) ==
  /\ i \notin issued
  /\ rows' = [rows EXCEPT ![i] =
       [scope |-> scope, covers |-> covers, created |-> clock,
        expires |-> IF life = Never THEN Never ELSE clock + life]]
  /\ issued' = issued \cup {i}
  /\ Invalidate(Table(scope))
  /\ Quiet
  /\ UNCHANGED clock

\* Mutant of Update: only the row is written.
UpdateKeepingCache(i, expires) ==
  /\ Exists(i)
  /\ rows' = [rows EXCEPT ![i].expires = IF expires = Keep THEN @ ELSE expires]
  /\ Quiet
  /\ UNCHANGED <<cache, issued, clock>>

\* updateToken, updateEndpoint: any expiry, earlier or later; a new name
\* clears the cache as well.
Update(i, expires) ==
  /\ Exists(i)
  /\ rows' = [rows EXCEPT ![i].expires = IF expires = Keep THEN @ ELSE expires]
  /\ Invalidate(Table(rows[i].scope))
  /\ Quiet
  /\ UNCHANGED <<issued, clock>>

Remove(ids) == rows' = [i \in Ids |-> IF i \in ids THEN NoRow ELSE rows[i]]

TablesOf(ids) == UNION {Table(rows[i].scope) : i \in ids}

\* deleteToken, deleteEndpoint and their bulk forms: ids of one registry, each
\* of which clears the cache if it was there.
Delete(table, ids) ==
  LET found == {i \in ids : Exists(i) /\ rows[i].scope \in table} IN
  /\ Remove(found)
  /\ Invalidate(TablesOf(found))
  /\ Quiet
  /\ UNCHANGED <<issued, clock>>

\* cleanupExpired: deleteExpired of both registries, each of which clears its
\* cache if it deleted a row.
DeleteExpired ==
  LET due == {i \in Ids : Exists(i) /\ Expired(rows[i], clock)} IN
  /\ Remove(due)
  /\ Invalidate(TablesOf(due))
  /\ Quiet
  /\ UNCHANGED <<issued, clock>>

(***************************************************************************)
(* Resolution, through the cache.                                          *)
(***************************************************************************)

\* Mutant of Fresh: one tick too long.
FreshLonger(l) == cache[l] # NoEntry /\ clock - cache[l].at <= TTL

Fresh(l) == cache[l] # NoEntry /\ clock - cache[l].at < TTL

Hit(l) ==
  /\ Fresh(l)
  /\ answer' = [lookup |-> l, id |-> cache[l].id]
  /\ UNCHANGED <<rows, cache, issued, clock>>

\* Mutant of Miss: that nothing was found is remembered too.
MissRemembered(l) ==
  /\ ~Fresh(l)
  /\ Matching(l, clock) = {}
  /\ answer' = [lookup |-> l, id |-> Nobody]
  /\ cache' = [cache EXCEPT ![l] = [id |-> Nobody, at |-> clock]]
  /\ UNCHANGED <<rows, issued, clock>>

Miss(l) ==
  /\ ~Fresh(l)
  /\ Matching(l, clock) = {}
  /\ answer' = [lookup |-> l, id |-> Nobody]
  /\ UNCHANGED <<rows, cache, issued, clock>>

\* A ListBuckets resolution is not cached.
Load(l) ==
  /\ ~Fresh(l)
  /\ \E i \in Matching(l, clock) :
       /\ answer' = [lookup |-> l, id |-> i]
       /\ cache' = IF l.by = "list" THEN cache
                   ELSE [cache EXCEPT ![l] = [id |-> i, at |-> clock]]
  /\ UNCHANGED <<rows, issued, clock>>

Resolve(l) == Hit(l) \/ Miss(l) \/ Load(l)

Tick ==
  /\ clock < MaxClock
  /\ clock' = clock + 1
  /\ Quiet
  /\ UNCHANGED <<rows, cache, issued>>

\* The object is evicted and constructed again.
Restart ==
  /\ Invalidate(TokenScopes \cup R2Scopes)
  /\ Quiet
  /\ UNCHANGED <<rows, issued, clock>>

Administer ==
  \/ \E i \in Ids, s \in TokenScopes \cup R2Scopes, c \in Coverage,
        life \in Lifetimes \cup {Never} : Create(i, s, c, life)
  \/ \E i \in Ids, e \in (1 .. MaxClock) \cup {Never, Keep} : Update(i, e)
  \/ \E table \in {TokenScopes, R2Scopes}, ids \in SUBSET Ids : Delete(table, ids)

Next ==
  \/ Administer
  \/ DeleteExpired
  \/ \E l \in Lookups : Resolve(l)
  \/ Tick
  \/ Restart

Spec == Init /\ [][Next]_vars

-----------------------------------------------------------------------------
\* Type invariant.
TypeOK ==
  /\ rows \in [Ids -> Row \cup {NoRow}]
  /\ cache \in [Lookups -> Entry \cup {NoEntry}]
  /\ issued \subseteq Ids
  /\ clock \in Nat
  /\ answer \in [lookup : Lookups, id : Ids \cup {Nobody}] \cup {NoAnswer}

\* What a cache holds is what its table, as it is now, gave at the time of the
\* entry: no registration, update, deletion or cleanup since then would have
\* changed the choice.
CacheAsOfItsTime ==
  \A l \in Lookups : cache[l] # NoEntry =>
    /\ cache[l].at <= clock
    /\ cache[l].id \in Matching(l, cache[l].at)

\* Bounded staleness: a lookup resolves to what the table gives at some moment
\* less than the TTL ago.  So a deleted or replaced credential is never used
\* again, and one that expires for less than the TTL; that there is none is
\* said only when there is none.
AnswersRecent ==
  answer # NoAnswer =>
    IF answer.id = Nobody
      THEN Matching(answer.lookup, clock) = {}
      ELSE \E t \in 0 .. clock :
             /\ t = clock \/ clock - t < TTL
             /\ answer.id \in Matching(answer.lookup, t)
=============================================================================
