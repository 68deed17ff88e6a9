--------------------------- MODULE UpstreamsProofs ---------------------------
(***************************************************************************)
(* Proofs about Upstreams, for any set of ids, names and lookups, any TTL  *)
(* and an unbounded history.  The stated invariants are inductive once     *)
(* both are taken together; the argument is that a step either leaves all  *)
(* the rows a lookup selects alone or drops what was cached for it.        *)
(***************************************************************************)
EXTENDS Upstreams, TLAPS

IInv == TypeOK /\ CacheAsOfItsTime

\* Ids are random: a new one has no row.
RowsIssued == \A i \in Ids : Exists(i) => i \in issued

\* What a lookup finds depends on the rows that its kind selects only.
SameRows(by) ==
  \A i \in Ids :
    \/ rows'[i] = rows[i]
    \/ /\ ~(Exists(i) /\ rows[i].scope \in Searched(by))
       /\ ~(Exists(i)' /\ rows'[i].scope \in Searched(by))

\* Whatever else a step does, an entry of the cache stays as it was over the
\* rows it was chosen from, or it is dropped.
Careful ==
  \A l \in Lookups : cache'[l] = NoEntry \/ (cache'[l] = cache[l] /\ SameRows(l.by))

-----------------------------------------------------------------------------
(***************************************************************************)
(* Lookups.                                                                *)
(***************************************************************************)

\* A lookup finds existing ids only, whatever it searches by.
LEMMA MatchingIds ==
  ASSUME NEW l \in Lookups, NEW now
  PROVE  Matching(l, now) \subseteq Active(l.by, now)
<1>1. l.by \in LookupKinds
  BY UpstreamsAssumption
<1>2. QED
  BY <1>1 DEF Matching, LookupKinds, Newest, OrElse, Covering

\* Over the same selected rows, the same credentials are active ...
LEMMA SameActive ==
  ASSUME NEW by, SameRows(by), NEW now
  PROVE  /\ Active(by, now)' = Active(by, now)
         /\ \A i \in Active(by, now) : rows'[i] = rows[i]
BY DEF SameRows, Active, Exists, Expired

\* ... and the same lookup finds the same ones.
LEMMA SameMatching ==
  ASSUME NEW l \in Lookups, SameRows(l.by), NEW now \in Nat
  PROVE  Matching(l, now)' = Matching(l, now)
<1> DEFINE active == Active(l.by, now)
<1>1. l.by \in LookupKinds
  BY UpstreamsAssumption
<1>2. active' = active /\ \A i \in active : rows'[i] = rows[i]
  BY SameActive
<1>3. /\ Covering(active, l.name)' = Covering(active, l.name)
      /\ Covering(active, AnyName)' = Covering(active, AnyName)
  BY <1>2 DEF Covering
<1> DEFINE exact == Covering(active, l.name)
           wild == Covering(active, AnyName)
<1>4. exact \subseteq active /\ wild \subseteq active
  BY DEF Covering
<1>5. ASSUME NEW ids, NEW ids2, ids2 = ids, ids \subseteq active
      PROVE  {i \in ids2 : \A j \in ids2 : rows'[j].created <= rows'[i].created}
               = Newest(ids)
  BY <1>2, <1>5 DEF Newest
<1>6. CASE l.by \in {"token", "endpoint"}
  BY <1>2, <1>6 DEF Matching
<1>7. CASE l.by = "list"
  <2>1. Matching(l, now) = Newest(OrElse(wild, active))
    BY <1>7 DEF Matching
  <2>2. Matching(l, now)' = Newest(OrElse(wild, active))'
    BY <1>7 DEF Matching
  <2>3. /\ OrElse(wild, active)' = OrElse(wild, active)
        /\ OrElse(wild, active) \subseteq active
    BY <1>2, <1>3, <1>4 DEF OrElse
  <2> HIDE DEF active, wild
  <2>4. Newest(OrElse(wild, active))' = Newest(OrElse(wild, active))
    BY <1>5, <2>3 DEF Newest
  <2>5. QED
    BY <2>1, <2>2, <2>4
<1>8. CASE l.by \in {"zone", "account", "bucket"}
  <2>1. Matching(l, now) = Newest(OrElse(exact, wild))
    BY <1>8 DEF Matching
  <2>2. Matching(l, now)' = Newest(OrElse(exact, wild))'
    BY <1>8 DEF Matching
  <2>3. /\ OrElse(exact, wild)' = OrElse(exact, wild)
        /\ OrElse(exact, wild) \subseteq active
    BY <1>3, <1>4 DEF OrElse
  <2> HIDE DEF active, exact, wild
  <2>4. Newest(OrElse(exact, wild))' = Newest(OrElse(exact, wild))
    BY <1>5, <2>3 DEF Newest
  <2>5. QED
    BY <2>1, <2>2, <2>4
<1>9. QED
  BY <1>1, <1>6, <1>7, <1>8 DEF LookupKinds

-----------------------------------------------------------------------------
(***************************************************************************)
(* Writes.                                                                 *)
(***************************************************************************)

\* A careful step keeps the caches true to their time.
LEMMA CarefulKeepsCache ==
  ASSUME IInv, Careful, clock' \in Nat, clock <= clock'
  PROVE  CacheAsOfItsTime'
<1> SUFFICES ASSUME NEW l \in Lookups, cache'[l] # NoEntry
             PROVE  (cache[l].at <= clock /\ cache[l].id \in Matching(l, cache[l].at))'
  BY DEF CacheAsOfItsTime
<1>1. cache'[l] = cache[l] /\ SameRows(l.by)
  BY DEF Careful
<1>2. PICK now \in Nat : now = cache[l].at
  BY <1>1 DEF IInv, TypeOK, Entry
<1>3. now <= clock /\ cache[l].id \in Matching(l, now)
  BY <1>1, <1>2 DEF IInv, CacheAsOfItsTime
<1>4. Matching(l, now)' = Matching(l, now)
  BY <1>1, SameMatching
<1>5. cache'[l].at = now
  BY <1>1, <1>2
<1>6. clock \in Nat
  BY DEF IInv, TypeOK
<1>7. Matching(l, cache[l].at)' = Matching(l, now)'
  BY <1>5
<1>8. QED
  BY <1>1, <1>3, <1>4, <1>5, <1>6, <1>7

\* The registries do not overlap: a lookup searches within one table.
LEMMA OneTable ==
  ASSUME NEW l \in Lookups, NEW s \in TokenScopes \cup R2Scopes,
         s \in Searched(l.by)
  PROVE  Searched(l.by) \subseteq Table(s)
<1>1. l.by \in LookupKinds
  BY UpstreamsAssumption
<1>2. QED
  BY <1>1 DEF LookupKinds, Searched, Table, TokenScopes, R2Scopes

\* Writing one row and clearing its table's cache is careful.
LEMMA WriteIsCareful ==
  ASSUME TypeOK, NEW i \in Ids, NEW s \in TokenScopes \cup R2Scopes,
         NEW row, row.scope = s, rows' = [rows EXCEPT ![i] = row],
         Exists(i) => rows[i].scope = s, Invalidate(Table(s))
  PROVE  Careful
<1> SUFFICES ASSUME NEW l \in Lookups
             PROVE  cache'[l] = NoEntry \/ (cache'[l] = cache[l] /\ SameRows(l.by))
  BY DEF Careful
<1>1. CASE Searched(l.by) \subseteq Table(s)
  BY <1>1 DEF Invalidate
<1>2. CASE ~(Searched(l.by) \subseteq Table(s))
  <2>1. s \notin Searched(l.by)
    BY <1>2, OneTable
  <2>2. cache'[l] = cache[l]
    BY <1>2 DEF Invalidate
  <2>3. \A j \in Ids : j # i => rows'[j] = rows[j]
    BY DEF TypeOK
  <2>4. rows'[i] = row
    BY DEF TypeOK
  <2>5. SameRows(l.by)
    BY <2>1, <2>3, <2>4 DEF SameRows, Exists
  <2>6. QED
    BY <2>2, <2>5
<1>3. QED
  BY <1>1, <1>2

\* Removing rows and clearing the caches of their tables is careful.
LEMMA RemoveIsCareful ==
  ASSUME TypeOK, NEW ids \in SUBSET Ids, \A i \in ids : Exists(i),
         Remove(ids), Invalidate(TablesOf(ids))
  PROVE  Careful
<1> SUFFICES ASSUME NEW l \in Lookups
             PROVE  cache'[l] = NoEntry \/ (cache'[l] = cache[l] /\ SameRows(l.by))
  BY DEF Careful
<1>1. CASE Searched(l.by) \subseteq TablesOf(ids)
  BY <1>1 DEF Invalidate
<1>2. CASE ~(Searched(l.by) \subseteq TablesOf(ids))
  <2>1. cache'[l] = cache[l]
    BY <1>2 DEF Invalidate
  <2>2. ASSUME NEW i \in ids PROVE rows[i].scope \notin Searched(l.by)
    <3>1. rows[i] \in Row
      BY DEF TypeOK, Exists
    <3>2. rows[i].scope \in TokenScopes \cup R2Scopes
      BY <3>1 DEF Row
    <3>3. Table(rows[i].scope) \subseteq TablesOf(ids)
      BY DEF TablesOf
    <3>4. QED
      BY <1>2, <3>2, <3>3, OneTable
  <2>3. \A i \in Ids : rows'[i] = IF i \in ids THEN NoRow ELSE rows[i]
    BY DEF Remove
  <2>4. SameRows(l.by)
    BY <2>2, <2>3 DEF SameRows, Exists
  <2>5. QED
    BY <2>1, <2>4
<1>3. QED
  BY <1>1, <1>2

\* So is a step that leaves rows and caches alone, or clears all caches.
LEMMA QuietIsCareful ==
  ASSUME rows' = rows,
         cache' = cache \/ (cache' = [l \in Lookups |-> NoEntry])
  PROVE  Careful
BY DEF Careful, SameRows

-----------------------------------------------------------------------------
(***************************************************************************)
(* The invariant is kept by every step.                                    *)
(***************************************************************************)
\* Both registries start empty, and so do their caches.
LEMMA Initially == Init => IInv
<1> SUFFICES ASSUME Init PROVE IInv
  OBVIOUS
<1>1. TypeOK
  BY DEF Init, TypeOK
<1>2. CacheAsOfItsTime
  BY DEF Init, CacheAsOfItsTime
<1>3. QED
  BY <1>1, <1>2 DEF IInv

\* A registry's cache, cleared or not, is a cache.
LEMMA InvalidateType ==
  ASSUME TypeOK, NEW table, Invalidate(table)
  PROVE  cache' \in [Lookups -> Entry \cup {NoEntry}]
BY DEF TypeOK, Invalidate

\* A new row enters one registry and clears its cache.
LEMMA CreateKeepsIInv ==
  ASSUME IInv, NEW i \in Ids, NEW s \in TokenScopes \cup R2Scopes, NEW c \in Coverage,
         NEW life \in Lifetimes \cup {Never}, Create(i, s, c, life),
         i \notin issued => ~Exists(i)
  PROVE  IInv'
<1> DEFINE row == [scope |-> s, covers |-> c, created |-> clock,
                   expires |-> IF life = Never THEN Never ELSE clock + life]
<1>1. row \in Row /\ row.scope = s
  BY UpstreamsAssumption DEF Row, IInv, TypeOK
<1>2. rows' = [rows EXCEPT ![i] = row] /\ ~Exists(i) /\ Invalidate(Table(s))
  BY DEF Create
<1> HIDE DEF row
<1>3. TypeOK'
  BY <1>1, <1>2, InvalidateType DEF Create, Quiet, TypeOK, IInv
<1>4. Careful
  BY <1>1, <1>2, WriteIsCareful DEF IInv
<1>5. clock' = clock /\ clock \in Nat
  BY DEF Create, IInv, TypeOK
<1>6. QED
  BY <1>3, <1>4, <1>5, CarefulKeepsCache DEF IInv

\* A changed row stays in its registry, whose cache is cleared.
LEMMA UpdateKeepsIInv ==
  ASSUME IInv, NEW i \in Ids, NEW e \in Nat \cup {Never, Keep}, Update(i, e)
  PROVE  IInv'
<1> DEFINE row == [rows[i] EXCEPT !.expires = IF e = Keep THEN rows[i].expires ELSE e]
           s == rows[i].scope
<1>1. rows[i] \in Row
  BY DEF Update, Exists, IInv, TypeOK
<1>2. row \in Row /\ row.scope = s /\ s \in TokenScopes \cup R2Scopes
  BY <1>1 DEF Row
<1>3. rows' = [rows EXCEPT ![i] = row] /\ Invalidate(Table(s))
  BY DEF Update
<1> HIDE DEF row, s
<1>4. TypeOK'
  BY <1>2, <1>3, InvalidateType DEF Update, Quiet, TypeOK, IInv
<1>5. Careful
  BY <1>2, <1>3, WriteIsCareful DEF IInv, s
<1>6. clock' = clock /\ clock \in Nat
  BY DEF Update, IInv, TypeOK
<1>7. QED
  BY <1>4, <1>5, <1>6, CarefulKeepsCache DEF IInv

\* Deletions and cleanup.
LEMMA RemovalKeepsIInv ==
  ASSUME IInv, NEW ids \in SUBSET Ids, \A i \in ids : Exists(i),
         Remove(ids), Invalidate(TablesOf(ids)), Quiet, UNCHANGED <<issued, clock>>
  PROVE  IInv'
<1>1. TypeOK'
  BY InvalidateType DEF Remove, Quiet, TypeOK, IInv
<1>2. Careful
  BY RemoveIsCareful DEF IInv
<1>3. clock' = clock /\ clock \in Nat
  BY DEF IInv, TypeOK
<1>4. QED
  BY <1>1, <1>2, <1>3, CarefulKeepsCache DEF IInv

\* A resolution writes at most the entry of what it just found.
LEMMA ResolveKeepsIInv ==
  ASSUME IInv, NEW l \in Lookups, Resolve(l)
  PROVE  IInv'
<1>1. rows' = rows /\ issued' = issued /\ clock' = clock /\ clock \in Nat
  BY DEF Resolve, Hit, Miss, Load, IInv, TypeOK
<1>2. CASE Hit(l)
  <2>1. cache[l].id \in Ids
    BY <1>2 DEF Hit, Fresh, IInv, TypeOK, Entry
  <2>2. TypeOK'
    BY <1>1, <1>2, <2>1 DEF Hit, IInv, TypeOK
  <2>3. Careful
    BY <1>1, <1>2, QuietIsCareful DEF Hit
  <2>4. QED
    BY <1>1, <2>2, <2>3, CarefulKeepsCache DEF IInv
<1>3. CASE Miss(l)
  <2>1. TypeOK'
    BY <1>1, <1>3 DEF Miss, IInv, TypeOK
  <2>2. Careful
    BY <1>1, <1>3, QuietIsCareful DEF Miss
  <2>3. QED
    BY <1>1, <2>1, <2>2, CarefulKeepsCache DEF IInv
<1>4. CASE Load(l)
  <2>1. PICK i \in Matching(l, clock) :
          /\ answer' = [lookup |-> l, id |-> i]
          /\ cache' = IF l.by = "list" THEN cache
                      ELSE [cache EXCEPT ![l] = [id |-> i, at |-> clock]]
    BY <1>4 DEF Load
  <2>2. i \in Ids /\ [id |-> i, at |-> clock] \in Entry
    BY <1>1, MatchingIds DEF Active, Entry
  <2>3. TypeOK'
    BY <1>1, <2>1, <2>2 DEF IInv, TypeOK
  <2>4. CASE cache' = cache
    <3>1. Careful
      BY <1>1, <2>4, QuietIsCareful
    <3>2. QED
      BY <1>1, <2>3, <3>1, CarefulKeepsCache DEF IInv
  <2>5. CASE cache' = [cache EXCEPT ![l] = [id |-> i, at |-> clock]]
    <3> SUFFICES ASSUME NEW m \in Lookups, cache'[m] # NoEntry
                 PROVE  (cache[m].at <= clock /\ cache[m].id \in Matching(m, cache[m].at))'
      BY <2>3 DEF IInv, CacheAsOfItsTime
    <3>1. \A k, now : Matching(k, now)' = Matching(k, now)
      BY <1>1 DEF Matching, Active, Newest, OrElse, Covering, Exists, Expired
    <3>2. CASE m = l
      <4>1. cache'[m].id = i /\ cache'[m].at = clock
        BY <2>5, <3>2 DEF IInv, TypeOK
      <4>2. QED
        BY <1>1, <3>1, <3>2, <4>1
    <3>3. CASE m # l
      <4>1. cache'[m] = cache[m]
        BY <2>5, <3>3 DEF IInv, TypeOK
      <4>2. cache[m].at <= clock /\ cache[m].id \in Matching(m, cache[m].at)
        BY <4>1 DEF IInv, CacheAsOfItsTime
      <4>3. QED
        BY <1>1, <3>1, <4>1, <4>2
    <3>4. QED
      BY <3>2, <3>3
  <2>6. QED
    BY <2>1, <2>4, <2>5
<1>5. QED
  BY <1>2, <1>3, <1>4 DEF Resolve

\* Every step of the two registries keeps the invariant.
LEMMA StepKeepsIInv ==
  ASSUME IInv, RowsIssued, [Next]_vars
  PROVE  IInv'
<1>1. CASE UNCHANGED vars
  <2>1. TypeOK'
    BY <1>1 DEF vars, TypeOK, IInv
  <2>2. Careful /\ clock' = clock /\ clock \in Nat
    BY <1>1, QuietIsCareful DEF vars, TypeOK, IInv
  <2>3. QED
    BY <2>1, <2>2, CarefulKeepsCache DEF IInv
<1>2. ASSUME NEW i \in Ids, NEW s \in TokenScopes \cup R2Scopes, NEW c \in Coverage,
             NEW life \in Lifetimes \cup {Never}, Create(i, s, c, life)
      PROVE  IInv'
  BY <1>2, CreateKeepsIInv DEF RowsIssued
<1>3. ASSUME NEW i \in Ids, NEW e \in (1 .. MaxClock) \cup {Never, Keep}, Update(i, e)
      PROVE  IInv'
  <2>1. e \in Nat \cup {Never, Keep}
    BY UpstreamsAssumption
  <2>2. QED
    BY <1>3, <2>1, UpdateKeepsIInv
<1>4. ASSUME NEW table \in {TokenScopes, R2Scopes}, NEW ids \in SUBSET Ids,
             Delete(table, ids)
      PROVE  IInv'
  <2> DEFINE found == {i \in ids : Exists(i) /\ rows[i].scope \in table}
  <2>1. found \in SUBSET Ids /\ \A i \in found : Exists(i)
    OBVIOUS
  <2>2. Remove(found) /\ Invalidate(TablesOf(found)) /\ Quiet /\ UNCHANGED <<issued, clock>>
    BY <1>4 DEF Delete
  <2> HIDE DEF found
  <2>3. QED
    BY <2>1, <2>2, RemovalKeepsIInv
<1>5. CASE DeleteExpired
  <2> DEFINE due == {i \in Ids : Exists(i) /\ Expired(rows[i], clock)}
  <2>1. due \in SUBSET Ids /\ \A i \in due : Exists(i)
    OBVIOUS
  <2>2. Remove(due) /\ Invalidate(TablesOf(due)) /\ Quiet /\ UNCHANGED <<issued, clock>>
    BY <1>5 DEF DeleteExpired
  <2> HIDE DEF due
  <2>3. QED
    BY <2>1, <2>2, RemovalKeepsIInv
<1>6. ASSUME NEW l \in Lookups, Resolve(l) PROVE IInv'
  BY <1>6, ResolveKeepsIInv
<1>7. CASE Tick
  <2>1. TypeOK'
    BY <1>7 DEF Tick, Quiet, TypeOK, IInv
  <2>2. Careful
    BY <1>7, QuietIsCareful DEF Tick
  <2>3. clock' \in Nat /\ clock <= clock'
    BY <1>7 DEF Tick, TypeOK, IInv
  <2>4. QED
    BY <2>1, <2>2, <2>3, CarefulKeepsCache DEF IInv
<1>8. CASE Restart
  <2>1. \A l \in Lookups : Searched(l.by) \subseteq TokenScopes \cup R2Scopes
    BY UpstreamsAssumption DEF Searched, LookupKinds, TokenScopes, R2Scopes
  <2>2. cache' = [l \in Lookups |-> NoEntry]
    BY <1>8, <2>1 DEF Restart, Invalidate
  <2>3. TypeOK'
    BY <1>8, <2>2 DEF Restart, Quiet, TypeOK, IInv
  <2>4. Careful
    BY <1>8, <2>2, QuietIsCareful DEF Restart
  <2>5. clock' = clock /\ clock \in Nat
    BY <1>8 DEF Restart, TypeOK, IInv
  <2>6. QED
    BY <2>3, <2>4, <2>5, CarefulKeepsCache DEF IInv
<1>9. QED
  BY <1>1, <1>2, <1>3, <1>4, <1>5, <1>6, <1>7, <1>8 DEF Next, Administer

\* Rows have ids that were issued, and issued ids stay so.
LEMMA StepKeepsRowsIssued ==
  ASSUME TypeOK, RowsIssued, [Next]_vars
  PROVE  RowsIssued'
<1>1. ASSUME NEW i \in Ids, NEW s \in TokenScopes \cup R2Scopes, NEW c \in Coverage,
             NEW life \in Lifetimes \cup {Never}, Create(i, s, c, life)
      PROVE  RowsIssued'
  BY <1>1 DEF Create, RowsIssued, Exists, TypeOK
<1>2. ASSUME NEW i \in Ids, NEW e \in (1 .. MaxClock) \cup {Never, Keep}, Update(i, e)
      PROVE  RowsIssued'
  <2>1. \A j \in Ids : j # i => rows'[j] = rows[j]
    BY <1>2 DEF Update, TypeOK
  <2>2. i \in issued /\ issued' = issued
    BY <1>2 DEF Update, RowsIssued
  <2>3. QED
    BY <2>1, <2>2 DEF RowsIssued, Exists
<1>3. ASSUME NEW table \in {TokenScopes, R2Scopes}, NEW ids \in SUBSET Ids,
             Delete(table, ids)
      PROVE  RowsIssued'
  BY <1>3 DEF Delete, Remove, RowsIssued, Exists
<1>4. CASE DeleteExpired
  BY <1>4 DEF DeleteExpired, Remove, RowsIssued, Exists
<1>5. ASSUME NEW l \in Lookups, Resolve(l) PROVE RowsIssued'
  BY <1>5 DEF Resolve, Hit, Miss, Load, RowsIssued, Exists
<1>6. CASE Tick \/ Restart \/ UNCHANGED vars
  BY <1>6 DEF Tick, Restart, vars, RowsIssued, Exists
<1>7. QED
  BY <1>1, <1>2, <1>3, <1>4, <1>5, <1>6 DEF Next, Administer

-----------------------------------------------------------------------------
(***************************************************************************)
(* Theorems.                                                               *)
(***************************************************************************)
\* The inductive invariant, for every history of both registries.
THEOREM Invariance == Spec => [](IInv /\ RowsIssued)
<1>1. Init => IInv /\ RowsIssued
  BY Initially DEF Init, RowsIssued, Exists
<1>2. IInv /\ RowsIssued /\ [Next]_vars => (IInv /\ RowsIssued)'
  BY StepKeepsIInv, StepKeepsRowsIssued DEF IInv
<1>3. QED
  BY <1>1, <1>2, PTL DEF Spec

\* Both registries keep rows and cache entries of their types.
THEOREM TypeCorrect == Spec => []TypeOK
<1>1. IInv /\ RowsIssued => TypeOK
  BY DEF IInv
<1>2. QED
  BY <1>1, Invariance, PTL

\* No registration, update, deletion or cleanup leaves a cache entry that the
\* table would not have given at the time of the entry.
THEOREM CachesAreCurrent == Spec => []CacheAsOfItsTime
<1>1. IInv /\ RowsIssued => CacheAsOfItsTime
  BY DEF IInv
<1>2. QED
  BY <1>1, Invariance, PTL

\* What a resolution answers is right at most the TTL late.
LEMMA ResolveIsRecent ==
  ASSUME IInv, NEW l \in Lookups, Resolve(l)
  PROVE  AnswersRecent'
<1>0. rows' = rows
  BY DEF Resolve, Hit, Miss, Load
<1>1. /\ clock' = clock /\ clock \in Nat
      /\ \A now : Matching(l, now)' = Matching(l, now)
  <2>1. clock' = clock /\ clock \in Nat
    BY DEF Resolve, Hit, Miss, Load, IInv, TypeOK
  <2>2. \A now : Matching(l, now)' = Matching(l, now)
    BY <1>0 DEF Matching, Active, Newest, OrElse, Covering, Exists, Expired
  <2>3. QED
    BY <2>1, <2>2
<1>2. ASSUME NEW t \in 0 .. clock, t = clock \/ clock - t < TTL,
             NEW i \in Ids, i \in Matching(l, t), answer' = [lookup |-> l, id |-> i]
      PROVE  AnswersRecent'
  <2>1. answer'.lookup = l /\ answer'.id = i /\ i # Nobody
    BY <1>2, UpstreamsAssumption
  <2>2. Matching(answer.lookup, t)' = Matching(l, t)
    BY <1>1, <2>1
  <2>3. QED
    BY <1>1, <1>2, <2>1, <2>2 DEF AnswersRecent
<1>3. CASE Hit(l)
  <2>1. cache[l] # NoEntry /\ clock - cache[l].at < TTL
    BY <1>3 DEF Hit, Fresh
  <2>2. cache[l].at \in 0 .. clock /\ cache[l].id \in Ids
    BY <1>1, <2>1 DEF IInv, TypeOK, Entry, CacheAsOfItsTime
  <2>3. cache[l].id \in Matching(l, cache[l].at)
    BY <2>1 DEF IInv, CacheAsOfItsTime
  <2>4. QED
    BY <1>2, <1>3, <2>1, <2>2, <2>3 DEF Hit
<1>4. CASE Miss(l)
  <2>1. answer'.lookup = l /\ answer'.id = Nobody /\ Matching(l, clock) = {}
    BY <1>4 DEF Miss
  <2>2. Matching(answer.lookup, clock)' = {}
    BY <1>1, <2>1
  <2>3. QED
    BY <2>1, <2>2 DEF AnswersRecent
<1>5. CASE Load(l)
  <2>1. PICK i \in Matching(l, clock) : answer' = [lookup |-> l, id |-> i]
    BY <1>5 DEF Load
  <2>2. i \in Ids
    BY <1>1, MatchingIds DEF Active
  <2>3. QED
    BY <1>1, <1>2, <2>1, <2>2
<1>6. QED
  BY <1>3, <1>4, <1>5 DEF Resolve

\* Bounded staleness: a deleted or replaced credential is never used again, and
\* an expired one for less than the TTL.
THEOREM StalenessBounded == Spec => []AnswersRecent
<1>1. Init => AnswersRecent
  BY DEF Init, AnswersRecent
<1>2. IInv /\ RowsIssued /\ AnswersRecent /\ [Next]_vars => AnswersRecent'
  <2> SUFFICES ASSUME IInv, AnswersRecent, [Next]_vars PROVE AnswersRecent'
    OBVIOUS
  <2>1. CASE Quiet
    BY <2>1 DEF Quiet, AnswersRecent
  <2>2. ASSUME NEW l \in Lookups, Resolve(l) PROVE AnswersRecent'
    BY <2>2, ResolveIsRecent
  <2>3. CASE UNCHANGED vars
    <3>1. rows' = rows /\ clock' = clock /\ answer' = answer
      BY <2>3 DEF vars
    <3>2. \A l, now : Matching(l, now)' = Matching(l, now)
      BY <3>1 DEF Matching, Active, Newest, OrElse, Covering, Exists, Expired
    <3>3. /\ \A t : Matching(answer.lookup, t)' = Matching(answer.lookup, t)
          /\ Matching(answer.lookup, clock)' = Matching(answer.lookup, clock)
      BY <3>1, <3>2
    <3>4. QED
      BY <3>1, <3>3 DEF AnswersRecent
  <2>4. Next => Quiet \/ \E l \in Lookups : Resolve(l)
    BY DEF Next, Administer, Create, Update, Delete, DeleteExpired, Tick, Restart
  <2>5. QED
    BY <2>1, <2>2, <2>3, <2>4
<1>3. QED
  BY <1>1, <1>2, Invariance, PTL DEF Spec
=============================================================================
