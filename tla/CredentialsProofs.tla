------------------------- MODULE CredentialsProofs -------------------------
(***************************************************************************)
(* Proofs about Credentials, for any set of ids, zones and policies, any   *)
(* TTL and an unbounded history.  The inductive invariant IInv adds to the *)
(* stated properties what they need of the history variables: a key that   *)
(* has never been issued has no row and no cache entry and starts a chain  *)
(* of its own, and chains start at issued keys.                            *)
(***************************************************************************)
EXTENDS Credentials, TLAPS

RowsIssued ==
  \A i \in Ids : rows[i] # NoRow => i \in issued

LineageIssued ==
  \A i \in Ids : IF i \in issued THEN origin[i] \in issued ELSE origin[i] = i

IInv ==
  /\ TypeOK
  /\ RowsIssued
  /\ LineageIssued
  /\ CacheCoherent
  /\ OneLivePerLineage
  /\ RotationKeepsAuthority

-----------------------------------------------------------------------------
(***************************************************************************)
(* Lemmas on the helpers.                                                  *)
(***************************************************************************)

\* Dropping entries keeps the cache well typed.
LEMMA ForgetType ==
  ASSUME TypeOK, NEW ids, Forget(ids)
  PROVE  cache' \in [Ids -> Entry \cup {NoEntry}]
BY DEF Forget, TypeOK

\* Rows written by an update or a rotation are rows.
LEMMA RowUpdates ==
  ASSUME TypeOK, NEW i \in Ids, Exists(i)
  PROVE  /\ rows[i] \in Row
         /\ [rows[i] EXCEPT !.revoked = TRUE] \in Row
         /\ \A life \in Lifetimes \cup {Never} : Successor(i, life) \in Row
         /\ \A e \in Nat \cup {Never, Keep}, l \in Limits \cup {Keep} :
              Updated(rows[i], e, l) \in Row
<1>1. rows[i] \in Row
  BY DEF TypeOK, Exists
<1>2. [rows[i] EXCEPT !.revoked = TRUE] \in Row
  BY <1>1 DEF Row
<1>3. ASSUME NEW life \in Lifetimes \cup {Never}
      PROVE  Successor(i, life) \in Row
  <2>1. Expiry(life) \in Nat \cup {Never}
    BY CredentialsAssumption DEF Expiry, TypeOK
  <2>2. QED
    BY <1>1, <2>1 DEF Row, Successor
<1>4. ASSUME NEW e \in Nat \cup {Never, Keep}, NEW l \in Limits \cup {Keep}
      PROVE  Updated(rows[i], e, l) \in Row
  BY <1>1 DEF Row, Updated
<1>5. QED
  BY <1>1, <1>2, <1>3, <1>4

-----------------------------------------------------------------------------
(***************************************************************************)
(* Type correctness.                                                       *)
(***************************************************************************)
LEMMA TypeInit == Init => TypeOK
BY CredentialsAssumption DEF Init, TypeOK, NoVerdict

LEMMA TypeStep == TypeOK /\ [Next]_vars => TypeOK'
<1> SUFFICES ASSUME TypeOK, [Next]_vars
             PROVE  TypeOK'
  OBVIOUS
<1> USE DEF Quiet
<1>1. ASSUME NEW i \in Ids, NEW life \in Lifetimes \cup {Never},
             NEW s \in Scopes, NEW p \in Policies, NEW u \in Upstreams,
             NEW l \in Limits, CreateKey(i, life, s, p, u, l)
      PROVE  TypeOK'
  <2>1. Expiry(life) \in Nat \cup {Never}
    BY CredentialsAssumption DEF Expiry, TypeOK
  <2>2. [revoked |-> FALSE, expires |-> Expiry(life), scope |-> s,
         policy |-> p, upstream |-> u, limit |-> l] \in Row
    BY <2>1 DEF Row
  <2>3. QED
    BY <1>1, <2>2 DEF CreateKey, TypeOK
<1>2. ASSUME NEW i \in Ids, NEW new \in Ids, NEW life \in Lifetimes \cup {Never},
             RotateKey(i, new, life)
      PROVE  TypeOK'
  <2>1. Exists(i)
    BY <1>2 DEF RotateKey, Rotatable, Live
  <2>2. rows' \in [Ids -> Row \cup {NoRow}]
    <3>1. Successor(i, life) \in Row /\ [rows[i] EXCEPT !.revoked = TRUE] \in Row
      BY <2>1, RowUpdates
    <3>2. [Successor(i, life) EXCEPT !.revoked = TRUE] \in Row
      BY <3>1 DEF Row
    <3>3. QED
      BY <1>2, <3>1, <3>2 DEF RotateKey, TypeOK
  <2>3. QED
    BY <1>2, <2>2, ForgetType DEF RotateKey, TypeOK
<1>3. ASSUME NEW i \in Ids, NEW e \in (Times \ {0}) \cup {Never, Keep},
             NEW l \in Limits \cup {Keep}, UpdateKey(i, e, l)
      PROVE  TypeOK'
  <2>1. e \in Nat \cup {Never, Keep}
    BY CredentialsAssumption DEF Times
  <2>2. Updated(rows[i], e, l) \in Row
    BY <1>3, <2>1, RowUpdates DEF UpdateKey, Live
  <2>3. QED
    BY <1>3, <2>2, ForgetType DEF UpdateKey, TypeOK
<1>4. ASSUME NEW ids \in SUBSET Ids, Revoking(ids)
      PROVE  rows' \in [Ids -> Row \cup {NoRow}]
  <2>1. ASSUME NEW i \in Ids, Live(i)
        PROVE  [rows[i] EXCEPT !.revoked = TRUE] \in Row
    BY <2>1, RowUpdates DEF Live
  <2>2. QED
    BY <1>4, <2>1 DEF Revoking, TypeOK
<1>5. ASSUME NEW i \in Ids, RevokeKey(i)
      PROVE  TypeOK'
  BY <1>5, <1>4, ForgetType DEF RevokeKey, TypeOK
<1>6. ASSUME NEW ids \in SUBSET Ids, BulkRevoke(ids)
      PROVE  TypeOK'
  BY <1>6, <1>4, ForgetType DEF BulkRevoke, TypeOK
<1>7. ASSUME NEW ids \in SUBSET Ids, DeleteKeys(ids)
      PROVE  TypeOK'
  BY <1>7, ForgetType DEF DeleteKeys, TypeOK
<1>8. CASE RevokeExpired
  BY <1>8, <1>4, ForgetType DEF RevokeExpired, TypeOK
<1>9. ASSUME NEW r \in Request, Authorize(r)
      PROVE  TypeOK'
  <2>1. r.id \in Ids
    BY DEF Request
  <2>2. cache' \in [Ids -> Entry \cup {NoEntry}]
    BY <1>9, <2>1 DEF Authorize, CacheAfterLoad, TypeOK, Exists, Entry
  <2>3. Answer(Seen(r.id), r.zone, r.ctxs, clock) \in
          {"invalid", "revoked", "expired", "zone_mismatch", "denied", "ok"}
    BY DEF Answer
  <2>4. QED
    BY <1>9, <2>2, <2>3 DEF Authorize, TypeOK
<1>10. CASE Tick
  BY <1>10 DEF Tick, TypeOK
<1>11. CASE Restart
  BY <1>11, ForgetType DEF Restart, TypeOK
<1>12. CASE UNCHANGED vars
  BY <1>12 DEF vars, TypeOK
<1>13. QED
  BY <1>1, <1>2, <1>3, <1>5, <1>6, <1>7, <1>8, <1>9, <1>10, <1>11, <1>12
     DEF Next, Create, Rotate, Update

\* The tables, the cache, the clock and the answers stay well typed.
THEOREM CredentialsType == Spec => []TypeOK
BY TypeInit, TypeStep, PTL DEF Spec

-----------------------------------------------------------------------------
(***************************************************************************)
(* The inductive invariant.                                                *)
(***************************************************************************)
LEMMA IInvInit == Init => IInv
<1> SUFFICES ASSUME Init
             PROVE  IInv
  OBVIOUS
<1>1. TypeOK
  BY TypeInit
<1>2. \A i \in Ids : rows[i] = NoRow /\ cache[i] = NoEntry /\ origin[i] = i
  BY DEF Init
<1>3. QED
  BY <1>1, <1>2 DEF Init, IInv, RowsIssued, LineageIssued, CacheCoherent,
                    OneLivePerLineage, RotationKeepsAuthority, Live, Exists

\* What a step may do to one row: the four actions that write rows, seen from
\* one key that the step leaves in place.
RowStep(i) ==
  \/ rows'[i] = rows[i]
  \/ /\ Live(i)
     /\ rows'[i] # NoRow
     /\ rows'[i].scope = rows[i].scope
     /\ rows'[i].policy = rows[i].policy
     /\ rows'[i].upstream = rows[i].upstream
  \/ rows'[i] = NoRow

\* The condition under which a step that changes rows keeps the cache coherent.
Invalidates ==
  \A i \in Ids : cache'[i] # NoEntry => cache'[i] = cache[i] /\ rows'[i] = rows[i]

LEMMA InvalidatesKeepsCoherent ==
  ASSUME CacheCoherent, Invalidates
  PROVE  CacheCoherent'
BY DEF CacheCoherent, Invalidates, Exists

\* A step that only amends, revokes or removes existing rows, and revives none,
\* keeps every property of the rows and of their chains.
LEMMA AmendKeepsRows ==
  ASSUME IInv, UNCHANGED <<issued, origin>>,
         \A i \in Ids : RowStep(i),
         \A i \in Ids : Live(i)' => Live(i)
  PROVE  RowsIssued' /\ LineageIssued' /\ OneLivePerLineage' /\ RotationKeepsAuthority'
<1> USE DEF IInv
<1>1. RowsIssued'
  BY DEF RowStep, RowsIssued, Live, Exists
<1>2. LineageIssued'
  BY DEF LineageIssued
<1>3. OneLivePerLineage'
  BY DEF OneLivePerLineage
<1>4. RotationKeepsAuthority'
  <2>1. ASSUME NEW i \in Ids, Exists(i)'
        PROVE  /\ Exists(i)
               /\ rows'[i].scope = rows[i].scope
               /\ rows'[i].policy = rows[i].policy
               /\ rows'[i].upstream = rows[i].upstream
    BY <2>1 DEF RowStep, Live, Exists
  <2>2. QED
    BY <2>1 DEF RotationKeepsAuthority
<1>5. QED
  BY <1>1, <1>2, <1>3, <1>4

\* The rows a set of revocations leaves, and the ones an update leaves.
LEMMA RevokingSteps ==
  ASSUME TypeOK, NEW ids \in SUBSET Ids, Revoking(ids)
  PROVE  /\ \A i \in Ids : RowStep(i)
         /\ \A i \in Ids : Live(i)' => Live(i)
         /\ \A i \in Ids : rows'[i] # rows[i] => i \in ids /\ Live(i)
<1> SUFFICES ASSUME NEW i \in Ids
             PROVE  /\ RowStep(i)
                    /\ Live(i)' => Live(i)
                    /\ rows'[i] # rows[i] => i \in ids /\ Live(i)
  OBVIOUS
<1>1. CASE i \in ids /\ Live(i)
  <2>1. rows[i] \in Row
    BY <1>1, RowUpdates DEF Live
  <2>2. rows'[i] = [rows[i] EXCEPT !.revoked = TRUE]
    BY <1>1 DEF Revoking
  <2>3. rows'[i] \in Row /\ rows'[i] # NoRow
    BY <2>1, <2>2, RowUpdates, <1>1, CredentialsAssumption DEF Live
  <2>4. QED
    BY <1>1, <2>1, <2>2, <2>3 DEF RowStep, Row
<1>2. CASE ~(i \in ids /\ Live(i))
  BY <1>2 DEF Revoking, RowStep, Live, Exists
<1>3. QED
  BY <1>1, <1>2

LEMMA UpdateSteps ==
  ASSUME TypeOK, NEW k \in Ids, NEW e \in (Times \ {0}) \cup {Never, Keep},
         NEW l \in Limits \cup {Keep}, UpdateKey(k, e, l)
  PROVE  /\ \A i \in Ids : RowStep(i)
         /\ \A i \in Ids : Live(i)' => Live(i)
         /\ \A i \in Ids : rows'[i] # rows[i] => i = k
<1>1. e \in Nat \cup {Never, Keep}
  BY CredentialsAssumption DEF Times
<1>2. Live(k) /\ rows[k] \in Row /\ Updated(rows[k], e, l) \in Row
  BY <1>1, RowUpdates DEF UpdateKey, Live
<1>3. rows' = [rows EXCEPT ![k] = Updated(rows[k], e, l)]
  BY DEF UpdateKey
<1>4. /\ rows'[k] = Updated(rows[k], e, l)
      /\ rows'[k] # NoRow
      /\ \A i \in Ids : i # k => rows'[i] = rows[i]
  BY <1>2, <1>3, CredentialsAssumption DEF TypeOK
<1>5. RowStep(k)
  BY <1>2, <1>4 DEF RowStep, Updated, Row
<1>6. QED
  BY <1>2, <1>4, <1>5 DEF RowStep, Live, Exists

LEMMA CreateStep ==
  ASSUME IInv, NEW k \in Ids, NEW life \in Lifetimes \cup {Never},
         NEW s \in Scopes, NEW p \in Policies, NEW u \in Upstreams,
         NEW l \in Limits, CreateKey(k, life, s, p, u, l)
  PROVE  RowsIssued' /\ LineageIssued' /\ CacheCoherent'
         /\ OneLivePerLineage' /\ RotationKeepsAuthority'
<1> USE DEF IInv, CreateKey
<1>1. /\ \A i \in Ids : i # k => rows'[i] = rows[i]
      /\ rows[k] = NoRow
      /\ issued' = issued \cup {k} /\ k \notin issued
      /\ UNCHANGED <<cache, origin>>
  BY DEF TypeOK, RowsIssued
<1>2. \A i \in Ids : i # k /\ Exists(i)' => origin[i] # origin[k]
  BY <1>1 DEF RowsIssued, LineageIssued, Exists, TypeOK
<1>3. RowsIssued' /\ LineageIssued'
  BY <1>1 DEF RowsIssued, LineageIssued, TypeOK
<1>4. CacheCoherent'
  BY <1>1 DEF CacheCoherent, Exists
<1>5. OneLivePerLineage'
  BY <1>1, <1>2 DEF OneLivePerLineage, Live, Exists
<1>6. RotationKeepsAuthority'
  BY <1>1, <1>2 DEF RotationKeepsAuthority, Exists
<1>7. QED
  BY <1>3, <1>4, <1>5, <1>6

LEMMA RotateStep ==
  ASSUME IInv, NEW k \in Ids, NEW new \in Ids,
         NEW life \in Lifetimes \cup {Never}, RotateKey(k, new, life)
  PROVE  RowsIssued' /\ LineageIssued' /\ CacheCoherent'
         /\ OneLivePerLineage' /\ RotationKeepsAuthority'
<1> USE DEF IInv, RotateKey
<1>1. Live(k) /\ k \in issued /\ new \notin issued /\ k # new /\ rows[new] = NoRow
  BY DEF Rotatable, Live, Exists, RowsIssued
<1>2. rows[k] \in Row /\ Successor(k, life) \in Row
  BY <1>1, RowUpdates DEF Live
<1>3. /\ rows'[new] = Successor(k, life)
      /\ rows'[k] = [rows[k] EXCEPT !.revoked = TRUE]
      /\ \A i \in Ids : i \notin {k, new} => rows'[i] = rows[i]
  BY <1>1 DEF TypeOK
<1>4. /\ rows'[k].revoked = TRUE
      /\ rows'[k].scope = rows[k].scope /\ rows'[new].scope = rows[k].scope
      /\ rows'[k].policy = rows[k].policy /\ rows'[new].policy = rows[k].policy
      /\ rows'[k].upstream = rows[k].upstream /\ rows'[new].upstream = rows[k].upstream
  <2> HIDE DEF IInv, RotateKey
  <2> DEFINE row == rows[k]
             dead == [row EXCEPT !.revoked = TRUE]
             next == [row EXCEPT !.revoked = FALSE, !.expires = Expiry(life)]
  <2>1. row \in Row /\ rows'[k] = dead /\ rows'[new] = next
    BY <1>2, <1>3 DEF Successor
  <2> HIDE DEF row
  <2>2. /\ dead.revoked = TRUE
        /\ dead.scope = row.scope /\ dead.policy = row.policy
        /\ dead.upstream = row.upstream
    BY <2>1 DEF Row
  <2>3. next.scope = row.scope /\ next.policy = row.policy /\ next.upstream = row.upstream
    BY <2>1 DEF Row
  <2> HIDE DEF dead, next
  <2>4. QED
    BY <2>1, <2>2, <2>3 DEF row
<1>5. /\ origin'[new] = origin[k]
      /\ \A i \in Ids : i # new => origin'[i] = origin[i]
      /\ origin[k] \in issued
      /\ issued' = issued \cup {new}
  BY <1>1 DEF TypeOK, LineageIssued
<1>6. RowsIssued' /\ LineageIssued'
  <2>1. RowsIssued /\ LineageIssued
    OBVIOUS
  <2> HIDE DEF IInv, RotateKey
  <2>2. RowsIssued'
    BY <1>1, <1>3, <1>5, <2>1 DEF RowsIssued
  <2>3. LineageIssued'
    BY <1>5, <2>1 DEF LineageIssued
  <2>4. QED
    BY <2>2, <2>3
<1>7. CacheCoherent'
  <2>1. cache[new] = NoEntry
    BY <1>1 DEF CacheCoherent, Exists
  <2>2. QED
    BY <1>1, <1>3, <2>1 DEF CacheCoherent, Forget, Exists
<1>8. OneLivePerLineage'
  BY <1>1, <1>3, <1>4, <1>5 DEF OneLivePerLineage, Live, Exists
<1>9. RotationKeepsAuthority'
  <2> DEFINE parent(i) == IF i = new THEN k ELSE i
  <2>1. ASSUME NEW i \in Ids, Exists(i)'
        PROVE  /\ parent(i) \in Ids /\ Exists(parent(i))
               /\ origin'[i] = origin[parent(i)]
               /\ rows'[i].scope = rows[parent(i)].scope
               /\ rows'[i].policy = rows[parent(i)].policy
               /\ rows'[i].upstream = rows[parent(i)].upstream
    BY <2>1, <1>1, <1>3, <1>4, <1>5 DEF Live, Exists
  <2> HIDE DEF parent
  <2>2. ASSUME NEW i \in Ids, NEW j \in Ids,
               origin'[i] = origin'[j], Exists(i)', Exists(j)'
        PROVE  /\ rows'[i].scope = rows'[j].scope
               /\ rows'[i].policy = rows'[j].policy
               /\ rows'[i].upstream = rows'[j].upstream
    <3>1. origin[parent(i)] = origin[parent(j)]
      BY <2>1, <2>2
    <3>2. /\ rows[parent(i)].scope = rows[parent(j)].scope
          /\ rows[parent(i)].policy = rows[parent(j)].policy
          /\ rows[parent(i)].upstream = rows[parent(j)].upstream
      BY <2>1, <2>2, <3>1 DEF RotationKeepsAuthority
    <3>3. QED
      BY <2>1, <2>2, <3>2
  <2>3. QED
    BY <2>2 DEF RotationKeepsAuthority
<1>10. QED
  BY <1>6, <1>7, <1>8, <1>9

LEMMA IInvStep == IInv /\ [Next]_vars => IInv'
<1> SUFFICES ASSUME IInv, [Next]_vars
             PROVE  RowsIssued' /\ LineageIssued' /\ CacheCoherent'
                    /\ OneLivePerLineage' /\ RotationKeepsAuthority'
  BY TypeStep DEF IInv
<1>0. TypeOK /\ CacheCoherent
  BY DEF IInv
<1>1. ASSUME NEW k \in Ids, NEW life \in Lifetimes \cup {Never},
             NEW s \in Scopes, NEW p \in Policies, NEW u \in Upstreams,
             NEW l \in Limits, CreateKey(k, life, s, p, u, l)
      PROVE  RowsIssued' /\ LineageIssued' /\ CacheCoherent'
             /\ OneLivePerLineage' /\ RotationKeepsAuthority'
  BY <1>1, CreateStep
<1>2. ASSUME NEW k \in Ids, NEW new \in Ids, NEW life \in Lifetimes \cup {Never},
             RotateKey(k, new, life)
      PROVE  RowsIssued' /\ LineageIssued' /\ CacheCoherent'
             /\ OneLivePerLineage' /\ RotationKeepsAuthority'
  BY <1>2, RotateStep
<1>3. ASSUME NEW k \in Ids, NEW e \in (Times \ {0}) \cup {Never, Keep},
             NEW l \in Limits \cup {Keep}, UpdateKey(k, e, l)
      PROVE  RowsIssued' /\ LineageIssued' /\ CacheCoherent'
             /\ OneLivePerLineage' /\ RotationKeepsAuthority'
  <2>1. Invalidates
    BY <1>3, <1>0, UpdateSteps DEF UpdateKey, Forget, Invalidates
  <2>2. CacheCoherent'
    BY <2>1, <1>0, InvalidatesKeepsCoherent
  <2>3. QED
    BY <1>3, <1>0, <2>2, UpdateSteps, AmendKeepsRows DEF UpdateKey
<1>4. ASSUME NEW ids \in SUBSET Ids, NEW dropped, Revoking(ids), Forget(dropped),
             \A i \in ids : Live(i) => i \in dropped,
             UNCHANGED <<issued, origin>>
      PROVE  RowsIssued' /\ LineageIssued' /\ CacheCoherent'
             /\ OneLivePerLineage' /\ RotationKeepsAuthority'
  <2>1. Invalidates
    BY <1>4, <1>0, RevokingSteps DEF Forget, Invalidates
  <2>2. CacheCoherent'
    BY <2>1, <1>0, InvalidatesKeepsCoherent
  <2>3. QED
    BY <1>4, <1>0, <2>2, RevokingSteps, AmendKeepsRows
<1>5. ASSUME NEW k \in Ids, RevokeKey(k)
      PROVE  RowsIssued' /\ LineageIssued' /\ CacheCoherent'
             /\ OneLivePerLineage' /\ RotationKeepsAuthority'
  BY <1>5, <1>4 DEF RevokeKey
<1>6. ASSUME NEW ids \in SUBSET Ids, BulkRevoke(ids)
      PROVE  RowsIssued' /\ LineageIssued' /\ CacheCoherent'
             /\ OneLivePerLineage' /\ RotationKeepsAuthority'
  BY <1>6, <1>4 DEF BulkRevoke
<1>7. ASSUME NEW ids \in SUBSET Ids, DeleteKeys(ids)
      PROVE  RowsIssued' /\ LineageIssued' /\ CacheCoherent'
             /\ OneLivePerLineage' /\ RotationKeepsAuthority'
  <2>1. Invalidates
    BY <1>7 DEF DeleteKeys, Forget, Invalidates
  <2>2. \A i \in Ids : RowStep(i) /\ (Live(i)' => Live(i))
    BY <1>7 DEF DeleteKeys, RowStep, Live, Exists
  <2>3. QED
    BY <1>7, <1>0, <2>1, <2>2, InvalidatesKeepsCoherent, AmendKeepsRows DEF DeleteKeys
<1>8. CASE RevokeExpired
  <2> DEFINE due == {i \in Ids : Exists(i) /\ Overdue(rows[i], clock)}
             dropped == IF due = {} THEN {} ELSE Ids
  <2>1. Revoking(due) /\ Forget(dropped) /\ UNCHANGED <<issued, origin>>
    BY <1>8 DEF RevokeExpired
  <2>2. due \in SUBSET Ids /\ \A i \in due : i \in dropped
    OBVIOUS
  <2> HIDE DEF due, dropped
  <2>3. QED
    BY <1>4, <2>1, <2>2
<1>9. ASSUME NEW r \in Request, Authorize(r)
      PROVE  RowsIssued' /\ LineageIssued' /\ CacheCoherent'
             /\ OneLivePerLineage' /\ RotationKeepsAuthority'
  <2>1. r.id \in Ids /\ UNCHANGED <<rows, issued, origin>>
    BY <1>9 DEF Request, Authorize
  <2>2. CacheCoherent'
    BY <1>9, <1>0, <2>1 DEF Authorize, CacheAfterLoad, CacheCoherent, TypeOK, Exists
  <2>3. QED
    BY <2>1, <2>2 DEF IInv, RowsIssued, LineageIssued, OneLivePerLineage,
                      RotationKeepsAuthority, Live, Exists
<1>10. ASSUME UNCHANGED <<rows, cache, issued, origin>>
       PROVE  RowsIssued' /\ LineageIssued' /\ CacheCoherent'
              /\ OneLivePerLineage' /\ RotationKeepsAuthority'
  BY <1>10 DEF IInv, RowsIssued, LineageIssued, CacheCoherent, OneLivePerLineage,
               RotationKeepsAuthority, Live, Exists
<1>11. CASE Restart
  <2>1. CacheCoherent'
    BY <1>11 DEF Restart, Forget, CacheCoherent
  <2>2. QED
    BY <1>11, <2>1 DEF Restart, IInv, RowsIssued, LineageIssued, OneLivePerLineage,
                       RotationKeepsAuthority, Live, Exists
<1>12. QED
  BY <1>1, <1>2, <1>3, <1>5, <1>6, <1>7, <1>8, <1>9, <1>10, <1>11
     DEF Next, Create, Rotate, Update, Tick, vars

LEMMA IInvAlways == Spec => []IInv
BY IInvInit, IInvStep, PTL DEF Spec

\* The cache never disagrees with the table: no path by which a key changes
\* leaves a stale entry behind, however long the TTL is.
THEOREM CacheCoherence == Spec => []CacheCoherent
BY IInvAlways, PTL DEF IInv

\* However rotations, updates, cleanups and revocations interleave, a chain of
\* rotations never has two keys that can be used.
THEOREM RotationIsExclusive == Spec => []OneLivePerLineage
BY IInvAlways, PTL DEF IInv

\* No sequence of rotations and updates widens or narrows what a chain may do.
THEOREM RotationPreservesAuthority == Spec => []RotationKeepsAuthority
BY IInvAlways, PTL DEF IInv

-----------------------------------------------------------------------------
(***************************************************************************)
(* The manager implements the directory.                                   *)
(***************************************************************************)

\* The constant that the mapping gives the directory for "no decision".
LEMMA DirectoryInit == Init => Directory!Init
BY DEF Init, Directory!Init, NoVerdict

\* An answer taken from the cache is the directory's decision.
LEMMA AuthorizeDecides ==
  ASSUME IInv, NEW r \in Request, Authorize(r)
  PROVE  Directory!Decide
<1>1. r.id \in Ids /\ TypeOK /\ CacheCoherent
  BY DEF IInv, Request
<1>2. Seen(r.id) = rows[r.id]
  BY <1>1 DEF Seen, Fresh, CacheCoherent
<1>3. verdict' = [answer |-> Answer(rows[r.id], r.zone, r.ctxs, clock), req |-> r]
  BY <1>2 DEF Authorize
<1>4. verdict' # NoVerdict
  BY <1>3 DEF NoVerdict
<1>5. (Answer(rows[r.id], r.zone, r.ctxs, clock) = "ok") = Directory!Entitled(r)
  <2>1. CASE rows[r.id] = NoRow
    BY <2>1 DEF Answer, Directory!Entitled, Directory!Live
  <2>2. CASE rows[r.id] # NoRow
    <3> DEFINE row == rows[r.id]
               late == row.expires # Never /\ row.expires < clock
               mine == row.scope = AnyZone \/ row.scope = r.zone
    <3>1. row \in Row /\ clock \in Nat /\ row.expires \in Nat \cup {Never}
      BY <1>1, <2>2 DEF TypeOK, Row
    <3>2. (Answer(row, r.zone, r.ctxs, clock) = "ok")
            <=> ~row.revoked /\ ~late /\ mine /\ r.ctxs \subseteq row.policy
      BY <2>2 DEF Answer, Expired
    <3>3. Directory!Entitled(r)
            <=> ~row.revoked /\ (row.expires = Never \/ clock <= row.expires)
                /\ mine /\ r.ctxs \subseteq row.policy
      BY <2>2 DEF Directory!Entitled, Directory!Live
    <3>4. ~late <=> row.expires = Never \/ clock <= row.expires
      BY <3>1, CredentialsAssumption
    <3> HIDE DEF row, late, mine
    <3>5. (Answer(row, r.zone, r.ctxs, clock) = "ok") <=> Directory!Entitled(r)
      BY <3>2, <3>3, <3>4
    <3>6. QED
      BY <3>5 DEF row, Directory!Entitled
  <2>3. QED
    BY <2>1, <2>2
<1>6. QED
  BY <1>1, <1>3, <1>4, <1>5 DEF Directory!Decide, Authorize, NoDecision

\* A step of the manager that answers nothing is a lawful change.
LEMMA ChangeIsLawful ==
  ASSUME IInv, Quiet, issued \subseteq issued', clock' \in Nat, clock' >= clock,
         \A i \in Ids : Directory!Lawful(i)
  PROVE  Directory!Next
BY DEF Directory!Next, Directory!Change, Quiet

LEMMA RowStepIsLawful ==
  ASSUME \A i \in Ids : RowStep(i)
  PROVE  \A i \in Ids : Directory!Lawful(i)
BY DEF RowStep, Directory!Lawful, Directory!Amended, Directory!SameAuthority,
       Directory!Gone, Live, Exists, Directory!Live

LEMMA CreateIsLawful ==
  ASSUME IInv, NEW k \in Ids, NEW life \in Lifetimes \cup {Never},
         NEW s \in Scopes, NEW p \in Policies, NEW u \in Upstreams,
         NEW l \in Limits, CreateKey(k, life, s, p, u, l), TypeOK'
  PROVE  Directory!Next
<1> DEFINE born == [revoked |-> FALSE, expires |-> Expiry(life), scope |-> s,
                    policy |-> p, upstream |-> u, limit |-> l]
<1>1. rows[k] = NoRow /\ k \notin issued /\ k \in issued' /\ issued \subseteq issued'
  BY DEF CreateKey, IInv, RowsIssued
<1>2. rows'[k] = born /\ \A i \in Ids : i # k => rows'[i] = rows[i]
  BY DEF CreateKey, IInv, TypeOK
<1>3. born \in Row /\ born.revoked = FALSE
  <2>1. Expiry(life) \in Nat \cup {Never}
    BY CredentialsAssumption DEF Expiry, IInv, TypeOK
  <2>2. QED
    BY <2>1 DEF Row
<1> HIDE DEF born
<1>4. Directory!Born(k)
  BY <1>1, <1>2, <1>3, CredentialsAssumption DEF Directory!Born
<1>5. \A i \in Ids : Directory!Lawful(i)
  BY <1>2, <1>4 DEF Directory!Lawful
<1>6. QED
  BY <1>1, <1>5, ChangeIsLawful DEF CreateKey, IInv, TypeOK

LEMMA RotateIsLawful ==
  ASSUME IInv, NEW k \in Ids, NEW new \in Ids, NEW life \in Lifetimes \cup {Never},
         RotateKey(k, new, life)
  PROVE  Directory!Next
<1> DEFINE dead == [rows[k] EXCEPT !.revoked = TRUE]
           next == [rows[k] EXCEPT !.revoked = FALSE, !.expires = Expiry(life)]
<1>1. Live(k) /\ rows[k] \in Row /\ rows[k].revoked = FALSE /\ k # new
      /\ rows[new] = NoRow /\ new \notin issued
  BY DEF RotateKey, Rotatable, Live, Exists, IInv, TypeOK, RowsIssued, Row
<1>2. issued' = issued \cup {new}
  BY DEF RotateKey
<1>3. rows'[k] = dead /\ rows'[new] = next
      /\ \A i \in Ids : i \notin {k, new} => rows'[i] = rows[i]
  BY <1>1 DEF RotateKey, Successor, IInv, TypeOK
<1>4. dead \in Row /\ next \in Row
  BY <1>1, RowUpdates DEF IInv, Live, Successor
<1>5. dead.scope = rows[k].scope /\ dead.policy = rows[k].policy
      /\ dead.upstream = rows[k].upstream
  BY <1>1 DEF Row
<1>6. next.revoked = FALSE
  BY <1>1 DEF Row
<1> HIDE DEF dead, next
<1>7. Directory!Amended(k)
  BY <1>1, <1>3, <1>4, <1>5, CredentialsAssumption
     DEF Directory!Amended, Directory!Live, Directory!SameAuthority, Live, Exists
<1>8. Directory!Born(new)
  BY <1>1, <1>2, <1>3, <1>4, <1>6, CredentialsAssumption DEF Directory!Born
<1>9. \A i \in Ids : Directory!Lawful(i)
  BY <1>3, <1>7, <1>8 DEF Directory!Lawful
<1>10. QED
  BY <1>2, <1>9, ChangeIsLawful DEF RotateKey, IInv, TypeOK

LEMMA DirectoryStep == IInv /\ [Next]_vars => [Directory!Next]_(Directory!vars)
<1> SUFFICES ASSUME IInv, [Next]_vars
             PROVE  Directory!Next \/ UNCHANGED Directory!vars
  OBVIOUS
<1>0. TypeOK /\ clock \in Nat
  BY DEF IInv, TypeOK
<1>1. ASSUME NEW k \in Ids, NEW life \in Lifetimes \cup {Never},
             NEW s \in Scopes, NEW p \in Policies, NEW u \in Upstreams,
             NEW l \in Limits, CreateKey(k, life, s, p, u, l)
      PROVE  Directory!Next
  BY <1>0, <1>1, CreateIsLawful, TypeStep
<1>2. ASSUME NEW k \in Ids, NEW new \in Ids, NEW life \in Lifetimes \cup {Never},
             RotateKey(k, new, life)
      PROVE  Directory!Next
  BY <1>2, RotateIsLawful
<1>3. ASSUME Quiet, UNCHANGED <<issued, clock>>, \A i \in Ids : RowStep(i)
      PROVE  Directory!Next
  BY <1>0, <1>3, RowStepIsLawful, ChangeIsLawful
<1>4. ASSUME NEW k \in Ids, NEW e \in (Times \ {0}) \cup {Never, Keep},
             NEW l \in Limits \cup {Keep}, UpdateKey(k, e, l)
      PROVE  Directory!Next
  BY <1>0, <1>3, <1>4, UpdateSteps DEF UpdateKey
<1>5. ASSUME NEW k \in Ids, RevokeKey(k)
      PROVE  Directory!Next
  BY <1>0, <1>3, <1>5, RevokingSteps DEF RevokeKey
<1>6. ASSUME NEW ids \in SUBSET Ids, BulkRevoke(ids)
      PROVE  Directory!Next
  BY <1>0, <1>3, <1>6, RevokingSteps DEF BulkRevoke
<1>7. ASSUME NEW ids \in SUBSET Ids, DeleteKeys(ids)
      PROVE  Directory!Next
  BY <1>3, <1>7 DEF DeleteKeys, RowStep
<1>8. CASE RevokeExpired
  <2> DEFINE due == {i \in Ids : Exists(i) /\ Overdue(rows[i], clock)}
  <2>1. Revoking(due) /\ Quiet /\ UNCHANGED <<issued, clock>>
    BY <1>8 DEF RevokeExpired
  <2>2. due \in SUBSET Ids
    OBVIOUS
  <2> HIDE DEF due
  <2>3. QED
    BY <1>0, <1>3, <2>1, <2>2, RevokingSteps
<1>9. ASSUME NEW r \in Request, Authorize(r)
      PROVE  Directory!Next
  BY <1>9, AuthorizeDecides DEF Directory!Next
<1>10. CASE Tick
  <2>1. \A i \in Ids : RowStep(i)
    BY <1>10 DEF Tick, RowStep
  <2>2. clock' \in Nat /\ clock' >= clock
    BY <1>0, <1>10 DEF Tick
  <2>3. QED
    BY <1>10, <2>1, <2>2, RowStepIsLawful, ChangeIsLawful DEF Tick
<1>11. CASE Restart
  BY <1>3, <1>11 DEF Restart, RowStep
<1>12. CASE UNCHANGED vars
  BY <1>12 DEF vars, Directory!vars
<1>13. QED
  BY <1>1, <1>2, <1>4, <1>5, <1>6, <1>7, <1>8, <1>9, <1>10, <1>11, <1>12
     DEF Next, Create, Rotate, Update

\* The manager, with its cache, its TTL, its bulk operations, its cleanup and
\* its restarts, implements the directory: a request is granted exactly when
\* the table entitles the key at that moment.
THEOREM CredentialsRefineDirectory == Spec => ImplementsDirectory
<1>1. Spec => Directory!Init /\ [][Directory!Next]_(Directory!vars)
  BY IInvAlways, DirectoryInit, DirectoryStep, PTL DEF Spec
<1>2. QED
  BY <1>1 DEF ImplementsDirectory, Directory!Spec
=============================================================================
