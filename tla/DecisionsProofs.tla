-------------------------- MODULE DecisionsProofs --------------------------
(***************************************************************************)
(* What a key is good for, proved of every policy: the engine decides what *)
(* the policy means, a policy accepted for an upstream credential lets     *)
(* nothing through outside the credential's scope, and a request with      *)
(* several effects is allowed exactly when each effect is.  The invariant  *)
(* is only that what is in force was proposed and validated; the work is   *)
(* in the lemmas about the operators.                                      *)
(***************************************************************************)
EXTENDS Decisions, SequenceTheorems, WellFoundedInduction, TLAPS

(***************************************************************************)
(* What is in force.                                                       *)
(***************************************************************************)

\* A policy in force was proposed and passed validation, or is the suite's.
AcceptedValid ==
  accepted # NoKey =>
    (accepted \in Proposals /\ Valid(accepted)) \/ accepted.about = "acceptance"

\* Only a proposal that is valid comes into force.
LEMMA AcceptedInvariance == DecisionsSpec => []AcceptedValid
<1>1. DecisionsInit => AcceptedValid
  BY DEF DecisionsInit, AcceptedValid
<1>2. AcceptedValid /\ [DecisionsNext]_accepted => AcceptedValid'
  <2> SUFFICES ASSUME AcceptedValid, [DecisionsNext]_accepted
               PROVE  AcceptedValid'
    OBVIOUS
  <2>1. CASE Accept
    BY <2>1 DEF Accept, AcceptedValid, Valid
  <2>2. CASE Attempt
    <3>1. PICK s \in Scenarios : accepted' = Attempted(s)
      BY <2>2 DEF Attempt
    <3>2. accepted'.about = "acceptance"
      BY <3>1 DEF Attempted
    <3> QED BY <3>2 DEF AcceptedValid
  <2>3. CASE Discard
    BY <2>3 DEF Discard, AcceptedValid
  <2>4. CASE UNCHANGED accepted
    BY <2>4 DEF AcceptedValid, Valid
  <2> QED BY <2>1, <2>2, <2>3, <2>4 DEF DecisionsNext
<1> QED BY <1>1, <1>2, PTL DEF DecisionsSpec

\* What a proposal for a token, or for an endpoint, consists of.
LEMMA ProposedBindings ==
  ASSUME NEW p \in TokenProposals
  PROVE  \E cred \in TokenCreds, action \in ActionPatterns, resource \in ResourcePatterns :
           p = Proposal("bindings", Grant(action, resource), cred)
BY DEF TokenProposals

LEMMA ProposedBuckets ==
  ASSUME NEW p \in R2Proposals
  PROVE  \E cred \in R2Creds, resources \in SUBSET S3Patterns :
           p = Proposal("buckets", <<Statement("allow", {<<"s3:", "*">>}, resources, {})>>, cred)
<1> DEFINE
      OneOrTwo == {rs \in SUBSET S3Patterns : Cardinality(rs) \in 1 .. 2}
      Granted(cred, resources) ==
        Proposal("buckets", <<Statement("allow", {<<"s3:", "*">>}, resources, {})>>, cred)
<1>1. p \in {Granted(cred, resources) : cred \in R2Creds, resources \in OneOrTwo}
  BY DEF R2Proposals
<1>2. OneOrTwo \subseteq SUBSET S3Patterns
  OBVIOUS
<1> HIDE DEF OneOrTwo, Granted
<1>3. \E cred \in R2Creds, resources \in SUBSET S3Patterns : p = Granted(cred, resources)
  BY <1>1, <1>2
<1> QED BY <1>3 DEF Granted

\* What a proposal is about tells its kind.
LEMMA Kinds ==
  ASSUME AcceptedValid, accepted # NoKey
  PROVE  /\ accepted.about = "conditions" => accepted \in ConditionProposals /\ Valid(accepted)
         /\ accepted.about = "bindings" => accepted \in TokenProposals /\ Valid(accepted)
         /\ accepted.about = "batches" => accepted \in DnsProposals /\ Valid(accepted)
         /\ accepted.about = "buckets" => accepted \in R2Proposals /\ Valid(accepted)
         /\ accepted.about = "keys" => accepted \in S3Proposals /\ Valid(accepted)
         /\ accepted.about = "purges" => accepted \in PurgeProposals /\ Valid(accepted)
<1>1. /\ \A p \in ConditionProposals : p.about = "conditions"
      /\ \A p \in TokenProposals : p.about = "bindings"
      /\ \A p \in DnsProposals : p.about = "batches"
      /\ \A p \in R2Proposals : p.about = "buckets"
      /\ \A p \in S3Proposals : p.about = "keys"
      /\ \A p \in PurgeProposals : p.about = "purges"
      /\ \A p \in RouteProposals : p.about = "routes"
  <2>1. \A about, policy, cred : Proposal(about, policy, cred).about = about
    BY DEF Proposal
  <2>2. \A p \in ConditionProposals : p.about = "conditions"
    BY <2>1 DEF ConditionProposals
  <2>3. ASSUME NEW p \in TokenProposals
        PROVE  p.about = "bindings"
    <3>1. \E policy, cred : p = Proposal("bindings", policy, cred)
      BY ProposedBindings
    <3> QED BY <2>1, <3>1
  <2>4. \A p \in DnsProposals : p.about = "batches"
    BY <2>1 DEF DnsProposals
  <2>5. ASSUME NEW p \in R2Proposals
        PROVE  p.about = "buckets"
    <3>1. PICK cred \in R2Creds, resources \in SUBSET S3Patterns :
            p = Proposal("buckets", <<Statement("allow", {<<"s3:", "*">>}, resources, {})>>, cred)
      BY ProposedBuckets, Zenon
    <3> QED BY <2>1, <3>1, Zenon
  <2>6. \A p \in S3Proposals : p.about = "keys"
    BY <2>1 DEF S3Proposals
  <2>7. \A p \in PurgeProposals : p.about = "purges"
    BY <2>1 DEF PurgeProposals
  <2>8. \A p \in RouteProposals : p.about = "routes"
    BY <2>1 DEF RouteProposals
  <2> QED BY <2>2, <2>3, <2>4, <2>5, <2>6, <2>7, <2>8
<1> QED BY <1>1 DEF AcceptedValid, Proposals

\* A set of natural numbers that is not empty has a least element.
LEMMA LeastOf ==
  ASSUME NEW S \in SUBSET Nat, S # {}
  PROVE  \E i \in S : \A j \in S : i <= j
<1>1. PICK i \in S : \A j \in S : <<j, i>> \notin OpToRel(<, Nat)
  BY WFMin, NatLessThanWellFounded, Zenon
<1>2. ASSUME NEW j \in S
      PROVE  ~(j < i)
  <2>1. <<j, i>> \in Nat \X Nat
    OBVIOUS
  <2>2. <<j, i>> \notin OpToRel(<, Nat)
    BY <1>1
  <2> QED BY <2>1, <2>2, Zenon DEF OpToRel
<1> QED BY <1>2

(***************************************************************************)
(* The engine against the meaning of policies.                             *)
(***************************************************************************)

\* In a condition that passed validation no node lies too deep, so the
\* evaluation by the code and the logical one are the same function.
LEMMA DepthImmaterial ==
  ASSUME NEW cond, NEW fields, ValidCondition(cond)
  PROVE  EvaluateCondition(cond, fields) = Holds(cond, fields)
<1> DEFINE
      Step(path, value) ==
        \/ cond[path].kind = "leaf" /\ EvaluateLeaf(cond[path], fields)
        \/ cond[path].kind = "any" /\ \E i \in cond[path].parts : value[Append(path, i)]
        \/ cond[path].kind = "all" /\ \A i \in cond[path].parts : value[Append(path, i)]
        \/ cond[path].kind = "not" /\ ~value[Append(path, 1)]
      Limited(path, value) == Len(path) <= MaxConditionDepth /\ Step(path, value)
      Meant(value) == value = [path \in DOMAIN cond |-> Step(path, value)]
      Computed(value) == value = [path \in DOMAIN cond |-> Limited(path, value)]
<1>1. ASSUME NEW value, NEW path \in DOMAIN cond
      PROVE  Limited(path, value) = Step(path, value)
  <2>1. Step(path, value) \in BOOLEAN
    OBVIOUS
  <2>2. Len(path) <= MaxConditionDepth
    BY DEF ValidCondition
  <2> QED BY <2>1, <2>2
<1> HIDE DEF Step
<1>2. ASSUME NEW value
      PROVE  [path \in DOMAIN cond |-> Limited(path, value)] = [path \in DOMAIN cond |-> Step(path, value)]
  BY <1>1
<1>3. \A value : Computed(value) <=> Meant(value)
  BY <1>2
<1> HIDE DEF Computed, Meant
<1>4. (CHOOSE value : Computed(value)) = (CHOOSE value : Meant(value))
  BY <1>3
<1> USE DEF Computed, Meant, Step
<1>5. EvaluateCondition(cond, fields) = (CHOOSE value : Computed(value))[<<>>]
  BY DEF EvaluateCondition
<1>6. Holds(cond, fields) = (CHOOSE value : Meant(value))[<<>>]
  BY DEF Holds
<1> QED BY <1>4, <1>5, <1>6

\* The loop over the statements computes the set formula.
THEOREM EngineMeansPolicy ==
  ASSUME NEW policy, NEW ctx, ValidPolicy(policy)
  PROVE  EvaluateContext(policy, ctx) <=> Meaning(policy, ctx)
<1> DEFINE applying == {i \in DOMAIN policy : Applies(policy[i], ctx)}
<1>1. ASSUME NEW i \in DOMAIN policy
      PROVE  /\ MatchesStatement(policy[i], ctx) <=> Applies(policy[i], ctx)
             /\ policy[i].effect \in {"allow", "deny"}
  <2>1. ValidStatement(policy[i])
    BY DEF ValidPolicy
  <2>2. \A c \in policy[i].conditions :
          EvaluateCondition(c, ctx.fields) = Holds(c, ctx.fields)
    BY <2>1, DepthImmaterial DEF ValidStatement
  <2> QED BY <2>1, <2>2 DEF MatchesStatement, Applies, ValidStatement
<1> DEFINE effects == {policy[i].effect : i \in applying}
<1>2. effects = {"allow"} <=> /\ \E i \in applying : policy[i].effect = "allow"
                              /\ \A i \in applying : policy[i].effect = "allow"
  OBVIOUS
<1>3. Meaning(policy, ctx) <=> effects = {"allow"}
  BY DEF Meaning
<1> QED BY <1>1, <1>2, <1>3 DEF EvaluateContext

\* The engine decides what the policy in force means (policy-engine.ts
\* evaluateCondition, evaluatePolicyForContext).
THEOREM EngineFollowsMeaning == DecisionsSpec => []EvaluationMeaning
<1>1. AcceptedValid => EvaluationMeaning
  <2> SUFFICES ASSUME AcceptedValid, InForce("conditions")
               PROVE  \A ctx : EvaluateContext(accepted.policy, ctx) <=> Meaning(accepted.policy, ctx)
    BY DEF EvaluationMeaning
  <2>1. ValidPolicy(accepted.policy)
    BY Kinds DEF InForce, Valid, KeyValid
  <2> QED BY <2>1, EngineMeansPolicy
<1> QED BY <1>1, AcceptedInvariance, PTL

(***************************************************************************)
(* Names, prefixes and what matching a pattern says of a resource.  Atoms  *)
(* is the set of atoms that the strings are written in.                    *)
(***************************************************************************)

\* An id or a bucket's name, without the characters that patterns give a meaning.
IsName(s) == s # <<>> /\ \A i \in 1 .. Len(s) : s[i] \notin {"*", "/"}

\* name is what s begins with, up to a "/" or the end.
Begins(s, name) ==
  /\ Len(name) <= Len(s)
  /\ \A i \in 1 .. Len(name) : s[i] = name[i] /\ name[i] # "/"
  /\ Len(name) < Len(s) => s[Len(name) + 1] = "/"

LEMMA PrefixAgrees ==
  ASSUME NEW Atoms, NEW s \in Seq(Atoms), NEW t \in Seq(Atoms), IsPrefix(s, t)
  PROVE  Len(s) <= Len(t) /\ \A i \in 1 .. Len(s) : t[i] = s[i]
<1>1. Len(s) <= Len(t) /\ SubSeq(s, 1, Len(s)) = SubSeq(t, 1, Len(s))
  BY DEF IsPrefix
<1>2. Len(s) \in Nat /\ Len(t) \in Nat
  BY LenProperties
<1>3. ASSUME NEW i \in 1 .. Len(s)
      PROVE  t[i] = s[i]
  <2>1. SubSeq(s, 1, Len(s))[i] = s[i]
    BY <1>2
  <2>2. SubSeq(t, 1, Len(s))[i] = t[i]
    BY <1>1, <1>2
  <2> QED BY <1>1, <2>1, <2>2
<1> QED BY <1>1, <1>3

\* Where the elements of two sequences are when they are joined.
LEMMA Joining ==
  ASSUME NEW Atoms, NEW s \in Seq(Atoms), NEW t \in Seq(Atoms), NEW q, q = s \o t
  PROVE  /\ q \in Seq(Atoms) /\ Len(q) = Len(s) + Len(t)
         /\ \A i \in 1 .. Len(s) : q[i] = s[i]
         /\ \A i \in 1 .. Len(t) : q[Len(s) + i] = t[i]
OBVIOUS

LEMMA FrontAgrees ==
  ASSUME NEW Atoms, NEW s \in Seq(Atoms), s # <<>>
  PROVE  /\ Front(s) \in Seq(Atoms) /\ Len(Front(s)) = Len(s) - 1
         /\ \A i \in 1 .. Len(s) - 1 : Front(s)[i] = s[i]
<1>1. Len(s) \in Nat \ {0}
  BY LenProperties, EmptySeq
<1> DEFINE n == Len(s) - 1
<1>2. n \in Nat /\ \A i \in 1 .. n : s[i] \in Atoms
  BY <1>1, ElementOfSeq
<1>3. Front(s) = SubSeq(s, 1, n)
  BY DEF Front
<1> HIDE DEF n
<1>4. SubSeq(s, 1, n) \in Seq(Atoms) /\ Len(SubSeq(s, 1, n)) = n
      /\ \A i \in 1 .. n : SubSeq(s, 1, n)[i] = s[i]
  BY <1>2
<1> QED BY <1>3, <1>4 DEF n

\* What UpToSlash returns is what the sequence begins with, and nothing else is.
LEMMA UpToSlashBegins ==
  ASSUME NEW Atoms, NEW s \in Seq(Atoms)
  PROVE  UpToSlash(s) \in Seq(Atoms) /\ Begins(s, UpToSlash(s))
<1> DEFINE slashes == {i \in DOMAIN s : s[i] = "/"}
<1>1. DOMAIN s = 1 .. Len(s) /\ Len(s) \in Nat
  BY LenProperties
<1>2. CASE slashes = {}
  <2>1. UpToSlash(s) = s
    BY <1>2 DEF UpToSlash
  <2> QED BY <1>1, <1>2, <2>1 DEF Begins
<1>3. CASE slashes # {}
  <2> DEFINE first == CHOOSE i \in slashes : \A j \in slashes : i <= j
  <2>1. slashes \subseteq Nat
    BY <1>1
  <2>2. \E i \in slashes : \A j \in slashes : i <= j
    BY <1>3, <2>1, LeastOf
  <2>3. first \in slashes /\ \A j \in slashes : first <= j
    BY <2>2
  <2>4. UpToSlash(s) = SubSeq(s, 1, first - 1)
    BY <1>3 DEF UpToSlash
  <2> HIDE DEF first
  <2>5. first \in 1 .. Len(s) /\ s[first] = "/"
    BY <1>1, <2>3
  <2>6. \A i \in 1 .. first - 1 : s[i] \in Atoms /\ s[i] # "/"
    BY <1>1, <2>3, <2>5
  <2> DEFINE name == SubSeq(s, 1, first - 1)
  <2>7. name \in Seq(Atoms) /\ Len(name) = first - 1 /\ \A i \in 1 .. first - 1 : name[i] = s[i]
    BY <2>5, <2>6
  <2> HIDE DEF name
  <2>8. Begins(s, name)
    BY <1>1, <2>5, <2>6, <2>7 DEF Begins
  <2> QED BY <2>4, <2>7, <2>8 DEF name
<1> QED BY <1>2, <1>3

LEMMA BeginningUnique ==
  ASSUME NEW Atoms, NEW s \in Seq(Atoms), NEW n \in Seq(Atoms), NEW m \in Seq(Atoms),
         Begins(s, n), Begins(s, m)
  PROVE  n = m
<1>1. Len(n) \in Nat /\ Len(m) \in Nat /\ Len(s) \in Nat
  BY LenProperties
<1>2. ASSUME NEW p \in Seq(Atoms), NEW q \in Seq(Atoms), Begins(s, p), Begins(s, q),
             Len(p) < Len(q)
      PROVE  FALSE
  <2>1. Len(p) \in Nat /\ Len(q) \in Nat
    BY LenProperties
  <2>2. Len(p) < Len(s)
    BY <1>1, <1>2, <2>1 DEF Begins
  <2>3. s[Len(p) + 1] = "/"
    BY <1>2, <2>2 DEF Begins
  <2>4. Len(p) + 1 \in 1 .. Len(q)
    BY <1>2, <2>1
  <2> QED BY <1>2, <2>3, <2>4 DEF Begins
<1>3. Len(n) = Len(m)
  BY <1>1, <1>2
<1>4. \A i \in 1 .. Len(n) : n[i] = m[i]
  BY <1>3 DEF Begins
<1> QED BY <1>3, <1>4, SeqEqual

LEMMA UpToSlashIs ==
  ASSUME NEW Atoms, NEW s \in Seq(Atoms), NEW name \in Seq(Atoms), Begins(s, name)
  PROVE  UpToSlash(s) = name
BY UpToSlashBegins, BeginningUnique

\* A name is all of itself.
LEMMA NameBeginsItself ==
  ASSUME NEW Atoms, NEW s \in Seq(Atoms), IsName(s)
  PROVE  UpToSlash(s) = s
<1>1. Begins(s, s)
  BY LenProperties DEF Begins, IsName
<1> QED BY <1>1, UpToSlashIs

\* A pattern that begins with a name matches only what begins with that name.
LEMMA MatchKeepsName ==
  ASSUME NEW Atoms, "*" \in Atoms, "/" \in Atoms, NEW p \in Seq(Atoms), NEW r \in Seq(Atoms),
         p # <<>>, NEW name \in Seq(Atoms), IsName(name), Begins(Tail(p), name),
         MatchesResource(p, r)
  PROVE  r # <<>> /\ Head(r) = Head(p) /\ UpToSlash(Tail(r)) = name
<1> DEFINE n == Len(name)
           m == Len(p)
<1>1. n \in Nat \ {0} /\ m \in Nat \ {0} /\ Len(r) \in Nat
  BY LenProperties, EmptySeq DEF IsName
<1>2. Tail(p) \in Seq(Atoms) /\ Len(Tail(p)) = m - 1 /\ \A i \in 1 .. m - 1 : Tail(p)[i] = p[i + 1]
  BY HeadTailProperties
<1>3. /\ n <= m - 1
      /\ \A i \in 1 .. n : p[i + 1] = name[i] /\ name[i] \notin {"*", "/"}
      /\ n < m - 1 => p[n + 2] = "/"
  <2>1. n <= m - 1
    BY <1>2 DEF Begins
  <2>2. \A i \in 1 .. n : Tail(p)[i] = name[i] /\ name[i] \notin {"*", "/"}
    BY DEF Begins, IsName
  <2>3. n < m - 1 => Tail(p)[n + 1] = "/"
    BY <1>2 DEF Begins
  <2> QED BY <1>1, <1>2, <2>1, <2>2, <2>3
<1>4. /\ n + 1 <= Len(r)
      /\ \A i \in 1 .. n + 1 : r[i] = p[i]
      /\ n + 1 < Len(r) => r[n + 2] = "/"
  <2>1. p # Star
    BY <1>1, <1>3 DEF Star
  <2>2. CASE p = r
    BY <1>1, <1>3, <2>2
  <2>3. CASE Last(p) = "*" /\ IsPrefix(Front(p), r)
    <3>1. Front(p) \in Seq(Atoms) /\ Len(Front(p)) = m - 1 /\ \A i \in 1 .. m - 1 : Front(p)[i] = p[i]
      BY FrontAgrees
    <3>2. m - 1 <= Len(r) /\ \A i \in 1 .. m - 1 : r[i] = Front(p)[i]
      BY <2>3, <3>1, PrefixAgrees
    <3>3. p[m] = "*"
      BY <2>3 DEF Last
    <3>4. n # m - 1
      BY <1>1, <1>3, <3>3
    <3>5. p[n + 2] = "/" /\ n + 2 # m
      BY <1>1, <1>3, <3>3, <3>4
    <3>6. n + 2 <= m - 1
      BY <1>1, <1>3, <3>4, <3>5
    <3>7. \A i \in 1 .. m - 1 : r[i] = p[i]
      BY <3>1, <3>2
    <3>8. n + 2 \in 1 .. m - 1
      BY <1>1, <3>6
    <3>9. r[n + 2] = "/"
      BY <3>5, <3>7, <3>8
    <3> QED BY <1>1, <3>2, <3>6, <3>7, <3>9
  <2>4. CASE IsPrefix(p \o <<"/">>, r)
    <3> DEFINE q == p \o <<"/">>
    <3>1. q \in Seq(Atoms) /\ Len(q) = m + 1 /\ q[m + 1] = "/" /\ \A i \in 1 .. m : q[i] = p[i]
      BY <1>1
    <3> HIDE DEF q
    <3>2. m + 1 <= Len(r) /\ \A i \in 1 .. m + 1 : r[i] = q[i]
      <4>1. IsPrefix(q, r)
        BY <2>4 DEF q
      <4>2. Len(q) <= Len(r) /\ \A i \in 1 .. Len(q) : r[i] = q[i]
        BY <3>1, <4>1, PrefixAgrees
      <4> QED BY <3>1, <4>2
    <3>3. r[m + 1] = "/" /\ \A i \in 1 .. m : r[i] = p[i]
      BY <1>1, <3>1, <3>2
    <3>4. CASE n = m - 1
      BY <1>1, <3>2, <3>3, <3>4
    <3>5. CASE n < m - 1
      <4>1. n + 2 \in 1 .. m
        BY <1>1, <3>5
      <4> QED BY <1>1, <1>3, <3>2, <3>3, <3>5, <4>1
    <3> QED BY <1>1, <1>3, <3>4, <3>5
  <2> QED BY <2>1, <2>2, <2>3, <2>4 DEF MatchesResource
<1>5. r # <<>> /\ Head(r) = Head(p)
  BY <1>1, <1>4
<1>6. Tail(r) \in Seq(Atoms) /\ Len(Tail(r)) = Len(r) - 1
      /\ \A i \in 1 .. Len(r) - 1 : Tail(r)[i] = r[i + 1]
  BY <1>5, HeadTailProperties
<1>7. Begins(Tail(r), name)
  <2>1. n <= Len(Tail(r))
    BY <1>1, <1>4, <1>6
  <2>2. ASSUME NEW i \in 1 .. n
        PROVE  Tail(r)[i] = name[i] /\ name[i] # "/"
    <3>1. i + 1 \in 1 .. n + 1 /\ i \in 1 .. Len(r) - 1
      BY <1>1, <1>4
    <3> QED BY <1>3, <1>4, <1>6, <3>1
  <2>3. n < Len(Tail(r)) => Tail(r)[n + 1] = "/"
    BY <1>1, <1>4, <1>6
  <2> QED BY <2>1, <2>2, <2>3 DEF Begins
<1> QED BY <1>5, <1>6, <1>7, UpToSlashIs

\* A pattern that does not begin with "*" matches only what begins the same.
LEMMA MatchKeepsHead ==
  ASSUME NEW Atoms, "/" \in Atoms, NEW p \in Seq(Atoms), NEW r \in Seq(Atoms),
         p # <<>>, Head(p) # "*", MatchesResource(p, r)
  PROVE  r # <<>> /\ Head(r) = Head(p)
<1>1. Len(p) \in Nat \ {0} /\ Len(r) \in Nat
  BY LenProperties, EmptySeq
<1>2. CASE p = r
  BY <1>2
<1>3. CASE Last(p) = "*" /\ IsPrefix(Front(p), r)
  <2>1. Len(p) # 1
    BY <1>3 DEF Last
  <2>2. Front(p) \in Seq(Atoms) /\ Len(Front(p)) = Len(p) - 1 /\ Front(p)[1] = p[1]
    <3> DEFINE m == Len(p)
    <3>1. m \in Nat /\ m # 0 /\ m # 1
      BY <1>1, <2>1
    <3> HIDE DEF m
    <3>2. 1 \in 1 .. m - 1
      BY <3>1
    <3> QED BY <3>2, FrontAgrees DEF m
  <2>3. 1 <= Len(r) /\ r[1] = p[1]
    BY <1>1, <1>3, <2>1, <2>2, PrefixAgrees
  <2> QED BY <1>1, <2>3
<1>4. CASE IsPrefix(p \o <<"/">>, r)
  <2> DEFINE q == p \o <<"/">>
  <2>1. q \in Seq(Atoms) /\ Len(q) = Len(p) + 1 /\ q[1] = p[1]
    BY <1>1
  <2> HIDE DEF q
  <2>2. Len(q) <= Len(r) /\ \A i \in 1 .. Len(q) : r[i] = q[i]
    BY <1>4, <2>1, PrefixAgrees DEF q
  <2>3. 1 <= Len(r) /\ r[1] = p[1]
    BY <1>1, <2>1, <2>2
  <2> QED BY <1>1, <2>3
<1> QED BY <1>2, <1>3, <1>4 DEF MatchesResource, Star

LEMMA MatchKeepsFamily ==
  ASSUME NEW Atoms, NEW p \in Seq(Atoms), NEW a \in Seq(Atoms),
         p # <<>>, Head(p) # "*", MatchesAction(p, a)
  PROVE  Head(a) = Head(p)
<1>1. Len(p) \in Nat \ {0} /\ Len(a) \in Nat
  BY LenProperties, EmptySeq
<1>2. CASE p = a
  BY <1>2
<1>3. CASE Len(p) > 1 /\ IsPrefix(Front(p), a)
  <2>1. Front(p) \in Seq(Atoms) /\ Len(Front(p)) = Len(p) - 1 /\ Front(p)[1] = p[1]
    BY <1>1, <1>3, FrontAgrees
  <2>2. 1 <= Len(a) /\ a[1] = p[1]
    BY <1>1, <1>3, <2>1, PrefixAgrees
  <2> QED BY <1>1, <2>2
<1> QED BY <1>2, <1>3 DEF MatchesAction, Star

(***************************************************************************)
(* Bindings.                                                               *)
(***************************************************************************)

\* What registration takes for an upstream token: ids, or "*" among them.
Registered(cred, Atoms) ==
  /\ cred.scope \in {"zone", "account"}
  /\ cred.ids \in Seq(Seq(Atoms)) /\ cred.ids # <<>>
  /\ \A i \in DOMAIN cred.ids : cred.ids[i] = Star \/ IsName(cred.ids[i])

\* The patterns of a policy are written in the given atoms.
WrittenIn(policy, Atoms) ==
  \A i \in DOMAIN policy :
    policy[i].actions \subseteq Seq(Atoms) /\ policy[i].resources \subseteq Seq(Atoms)

\* One pattern that passed validation and matches keeps to the credential.
LEMMA ZonePatternConfines ==
  ASSUME NEW Atoms, "*" \in Atoms, "/" \in Atoms, NEW cred, Registered(cred, Atoms),
         NEW p \in Seq(Atoms), p # <<>>, ValidZoneResource(cred, p),
         NEW r \in Seq(Atoms), MatchesResource(p, r)
  PROVE  Head(r) = "zone:" /\ (Unrestricted(cred) \/ UpToSlash(Tail(r)) \in Names(cred))
<1>1. Head(p) = "zone:"
  BY DEF ValidZoneResource
<1>2. Head(r) = "zone:"
  BY <1>1, MatchKeepsHead
<1>3. CASE ~Unrestricted(cred)
  <2>1. Tail(p) # Star /\ Tail(p) \in Range(cred.ids)
    BY <1>3 DEF ValidZoneResource
  <2>2. Tail(p) \in Seq(Atoms) /\ IsName(Tail(p))
    BY <2>1, HeadTailProperties DEF Registered, Range
  <2>3. Begins(Tail(p), Tail(p))
    BY <2>2, LenProperties DEF Begins, IsName
  <2>4. UpToSlash(Tail(r)) = Tail(p)
    BY <2>2, <2>3, MatchKeepsName
  <2> QED BY <1>2, <2>1, <2>4 DEF Names
<1> QED BY <1>2, <1>3

LEMMA AccountPatternConfines ==
  ASSUME NEW Atoms, "*" \in Atoms, "/" \in Atoms, NEW cred, Registered(cred, Atoms),
         NEW p \in Seq(Atoms), p # <<>>, ValidAccountResource(cred, p),
         NEW r \in Seq(Atoms), MatchesResource(p, r)
  PROVE  Head(r) = "account:" /\ (Star \in Names(cred) \/ UpToSlash(Tail(r)) \in Names(cred))
<1>1. Head(p) = "account:" /\ UpToSlash(Tail(p)) = cred.ids[1]
  BY DEF ValidAccountResource
<1>2. Head(r) = "account:"
  BY <1>1, MatchKeepsHead
<1>3. cred.ids[1] \in Names(cred) /\ 1 \in DOMAIN cred.ids
  BY LenProperties, EmptySeq DEF Registered, Names, Range
<1>4. CASE cred.ids[1] # Star
  <2>1. IsName(cred.ids[1])
    BY <1>3, <1>4 DEF Registered
  <2>2. Tail(p) \in Seq(Atoms)
    BY HeadTailProperties
  <2>3. cred.ids[1] \in Seq(Atoms) /\ Begins(Tail(p), cred.ids[1])
    BY <1>1, <2>2, UpToSlashBegins
  <2>4. UpToSlash(Tail(r)) = cred.ids[1]
    BY <2>1, <2>3, MatchKeepsName
  <2> QED BY <1>2, <1>3, <2>4
<1> QED BY <1>2, <1>3, <1>4

\* Whatever the policy and the request: what a policy that passed
\* validateTokenBinding allows lies in the token's scope.
THEOREM BindingConfines ==
  ASSUME NEW Atoms, "*" \in Atoms, "/" \in Atoms, NEW cred, Registered(cred, Atoms),
         NEW policy, WrittenIn(policy, Atoms), TokenBindingValid(cred, policy),
         NEW ctx, ctx.action \in Seq(Atoms), ctx.resource \in Seq(Atoms),
         EvaluateContext(policy, ctx)
  PROVE  InScope(cred, ctx)
<1>1. PICK i \in DOMAIN policy : MatchesStatement(policy[i], ctx)
  BY DEF EvaluateContext
<1>2. PICK a \in policy[i].actions : MatchesAction(a, ctx.action)
  BY <1>1 DEF MatchesStatement
<1>3. PICK p \in policy[i].resources : MatchesResource(p, ctx.resource)
  BY <1>1 DEF MatchesStatement
<1>4. a \in Seq(Atoms) /\ p \in Seq(Atoms)
  BY DEF WrittenIn
<1>5. ValidAction(cred, a) /\ ValidResource(cred, p)
  BY DEF TokenBindingValid
<1>6. a # <<>> /\ p # <<>>
  BY <1>5 DEF ValidAction, ValidResource
<1>7. CASE cred.scope = "zone"
  <2>1. Head(a) \in ZoneFamilies /\ ValidZoneResource(cred, p)
    BY <1>5, <1>7 DEF ValidAction, ValidResource
  <2>2. Head(ctx.action) \in ZoneFamilies
    <3>1. Head(a) # "*"
      BY <2>1 DEF ZoneFamilies
    <3> QED BY <1>2, <1>4, <1>6, <2>1, <3>1, MatchKeepsFamily
  <2>3. Head(ctx.resource) = "zone:" /\ (Unrestricted(cred) \/ UpToSlash(Tail(ctx.resource)) \in Names(cred))
    BY <1>3, <1>4, <1>6, <2>1, ZonePatternConfines
  <2> QED BY <1>7, <2>2, <2>3 DEF InScope
<1>8. CASE cred.scope = "account"
  <2>1. Head(a) \in AccountFamilies /\ ValidAccountResource(cred, p)
    BY <1>5, <1>8 DEF ValidAction, ValidResource
  <2>2. Head(ctx.action) \in AccountFamilies
    <3>1. Head(a) # "*"
      BY <2>1 DEF AccountFamilies
    <3> QED BY <1>2, <1>4, <1>6, <2>1, <3>1, MatchKeepsFamily
  <2>3. Head(ctx.resource) = "account:" /\ (Star \in Names(cred) \/ UpToSlash(Tail(ctx.resource)) \in Names(cred))
    BY <1>3, <1>4, <1>6, <2>1, AccountPatternConfines
  <2> QED BY <1>8, <2>2, <2>3 DEF InScope
<1> QED BY <1>7, <1>8 DEF Registered

\* The atoms of the proposed bindings and of the requests, and their names.
BindingAtoms ==
  {"zone:", "account:", "dns:", "d1:", "s3:", "a", "b", "c", "/", "*", "d1", "x", "query", "read",
   "ListAllMyBuckets"}

LEMMA IdsAreNames ==
  ASSUME NEW n \in IdNames
  PROVE  n \in Seq(BindingAtoms) /\ IsName(n)
<1>1. <<"a">> \in Seq(BindingAtoms) /\ IsName(<<"a">>)
  BY DEF BindingAtoms, IsName
<1>2. <<"a", "b">> \in Seq(BindingAtoms) /\ IsName(<<"a", "b">>)
  BY DEF BindingAtoms, IsName
<1>3. <<"c">> \in Seq(BindingAtoms) /\ IsName(<<"c">>)
  BY DEF BindingAtoms, IsName
<1> QED BY <1>1, <1>2, <1>3 DEF IdNames

LEMMA TokensRegistered ==
  ASSUME NEW cred \in TokenCreds
  PROVE  Registered(cred, BindingAtoms)
<1>1. Star \in Seq(BindingAtoms)
  BY DEF Star, BindingAtoms
<1>2. cred.scope \in {"zone", "account"}
      /\ cred.ids \in {<<n>> : n \in IdNames \cup {Star}} \cup {<<n, m>> : n, m \in IdNames}
  BY DEF TokenCreds, Creds
<1>3. CASE cred.ids \in {<<n>> : n \in IdNames \cup {Star}}
  <2>1. PICK n \in IdNames \cup {Star} : cred.ids = <<n>>
    BY <1>3
  <2>2. n \in Seq(BindingAtoms) /\ (n = Star \/ IsName(n))
    BY <1>1, IdsAreNames
  <2> QED BY <1>2, <2>1, <2>2 DEF Registered
<1>4. CASE cred.ids \in {<<n, m>> : n, m \in IdNames}
  <2>1. PICK n \in IdNames, m \in IdNames : cred.ids = <<n, m>>
    BY <1>4
  <2>2. n \in Seq(BindingAtoms) /\ IsName(n) /\ m \in Seq(BindingAtoms) /\ IsName(m)
    BY IdsAreNames
  <2> QED BY <1>2, <2>1, <2>2 DEF Registered
<1> QED BY <1>2, <1>3, <1>4

LEMMA BindingsWritten ==
  /\ ActionPatterns \subseteq Seq(BindingAtoms)
  /\ ResourcePatterns \subseteq Seq(BindingAtoms)
  /\ \A ctx \in RequestContexts : ctx.action \in Seq(BindingAtoms) /\ ctx.resource \in Seq(BindingAtoms)
<1> DEFINE Strings == Seq(BindingAtoms)
<1>1. Star \in Strings /\ <<>> \in Strings
  BY DEF Star, BindingAtoms
<1>2. <<"zone:">> \in Strings /\ <<"account:">> \in Strings
  BY DEF BindingAtoms
<1>3. <<"/", "*">> \in Strings /\ <<"/", "d1", "/", "x">> \in Strings /\ <<"account:", "*">> \in Strings
  BY DEF BindingAtoms
<1>4. /\ <<"dns:", "*">> \in Strings /\ <<"d1:", "*">> \in Strings /\ <<"d1:", "query">> \in Strings
      /\ <<"s3:", "*">> \in Strings /\ <<"dns:", "read">> \in Strings
      /\ <<"s3:", "ListAllMyBuckets">> \in Strings
  BY DEF BindingAtoms
<1>5. IdNames \subseteq Strings
  BY IdsAreNames
<1> HIDE DEF Strings
<1>6. \A s, t \in Strings : s \o t \in Strings
  BY ConcatProperties DEF Strings
<1>7. ActionPatterns \subseteq Strings
  BY <1>1, <1>4 DEF ActionPatterns
<1> DEFINE Middles == IdNames \cup {<<>>}
<1>8. ZonePatterns \subseteq Strings
  <2> DEFINE Tails == {<<>>, Star}
             Joined == {<<"zone:">> \o n \o t : n \in Middles, t \in Tails}
  <2>1. \A n \in Middles, t \in Tails : <<"zone:">> \o n \o t \in Strings
    BY <1>1, <1>2, <1>5, <1>6
  <2> HIDE DEF Middles, Tails
  <2>2. Joined \subseteq Strings
    <3> SUFFICES ASSUME NEW x \in Joined
                 PROVE  x \in Strings
      OBVIOUS
    <3>1. PICK n \in Middles, t \in Tails : x = <<"zone:">> \o n \o t
      OBVIOUS
    <3> QED BY <2>1, <3>1
  <2>3. ZonePatterns = {Star, <<"zone:">>} \cup Joined
    BY DEF ZonePatterns, Middles, Tails
  <2> HIDE DEF Joined
  <2> QED BY <1>1, <1>2, <2>2, <2>3
<1>9. AccountPatterns \subseteq Strings
  <2> DEFINE Tails == {<<>>, Star, <<"/", "*">>, <<"/", "d1", "/", "x">>}
             Joined == {<<"account:">> \o n \o t : n \in Middles, t \in Tails}
  <2>1. Tails \subseteq Strings
    BY <1>1, <1>3
  <2>2. \A n \in Middles, t \in Tails : <<"account:">> \o n \o t \in Strings
    BY <1>1, <1>2, <1>5, <1>6, <2>1
  <2> HIDE DEF Middles, Tails
  <2>3. Joined \subseteq Strings
    <3> SUFFICES ASSUME NEW x \in Joined
                 PROVE  x \in Strings
      OBVIOUS
    <3>1. PICK n \in Middles, t \in Tails : x = <<"account:">> \o n \o t
      OBVIOUS
    <3> QED BY <2>2, <3>1
  <2>4. AccountPatterns = {Star} \cup Joined
    BY DEF AccountPatterns, Middles, Tails
  <2> HIDE DEF Joined
  <2> QED BY <1>1, <2>3, <2>4
<1>10. ASSUME NEW ctx \in RequestContexts
       PROVE  ctx.action \in Strings /\ ctx.resource \in Strings
  <2> DEFINE
        Zones == {Context(<<"dns:", "read">>, <<"zone:">> \o n, <<>>) : n \in IdNames}
        Tails == {<<>>, <<"/", "d1", "/", "x">>}
        Accounts == {Context(<<"d1:", "query">>, <<"account:">> \o n \o t, <<>>) : n \in IdNames, t \in Tails}
  <2>1. CASE ctx \in Zones
    <3>1. PICK n \in IdNames : ctx = Context(<<"dns:", "read">>, <<"zone:">> \o n, <<>>)
      BY <2>1
    <3>2. <<"zone:">> \o n \in Strings
      BY <1>2, <1>5, <1>6
    <3> QED BY <1>4, <3>1, <3>2 DEF Context
  <2>2. CASE ctx \in Accounts
    <3>1. Tails \subseteq Strings
      BY <1>1, <1>3
    <3> HIDE DEF Tails
    <3>2. PICK n \in IdNames, t \in Tails :
            ctx = Context(<<"d1:", "query">>, <<"account:">> \o n \o t, <<>>)
      BY <2>2
    <3>3. <<"account:">> \o n \o t \in Strings
      BY <1>2, <1>5, <1>6, <3>1
    <3> QED BY <1>4, <3>2, <3>3 DEF Context
  <2>3. CASE ctx = Context(<<"s3:", "ListAllMyBuckets">>, <<"account:", "*">>, <<>>)
    BY <1>3, <1>4, <2>3 DEF Context
  <2> QED BY <2>1, <2>2, <2>3 DEF RequestContexts
<1> QED BY <1>7, <1>8, <1>9, <1>10 DEF ResourcePatterns, Strings

\* A policy accepted for an upstream token allows nothing outside the token's
\* scope (token-binding.ts:38).
THEOREM BindingsStaySound == DecisionsSpec => []BindingSound
<1>1. AcceptedValid => BindingSound
  <2> SUFFICES ASSUME AcceptedValid, InForce("bindings"), NEW ctx \in RequestContexts,
                      EvaluateContext(accepted.policy, ctx)
               PROVE  InScope(accepted.cred, ctx)
    BY DEF BindingSound
  <2>1. accepted \in TokenProposals /\ Valid(accepted)
    BY Kinds DEF InForce
  <2>2. PICK cred \in TokenCreds, action \in ActionPatterns, resource \in ResourcePatterns :
          accepted = Proposal("bindings", Grant(action, resource), cred)
    BY <2>1, ProposedBindings
  <2>3. accepted.cred = cred /\ accepted.policy = Grant(action, resource)
    BY <2>2 DEF Proposal
  <2>4. Registered(cred, BindingAtoms)
    BY TokensRegistered
  <2>5. WrittenIn(accepted.policy, BindingAtoms)
    BY <2>3, BindingsWritten DEF WrittenIn, Grant, Statement
  <2>6. TokenBindingValid(cred, accepted.policy)
    BY <2>1, <2>3, <2>4 DEF Valid, KeyValid, Registered
  <2>7. "*" \in BindingAtoms /\ "/" \in BindingAtoms
    BY DEF BindingAtoms
  <2>8. ctx.action \in Seq(BindingAtoms) /\ ctx.resource \in Seq(BindingAtoms)
    BY BindingsWritten
  <2> QED BY <2>3, <2>4, <2>5, <2>6, <2>7, <2>8, BindingConfines
<1> QED BY <1>1, AcceptedInvariance, PTL

(***************************************************************************)
(* Requests with several effects.                                          *)
(***************************************************************************)

\* The contexts of a batch are those of its parts (dns/operations.ts:114).
THEOREM DnsBatchSplits ==
  ASSUME NEW policy, NEW zone, NEW batch, batch.deletes \in Nat
  PROVE  EvaluatePolicy(policy, DnsBatchContexts(zone, batch))
           <=> /\ EvaluateContext(policy, DnsContext("batch", zone, NoRecord))
               /\ \A record \in batch.posts : EvaluateContext(policy, DnsContext("create", zone, record))
               /\ \A record \in batch.patches \cup batch.puts :
                    EvaluateContext(policy, DnsContext("update", zone, record))
               /\ batch.deletes > 0 => EvaluateContext(policy, DnsContext("delete", zone, NoRecord))
<1> DEFINE Allowed(action, record) == EvaluateContext(policy, DnsContext(action, zone, record))
<1>1. EvaluatePolicy(policy, DnsBatchContexts(zone, batch))
        <=> Allowed("batch", NoRecord) /\ \A part \in Parts(batch) : Allowed(part[1], part[2])
  BY DEF EvaluatePolicy, DnsBatchContexts
<1> HIDE DEF Allowed
<1> DEFINE
      Deletes == {<<"delete", NoRecord>> : i \in 1 .. batch.deletes}
      Updates == {<<"update", record>> : record \in batch.patches \cup batch.puts}
      Creates == {<<"create", record>> : record \in batch.posts}
<1>2. (\A part \in Deletes : Allowed(part[1], part[2])) <=> (batch.deletes > 0 => Allowed("delete", NoRecord))
  <2>1. CASE batch.deletes > 0
    <3>1. Deletes = {<<"delete", NoRecord>>}
      <4>1. 1 \in 1 .. batch.deletes
        BY <2>1
      <4> QED BY <4>1
    <3> HIDE DEF Deletes
    <3> QED BY <2>1, <3>1
  <2>2. CASE ~(batch.deletes > 0)
    <3>1. 1 .. batch.deletes = {}
      BY <2>2
    <3> QED BY <2>2, <3>1
  <2> QED BY <2>1, <2>2
<1>3. (\A part \in Updates : Allowed(part[1], part[2]))
        <=> \A record \in batch.patches \cup batch.puts : Allowed("update", record)
  <2>1. ASSUME \A part \in Updates : Allowed(part[1], part[2]), NEW record \in batch.patches \cup batch.puts
        PROVE  Allowed("update", record)
    <3>1. <<"update", record>> \in Updates
      OBVIOUS
    <3> HIDE DEF Updates
    <3>2. Allowed(<<"update", record>>[1], <<"update", record>>[2])
      BY <2>1, <3>1
    <3> QED BY <3>2
  <2>2. ASSUME \A record \in batch.patches \cup batch.puts : Allowed("update", record), NEW part \in Updates
        PROVE  Allowed(part[1], part[2])
    <3>1. PICK record \in batch.patches \cup batch.puts : part = <<"update", record>>
      OBVIOUS
    <3> QED BY <2>2, <3>1
  <2> QED BY <2>1, <2>2
<1>4. (\A part \in Creates : Allowed(part[1], part[2]))
        <=> \A record \in batch.posts : Allowed("create", record)
  <2>1. ASSUME \A part \in Creates : Allowed(part[1], part[2]), NEW record \in batch.posts
        PROVE  Allowed("create", record)
    <3>1. <<"create", record>> \in Creates
      OBVIOUS
    <3> HIDE DEF Creates
    <3>2. Allowed(<<"create", record>>[1], <<"create", record>>[2])
      BY <2>1, <3>1
    <3> QED BY <3>2
  <2>2. ASSUME \A record \in batch.posts : Allowed("create", record), NEW part \in Creates
        PROVE  Allowed(part[1], part[2])
    <3>1. PICK record \in batch.posts : part = <<"create", record>>
      OBVIOUS
    <3> QED BY <2>2, <3>1
  <2> QED BY <2>1, <2>2
<1>5. Parts(batch) = Deletes \cup Updates \cup Creates
  BY DEF Parts
<1> HIDE DEF Deletes, Updates, Creates
<1>6. (\A part \in Parts(batch) : Allowed(part[1], part[2]))
        <=> /\ \A part \in Deletes : Allowed(part[1], part[2])
            /\ \A part \in Updates : Allowed(part[1], part[2])
            /\ \A part \in Creates : Allowed(part[1], part[2])
  BY <1>5
<1> QED BY <1>1, <1>2, <1>3, <1>4, <1>6 DEF Allowed

\* The contexts of a purge are those of the purges of its items (API.md:256).
THEOREM PurgeSplits ==
  ASSUME NEW policy, NEW zone, NEW extra, NEW body, DOMAIN body # {}
  PROVE  EvaluatePolicy(policy, PurgeContexts(zone, body, extra))
           <=> \A item \in Range(Items(body)) :
                 EvaluatePolicy(policy, PurgeContexts(zone, Body(TypeOf(body), <<item>>), extra))
<1> DEFINE
      Asked(type, item) == Context(<<"purge:", type>>, <<"zone:">> \o zone, ItemFields(type, item) @@ extra)
<1>1. \A b : PurgeContexts(zone, b, extra) = {Asked(TypeOf(b), item) : item \in Range(Items(b))}
  BY Zenon DEF PurgeContexts
<1> HIDE DEF Asked
<1>2. \A b : EvaluatePolicy(policy, PurgeContexts(zone, b, extra))
               <=> \A item \in Range(Items(b)) : EvaluateContext(policy, Asked(TypeOf(b), item))
  BY <1>1 DEF EvaluatePolicy
<1>3. ASSUME NEW type, NEW item
      PROVE  /\ TypeOf(Body(type, <<item>>)) = type
             /\ Range(Items(Body(type, <<item>>))) = {item}
  <2>1. DOMAIN Body(type, <<item>>) = {type} /\ Body(type, <<item>>)[type] = <<item>>
    BY DEF Body
  <2>2. TypeOf(Body(type, <<item>>)) = type
    BY <2>1 DEF TypeOf
  <2>3. Items(Body(type, <<item>>)) = <<item>>
    BY <2>1, <2>2 DEF Items
  <2>4. Range(<<item>>) = {item}
    BY DEF Range
  <2> QED BY <2>2, <2>3, <2>4
<1>4. ASSUME NEW type, NEW item
      PROVE  EvaluatePolicy(policy, PurgeContexts(zone, Body(type, <<item>>), extra))
               <=> EvaluateContext(policy, Asked(type, item))
  BY <1>2, <1>3
<1>5. EvaluatePolicy(policy, PurgeContexts(zone, body, extra))
        <=> \A item \in Range(Items(body)) : EvaluateContext(policy, Asked(TypeOf(body), item))
  BY <1>2
<1> QED BY <1>4, <1>5, Zenon

\* A condition decides by the fields that its leaves name.
LEMMA UnreadFields ==
  ASSUME NEW cond, NEW f, NEW g,
         \A path \in DOMAIN cond :
           cond[path].kind = "leaf" => FieldOf(f, cond[path].field) = FieldOf(g, cond[path].field)
  PROVE  EvaluateCondition(cond, f) = EvaluateCondition(cond, g)
<1> DEFINE
      Step(path, value, fields) ==
        /\ Len(path) <= MaxConditionDepth
        /\ \/ cond[path].kind = "leaf" /\ EvaluateLeaf(cond[path], fields)
           \/ cond[path].kind = "any" /\ \E i \in cond[path].parts : value[Append(path, i)]
           \/ cond[path].kind = "all" /\ \A i \in cond[path].parts : value[Append(path, i)]
           \/ cond[path].kind = "not" /\ ~value[Append(path, 1)]
      Computed(value, fields) == value = [path \in DOMAIN cond |-> Step(path, value, fields)]
<1>1. ASSUME NEW path \in DOMAIN cond, cond[path].kind = "leaf"
      PROVE  EvaluateLeaf(cond[path], f) = EvaluateLeaf(cond[path], g)
  <2>1. FieldOf(f, cond[path].field) = FieldOf(g, cond[path].field)
    BY <1>1
  <2> QED BY <2>1, Zenon DEF EvaluateLeaf
<1>2. ASSUME NEW value, NEW path \in DOMAIN cond
      PROVE  Step(path, value, f) = Step(path, value, g)
  BY <1>1
<1> HIDE DEF Step
<1>3. \A value : Computed(value, f) <=> Computed(value, g)
  BY <1>2
<1> HIDE DEF Computed
<1>4. (CHOOSE value : Computed(value, f)) = (CHOOSE value : Computed(value, g))
  BY <1>3
<1> USE DEF Computed, Step
<1>5. EvaluateCondition(cond, f) = (CHOOSE value : Computed(value, f))[<<>>]
  BY DEF EvaluateCondition
<1>6. EvaluateCondition(cond, g) = (CHOOSE value : Computed(value, g))[<<>>]
  BY DEF EvaluateCondition
<1> QED BY <1>4, <1>5, <1>6

\* A request of the operations' module: what the proxy has read of it.
IsRequest(req) ==
  req = [method |-> req.method, bucket |-> req.bucket, key |-> req.key, params |-> req.params,
         source |-> req.source, deletes |-> req.deletes]

\* No condition of the policy looks at the field.
Unread(policy, field) ==
  \A i \in DOMAIN policy : \A cond \in policy[i].conditions : \A path \in DOMAIN cond :
    cond[path].kind = "leaf" => cond[path].field # field

LEMMA UnreadContext ==
  ASSUME NEW policy, NEW action, NEW resource, NEW f, NEW g, NEW name, Unread(policy, name),
         \A field : field # name => FieldOf(f, field) = FieldOf(g, field)
  PROVE  EvaluateContext(policy, Context(action, resource, f))
           <=> EvaluateContext(policy, Context(action, resource, g))
<1>1. ASSUME NEW i \in DOMAIN policy
      PROVE  MatchesStatement(policy[i], Context(action, resource, f))
               <=> MatchesStatement(policy[i], Context(action, resource, g))
  <2>1. ASSUME NEW cond \in policy[i].conditions
        PROVE  EvaluateCondition(cond, f) = EvaluateCondition(cond, g)
    <3>1. \A path \in DOMAIN cond :
            cond[path].kind = "leaf" => FieldOf(f, cond[path].field) = FieldOf(g, cond[path].field)
      BY DEF Unread
    <3> QED BY <3>1, UnreadFields
  <2> QED BY <2>1 DEF MatchesStatement, Context
<1> QED BY <1>1 DEF EvaluateContext

\* A plain DELETE of an object is the operation DeleteObject.
LEMMA PlainDelete ==
  ASSUME NEW req, IsRequest(req), req.bucket # Missing, NEW key, key \notin {Missing, <<>>}
  PROVE  Operation(DeleteOf(req, key)) = "DeleteObject"
<1> DEFINE one == DeleteOf(req, key)
           rows == <<When({"uploadId"}, "AbortMultipartUpload"),
                     When({"tagging"}, "DeleteObjectTagging"), When({}, "DeleteObject")>>
           fits == {i \in 1 .. Len(rows) : rows[i].needs \subseteq one.params}
<1>1. /\ one.bucket # Missing /\ one.key = key /\ one.method = "DELETE" /\ one.params = {}
  BY DEF DeleteOf, IsRequest
<1>2. ObjectOperations["DELETE"] = rows
  BY DEF ObjectOperations, Otherwise
<1>3. Operation(one) = rows[SelectInSeq(rows, LAMBDA row : row.needs \subseteq one.params)].name
  <2> HIDE DEF rows, one
  <2> QED BY <1>1, <1>2 DEF Operation
<1>4. fits = {3}
  <2>1. /\ Len(rows) = 3
        /\ rows[1].needs = {"uploadId"} /\ rows[2].needs = {"tagging"} /\ rows[3].needs = {}
    BY DEF When
  <2> HIDE DEF rows, one
  <2> QED BY <1>1, <2>1
<1>5. SelectInSeq(rows, LAMBDA row : row.needs \subseteq one.params) = 3
  <2> HIDE DEF rows, one
  <2>1. SelectInSeq(rows, LAMBDA row : row.needs \subseteq one.params) = IF fits # {} THEN Min(fits) ELSE 0
    BY DEF SelectInSeq
  <2> HIDE DEF fits
  <2>2. Min({3}) = 3
    BY DEF Min
  <2> QED BY <1>4, <2>1, <2>2
<1>6. rows[3].name = "DeleteObject"
  BY DEF When
<1> HIDE DEF rows, one
<1> QED BY <1>3, <1>5, <1>6 DEF one

\* The contexts of a DeleteObjects are those of plain DELETEs of its keys
\* (s3/routes.ts:183), but for the field "method", which says POST: a policy
\* that does not look at it decides alike.
THEOREM DeleteSplits ==
  ASSUME NEW policy, Unread(policy, "method"),
         NEW req, IsRequest(req), Operation(req) = "DeleteObjects", req.deletes # {},
         Missing \notin req.deletes, <<>> \notin req.deletes
  PROVE  EvaluatePolicy(policy, S3Contexts(req))
           <=> \A key \in req.deletes : EvaluatePolicy(policy, S3Contexts(DeleteOf(req, key)))
<1> DEFINE
      KeyOnly(key) == [f \in S3FieldNames |-> IF f \in KeyFieldNames THEN KeyFields(key)[f]
                                                                      ELSE S3Fields(req)[f]]
      Of(key) == Context(S3Action("DeleteObject"), Object(req.bucket, key), KeyOnly(key))
<1>1. req.bucket # Missing
  BY DEF Operation
<1>2. S3Contexts(req) = {Of(key) : key \in req.deletes}
  BY DEF S3Contexts, DeleteContexts
<1>3. ASSUME NEW key \in req.deletes
      PROVE  EvaluatePolicy(policy, S3Contexts(DeleteOf(req, key))) <=> EvaluateContext(policy, Of(key))
  <2> DEFINE one == DeleteOf(req, key)
  <2>1. key # Missing /\ key # <<>>
    OBVIOUS
  <2>2. Operation(one) = "DeleteObject"
    BY <1>1, <2>1, PlainDelete
  <2>3. /\ one.bucket = req.bucket /\ one.key = key /\ one.method = "DELETE"
        /\ one.source = req.source /\ one.deletes = {}
    BY DEF DeleteOf, IsRequest
  <2> HIDE DEF one
  <2>4. S3Contexts(one) = {OwnContext(one)}
    BY <2>2, <2>3 DEF S3Contexts, SourceContexts
  <2>5. OwnContext(one) = Context(S3Action("DeleteObject"), Object(req.bucket, key), S3Fields(one))
    BY <1>1, <2>1, <2>2, <2>3 DEF OwnContext, S3Resource
  <2>6. ASSUME NEW field, field # "method"
        PROVE  FieldOf(S3Fields(one), field) = FieldOf(KeyOnly(key), field)
    <3>1. DOMAIN S3Fields(one) = S3FieldNames /\ DOMAIN KeyOnly(key) = S3FieldNames
      BY Zenon DEF S3Fields
    <3>2. CASE field \in KeyFieldNames
      <4>1. S3Fields(one)[field] = KeyFields(key)[field]
        BY <2>1, <2>3, <3>2 DEF S3Fields, S3FieldNames, KeyFieldNames
      <4>2. KeyOnly(key)[field] = KeyFields(key)[field]
        BY <3>2 DEF S3FieldNames
      <4> QED BY <3>1, <4>1, <4>2 DEF FieldOf
    <3>3. CASE field \in {"bucket", "source_bucket", "source_key"}
      <4>1. S3Fields(one)[field] = S3Fields(req)[field]
        BY <2>3, <3>3 DEF S3Fields, S3FieldNames
      <4>2. KeyOnly(key)[field] = S3Fields(req)[field]
        BY <3>3 DEF S3FieldNames, KeyFieldNames
      <4> QED BY <3>1, <4>1, <4>2 DEF FieldOf
    <3>4. CASE field \notin S3FieldNames
      BY <3>1, <3>4 DEF FieldOf
    <3> QED BY <2>6, <3>2, <3>3, <3>4 DEF S3FieldNames
  <2> HIDE DEF KeyOnly
  <2>7. EvaluateContext(policy, OwnContext(one)) <=> EvaluateContext(policy, Of(key))
    BY <2>5, <2>6, UnreadContext
  <2> QED BY <2>4, <2>7 DEF EvaluatePolicy, one
<1> HIDE DEF Of
<1> QED BY <1>2, <1>3 DEF EvaluatePolicy

\* The deletions proposed look only at keys.
LEMMA KeysOnly ==
  ASSUME NEW p \in S3Proposals
  PROVE  Unread(p.policy, "method")
<1>1. ASSUME NEW cond \in KeyConditions, NEW path \in DOMAIN cond
      PROVE  cond[path].field # "method"
  BY <1>1 DEF KeyConditions, Leaf, Node
<1> DEFINE
      Only(effect, resource, cond) ==
        Statement(effect, {<<"s3:", "DeleteObject">>}, {resource}, {cond})
      Anywhere == <<"object:", "x", "/", "*">>
      All == Statement("allow", {<<"s3:", "*">>}, {Anywhere}, {})
      InFolder == Statement("allow", {<<"s3:", "DeleteObject">>}, {Object(<<"x">>, <<"p", "/", "*">>)}, {})
<1>2. p.policy \in S3Policies
  BY DEF S3Proposals, Proposal
<1>3. \/ \E c \in KeyConditions : p.policy = <<Only("allow", Anywhere, c)>>
      \/ \E c \in KeyConditions : p.policy = <<All, Only("deny", Anywhere, c)>>
      \/ p.policy = <<InFolder>>
  BY <1>2 DEF S3Policies
<1>4. /\ \A effect, c : Only(effect, Anywhere, c).conditions = {c}
      /\ All.conditions = {} /\ InFolder.conditions = {}
  BY DEF Statement
<1> HIDE DEF Only, All, InFolder
<1>5. CASE \E c \in KeyConditions : p.policy = <<Only("allow", Anywhere, c)>>
  BY <1>1, <1>4, <1>5 DEF Unread
<1>6. CASE \E c \in KeyConditions : p.policy = <<All, Only("deny", Anywhere, c)>>
  <2>1. PICK c \in KeyConditions : p.policy = <<All, Only("deny", Anywhere, c)>>
    BY <1>6
  <2>2. \A i \in DOMAIN p.policy : p.policy[i].conditions \subseteq {c}
    BY <1>4, <2>1
  <2> QED BY <1>1, <2>2 DEF Unread
<1>7. CASE p.policy = <<InFolder>>
  <2>1. \A i \in DOMAIN p.policy : p.policy[i].conditions = {}
    BY <1>4, <1>7
  <2> QED BY <2>1 DEF Unread
<1> QED BY <1>3, <1>5, <1>6, <1>7

\* Only the requests with a body have keys to delete.
LEMMA DeletesProposed ==
  ASSUME NEW req \in S3Requests, req.deletes # {}
  PROVE  /\ IsRequest(req) /\ Operation(req) = "DeleteObjects"
         /\ Missing \notin req.deletes /\ <<>> \notin req.deletes
<1>1. req \in DeleteRequests
  BY DEF S3Requests, RootRequests, BareRequests, CopyRequests
<1>2. IsRequest(req) /\ req.deletes \subseteq Keys
  BY <1>1 DEF DeleteRequests, IsRequest
<1>3. /\ req.bucket # Missing /\ req.key = Missing /\ req.method = "POST" /\ req.params = {"delete"}
  BY <1>1, MissingIsNoName DEF DeleteRequests
<1>4. Missing \notin Keys /\ <<>> \notin Keys
  BY MissingIsNoName DEF Keys
<1> DEFINE rows == <<When({"delete"}, "DeleteObjects"), When({}, "ListObjects")>>
           fits == {i \in 1 .. Len(rows) : rows[i].needs \subseteq req.params}
<1>5. fits = {1, 2}
  BY <1>3 DEF When
<1>6. SelectInSeq(rows, LAMBDA row : row.needs \subseteq req.params) = 1
  <2> HIDE DEF rows
  <2>1. SelectInSeq(rows, LAMBDA row : row.needs \subseteq req.params) = IF fits # {} THEN Min(fits) ELSE 0
    BY DEF SelectInSeq
  <2> HIDE DEF fits
  <2>2. Min({1, 2}) = 1
    BY DEF Min
  <2> QED BY <1>5, <2>1, <2>2
<1>7. rows[1].name = "DeleteObjects" /\ BucketOperations["POST"] = rows
  BY DEF When, BucketOperations, Otherwise
<1>8. Operation(req) = "DeleteObjects"
  <2> HIDE DEF rows
  <2> QED BY <1>3, <1>6, <1>7 DEF Operation
<1> QED BY <1>2, <1>4, <1>8

LEMMA BodiesProposed ==
  ASSUME NEW body \in PurgeBodies
  PROVE  DOMAIN body # {}
<1>1. \A type, list : DOMAIN Body(type, list) = {type}
  BY DEF Body
<1>2. PICK type, list : body = Body(type, list)
  BY DEF PurgeBodies, Files
<1>3. DOMAIN body = {type}
  BY <1>1, <1>2
<1> QED BY <1>3

\* A request with several effects is allowed exactly when each of them would
\* be (dns/operations.ts:114, s3/routes.ts:183, API.md:256).
THEOREM BatchesStayTheirParts == DecisionsSpec => []BatchIsItsParts
<1>1. AcceptedValid => BatchIsItsParts
  <2> SUFFICES ASSUME AcceptedValid
               PROVE  BatchIsItsParts
    OBVIOUS
  <2>1. DnsBatchIsItsParts
    <3>1. \A batch \in Batches : batch.deletes \in Nat
      BY DEF Batches
    <3> QED BY <3>1, DnsBatchSplits DEF DnsBatchIsItsParts
  <2>2. S3DeleteIsItsKeys
    <3> SUFFICES ASSUME InForce("keys"), NEW req \in ServedS3Requests, req.deletes # {}
                 PROVE  EvaluatePolicy(accepted.policy, S3Contexts(req))
                          <=> \A key \in req.deletes :
                                EvaluatePolicy(accepted.policy, S3Contexts(DeleteOf(req, key)))
      BY DEF S3DeleteIsItsKeys
    <3>1. Unread(accepted.policy, "method")
      BY Kinds, KeysOnly DEF InForce
    <3>2. req \in S3Requests
      BY DEF ServedS3Requests
    <3> QED BY <3>1, <3>2, DeletesProposed, DeleteSplits
  <2>3. PurgeIsItsItems
    BY BodiesProposed, PurgeSplits DEF PurgeIsItsItems
  <2> QED BY <2>1, <2>2, <2>3 DEF BatchIsItsParts
<1> QED BY <1>1, AcceptedInvariance, PTL

(***************************************************************************)
(* Buckets.                                                                *)
(***************************************************************************)

\* The bucket that validateR2Binding reads in a pattern.
BucketOf(pattern) ==
  IF Head(pattern) = "bucket:" THEN Tail(pattern) ELSE UpToSlash(Tail(pattern))

\* The policy spells out the buckets and objects it is about.
SpelledOut(policy) ==
  \A i \in DOMAIN policy : \A p \in policy[i].resources :
    p # <<>> /\ (Head(p) \in {"bucket:", "object:"} => BucketOf(p) \notin {<<>>, Star})

\* An endpoint for named buckets.  Registration takes any strings
\* (admin-schemas.ts:222); what R2 has a bucket for contains neither "*" nor "/".
NamedEndpoint(cred, Atoms) ==
  /\ cred.ids \in Seq(Seq(Atoms))
  /\ \A i \in DOMAIN cred.ids : IsName(cred.ids[i])

\* A bucket in a resource is what follows its kind.
LEMMA BucketResource ==
  ASSUME NEW Atoms, NEW head \in Atoms, NEW b \in Seq(Atoms), IsName(b)
  PROVE  LET r == <<head>> \o b IN
         r \in Seq(Atoms) /\ r # <<>> /\ Head(r) = head /\ Tail(r) = b /\ UpToSlash(Tail(r)) = b
<1> DEFINE r == <<head>> \o b
           m == Len(b)
<1>1. m \in Nat
  BY LenProperties
<1>2. r \in Seq(Atoms) /\ Len(r) = m + 1 /\ r[1] = head /\ \A i \in 1 .. m : r[i + 1] = b[i]
  BY <1>1
<1> HIDE DEF r
<1>3. r # <<>> /\ Head(r) = head
  BY <1>1, <1>2
<1>4. Tail(r) \in Seq(Atoms) /\ Len(Tail(r)) = m /\ \A i \in 1 .. m : Tail(r)[i] = r[i + 1]
  BY <1>1, <1>2, <1>3, HeadTailProperties
<1>5. Tail(r) = b
  BY <1>1, <1>2, <1>4, SeqEqual
<1> QED BY <1>2, <1>3, <1>5, NameBeginsItself DEF r

LEMMA ObjectResource ==
  ASSUME NEW Atoms, "object:" \in Atoms, "/" \in Atoms, NEW b \in Seq(Atoms), IsName(b),
         NEW key \in Seq(Atoms)
  PROVE  /\ Object(b, key) \in Seq(Atoms) /\ Object(b, key) # <<>> /\ Head(Object(b, key)) = "object:"
         /\ UpToSlash(Tail(Object(b, key))) = b
<1> DEFINE front == <<"object:">> \o b
           m == Len(b)
           r == Object(b, key)
<1>1. m \in Nat \ {0} /\ Len(key) \in Nat
  BY LenProperties, EmptySeq DEF IsName
<1>2. /\ front \in Seq(Atoms) /\ Len(front) = m + 1 /\ front[1] = "object:"
      /\ \A i \in 1 .. m : front[i + 1] = b[i]
  BY <1>1
<1> HIDE DEF front
<1> DEFINE middle == front \o <<"/">>
<1>3. /\ middle \in Seq(Atoms) /\ Len(middle) = m + 2 /\ middle[m + 2] = "/"
      /\ \A i \in 1 .. m + 1 : middle[i] = front[i]
  BY <1>1, <1>2
<1> HIDE DEF middle
<1>4. /\ middle \o key \in Seq(Atoms) /\ Len(middle \o key) = m + 2 + Len(key)
      /\ \A i \in 1 .. m + 2 : (middle \o key)[i] = middle[i]
  BY <1>1, <1>3
<1>5. r = middle \o key
  BY DEF Object, middle, front
<1> HIDE DEF r
<1>6. r \in Seq(Atoms) /\ Len(r) >= m + 2 /\ \A i \in 1 .. m + 2 : r[i] = middle[i]
  BY <1>1, <1>4, <1>5
<1>7. r # <<>> /\ Head(r) = "object:"
  BY <1>1, <1>2, <1>3, <1>6
<1>8. Tail(r) \in Seq(Atoms) /\ Len(Tail(r)) = Len(r) - 1
      /\ \A i \in 1 .. Len(r) - 1 : Tail(r)[i] = r[i + 1]
  BY <1>6, <1>7, HeadTailProperties
<1>9. \A i \in 1 .. m : Tail(r)[i] = b[i] /\ b[i] # "/"
  <2> SUFFICES ASSUME NEW i \in 1 .. m
               PROVE  Tail(r)[i] = b[i] /\ b[i] # "/"
    OBVIOUS
  <2>1. i + 1 \in 1 .. m + 1 /\ i + 1 \in 1 .. m + 2 /\ i \in 1 .. Len(r) - 1
    BY <1>1, <1>6, LenProperties
  <2> QED BY <1>2, <1>3, <1>6, <1>8, <2>1 DEF IsName
<1>10. Tail(r)[m + 1] = "/"
  <2>1. m + 1 \in 1 .. Len(r) - 1 /\ m + 2 \in 1 .. m + 2
    BY <1>1, <1>6, LenProperties
  <2> QED BY <1>1, <1>3, <1>6, <1>8, <2>1
<1>11. Begins(Tail(r), b)
  BY <1>1, <1>6, <1>8, <1>9, <1>10, LenProperties DEF Begins
<1> QED BY <1>6, <1>7, <1>8, <1>11, UpToSlashIs DEF r

\* One pattern that passed validation and matches keeps to the endpoint's buckets.
LEMMA BucketPatternConfines ==
  ASSUME NEW Atoms, "*" \in Atoms, "/" \in Atoms, NEW cred, NamedEndpoint(cred, Atoms),
         NEW p \in Seq(Atoms), p # <<>>, R2ResourceValid(cred, p),
         Head(p) \in {"bucket:", "object:"} => BucketOf(p) \notin {<<>>, Star},
         NEW r \in Seq(Atoms), Head(r) \in {"bucket:", "object:"}, MatchesResource(p, r)
  PROVE  UpToSlash(Tail(r)) \in Range(cred.ids)
<1>1. ~Unrestricted(cred)
  <2>1. ~IsName(Star)
    BY DEF IsName, Star
  <2> QED BY <2>1 DEF Unrestricted, NamedEndpoint
<1>2. Head(p) \in {"account:", "bucket:", "object:"}
  BY DEF R2ResourceValid
<1>3. Head(p) # "account:"
  <2>1. Head(p) # "*"
    BY <1>2
  <2> QED BY <2>1, MatchKeepsHead
<1>4. BucketOf(p) \in Range(cred.ids)
  BY <1>1, <1>2, <1>3 DEF R2ResourceValid, BucketOf
<1>5. BucketOf(p) \in Seq(Atoms) /\ IsName(BucketOf(p))
  BY <1>4 DEF NamedEndpoint, Range
<1>6. Tail(p) \in Seq(Atoms)
  BY HeadTailProperties
<1>7. Begins(Tail(p), BucketOf(p))
  <2>1. CASE Head(p) = "bucket:"
    BY <1>5, <2>1, LenProperties DEF Begins, IsName, BucketOf
  <2>2. CASE Head(p) # "bucket:"
    BY <1>6, <2>2, UpToSlashBegins DEF BucketOf
  <2> QED BY <2>1, <2>2
<1>8. UpToSlash(Tail(r)) = BucketOf(p)
  BY <1>5, <1>7, MatchKeepsName
<1> QED BY <1>4, <1>8

\* The names in a request are written in the atoms; those of its buckets are names.
RequestWritten(req, Atoms) ==
  /\ req.bucket # Missing => req.bucket \in Seq(Atoms) /\ IsName(req.bucket)
  /\ req.key # Missing => req.key \in Seq(Atoms)
  /\ req.deletes \subseteq Seq(Atoms)
  /\ req.source.key # Missing =>
       req.source.key \in Seq(Atoms) /\ req.source.bucket \in Seq(Atoms) /\ IsName(req.source.bucket)

Copies == {"CopyObject", "UploadPartCopy"}

\* Every request for a bucket is authorized under a resource in that bucket,
\* and a copy also under one in the bucket it reads.
LEMMA ContextsOfBuckets ==
  ASSUME NEW Atoms, {"bucket:", "object:", "/"} \subseteq Atoms, NEW req, RequestWritten(req, Atoms)
  PROVE  /\ req.bucket # Missing =>
              \E ctx \in S3Contexts(req) :
                /\ ctx.resource \in Seq(Atoms) /\ Head(ctx.resource) \in {"bucket:", "object:"}
                /\ UpToSlash(Tail(ctx.resource)) = req.bucket
         /\ Operation(req) \in Copies /\ req.source.key # Missing =>
              \E ctx \in S3Contexts(req) :
                /\ ctx.resource \in Seq(Atoms) /\ Head(ctx.resource) \in {"bucket:", "object:"}
                /\ UpToSlash(Tail(ctx.resource)) = req.source.bucket
<1>1. \A action, resource, fields : Context(action, resource, fields).resource = resource
  BY DEF Context
<1>2. ASSUME req.bucket # Missing, Operation(req) = "DeleteObjects", req.deletes # {}
      PROVE  \E ctx \in S3Contexts(req) :
               /\ ctx.resource \in Seq(Atoms) /\ Head(ctx.resource) \in {"bucket:", "object:"}
               /\ UpToSlash(Tail(ctx.resource)) = req.bucket
  <2> DEFINE
        Fields(key) == [f \in S3FieldNames |-> IF f \in KeyFieldNames THEN KeyFields(key)[f]
                                                                      ELSE S3Fields(req)[f]]
        Of(key) == Context(S3Action("DeleteObject"), Object(req.bucket, key), Fields(key))
  <2>1. PICK key \in req.deletes : TRUE
    BY <1>2
  <2>2. S3Contexts(req) = {Of(k) : k \in req.deletes}
    BY <1>2 DEF S3Contexts, DeleteContexts
  <2>3. Of(key).resource = Object(req.bucket, key)
    BY <1>1
  <2> HIDE DEF Of
  <2>4. Of(key) \in S3Contexts(req)
    BY <2>1, <2>2
  <2>5. key \in Seq(Atoms) /\ req.bucket \in Seq(Atoms) /\ IsName(req.bucket)
    BY <1>2, <2>1 DEF RequestWritten
  <2>6. /\ Of(key).resource \in Seq(Atoms) /\ Head(Of(key).resource) \in {"bucket:", "object:"}
        /\ UpToSlash(Tail(Of(key).resource)) = req.bucket
    BY <2>3, <2>5, ObjectResource
  <2> QED BY <2>4, <2>6
<1>3. ASSUME req.bucket # Missing, ~(Operation(req) = "DeleteObjects" /\ req.deletes # {})
      PROVE  \E ctx \in S3Contexts(req) :
               /\ ctx.resource \in Seq(Atoms) /\ Head(ctx.resource) \in {"bucket:", "object:"}
               /\ UpToSlash(Tail(ctx.resource)) = req.bucket
  <2>1. OwnContext(req) \in S3Contexts(req)
    BY <1>3 DEF S3Contexts
  <2>2. OwnContext(req).resource = S3Resource(req)
    BY <1>1 DEF OwnContext
  <2>3. req.bucket \in Seq(Atoms) /\ IsName(req.bucket)
    BY <1>3 DEF RequestWritten
  <2>4. CASE req.key \in {Missing, <<>>}
    <3>1. S3Resource(req) = <<"bucket:">> \o req.bucket
      BY <1>3, <2>4 DEF S3Resource
    <3>2. S3Resource(req) \in Seq(Atoms) /\ Head(S3Resource(req)) = "bucket:"
          /\ UpToSlash(Tail(S3Resource(req))) = req.bucket
      <4>1. "bucket:" \in Atoms
        OBVIOUS
      <4> QED BY <2>3, <3>1, <4>1, BucketResource
    <3> QED BY <2>1, <2>2, <3>2
  <2>5. CASE req.key \notin {Missing, <<>>}
    <3>1. S3Resource(req) = Object(req.bucket, req.key)
      BY <1>3, <2>5 DEF S3Resource
    <3>2. req.key \in Seq(Atoms)
      BY <2>5 DEF RequestWritten
    <3> QED BY <2>1, <2>2, <2>3, <3>1, <3>2, ObjectResource
  <2> QED BY <2>4, <2>5
<1>4. ASSUME Operation(req) \in Copies, req.source.key # Missing
      PROVE  \E ctx \in S3Contexts(req) :
               /\ ctx.resource \in Seq(Atoms) /\ Head(ctx.resource) \in {"bucket:", "object:"}
               /\ UpToSlash(Tail(ctx.resource)) = req.source.bucket
  <2> DEFINE of == Context(S3Action("GetObject"), Object(req.source.bucket, req.source.key), S3Fields(req))
  <2>1. SourceContexts(req) = {of}
    BY <1>4 DEF SourceContexts, Copies
  <2>2. Operation(req) # "DeleteObjects"
    BY <1>4 DEF Copies
  <2>3. of.resource = Object(req.source.bucket, req.source.key)
    BY <1>1
  <2> HIDE DEF of
  <2>4. of \in S3Contexts(req)
    BY <2>1, <2>2 DEF S3Contexts
  <2>5. req.source.key \in Seq(Atoms) /\ req.source.bucket \in Seq(Atoms) /\ IsName(req.source.bucket)
    BY <1>4 DEF RequestWritten
  <2> QED BY <2>3, <2>4, <2>5, ObjectResource
<1> QED BY <1>2, <1>3, <1>4

\* Whatever the policy and the request: what a policy that passed
\* validateR2Binding, with its buckets spelled out, lets through is for the
\* endpoint's buckets, and copies from them (r2-binding.ts:28, s3/routes.ts:170).
THEOREM BucketsConfine ==
  ASSUME NEW Atoms, {"bucket:", "object:", "*", "/"} \subseteq Atoms,
         NEW cred, NamedEndpoint(cred, Atoms),
         NEW policy, WrittenIn(policy, Atoms), SpelledOut(policy), R2BindingValid(cred, policy),
         NEW req, RequestWritten(req, Atoms), EvaluatePolicy(policy, S3Contexts(req))
  PROVE  /\ req.bucket # Missing => req.bucket \in Range(cred.ids)
         /\ Operation(req) \in Copies /\ req.source.key # Missing => req.source.bucket \in Range(cred.ids)
<1>1. ASSUME NEW ctx \in S3Contexts(req), ctx.resource \in Seq(Atoms),
             Head(ctx.resource) \in {"bucket:", "object:"}
      PROVE  UpToSlash(Tail(ctx.resource)) \in Range(cred.ids)
  <2>1. EvaluateContext(policy, ctx)
    BY DEF EvaluatePolicy
  <2>2. PICK i \in DOMAIN policy : MatchesStatement(policy[i], ctx)
    BY <2>1 DEF EvaluateContext
  <2>3. PICK p \in policy[i].resources : MatchesResource(p, ctx.resource)
    BY <2>2 DEF MatchesStatement
  <2>4. p \in Seq(Atoms) /\ p # <<>> /\ R2ResourceValid(cred, p)
        /\ (Head(p) \in {"bucket:", "object:"} => BucketOf(p) \notin {<<>>, Star})
    BY DEF WrittenIn, SpelledOut, R2BindingValid
  <2> QED BY <1>1, <2>3, <2>4, BucketPatternConfines
<1> QED BY <1>1, ContextsOfBuckets

\* The atoms of the proposed buckets and of the requests.
BucketAtoms == {"account:", "bucket:", "object:", "s3:", "x", "y", "k", "p", "e", ".", "/", "*"}

LEMMA BucketsAreNames ==
  /\ \A b \in Buckets : b \in Seq(BucketAtoms) /\ IsName(b) /\ b # Missing
  /\ \A key \in Keys : key \in Seq(BucketAtoms) /\ key \notin {Missing, <<>>}
<1>1. /\ <<"x">> \in Seq(BucketAtoms) /\ IsName(<<"x">>)
      /\ <<"x", "y">> \in Seq(BucketAtoms) /\ IsName(<<"x", "y">>)
      /\ <<"y">> \in Seq(BucketAtoms) /\ IsName(<<"y">>)
  BY DEF BucketAtoms, IsName
<1>2. <<"k">> \in Seq(BucketAtoms) /\ <<"p", "/", "k", ".", "e">> \in Seq(BucketAtoms)
  BY DEF BucketAtoms
<1>3. \A b \in Buckets : b \in Seq(BucketAtoms) /\ IsName(b) /\ b # Missing
  BY <1>1, MissingIsNoName DEF Buckets
<1>4. \A key \in Keys : key \in Seq(BucketAtoms)
  BY <1>2 DEF Keys
<1>5. Missing \notin Keys /\ <<>> \notin Keys
  BY MissingIsNoName DEF Keys
<1> QED BY <1>3, <1>4, <1>5

LEMMA EndpointsRegistered ==
  ASSUME NEW cred \in R2Creds
  PROVE  cred.scope = "r2" /\ NamedEndpoint(cred, BucketAtoms)
<1>1. cred.scope = "r2" /\ cred.ids \in {<<n>> : n \in Buckets} \cup {<<n, m>> : n, m \in Buckets}
  BY DEF R2Creds
<1>2. CASE cred.ids \in {<<n>> : n \in Buckets}
  <2>1. PICK n \in Buckets : cred.ids = <<n>>
    BY <1>2
  <2>2. n \in Seq(BucketAtoms) /\ IsName(n)
    BY BucketsAreNames
  <2> QED BY <1>1, <2>1, <2>2 DEF NamedEndpoint
<1>3. CASE cred.ids \in {<<n, m>> : n, m \in Buckets}
  <2>1. PICK n \in Buckets, m \in Buckets : cred.ids = <<n, m>>
    BY <1>3
  <2>2. n \in Seq(BucketAtoms) /\ IsName(n) /\ m \in Seq(BucketAtoms) /\ IsName(m)
    BY BucketsAreNames
  <2> QED BY <1>1, <2>1, <2>2 DEF NamedEndpoint
<1> QED BY <1>1, <1>2, <1>3

\* The proposed patterns spell out their buckets.
LEMMA PatternsSpelledOut ==
  ASSUME NEW p \in S3Patterns
  PROVE  /\ p \in Seq(BucketAtoms) /\ p # <<>>
         /\ Head(p) \in {"bucket:", "object:"} => BucketOf(p) \notin {<<>>, Star}
<1> DEFINE Strings == Seq(BucketAtoms)
           Tails == {<<>>, Star}
           Ends == {Star, <<"p", "/", "*">>}
           OfBuckets == {<<"bucket:">> \o b \o t : b \in Buckets, t \in Tails}
           OfObjects == {Object(b, t) : b \in Buckets, t \in Ends}
<1>1. /\ "account:" \in BucketAtoms /\ "bucket:" \in BucketAtoms /\ "object:" \in BucketAtoms
      /\ "*" \in BucketAtoms /\ "/" \in BucketAtoms /\ "p" \in BucketAtoms
  BY DEF BucketAtoms
<1>2. Tails \subseteq Strings /\ Ends \subseteq Strings
  BY <1>1 DEF Star
<1>3. S3Patterns = {<<"account:", "*">>} \cup OfBuckets \cup OfObjects
  BY DEF S3Patterns
<1> HIDE DEF Tails, Ends
<1>4. CASE p = <<"account:", "*">>
  BY <1>1, <1>4
<1>5. CASE p \in OfBuckets
  <2>1. PICK b \in Buckets, t \in Tails : p = <<"bucket:">> \o b \o t
    BY <1>5
  <2>2. b \in Strings /\ IsName(b) /\ t \in Strings
    BY <1>2, BucketsAreNames
  <2> DEFINE m == Len(b)
             k == Len(t)
             front == <<"bucket:">> \o b
  <2>3. m \in Nat \ {0} /\ k \in Nat /\ \A i \in 1 .. m : b[i] # "*"
    BY <2>2, LenProperties, EmptySeq DEF IsName
  <2>4. front \in Strings /\ Len(front) = m + 1 /\ front[1] = "bucket:" /\ \A i \in 1 .. m : front[i + 1] = b[i]
    BY <1>1, <2>2, <2>3
  <2> HIDE DEF front
  <2> DEFINE q == front \o t
  <2>5. q \in Strings /\ Len(q) = m + 1 + k /\ \A i \in 1 .. m + 1 : q[i] = front[i]
    <3>1. q \in Strings /\ Len(q) = Len(front) + Len(t) /\ \A i \in 1 .. Len(front) : q[i] = front[i]
      <4>1. front \in Strings /\ t \in Strings
        BY <2>2, <2>4
      <4> QED BY <4>1, Joining
    <3> QED BY <2>3, <2>4, <3>1
  <2>6. p = q
    BY <2>1 DEF front
  <2> HIDE DEF q
  <2>7. p \in Strings /\ p # <<>> /\ Head(p) = "bucket:"
    BY <2>3, <2>4, <2>5, <2>6
  <2>8. Tail(p) \in Strings /\ Len(Tail(p)) = m + k /\ \A i \in 1 .. m + k : Tail(p)[i] = p[i + 1]
    BY <2>3, <2>5, <2>6, <2>7, HeadTailProperties
  <2>9. Tail(p)[1] # "*" /\ Len(Tail(p)) # 0
    <3>1. 1 \in 1 .. m + k /\ 1 \in 1 .. m /\ 2 \in 1 .. m + 1
      BY <2>3
    <3> QED BY <2>3, <2>4, <2>5, <2>6, <2>8, <3>1
  <2>10. Tail(p) # <<>> /\ Tail(p) # Star
    <3> DEFINE rest == Tail(p)
    <3>1. rest[1] # "*" /\ Len(rest) # 0
      BY <2>9
    <3> HIDE DEF rest
    <3>2. rest # <<>> /\ rest # Star
      BY <3>1 DEF Star
    <3> QED BY <3>2 DEF rest
  <2>11. BucketOf(p) = Tail(p)
    BY <2>7 DEF BucketOf
  <2> QED BY <2>7, <2>10, <2>11
<1>6. CASE p \in OfObjects
  <2>1. PICK b \in Buckets, t \in Ends : p = Object(b, t)
    BY <1>6
  <2>2. b \in Strings /\ IsName(b) /\ t \in Strings
    BY <1>2, BucketsAreNames
  <2>3. p \in Strings /\ p # <<>> /\ Head(p) = "object:" /\ UpToSlash(Tail(p)) = b
    BY <1>1, <2>1, <2>2, ObjectResource
  <2>4. b \notin {<<>>, Star}
    BY <2>2 DEF IsName, Star
  <2> QED BY <2>3, <2>4 DEF BucketOf
<1> QED BY <1>3, <1>4, <1>5, <1>6

\* A PUT with a source is a copy, plain or part by part.
LEMMA CopyIsCopy ==
  ASSUME NEW req \in CopyRequests
  PROVE  Operation(req) \in Copies
<1> DEFINE
      first == <<When({"uploadId", CopySource}, "UploadPartCopy"), When({"uploadId"}, "UploadPart")>>
      middle == Renamed("Put", ObjectDetails)
      last == <<When({CopySource}, "CopyObject"), When({}, "PutObject")>>
      rows == PutObjectOperations
      fits == {i \in 1 .. Len(rows) : rows[i].needs \subseteq req.params}
<1>1. /\ req.bucket # Missing /\ req.key \notin {Missing, <<>>} /\ req.method = "PUT"
      /\ req.params \in {{CopySource}, {CopySource, "uploadId"}}
  BY BucketsAreNames DEF CopyRequests
<1>2. ObjectOperations["PUT"] = rows
  BY DEF ObjectOperations
<1>3. Operation(req) = rows[SelectInSeq(rows, LAMBDA row : row.needs \subseteq req.params)].name
  <2> HIDE DEF rows
  <2> QED BY <1>1, <1>2 DEF Operation
<1>4. SelectInSeq(rows, LAMBDA row : row.needs \subseteq req.params) = IF fits # {} THEN Min(fits) ELSE 0
  <2> HIDE DEF rows
  <2> QED BY DEF SelectInSeq
<1>5. /\ Len(rows) = 8
      /\ rows[1] = first[1] /\ rows[2] = first[2] /\ rows[7] = last[1] /\ rows[8] = last[2]
      /\ \A i \in 3 .. 6 : rows[i] = middle[i - 2]
  <2>1. middle \in [1 .. 4 -> {middle[i] : i \in 1 .. 4}] /\ DOMAIN middle = 1 .. 4
    BY DEF Renamed, ObjectDetails
  <2> DEFINE Rows == {middle[i] : i \in 1 .. 4} \cup {first[1], first[2], last[1], last[2]}
  <2>2. middle \in Seq(Rows) /\ Len(middle) = 4
    <3>1. middle \in [1 .. 4 -> Rows]
      BY <2>1
    <3> HIDE DEF middle, Rows
    <3>2. middle \in Seq(Rows)
      BY <3>1, SeqDef
    <3>3. Len(middle) = 4
      BY <2>1, <3>2, LenProperties
    <3> QED BY <3>2, <3>3
  <2>3. first \in Seq(Rows) /\ last \in Seq(Rows) /\ Len(first) = 2 /\ Len(last) = 2
    OBVIOUS
  <2>4. rows = first \o middle \o last
    BY DEF PutObjectOperations, Otherwise
  <2> HIDE DEF first, middle, last, rows, Rows
  <2> DEFINE front == first \o middle
  <2>5. rows = front \o last
    BY <2>4
  <2>6. /\ front \in Seq(Rows) /\ Len(front) = Len(first) + Len(middle)
        /\ \A i \in 1 .. Len(first) : front[i] = first[i]
        /\ \A i \in 1 .. Len(middle) : front[Len(first) + i] = middle[i]
    <3> HIDE DEF front
    <3>1. first \in Seq(Rows) /\ middle \in Seq(Rows) /\ front = first \o middle
      BY <2>2, <2>3 DEF front
    <3> QED BY <3>1, Joining
  <2> HIDE DEF front
  <2>7. /\ Len(rows) = Len(front) + Len(last)
        /\ \A i \in 1 .. Len(front) : rows[i] = front[i]
        /\ \A i \in 1 .. Len(last) : rows[Len(front) + i] = last[i]
    <3>1. front \in Seq(Rows) /\ last \in Seq(Rows) /\ rows = front \o last
      BY <2>3, <2>5, <2>6
    <3> QED BY <3>1, Joining
  <2>8. /\ \A i \in 1 .. 2 : front[i] = first[i]
        /\ \A i \in 1 .. 4 : front[2 + i] = middle[i]
    BY <2>2, <2>3, <2>6
  <2>9. /\ Len(rows) = 8 /\ \A i \in 1 .. 6 : rows[i] = front[i]
        /\ \A i \in 1 .. 2 : rows[6 + i] = last[i]
    BY <2>2, <2>3, <2>6, <2>7
  <2>10. rows[6 + 1] = last[1] /\ rows[6 + 2] = last[2]
    BY <2>9
  <2>11. \A i \in 3 .. 6 : i \in 1 .. 6 /\ i - 2 \in 1 .. 4 /\ 2 + (i - 2) = i
    OBVIOUS
  <2>12. \A i \in 3 .. 6 : rows[i] = middle[i - 2]
    BY <2>8, <2>9, <2>11
  <2> QED BY <2>8, <2>9, <2>10, <2>12
<1>6. \A i \in 3 .. 6 : \E name \in {"tagging", "acl", "retention", "legal-hold"} : rows[i].needs = {name}
  <2>1. \A i \in 1 .. 4 : \E name \in {"tagging", "acl", "retention", "legal-hold"} : middle[i].needs = {name}
    BY DEF Renamed, ObjectDetails, When
  <2> HIDE DEF middle, rows
  <2>2. \A i \in 3 .. 6 : i - 2 \in 1 .. 4
    OBVIOUS
  <2> QED BY <1>5, <2>1, <2>2
<1>7. /\ rows[1].needs = {"uploadId", CopySource} /\ rows[1].name = "UploadPartCopy"
      /\ rows[2].needs = {"uploadId"}
      /\ rows[7].needs = {CopySource} /\ rows[7].name = "CopyObject"
  <2> HIDE DEF rows
  <2> QED BY <1>5 DEF When
<1> HIDE DEF first, middle, last, rows
<1>8. CASE req.params = {CopySource, "uploadId"}
  <2>1. 1 \in fits /\ \A i \in fits : i \in Nat /\ 1 <= i
    BY <1>5, <1>7, <1>8
  <2> HIDE DEF fits
  <2>2. Min(fits) = 1
    BY <2>1 DEF Min
  <2>3. SelectInSeq(rows, LAMBDA row : row.needs \subseteq req.params) = 1
    BY <1>4, <2>1, <2>2
  <2> QED BY <1>3, <1>7, <2>3 DEF Copies
<1>9. CASE req.params = {CopySource}
  <2>1. \A i \in 1 .. 6 : i \notin fits
    <3> SUFFICES ASSUME NEW i \in 1 .. 6
                 PROVE  ~(rows[i].needs \subseteq {CopySource})
      BY <1>9
    <3>1. \E name \in {"uploadId", "tagging", "acl", "retention", "legal-hold"} : name \in rows[i].needs
      <4>1. i \in {1, 2} \/ i \in 3 .. 6
        OBVIOUS
      <4> QED BY <1>6, <1>7, <4>1
    <3> QED BY <3>1 DEF CopySource
  <2>2. 7 \in fits
    BY <1>5, <1>7, <1>9
  <2>3. fits \subseteq 1 .. 8
    BY <1>5
  <2> HIDE DEF fits
  <2>4. \A i \in fits : i \in Nat /\ 7 <= i
    <3> SUFFICES ASSUME NEW i \in fits, ~(7 <= i)
                 PROVE  FALSE
      BY <2>3
    <3>1. i \in 1 .. 6
      BY <2>3
    <3> QED BY <2>1, <3>1
  <2>5. Min(fits) = 7
    BY <2>2, <2>4 DEF Min
  <2>6. SelectInSeq(rows, LAMBDA row : row.needs \subseteq req.params) = 7
    BY <1>4, <2>2, <2>5
  <2> QED BY <1>3, <1>7, <2>6 DEF Copies
<1> QED BY <1>1, <1>8, <1>9

LEMMA RequestsWritten ==
  ASSUME NEW req \in S3Requests
  PROVE  /\ RequestWritten(req, BucketAtoms)
         /\ CopySource \in req.params => req \in CopyRequests
<1>1. \A b \in Buckets : b \in Seq(BucketAtoms) /\ IsName(b)
  BY BucketsAreNames
<1>2. \A key \in Keys : key \in Seq(BucketAtoms) /\ key # Missing
  BY BucketsAreNames
<1>3. <<>> \in Seq(BucketAtoms)
  OBVIOUS
<1>4. /\ req.bucket \in Buckets \cup {Missing} /\ req.key \in Keys \cup {Missing, <<>>}
      /\ req.deletes \subseteq Keys
      /\ req.source = NoSource \/ (req.source.bucket \in Buckets /\ req.source.key \in Keys)
  BY DEF S3Requests, RootRequests, BareRequests, CopyRequests, DeleteRequests
<1>5. req.source.key # Missing => req.source.bucket \in Buckets /\ req.source.key \in Keys
  BY <1>4 DEF NoSource
<1>6. RequestWritten(req, BucketAtoms)
  BY <1>1, <1>2, <1>3, <1>4, <1>5 DEF RequestWritten
<1>7. CopySource \in req.params => req \in CopyRequests
  <2>1. \A s \in ParamSets : CopySource \notin s
    BY DEF ParamSets, CopySource
  <2>2. CopySource \notin {"delete"}
    BY DEF CopySource
  <2> QED BY <2>1, <2>2 DEF S3Requests, RootRequests, BareRequests, DeleteRequests
<1> QED BY <1>6, <1>7

\* A policy accepted for an R2 endpoint touches only the endpoint's buckets.
THEOREM BucketsStayNamed == DecisionsSpec => []NamedBucketsOnly
<1>1. AcceptedValid => NamedBucketsOnly
  <2> SUFFICES ASSUME AcceptedValid, InForce("buckets"), NEW req \in ServedS3Requests,
                      EvaluatePolicy(accepted.policy, S3Contexts(req))
               PROVE  Touches(req) \subseteq Range(accepted.cred.ids) \cup {Missing}
    BY DEF NamedBucketsOnly
  <2>1. accepted \in R2Proposals /\ Valid(accepted)
    BY Kinds DEF InForce
  <2>2. PICK cred \in R2Creds, resources \in SUBSET S3Patterns :
          accepted = Proposal("buckets", <<Statement("allow", {<<"s3:", "*">>}, resources, {})>>, cred)
    BY <2>1, ProposedBuckets
  <2>3. /\ accepted.cred = cred
        /\ accepted.policy = <<Statement("allow", {<<"s3:", "*">>}, resources, {})>>
    BY <2>2 DEF Proposal
  <2>4. cred.scope = "r2" /\ NamedEndpoint(cred, BucketAtoms)
    BY EndpointsRegistered
  <2>5. \A i \in DOMAIN accepted.policy :
          accepted.policy[i].actions = {<<"s3:", "*">>} /\ accepted.policy[i].resources = resources
    BY <2>3 DEF Statement
  <2>6. WrittenIn(accepted.policy, BucketAtoms)
    <3>1. <<"s3:", "*">> \in Seq(BucketAtoms)
      BY DEF BucketAtoms
    <3> QED BY <2>5, <3>1, PatternsSpelledOut DEF WrittenIn
  <2>7. SpelledOut(accepted.policy)
    BY <2>5, PatternsSpelledOut DEF SpelledOut
  <2>8. R2BindingValid(cred, accepted.policy)
    BY <2>1, <2>3, <2>4 DEF Valid, KeyValid
  <2>9. req \in S3Requests
    BY DEF ServedS3Requests
  <2>10. RequestWritten(req, BucketAtoms)
    BY <2>9, RequestsWritten
  <2>11. {"bucket:", "object:", "*", "/"} \subseteq BucketAtoms
    BY DEF BucketAtoms
  <2>12. /\ req.bucket # Missing => req.bucket \in Range(cred.ids)
         /\ Operation(req) \in Copies /\ req.source.key # Missing => req.source.bucket \in Range(cred.ids)
    BY <2>4, <2>6, <2>7, <2>8, <2>10, <2>11, BucketsConfine
  <2>13. CopySource \in req.params => req.source.bucket \in Range(cred.ids)
    <3> SUFFICES ASSUME CopySource \in req.params
                 PROVE  req.source.bucket \in Range(cred.ids)
      OBVIOUS
    <3>1. req \in CopyRequests
      BY <2>9, RequestsWritten
    <3>2. Operation(req) \in Copies
      BY <3>1, CopyIsCopy
    <3>3. req.source.key # Missing
      BY <3>1, BucketsAreNames DEF CopyRequests
    <3> QED BY <2>12, <3>2, <3>3
  <2> QED BY <2>3, <2>12, <2>13 DEF Touches
<1> QED BY <1>1, AcceptedInvariance, PTL
=============================================================================
