----------------------------- MODULE Acceptance -----------------------------
(***************************************************************************)
(* The acceptance suite (cli/smoke) as scenarios.  The suite runs against  *)
(* a deployed gateway: it creates a key with some policy and says which    *)
(* requests that key must and must not get through.  A scenario is what it *)
(* says of one key: whether the key is created, the requests served and    *)
(* the requests refused with 403, each as the set of contexts that the     *)
(* routes authorize it under.  Names keep the parts that conditions tell   *)
(* apart, one atom for each.                                               *)
(***************************************************************************)
EXTENDS PolicyEngine

Cred(scope, ids) == [scope |-> scope, ids |-> ids]

Scenario(cred, policy, served, refused) ==
  [created |-> TRUE, cred |-> cred, policy |-> policy, served |-> served, refused |-> refused]

\* A key whose creation is answered with 400.
Rejection(cred, policy) == [Scenario(cred, policy, {}, {}) EXCEPT !.created = FALSE]

Is(field, op, string) == Leaf(field, op, {string})
Not(cond) == Compound("not", <<cond>>)

\* The model gives the answers that the suite expects.
AsExpected(s) ==
  /\ s.created <=> KeyValid(s.cred, s.policy)
  /\ \A contexts \in s.served : EvaluatePolicy(s.policy, contexts)
  /\ \A contexts \in s.refused : ~EvaluatePolicy(s.policy, contexts)
=============================================================================
