---------------------------- MODULE KeyDirectory ----------------------------
(***************************************************************************)
(* What the credential managers promise, without saying how: a directory   *)
(* of keys that is consulted at the moment of each decision.  A key is     *)
(* born once with its authority (scope, policy, bound upstream), keeps     *)
(* that authority unchanged while it is live, is frozen once revoked, and  *)
(* never comes back.  There is no cache here.                              *)
(***************************************************************************)
EXTENDS Integers

CONSTANTS Ids, AnyZone, Never, NoRow, NoDecision

VARIABLES
  rows,      \* id -> the key, or NoRow
  issued,    \* ids that have been born
  clock,     \* the time decisions are taken at
  decision   \* the decision the last step took, if it took one

vars == <<rows, issued, clock, decision>>

Live(i) == rows[i] # NoRow /\ ~rows[i].revoked

SameAuthority(old, new) ==
  /\ new.scope = old.scope
  /\ new.policy = old.policy
  /\ new.upstream = old.upstream

\* A request the directory must grant, and the only ones it may.
Entitled(r) ==
  LET row == rows[r.id] IN
  /\ Live(r.id)
  /\ row.expires = Never \/ clock <= row.expires
  /\ row.scope = AnyZone \/ row.scope = r.zone
  /\ r.ctxs \subseteq row.policy

Init ==
  /\ rows = [i \in Ids |-> NoRow]
  /\ issued = {}
  /\ clock = 0
  /\ decision = NoDecision

\* What one step may do to one key.
Born(i) ==
  /\ i \notin issued /\ i \in issued'
  /\ rows[i] = NoRow
  /\ rows'[i] # NoRow
  /\ ~rows'[i].revoked

Amended(i) ==
  /\ Live(i)
  /\ rows'[i] # NoRow
  /\ SameAuthority(rows[i], rows'[i])

Gone(i) == rows'[i] = NoRow

Lawful(i) == rows'[i] = rows[i] \/ Born(i) \/ Amended(i) \/ Gone(i)

Change ==
  /\ \A i \in Ids : Lawful(i)
  /\ issued \subseteq issued'
  /\ clock' >= clock
  /\ decision' = NoDecision

Decide ==
  /\ \E i \in Ids : /\ decision' # NoDecision
                    /\ decision'.req.id = i
                    /\ decision'.granted = Entitled(decision'.req)
  /\ UNCHANGED <<rows, issued, clock>>

Next == Change \/ Decide

Spec == Init /\ [][Next]_vars
=============================================================================
