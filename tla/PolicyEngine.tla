---------------------------- MODULE PolicyEngine ----------------------------
(***************************************************************************)
(* Policy evaluation (src/src/policy-engine.ts) as operators.              *)
(*                                                                         *)
(* A string that the engine takes apart is a sequence of atoms: "zone:",   *)
(* "d1:", "/", "*" and the letters of names, so that a prefix of a name    *)
(* is a prefix of the sequence.  A policy is a sequence of statements; a   *)
(* condition is a tree: a function from the paths of its nodes, sequences  *)
(* of positions from the root <<>> down, to the nodes.  The fields of a    *)
(* request are a function from the names it has, or that may be Missing,   *)
(* to strings and booleans.  Letter case, regular expressions (a pattern   *)
(* is the set of strings it matches), the version and the error messages   *)
(* are left out.                                                           *)
(***************************************************************************)
EXTENDS Integers, Sequences, SequencesExt

CONSTANTS
  MaxConditionDepth,  \* MAX_CONDITION_DEPTH
  Missing             \* a field that the request does not have

Star == <<"*">>

-----------------------------------------------------------------------------
(* Patterns. *)

Families == {"purge:", "dns:", "d1:", "kv:", "workers:", "queues:", "vectorize:",
             "hyperdrive:", "s3:"}

\* "*", the action itself, or "family:*".
MatchesAction(pattern, action) ==
  \/ pattern = Star
  \/ pattern = action
  \/ /\ Len(pattern) > 1 /\ Last(pattern) = "*"
     /\ pattern[Len(pattern) - 1] \in Families
     /\ IsPrefix(Front(pattern), action)

\* "*", the resource itself, a prefix before "*", or a parent of the resource.
MatchesResource(pattern, resource) ==
  \/ pattern = Star
  \/ pattern = resource
  \/ pattern # <<>> /\ Last(pattern) = "*" /\ IsPrefix(Front(pattern), resource)
  \/ IsPrefix(pattern \o <<"/">>, resource)

-----------------------------------------------------------------------------
(* Conditions. *)

NumericOps == {"lt", "gt", "lte", "gte"}
TextOps == {"contains", "not_contains", "starts_with", "ends_with", "matches", "not_matches",
            "wildcard"}
LeafOps == {"eq", "ne", "in", "not_in", "exists", "not_exists"} \cup NumericOps \cup TextOps

Node(kind, field, op, value, parts) ==
  [kind |-> kind, field |-> field, op |-> op, value |-> value, parts |-> parts]

Leaf(field, op, value) == [path \in {<<>>} |-> Node("leaf", field, op, value, {})]

Compound(kind, conds) ==
  LET Below == UNION {{<<i>> \o path : path \in DOMAIN conds[i]} : i \in DOMAIN conds} IN
  [path \in {<<>>} \cup Below |->
     IF path = <<>> THEN Node(kind, "", "", {}, DOMAIN conds) ELSE conds[Head(path)][Tail(path)]]

\* A field may be a boolean (purge_everything, dns.proxied), which is no string.
True == <<"(true)">>
False == <<"(false)">>
StringOf(v) == CASE v = True -> <<"true">> [] v = False -> <<"false">> [] OTHER -> v

\* Number(), on integers in decimal, one atom per digit, and on booleans.
Digits == <<"0", "1", "2", "3", "4", "5", "6", "7", "8", "9">>
IsNumeral(s) ==
  \/ s \in {True, False}
  \/ Range(s) \subseteq Range(Digits)
  \/ Len(s) > 1 /\ Head(s) = "-" /\ Range(Tail(s)) \subseteq Range(Digits)

NumberOf(s) ==
  LET Value(digits) == FoldLeft(LAMBDA n, d : 10 * n + SelectInSeq(Digits, LAMBDA e : e = d) - 1, 0, digits)
  IN CASE s = True -> 1 [] s = False -> 0
       [] s # <<>> /\ Head(s) = "-" -> -Value(Tail(s)) [] OTHER -> Value(s)

\* Mutant of Compare: "lt" takes the bound itself.
CompareInclusive(op, v, w) == IF op \in {"lt", "lte"} THEN v <= w ELSE IF op = "gt" THEN v > w ELSE v >= w

\* evalNumeric
Compare(op, v, w) ==
  CASE op = "lt" -> v < w [] op = "gt" -> v > w [] op = "lte" -> v <= w [] op = "gte" -> v >= w

HasPart(s, part) == \E i \in 1 .. Len(s) + 1 : IsPrefix(part, SubSeq(s, i, Len(s)))

\* evalWildcard: "*" is any sequence, and the whole string has to match.  At
\* <<i, j>>: the first i atoms of the string match the first j of the pattern.
Glob(s, pattern) ==
  LET match[i \in 0 .. Len(s), j \in 0 .. Len(pattern)] ==
        IF j = 0 THEN i = 0
        ELSE IF pattern[j] = "*" THEN \E k \in 0 .. i : match[k, j - 1]
        ELSE i > 0 /\ s[i] = pattern[j] /\ match[i - 1, j - 1]
  IN match[Len(s), Len(pattern)]

TextHolds(op, s, text) ==
  CASE op = "contains"     -> HasPart(s, text)
    [] op = "not_contains" -> ~HasPart(s, text)
    [] op = "starts_with"  -> IsPrefix(text, s)
    [] op = "ends_with"    -> IsSuffix(text, s)
    [] op = "wildcard"     -> Glob(s, text)

FieldOf(fields, field) == IF field \in DOMAIN fields THEN fields[field] ELSE Missing

\* Of a leaf.  A value is a set of strings: the list of in and not_in, the strings that the
\* pattern of matches and not_matches matches, and otherwise a singleton.
EvaluateLeaf(cond, fields) ==
  LET v == FieldOf(fields, cond.field)
      Text(s) == s \notin {True, False}
  IN CASE cond.op = "exists"      -> v # Missing
       [] cond.op = "not_exists"  -> v = Missing
       [] v = Missing             -> FALSE
       [] cond.op = "eq"          -> v \in cond.value
       [] cond.op = "ne"          -> v \notin cond.value
       [] cond.op = "in"          -> StringOf(v) \in cond.value
       [] cond.op = "not_in"      -> StringOf(v) \notin cond.value
       [] cond.op = "matches"     -> Text(v) /\ v \in cond.value
       [] cond.op = "not_matches" -> Text(v) /\ v \notin cond.value
       [] cond.op \in NumericOps  ->
            IsNumeral(v) /\ \A w \in cond.value : IsNumeral(w) /\ Compare(cond.op, NumberOf(v), NumberOf(w))
       [] OTHER -> Text(v) /\ \A text \in cond.value : TextHolds(cond.op, v, text)

\* Mutant of EvaluateCondition: the limit is one level off.
EvaluateConditionShallower(cond, fields) ==
  LET value[path \in DOMAIN cond] ==
        /\ Len(path) < MaxConditionDepth
        /\ \/ cond[path].kind = "leaf" /\ EvaluateLeaf(cond[path], fields)
           \/ cond[path].kind = "any" /\ \E i \in cond[path].parts : value[Append(path, i)]
           \/ cond[path].kind = "all" /\ \A i \in cond[path].parts : value[Append(path, i)]
           \/ cond[path].kind = "not" /\ ~value[Append(path, 1)]
  IN value[<<>>]

\* A condition nested too deep counts as false, whatever is above it.
EvaluateCondition(cond, fields) ==
  LET value[path \in DOMAIN cond] ==
        /\ Len(path) <= MaxConditionDepth
        /\ \/ cond[path].kind = "leaf" /\ EvaluateLeaf(cond[path], fields)
           \/ cond[path].kind = "any" /\ \E i \in cond[path].parts : value[Append(path, i)]
           \/ cond[path].kind = "all" /\ \A i \in cond[path].parts : value[Append(path, i)]
           \/ cond[path].kind = "not" /\ ~value[Append(path, 1)]
  IN value[<<>>]

\* Leaves have the right type of value by construction; a compound needs parts,
\* and what a number is compared with has to be one.
ValidCondition(cond) ==
  \A path \in DOMAIN cond :
    LET node == cond[path] IN
    /\ Len(path) <= MaxConditionDepth
    /\ node.kind # "leaf" => node.parts # {}
    /\ node.kind = "leaf" /\ node.op \in {"in", "not_in"} => node.value # {}
    /\ node.kind = "leaf" /\ node.op \in NumericOps => \A w \in node.value : IsNumeral(w)

-----------------------------------------------------------------------------
(* Statements and policies. *)

Statement(effect, actions, resources, conditions) ==
  [effect |-> effect, actions |-> actions, resources |-> resources, conditions |-> conditions]

Context(action, resource, fields) ==
  [action |-> action, resource |-> resource, fields |-> fields]

MatchesStatement(stmt, ctx) ==
  /\ \E p \in stmt.actions : MatchesAction(p, ctx.action)
  /\ \E p \in stmt.resources : MatchesResource(p, ctx.resource)
  /\ \A c \in stmt.conditions : EvaluateCondition(c, ctx.fields)

\* Deny first: the loop returns at the first deny that matches, and otherwise
\* says whether something allowed.
EvaluateContext(policy, ctx) ==
  /\ \A i \in DOMAIN policy : policy[i].effect = "deny" => ~MatchesStatement(policy[i], ctx)
  /\ \E i \in DOMAIN policy : policy[i].effect = "allow" /\ MatchesStatement(policy[i], ctx)

EvaluatePolicy(policy, contexts) == \A ctx \in contexts : EvaluateContext(policy, ctx)

ValidStatement(stmt) ==
  /\ stmt.effect \in {"allow", "deny"}
  /\ stmt.actions # {} /\ <<>> \notin stmt.actions
  /\ stmt.resources # {} /\ <<>> \notin stmt.resources
  /\ \A c \in stmt.conditions : ValidCondition(c)

ValidPolicy(policy) ==
  /\ policy # <<>>
  /\ \A i \in DOMAIN policy : ValidStatement(policy[i])

-----------------------------------------------------------------------------
(***************************************************************************)
(* The reference: what a policy means, as a formula.  Conditions have      *)
(* their logical meaning at any depth, and the order of statements does    *)
(* not matter.                                                             *)
(***************************************************************************)
Holds(cond, fields) ==
  LET value[path \in DOMAIN cond] ==
        \/ cond[path].kind = "leaf" /\ EvaluateLeaf(cond[path], fields)
        \/ cond[path].kind = "any" /\ \E i \in cond[path].parts : value[Append(path, i)]
        \/ cond[path].kind = "all" /\ \A i \in cond[path].parts : value[Append(path, i)]
        \/ cond[path].kind = "not" /\ ~value[Append(path, 1)]
  IN value[<<>>]

Applies(stmt, ctx) ==
  /\ \E p \in stmt.actions : MatchesAction(p, ctx.action)
  /\ \E p \in stmt.resources : MatchesResource(p, ctx.resource)
  /\ \A c \in stmt.conditions : Holds(c, ctx.fields)

Meaning(policy, ctx) ==
  LET applying == {i \in DOMAIN policy : Applies(policy[i], ctx)} IN
  {policy[i].effect : i \in applying} = {"allow"}

-----------------------------------------------------------------------------
(***************************************************************************)
(* A key is bound to one upstream credential when it is created; its       *)
(* policy has to fit that credential's scope (routes/token-binding.ts,     *)
(* routes/r2-binding.ts).  A credential is [scope, ids] with ids the list  *)
(* of names it is registered for.                                          *)
(***************************************************************************)
ZoneFamilies == {"purge:", "dns:"}
AccountFamilies == {"d1:", "kv:", "workers:", "queues:", "vectorize:", "hyperdrive:"}

\* zone_ids consists of "*" alone.
Unrestricted(cred) == cred.ids = <<Star>>

ValidAction(cred, pattern) ==
  /\ pattern # <<>>
  /\ Head(pattern) \in (IF cred.scope = "zone" THEN ZoneFamilies ELSE AccountFamilies)

\* Mutant of ValidZoneResource: the name may be a prefix of a listed one.
ValidZoneResourcePrefix(cred, pattern) ==
  /\ Head(pattern) = "zone:"
  /\ LET zone == Tail(pattern) IN
     IF zone = Star THEN Unrestricted(cred)
     ELSE \/ Unrestricted(cred)
          \/ \E i \in DOMAIN cred.ids :
               zone # <<>> /\ IsPrefix(IF Last(zone) = "*" THEN Front(zone) ELSE zone, cred.ids[i])

ValidZoneResource(cred, pattern) ==
  /\ Head(pattern) = "zone:"
  /\ LET zone == Tail(pattern) IN
     IF zone = Star THEN Unrestricted(cred)
     ELSE Unrestricted(cred) \/ zone \in Range(cred.ids)

\* What comes before the first "/".
UpToSlash(s) ==
  LET slashes == {i \in DOMAIN s : s[i] = "/"} IN
  IF slashes = {} THEN s ELSE SubSeq(s, 1, (CHOOSE i \in slashes : \A j \in slashes : i <= j) - 1)

\* Only the first of the token's accounts counts.
ValidAccountResource(cred, pattern) ==
  /\ Head(pattern) = "account:"
  /\ UpToSlash(Tail(pattern)) = cred.ids[1]

ValidResource(cred, pattern) ==
  /\ pattern # <<>> /\ pattern # Star
  /\ IF cred.scope = "zone" THEN ValidZoneResource(cred, pattern)
                            ELSE ValidAccountResource(cred, pattern)

TokenBindingValid(cred, policy) ==
  \A i \in DOMAIN policy :
    /\ \A a \in policy[i].actions : ValidAction(cred, a)
    /\ \A r \in policy[i].resources : ValidResource(cred, r)

\* validateR2Binding: buckets named outright must be the endpoint's.
R2ResourceValid(cred, pattern) ==
  /\ pattern # Star
  /\ Head(pattern) \in {"account:", "bucket:", "object:"}
  /\ \/ Unrestricted(cred)
     \/ Head(pattern) = "account:"
     \/ LET bucket == IF Head(pattern) = "bucket:" THEN Tail(pattern)
                      ELSE UpToSlash(Tail(pattern))
        IN bucket \in {<<>>, Star} \cup Range(cred.ids)

R2BindingValid(cred, policy) ==
  \A i \in DOMAIN policy :
    /\ \A a \in policy[i].actions : a # <<>> /\ Head(a) = "s3:"
    /\ \A r \in policy[i].resources : R2ResourceValid(cred, r)

\* What createKey and createCredential check before the row is written.
KeyValid(cred, policy) ==
  /\ ValidPolicy(policy)
  /\ IF cred.scope = "r2" THEN R2BindingValid(cred, policy) ELSE TokenBindingValid(cred, policy)

(***************************************************************************)
(* The reference: a context lies in a credential's scope.                  *)
(***************************************************************************)
Names(cred) == Range(cred.ids)

InScope(cred, ctx) ==
  LET name == UpToSlash(Tail(ctx.resource)) IN
  IF cred.scope = "zone"
    THEN /\ Head(ctx.action) \in ZoneFamilies /\ Head(ctx.resource) = "zone:"
         /\ Unrestricted(cred) \/ name \in Names(cred)
    ELSE /\ Head(ctx.action) \in AccountFamilies /\ Head(ctx.resource) = "account:"
         /\ Star \in Names(cred) \/ name \in Names(cred)
=============================================================================
