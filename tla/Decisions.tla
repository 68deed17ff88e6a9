----------------------------- MODULE Decisions -----------------------------
(***************************************************************************)
(* What a key is good for.  An administrator proposes a policy and the     *)
(* upstream credential to bind it to; when validation accepts it the       *)
(* policy is in force, and the properties say which of the requests that   *)
(* the routes can dispatch it lets through.  Proposals come in kinds, one  *)
(* for each question; `about` tells which.                                 *)
(***************************************************************************)
EXTENDS AcceptancePurge, AcceptanceS3, AcceptanceCf

CONSTANT NoKey

VARIABLE accepted   \* the proposal in force, what the suite attempts, or NoKey

Proposal(about, policy, cred) == [about |-> about, policy |-> policy, cred |-> cred]

Attempted(s) ==
  [about |-> "acceptance", created |-> s.created, policy |-> s.policy, cred |-> s.cred,
   served |-> s.served, refused |-> s.refused]

Valid(proposal) == KeyValid(proposal.cred, proposal.policy)

InForce(about) == accepted # NoKey /\ accepted.about = about

-----------------------------------------------------------------------------
(* The policy engine against its meaning. *)

Letters == {<<"x">>, <<"y">>}

Fields2 == [{"f", "g"} -> Letters \cup {Missing}]

Leaves == {Leaf("f", "ne", {<<"x">>}), Leaf("g", "not_in", Letters), Leaf("f", "exists", {})}

Deeper(conds) ==
  conds \cup {Compound("not", <<c>>) : c \in conds}
    \cup {Compound(kind, <<c, l>>) : kind \in {"any", "all"}, c \in conds, l \in Leaves}

\* One level deeper than MaxConditionDepth = 2 allows, and compounds without parts.
Conditions ==
  Deeper(Deeper(Deeper({Leaf("f", "in", {<<"x">>}), Leaf("g", "not_exists", {})})))
    \cup {Compound(kind, <<>>) : kind \in {"any", "all"}}

AllowAll(conds) == Statement("allow", {<<"d1:", "*">>}, {<<"account:", "a">>}, conds)
Deny(conds) == [AllowAll(conds) EXCEPT !.effect = "deny"]

PoliciesOn(cond) ==
  {<<AllowAll({cond})>>, <<AllowAll({}), Deny({cond})>>,
   <<AllowAll({cond}), Deny({Leaf("g", "exists", {})})>>,
   <<Deny({Compound("not", <<cond>>)}), AllowAll({Leaf("f", "exists", {})})>>}

ConditionProposals ==
  {Proposal("conditions", policy, Cred("account", <<<<"a">>>>)) :
     policy \in UNION {PoliciesOn(cond) : cond \in Conditions}}

\* The engine decides what the policy means: for every policy that validation
\* accepts, the depth limit is never what decides (past it a condition counts
\* as false, and as true under a negation), and neither is the order of the
\* statements (policy-engine.ts evaluateCondition, evaluatePolicyForContext).
EvaluationMeaning ==
  InForce("conditions") =>
    \A fields \in Fields2 :
      LET ctx == Context(<<"d1:", "query">>, <<"account:", "a", "/", "d1", "/", "x">>, fields) IN
      EvaluateContext(accepted.policy, ctx) <=> Meaning(accepted.policy, ctx)

-----------------------------------------------------------------------------
(* Bindings. *)

IdNames == {<<"a">>, <<"a", "b">>, <<"c">>}

Creds(scope) ==
  [scope : {scope}, ids : {<<n>> : n \in IdNames \cup {Star}} \cup {<<n, m>> : n, m \in IdNames}]

TokenCreds == Creds("zone") \cup Creds("account")

ZonePatterns ==
  {Star, <<"zone:">>} \cup {<<"zone:">> \o n \o t : n \in IdNames \cup {<<>>}, t \in {<<>>, Star}}

AccountPatterns ==
  {Star} \cup {<<"account:">> \o n \o t :
                 n \in IdNames \cup {<<>>}, t \in {<<>>, Star, <<"/", "*">>, <<"/", "d1", "/", "x">>}}

ResourcePatterns == ZonePatterns \cup AccountPatterns

ActionPatterns == {Star, <<"dns:", "*">>, <<"d1:", "*">>, <<"d1:", "query">>, <<"s3:", "*">>}

RequestContexts ==
  {Context(<<"dns:", "read">>, <<"zone:">> \o n, <<>>) : n \in IdNames}
    \cup {Context(<<"d1:", "query">>, <<"account:">> \o n \o t, <<>>) :
            n \in IdNames, t \in {<<>>, <<"/", "d1", "/", "x">>}}
    \cup {Context(<<"s3:", "ListAllMyBuckets">>, <<"account:", "*">>, <<>>)}

Grant(action, resource) == <<Statement("allow", {action}, {resource}, {})>>

TokenProposals ==
  {Proposal("bindings", Grant(action, resource), cred) :
     cred \in TokenCreds, action \in ActionPatterns, resource \in ResourcePatterns}

\* A policy accepted for an upstream token allows nothing outside the token's
\* scope: whatever patterns pass validateTokenBinding, the matching of
\* wildcards and parents does not reach another zone, another account or
\* another family of actions (token-binding.ts:38).
BindingSound ==
  InForce("bindings") =>
    \A ctx \in RequestContexts : EvaluateContext(accepted.policy, ctx) => InScope(accepted.cred, ctx)

-----------------------------------------------------------------------------
(* Routes. *)

LiteralsAt(service, i) ==
  {r.path[i] : r \in {r \in Range(RoutesOf[service]) : i \in DOMAIN r.path}} \ Params

\* What a segment of a request may be where a route has a parameter: a name, or
\* what another route has as a literal there.  A namespace may be called like
\* the markers in front of a key, and the parameters that do not name the
\* instance may have an escaped slash in them.
Segments(service, param, i) ==
  {"x", "y"} \cup LiteralsAt(service, i)
    \cup (IF param = "kv.namespace_id" THEN {"values", "metadata"} ELSE {})
    \cup (IF param = InstanceField[service] THEN {} ELSE DOMAIN Escaped)

Filled(service, path) ==
  LET upTo[n \in 0 .. Len(path)] ==
        IF n = 0 THEN {<<>>}
        ELSE {Append(front, s) : front \in upTo[n - 1],
                s \in (IF path[n] \in Params THEN Segments(service, path[n], n) ELSE {path[n]})}
  IN upTo[Len(path)]

\* A key's name may go on over several segments.
PathsOf(service) ==
  LET paths == UNION {Filled(service, r.path) : r \in Range(RoutesOf[service])}
  IN paths \cup (IF service = "kv" THEN {p \o <<"keys">> : p \in paths} ELSE {})

Methods == {"GET", "POST", "PUT", "PATCH", "DELETE"}

Routed(service) == {r \in Methods \X PathsOf(service) : Matching(service, r[1], r[2]) # {}}

\* Every request that some route takes, with its route and context, and the
\* path that it is forwarded to.
RoutedRequests ==
  LET Taken(service, method, path) ==
        LET route == Dispatched(service, method, path) IN
        [service |-> service, method |-> method, path |-> path, route |-> route,
         ctx |-> ContextOf(service, route, <<"a">>, path),
         forwarded |-> ForwardedPath(route, path)]
  IN UNION {{Taken(s, r[1], r[2]) : r \in Routed(s)} : s \in Services}

\* The requests that the policy in force lets through.
Served == {r \in RoutedRequests : EvaluateContext(accepted.policy, r.ctx)}

Literals(route) == Cardinality({i \in DOMAIN route.path : route.path[i] \notin Params})

\* The reference: the instance that the Cloudflare API acts on for the texts of
\* a path.
Collection == [d1 |-> "database", kv |-> "namespaces", workers |-> "scripts",
               vectorize |-> "indexes", hyperdrive |-> "configs"]

ActsOn(service, texts) ==
  LET at == IF service = "queues" THEN 0
            ELSE SelectInSeq(texts, LAMBDA t : t = <<Collection[service]>>)
      named == at + 1 \in DOMAIN texts /\ (at > 0 \/ service = "queues")
  IN IF named THEN texts[at + 1] ELSE Missing

\* A key for the instance x of account a, by resource or by condition.
Confined(service) ==
  LET actions == {<<service \o ":", "*">>} IN
  {<<Statement("allow", actions, {<<"account:", "a", "/", service, "/", "x">>}, {})>>,
   <<Statement("allow", actions, {<<"account:", "a">>},
               {Leaf(InstanceField[service], "eq", {<<"x">>})})>>}

RouteProposals ==
  {Proposal("routes", policy, Cred("account", <<<<"a">>>>)) :
     policy \in UNION {Confined(service) : service \in Services \ {"dns"}}}
    \cup {Proposal("routes", <<Statement("allow", {<<"dns:", a>>}, {<<"zone:", "a">>}, {})>>,
                   Cred("zone", <<<<"a">>>>)) : a \in {"read", "export", "update"}}


\* No request is let through on a route that shadows a more literal one: the
\* route that takes it, and names its action, is one of the most literal that
\* match ("Must be before /:recordId to avoid matching "export" as a record
\* ID", dns/routes.ts:217).
MostSpecificRoute ==
  InForce("routes") =>
    \A r \in Served : \A i \in Matching(r.service, r.method, r.path) :
      Literals(RoutesOf[r.service][i]) <= Literals(r.route)

-----------------------------------------------------------------------------
(* Requests with several effects. *)

Recorded(type, name) == [NoRecord EXCEPT !["dns.type"] = <<type>>, !["dns.name"] = <<name>>]

Records == {Recorded("x", "x"), Recorded("y", "x"), NoRecord}

Batches == [deletes : 0 .. 1, patches : SUBSET Records, puts : SUBSET Records,
            posts : SUBSET {Recorded("x", "x"), Recorded("y", "y")}]

DnsStatement(effect, actions, conds) ==
  Statement(effect, {<<"dns:", a>> : a \in actions}, {<<"zone:", "z">>}, conds)

DnsPolicies ==
  {<<DnsStatement("allow", actions \cup {"batch"}, conds)>> :
     actions \in SUBSET {"create", "update", "delete"},
     conds \in {{}, {Leaf("dns.type", "eq", {<<"x">>})}}}
    \cup {<<DnsStatement("allow", {"*"}, {}), DnsStatement("deny", {a}, {Leaf("dns.type", op, {<<"x">>})})>> :
            a \in {"create", "update", "delete", "batch"}, op \in {"eq", "not_exists"}}

DnsProposals == {Proposal("batches", policy, Cred("zone", <<<<"z">>>>)) : policy \in DnsPolicies}

DnsBatchIsItsParts ==
  LET Allowed(action, record) ==
        EvaluateContext(accepted.policy, DnsContext(action, <<"z">>, record))
  IN InForce("batches") =>
       \A batch \in Batches :
         EvaluatePolicy(accepted.policy, DnsBatchContexts(<<"z">>, batch))
           <=> /\ Allowed("batch", NoRecord)
               /\ \A record \in batch.posts : Allowed("create", record)
               /\ \A record \in batch.patches \cup batch.puts : Allowed("update", record)
               /\ batch.deletes > 0 => Allowed("delete", NoRecord)

-----------------------------------------------------------------------------
(* S3. *)

Buckets == {<<"x">>, <<"x", "y">>, <<"y">>}
Keys == {<<"k">>, <<"p", "/", "k", ".", "e">>}

\* A name that is missing is not one of the names.
ASSUME MissingIsNoName == Missing \notin Buckets \cup Keys

NoSource == [bucket |-> Missing, key |-> Missing]

ParamSets == {s \in SUBSET {"uploadId", "uploads", "delete", "tagging", "cors", "list-type=2"} :
                Cardinality(s) <= 2}

\* The root, buckets and objects; copies; and deletions of a list of keys.
RootRequests ==
  [method : S3Methods, bucket : {Missing}, key : {Missing}, params : {{}},
   source : {NoSource}, deletes : {{}}]

BareRequests ==
  [method : S3Methods, bucket : Buckets, key : Keys \cup {Missing, <<>>}, params : ParamSets,
   source : {NoSource}, deletes : {{}}]

CopyRequests ==
  [method : {"PUT"}, bucket : Buckets, key : Keys, params : {{CopySource}, {CopySource, "uploadId"}},
   source : [bucket : Buckets, key : Keys], deletes : {{}}]

DeleteRequests ==
  [method : {"POST"}, bucket : Buckets, key : {Missing}, params : {{"delete"}},
   source : {NoSource}, deletes : SUBSET Keys]

S3Requests == RootRequests \cup BareRequests \cup CopyRequests \cup DeleteRequests

ServedS3Requests == {req \in S3Requests : IsR2Supported(req)}

R2Creds == [scope : {"r2"}, ids : {<<n>> : n \in Buckets} \cup {<<n, m>> : n, m \in Buckets}]

S3Patterns ==
  {<<"account:", "*">>} \cup {<<"bucket:">> \o b \o t : b \in Buckets, t \in {<<>>, Star}}
    \cup {Object(b, t) : b \in Buckets, t \in {Star, <<"p", "/", "*">>}}

\* The buckets whose content a request reads or changes.
Touches(req) ==
  {req.bucket} \cup (IF CopySource \in req.params THEN {req.source.bucket} ELSE {})

R2Proposals ==
  {Proposal("buckets", <<Statement("allow", {<<"s3:", "*">>}, resources, {})>>, cred) :
     cred \in R2Creds,
     resources \in {rs \in SUBSET S3Patterns : Cardinality(rs) \in 1 .. 2}}

\* A policy accepted for an R2 endpoint, with the buckets it is for spelled
\* out, touches only the endpoint's buckets: not one whose name only begins
\* the same, and not as the source of a copy, plain or part by part
\* (r2-binding.ts:28, s3/routes.ts:170).
NamedBucketsOnly ==
  InForce("buckets") =>
    \A req \in ServedS3Requests :
      EvaluatePolicy(accepted.policy, S3Contexts(req)) =>
        Touches(req) \subseteq Range(accepted.cred.ids) \cup {Missing}

KeyConditions ==
  {Leaf("key", "eq", {<<"k">>}), Leaf("key.prefix", "in", {<<"p", "/">>}),
   Leaf("key.extension", "eq", {<<"e">>}), Leaf("key.filename", "ne", {<<"k">>}),
   Leaf("key.extension", "not_exists", {})}

S3Policies ==
  LET Only(effect, resource, cond) ==
        Statement(effect, {<<"s3:", "DeleteObject">>}, {resource}, {cond})
      Anywhere == <<"object:", "x", "/", "*">>
  IN {<<Only("allow", Anywhere, c)>> : c \in KeyConditions}
       \cup {<<Statement("allow", {<<"s3:", "*">>}, {Anywhere}, {}), Only("deny", Anywhere, c)>> : c \in KeyConditions}
       \cup {<<Statement("allow", {<<"s3:", "DeleteObject">>}, {Object(<<"x">>, <<"p", "/", "*">>)}, {})>>}

DeleteOf(req, key) == [req EXCEPT !.method = "DELETE", !.key = key, !.params = {}, !.deletes = {}]

S3Proposals == {Proposal("keys", policy, Cred("r2", <<Star>>)) : policy \in S3Policies}

S3DeleteIsItsKeys ==
  InForce("keys") =>
    \A req \in {req \in ServedS3Requests : req.deletes # {}} :
      EvaluatePolicy(accepted.policy, S3Contexts(req))
        <=> \A key \in req.deletes : EvaluatePolicy(accepted.policy, S3Contexts(DeleteOf(req, key)))

\* Purges of several things.
Pages == {File(host, path) : host \in {<<"x">>, <<"y">>}, path \in {<<"/">>, <<"/", "p">>}}
           \cup {[url |-> <<"junk">>, host |-> Missing, path |-> Missing, params |-> <<>>, headers |-> <<>>],
                FileWith(<<"x">>, <<"/">>, <<<<"q", <<"1">>>>, <<"q", <<"2">>>>>>, "h" :> <<"1">>)}

PurgeBodies ==
  {Files(pair) : pair \in Pages \X Pages}
    \cup {Body(type, pair) : type \in {"host", "tag", "prefix"}, pair \in IdNames \X IdNames}

PurgeConditions ==
  {Leaf("host", op, {<<"x">>}) : op \in {"eq", "ne"}}
    \cup {Leaf("url", "contains", {<<"p">>}), Leaf("url.path", "starts_with", {<<"/", "p">>}),
          Leaf("url.query.q", "gt", {<<"1">>}), Leaf("header.h", "not_exists", {}),
          Leaf("tag", "wildcard", {<<"a", "*">>}), Leaf("prefix", "not_contains", {<<"b">>})}

PurgePolicies ==
  {<<May({"*"}, {c})>> : c \in PurgeConditions} \cup {<<May({"*"}, {}), MayNot({"*"}, {c})>> : c \in PurgeConditions}

PurgeProposals == {Proposal("purges", policy, ZoneToken) : policy \in PurgePolicies}

PurgeIsItsItems ==
  LET Allowed(body) == EvaluatePolicy(accepted.policy, PurgeContexts(<<"z1">>, body, RequestFields(<<"9">>)))
  IN InForce("purges") =>
       \A body \in PurgeBodies :
         Allowed(body) <=> \A item \in Range(Items(body)) : Allowed(Body(TypeOf(body), <<item>>))

\* A request with several effects is allowed exactly when each of them, sent as
\* a request of its own, would be: a DNS batch ("so the policy engine can
\* authorize them independently", dns/operations.ts:114), a DeleteObjects, with
\* the fields derived from each key ("authorize each key individually",
\* s3/routes.ts:183), and a purge of several files, hosts, tags or prefixes
\* ("if any entry fails the policy check, the entire request is denied", API.md:256).
BatchIsItsParts == DnsBatchIsItsParts /\ S3DeleteIsItsKeys /\ PurgeIsItsItems

-----------------------------------------------------------------------------
(* The acceptance suite. *)

Scenarios == PurgeScenarios \cup S3Scenarios \cup CfScenarios

\* The gateway answers as its acceptance suite says: the keys of the suite, and
\* no others, are created, each gets exactly the expected ones of its requests
\* through at whatever hour the suite runs, and the purge bodies that the suite
\* sends are taken or turned away as expected (cli/smoke/).
AcceptanceAsExpected == InForce("acceptance") => BodiesAsExpected /\ AsExpected(accepted)

-----------------------------------------------------------------------------
Proposals ==
  ConditionProposals \cup TokenProposals \cup RouteProposals \cup DnsProposals
    \cup R2Proposals \cup S3Proposals \cup PurgeProposals

Accept ==
  /\ accepted = NoKey
  /\ \E proposal \in Proposals : Valid(proposal) /\ accepted' = proposal

\* The acceptance suite tries to create a key, with success or without, and
\* knows what to expect of it.
Attempt ==
  /\ accepted = NoKey
  /\ \E s \in Scenarios : accepted' = Attempted(s)

Discard ==
  /\ accepted # NoKey
  /\ accepted' = NoKey

DecisionsInit == accepted = NoKey

DecisionsNext == Accept \/ Attempt \/ Discard

DecisionsSpec == DecisionsInit /\ [][DecisionsNext]_accepted
=============================================================================
