-------------------------- MODULE AcceptancePurge --------------------------
(***************************************************************************)
(* The scenarios of cli/smoke/purge.ts, section by section, with the keys  *)
(* that cli/smoke/admin.ts creates for them.  All keys are bound to a      *)
(* token for the zone z1.                                                  *)
(***************************************************************************)
EXTENDS Acceptance, PurgeOperations

ZoneToken == Cred("zone", <<<<"z1">>>>)
Z1 == <<"zone:", "z1">>

PurgeOn(resource, effect, actions, conds) ==
  Statement(effect, {<<"purge:", action>> : action \in actions}, {resource}, conds)
May(actions, conds) == PurgeOn(Z1, "allow", actions, conds)
MayNot(actions, conds) == PurgeOn(Z1, "deny", actions, conds)

\* The hours at which the suite may be run.
Hours == {<<"0">>, <<"9">>, <<"2", "3">>}

Purges(bodies) == {PurgeContexts(<<"z1">>, body, RequestFields(hour)) : body \in bodies, hour \in Hours}

PurgeKey(policy, served, refused) == Scenario(ZoneToken, policy, Purges(served), Purges(refused))

\* Bodies.
Hosts(names) == Body("host", names)
Host(name) == Hosts(<<name>>)
Tag(name) == Body("tag", <<name>>)
Prefix(name) == Body("prefix", <<name>>)
Files(files) == Body("url", files)
Everything == Body("everything", <<True>>)

FileWith(host, path, params, headers) ==
  [url |-> <<"https://">> \o host \o path \o (IF params = <<>> THEN <<>> ELSE <<"?">> \o Query(params)),
   host |-> host, path |-> path, params |-> params, headers |-> headers]
File(host, path) == FileWith(host, path, <<>>, <<>>)
PageOf(host) == Files(<<File(host, <<"/", "page">>)>>)
Device(host, path, device) ==
  Files(<<FileWith(host, path, <<>>, "CF-Device-Type" :> <<device>>)>>)

Erfi == <<"erfi", ".io">>
Evil == <<"evil", ".com">>
Under(label, domain) == <<label, ".">> \o domain
Static(tail) == <<"static-", tail>>

-----------------------------------------------------------------------------
(* Validation, and the purges that a key for everything gets through. *)

InvalidBodies ==
  {<<>>, Body("everything", <<False>>), Files([i \in 1 .. 501 |-> File(Erfi, <<"/">>)]), Hosts(<<>>),
   Host(Erfi) @@ Everything}

HappyBodies ==
  {Host(Erfi), Tag(Static("v1")), Prefix(Erfi \o <<"/", "css", "/">>), PageOf(Erfi), Everything,
   Files(<<File(Erfi, <<"/", "a">>), File(Erfi, <<"/", "b">>), File(Erfi, <<"/", "c">>)>>),
   Hosts(<<Erfi, Under("www", Erfi)>>), Body("tag", <<<<"v1">>, <<"v2">>, <<"v3">>>>)}

SuiteLimits == [single |-> 500, bulk |-> 100]

BodiesAsExpected ==
  LET Taken(body) == ValidBody(body) /\ Fits(body, SuiteLimits) IN
  (\A body \in HappyBodies : Taken(body)) /\ (\A body \in InvalidBodies : ~Taken(body))

HappyPath == {PurgeKey(<<May({"*"}, {})>>, HappyBodies, {})}

\* "wrong zone -> 403 (policy denies)"
WrongZone ==
  {Scenario(ZoneToken, <<May({"*"}, {})>>, {}, {PurgeContexts(<<"z2">>, Host(Erfi), <<>>)})}

\* "Token Binding Validation (zone-scoped)"
ZoneBindings ==
  {Rejection(ZoneToken, <<Statement("allow", {action}, {resource}, {})>>) :
     action \in {<<"d1:", "read">>}, resource \in {Z1, <<"account:", "a">>, Star}}
    \cup {Rejection(ZoneToken, <<PurgeOn(resource, "allow", {"*"}, {})>>) :
            resource \in {Star, <<"account:", "a">>, <<"zone:", "*">>, <<"zone:", "z2">>}}

\* "Key Creation Validation"
BadPolicies ==
  {Rejection(ZoneToken, <<>>), Rejection(ZoneToken, <<PurgeOn(Z1, "block", {"*"}, {})>>)}
    \cup {PurgeKey(<<May({"*"}, {}), MayNot({"everything"}, {})>>, {}, {})}

\* "Scoped Key Authorization"
ScopedKeys ==
  {PurgeKey(<<May({"host"}, {Is("host", "eq", Erfi)})>>, {Host(Erfi)},
       {Host(Evil), Tag(<<"foo">>), Everything, Hosts(<<Erfi, Evil>>)}),
   PurgeKey(<<May({"tag"}, {Is("tag", "starts_with", <<"static-">>)})>>, {Tag(Static("v2"))},
       {Tag(<<"dynamic-", "v1">>), Host(Erfi)}),
   PurgeKey(<<May({"prefix"}, {Is("prefix", "wildcard", Erfi \o <<"/", "assets", "/", "*">>)})>>,
       {Prefix(Erfi \o <<"/", "assets", "/", "css", "/">>)}, {Prefix(Erfi \o <<"/", "api", "/">>)}),
   PurgeKey(<<May({"url"}, {Is("host", "eq", Erfi)})>>, {PageOf(Erfi)}, {PageOf(Evil)}),
   PurgeKey(<<May({"host", "tag"}, {})>>, {Host(Erfi), Tag(<<"any-tag">>)},
       {Prefix(Erfi \o <<"/">>), Everything})}

\* "Purge Action Mutation Coverage"
OneAction ==
  {PurgeKey(<<May({"host"}, {})>>, {Host(Erfi)}, {Tag(<<"t1">>)}),
   PurgeKey(<<May({"tag"}, {})>>, {Tag(Static("v1"))}, {Host(Erfi)}),
   PurgeKey(<<May({"prefix"}, {})>>, {Prefix(Erfi \o <<"/", "css", "/">>)}, {Everything}),
   PurgeKey(<<May({"url"}, {})>>, {PageOf(Erfi)}, {Host(Erfi)}),
   PurgeKey(<<May({"everything"}, {})>>, {Everything}, {Tag(<<"t1">>)})}

\* "Deny Statement Authorization"
Denials ==
  {PurgeKey(<<May({"*"}, {}), MayNot({"everything"}, {})>>,
       {Host(Erfi), Tag(<<"v1">>), Prefix(Erfi \o <<"/", "assets", "/">>), PageOf(Erfi)}, {Everything}),
   PurgeKey(<<May({"*"}, {}), MayNot({"host"}, {Is("host", "eq", Under("internal", Evil))})>>,
       {Host(Erfi), Tag(<<"ok">>)}, {Host(Under("internal", Evil))}),
   PurgeKey(<<May({"*"}, {}), MayNot({"everything"}, {Is("time.hour", "gte", <<"0">>)})>>,
       {Host(Erfi)}, {Everything}),
   PurgeKey(<<MayNot({"*"}, {})>>, {}, {Host(Erfi), Tag(<<"v1">>)}),
   PurgeKey(<<May({"host", "tag"}, {}), MayNot({"tag"}, {})>>, {Host(Erfi)}, {Tag(<<"v1">>)})}

\* "Numeric Operator Validation"
NumericValues ==
  {PurgeKey(<<May({"*"}, {Is("time.hour", op, <<"1", "2">>)})>>, {}, {}) : op \in NumericOps}
    \cup {PurgeKey(<<May({"*"}, {Is("time.hour", "lt", <<"1", "8">>)})>>, {}, {}),
          Rejection(ZoneToken, <<May({"*"}, {Is("time.hour", "gt", <<"midnight">>)})>>)}

-----------------------------------------------------------------------------
Corp == <<"internal", ".corp">>
Cdn == <<"cdn", ".", "example">>
CdnCom == {Is("host", "starts_with", <<"cdn">>), Is("host", "ends_with", <<".com">>)}

\* "Compound Conditions"
Compounds ==
  LET Com(label) == <<label, ".com">>
      All(conds) == Compound("all", SetToSeq(conds))
      AnyHost(a, b) == Compound("any", <<Is("host", "eq", a), Is("host", "eq", b)>>)
  IN {PurgeKey(<<May({"host"}, {Not(Is("host", "eq", Corp))})>>, {Host(Erfi)}, {Host(Corp)}),
      PurgeKey(<<May({"host"}, {AnyHost(Com("a"), Com("b"))})>>, {Host(Com("a")), Host(Com("b"))},
          {Host(Com("c"))}),
      PurgeKey(<<May({"host"}, {All(CdnCom)})>>, {Host(Cdn \o <<".com">>)},
          {Host(Cdn \o <<".org">>), Host(<<"api", ".", "example", ".com">>)}),
      PurgeKey(<<May({"host"}, {Compound("any", <<Is("host", "eq", Com("safe")),
                                             Not(Is("host", "starts_with", <<"internal">>))>>)})>>,
          {Host(Com("safe")), Host(Com("public"))}, {Host(Corp)}),
      PurgeKey(<<May({"*"}, {}), MayNot({"host"}, {Not(All(CdnCom))})>>,
          {Host(Cdn \o <<".com">>), Tag(<<"v1">>)}, {Host(<<"api", ".", "example", ".com">>)})}

\* The same, with several statements.
SeveralStatements ==
  LET HostIs(effect, label) == PurgeOn(Z1, effect, {"host"}, {Is("host", "eq", Under(label, Erfi))}) IN
  {PurgeKey(<<HostIs("allow", "cdn"), HostIs("allow", "api")>>,
       {Host(Under("cdn", Erfi)), Host(Under("api", Erfi))}, {Host(Evil)}),
   PurgeKey(<<May({"host"}, {}), HostIs("deny", "protected")>>,
       {Host(Erfi), Host(Under("other", Erfi))}, {Host(Under("protected", Erfi))})}

\* "Condition Operator Coverage": what the host of a served and of a refused
\* purge is, under each operator.
HostOperator(op, value, served, refused) ==
  PurgeKey(<<May({"host"}, {Leaf("host", op, value)})>>, {Host(served)}, {Host(h) : h \in refused})

HostOperators ==
  LET Com(label) == <<label, ".com">>
      Example(label) == <<label, ".", "example", ".com">>
  IN {HostOperator("in", {Com("a"), Com("b"), Com("c")}, Com("a"), {Com("d")}),
      HostOperator("not_in", {Com("blocked"), Com("banned")}, Erfi, {Com("blocked")}),
      HostOperator("contains", {<<"cdn">>}, Example("cdn"), {Example("api")}),
      HostOperator("not_contains", {<<"internal">>}, Example("public"), {Example("internal")}),
      HostOperator("ends_with", {<<".">> \o Erfi}, Under("cdn", Erfi), {Under("cdn", Evil)}),
      HostOperator("matches", {Example("cdn-01")}, Example("cdn-01"), {Example("cdn-ab"), Example("evil")}),
      HostOperator("not_matches", {<<"internal-db", ".corp">>}, Example("public"), {<<"internal-db", ".corp">>})}

PresenceOperators ==
  {PurgeKey(<<May({"*"}, {}), MayNot({"host"}, {Is("host", "ne", <<"safe", ".com">>)})>>,
       {Host(<<"safe", ".com">>), Tag(<<"v1">>)}, {Host(Evil)}),
   PurgeKey(<<May({"host", "tag"}, {}), MayNot({"tag"}, {Leaf("tag", "exists", {})})>>,
       {Host(Erfi)}, {Tag(Static("v1"))}),
   PurgeKey(<<May({"host", "tag"}, {Leaf("tag", "not_exists", {})})>>, {Host(Erfi)}, {Tag(<<"v1">>)})}

\* "Numeric Runtime Enforcement"
NumericConditions ==
  {PurgeKey(<<May({"*"}, {Is("time.hour", "lt", <<"0">>)})>>, {}, {Host(Erfi)}),
   PurgeKey(<<May({"*"}, {Is("time.hour", "gte", <<"0">>)})>>, {Host(Erfi)}, {}),
   PurgeKey(<<May({"*"}, {}), MayNot({"everything"}, {Is("time.hour", "gt", <<"-", "1">>)})>>,
       {Host(Erfi)}, {Everything})}

-----------------------------------------------------------------------------
\* "Granular Tag Scoping"
TagScopes ==
  LET Bundles == {<<"css-bundle">>, <<"js-bundle">>, <<"font-cache">>} IN
  {PurgeKey(<<May({"tag"}, {Is("tag", "wildcard", Static("*"))})>>, {Tag(Static("v1")), Tag(Static("assets"))},
       {Tag(<<"dynamic-", "v1">>), Host(Erfi)}),
   PurgeKey(<<May({"tag"}, {Is("tag", "starts_with", <<"release-">>)})>>, {Tag(<<"release-", "2026.03">>)},
       {Tag(<<"hotfix-", "123">>)}),
   PurgeKey(<<May({"tag"}, {Leaf("tag", "in", Bundles)})>>, {Tag(<<"css-bundle">>), Tag(<<"font-cache">>)},
       {Tag(<<"img-cache">>)}),
   PurgeKey(<<May({"tag"}, {}), MayNot({"tag"}, {Is("tag", "contains", <<"internal">>)})>>,
       {Tag(<<"public", "-assets">>)},
       {Tag(<<"internal", "-cache">>), Body("tag", <<<<"public", "-assets">>, <<"internal", "-config">>>>)})}

\* "Granular Host Scoping"
HostScopes ==
  LET Sub(label) == Under(label, Erfi)
      Wild == Is("host", "wildcard", Sub("*"))
  IN {PurgeKey(<<May({"host"}, {Wild})>>, {Host(Sub("cdn")), Host(Sub("api"))}, {Host(Under("cdn", Evil))}),
      PurgeKey(<<May({"host"}, {Wild}), MayNot({"host"}, {Is("host", "eq", Sub("admin"))})>>,
          {Host(Sub("cdn"))}, {Host(Sub("admin")), Hosts(<<Sub("cdn"), Sub("admin")>>)}),
      HostOperator("matches", {Sub("cdn-01")}, Sub("cdn-01"), {Sub("cdn-abc"), Sub("cdn-1")})}

\* "URL Path & Query Conditions"
FileAt(path) == Files(<<File(Erfi, path)>>)

PathScopes ==
  LET Photo(dir, extension) == FileAt(<<"/", dir, "/", "photo", extension>>)
      Public == <<"/", "public", "/", "page">>
      Admin == <<"/", "admin", "/", "dashboard">>
  IN {PurgeKey(<<May({"url"}, {Is("url.path", "starts_with", <<"/", "assets", "/">>)})>>,
          {FileAt(<<"/", "assets", "/", "style">>), FileAt(<<"/", "assets", "/", "js", "/", "app">>)},
          {FileAt(<<"/", "api", "/", "v1", "/", "data">>), FileAt(<<"/">>)}),
      PurgeKey(<<May({"url"}, {Is("url.path", "wildcard", <<"/", "images", "/", "*", ".jpg">>)})>>,
          {Photo("images", ".jpg")}, {Photo("images", ".png"), Photo("docs", ".jpg")}),
      PurgeKey(<<May({"url"}, {}), MayNot({"url"}, {Is("url.path", "starts_with", <<"/", "admin", "/">>)})>>,
          {FileAt(Public)}, {FileAt(Admin), Files(<<File(Erfi, Public), File(Erfi, Admin)>>)})}

QueryScopes ==
  LET With(param, value) == Files(<<FileWith(Erfi, <<"/", "page">>, <<<<param, <<value>>>>>>, <<>>)>>) IN
  {PurgeKey(<<May({"url"}, {Leaf("url.query.v", "exists", {})})>>, {With("v", "123")},
       {PageOf(Erfi), With("t", "456")}),
   PurgeKey(<<May({"url"}, {Is("url.query.cache_bust", "eq", <<"true">>)})>>, {With("cache_bust", "true")},
       {With("cache_bust", "false")})}

\* "Header-Based Cache Key Conditions"
HeaderScopes ==
  LET On1(device) == Device(Erfi, <<"/", "page">>, device) IN
  {PurgeKey(<<May({"url"}, {Is("header.CF-Device-Type", "eq", <<"mobile">>)})>>, {On1("mobile")},
       {On1("desktop"), PageOf(Erfi)}),
   PurgeKey(<<May({"url"}, {}), MayNot({"url"}, {Is("header.CF-Device-Type", "eq", <<"bot">>)})>>,
       {PageOf(Erfi), On1("mobile")}, {On1("bot")})}

\* "Granular Prefix Scoping"
PrefixScopes ==
  LET Dir(first, rest) == Erfi \o <<"/", first>> \o rest IN
  {PurgeKey(<<May({"prefix"}, {Is("prefix", "wildcard", Dir("static", <<"/", "*">>))})>>,
       {Prefix(Dir("static", <<"/", "css", "/">>)), Prefix(Dir("static", <<"/", "js", "/">>))},
       {Prefix(Dir("api", <<"/", "v1", "/">>))}),
   PurgeKey(<<May({"prefix"}, {}), MayNot({"prefix"}, {Is("prefix", "starts_with", Dir("admin", <<>>))})>>,
       {Prefix(Dir("public", <<"/">>))},
       {Prefix(Dir("admin", <<"/", "settings", "/">>)),
        Body("prefix", <<Dir("public", <<"/">>), Dir("admin", <<"/">>)>>)})}

\* "Cross-Field Combinations"
CrossFields ==
  LET CdnErfi == Under("cdn", Erfi)
      Internal == Under("db", Under("internal", Erfi))
      Assets == <<"/", "assets", "/", "app">>
      Api == <<"/", "api", "/", "data">>
      Panel == <<"/", "admin", "/", "panel">>
      CdnAssets == {Is("host", "eq", CdnErfi), Is("url.path", "starts_with", <<"/", "assets", "/">>)}
      Plain(host, path) == Files(<<File(host, path)>>)
  IN {PurgeKey(<<May({"url"}, CdnAssets)>>, {Plain(CdnErfi, Assets)},
          {Plain(Under("api", Erfi), Assets), Plain(CdnErfi, Api), Plain(Evil, <<"/", "secrets">>)}),
      PurgeKey(<<May({"tag"}, {Is("tag", "starts_with", <<"static-">>)}),
            May({"host"}, {Is("host", "wildcard", Under("*", Erfi))})>>,
          {Tag(Static("v2")), Host(CdnErfi)},
          {Tag(<<"dynamic-", "v1">>), Host(Evil), Prefix(Erfi \o <<"/", "css", "/">>)}),
      PurgeKey(<<May({"url"}, CdnAssets \cup {Leaf("header.CF-Device-Type", "in", {<<"mobile">>, <<"tablet">>})})>>,
          {Device(CdnErfi, Assets, "mobile"), Device(CdnErfi, Assets, "tablet")},
          {Device(CdnErfi, Assets, "desktop"), Device(Under("api", Erfi), Assets, "mobile"),
           Device(CdnErfi, Api, "mobile"), Plain(CdnErfi, Assets)}),
      PurgeKey(<<May({"url"}, {}),
            MayNot({"url"}, {Is("host", "wildcard", Under("*", Under("internal", Erfi))),
                             Is("url.path", "starts_with", <<"/", "admin", "/">>)})>>,
          {Plain(CdnErfi, Panel), Plain(Internal, Api)}, {Plain(Internal, Panel)})}

PurgeScenarios ==
  HappyPath \cup WrongZone \cup ZoneBindings \cup BadPolicies \cup ScopedKeys \cup OneAction
    \cup Denials \cup NumericValues \cup Compounds \cup SeveralStatements \cup HostOperators
    \cup PresenceOperators \cup NumericConditions \cup TagScopes \cup HostScopes \cup PathScopes
    \cup QueryScopes \cup HeaderScopes \cup PrefixScopes \cup CrossFields
=============================================================================
