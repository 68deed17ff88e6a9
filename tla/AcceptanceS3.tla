---------------------------- MODULE AcceptanceS3 ----------------------------
(***************************************************************************)
(* The scenarios of cli/smoke/s3.ts, section by section.  All credentials  *)
(* are bound to an endpoint for the bucket "vault".  The suite takes any   *)
(* answer but 403 for served.                                              *)
(***************************************************************************)
EXTENDS Acceptance, S3Operations

Vault == <<"vault">>
WrongBucket == <<"wrong-bucket">>
Endpoint == Cred("r2", <<Vault>>)

\* Resources.
Anything == {<<"account:", "*">>, <<"bucket:", "*">>, <<"object:", "*">>}
Below(dir) == Object(Vault, <<dir, "/", "*">>)
InVault == {<<"account:", "*">>, <<"bucket:", "vault">>, Object(Vault, Star)}

S3Statement(effect, actions, resources) ==
  Statement(effect, {<<"s3:", action>> : action \in actions}, resources, {})
S3When(effect, actions, resources, cond) ==
  [S3Statement(effect, actions, resources) EXCEPT !.conditions = {cond}]

\* Requests, authorized under S3Contexts.
Request(method, bucket, key, params) ==
  S3Contexts([method |-> method, bucket |-> bucket, key |-> key, params |-> params,
              source |-> [bucket |-> Missing, key |-> Missing], deletes |-> {}])

ListBuckets == Request("GET", Missing, Missing, {})
ListOf(bucket) == Request("GET", bucket, Missing, {"list-type=2"})
GetOf(key) == Request("GET", Vault, key, {})
HeadOf(key) == Request("HEAD", Vault, key, {})
PutOf(key) == Request("PUT", Vault, key, {})
DropOf(key) == Request("DELETE", Vault, key, {})

FileName(name, extension) == <<name, ".", extension>>
Txt(name) == FileName(name, "txt")
InDir(dir, file) == <<dir, "/">> \o file

S3Key(policy, served, refused) == Scenario(Endpoint, policy, served, refused)

-----------------------------------------------------------------------------
\* "R2 Binding Validation"
R2Bindings ==
  LET Refused(actions, resources) ==
        Rejection(Endpoint, <<Statement("allow", actions, resources, {})>>)
      All == {<<"s3:", "*">>}
      Host == <<"purge:", "host">>
  IN {Refused({Host}, Anything), Refused(All, {Star}), Refused(All, {<<"zone:", "some-zone">>}),
      Refused(All, {<<"account:", "*">>, <<"bucket:", "not-allowed">>, <<"object:", "*">>}),
      Refused(All, {<<"account:", "*">>, Object(WrongBucket, Txt("key"))}),
      Refused({Host, <<"s3:", "GetObject">>}, {Star, <<"zone:", "foo">>}),
      S3Key(<<S3Statement("allow", {"*"}, InVault)>>, {}, {})}

\* "S3 Operations (full-access)"
FullAccess ==
  LET key == Txt("smoke-test") IN
  {S3Key(<<S3Statement("allow", {"*"}, Anything)>>,
         {ListBuckets, PutOf(key), HeadOf(key), GetOf(key), ListOf(Vault), DropOf(key)}, {})}

\* "S3 Multipart Upload"
Multipart ==
  LET key == FileName("smoke-multipart", "bin")
      Step(method, param) == Request(method, Vault, key, {param})
  IN {S3Key(<<S3Statement("allow", {"*"}, Anything)>>,
            {Step("POST", "uploads"), Step("PUT", "uploadId"), Step("POST", "uploadId"),
             HeadOf(key), GetOf(key), DropOf(key)}, {})}

\* "S3 IAM Enforcement (read-only)"
ReadOnly ==
  LET actions == {"GetObject", "HeadObject", "ListBucket", "ListAllMyBuckets"} IN
  {S3Key(<<S3Statement("allow", actions, Anything)>>, {ListBuckets},
         {PutOf(Txt("smoke-denied")), DropOf(Txt("nonexistent"))})}

\* "S3 Action Mutation Coverage"
OneS3Action ==
  LET Only(action, served, refused) == S3Key(<<S3Statement("allow", {action}, Anything)>>, {served}, {refused})
      key == Txt("nonexistent")
  IN {Only("GetObject", GetOf(key), PutOf(key)), Only("PutObject", PutOf(key), GetOf(key)),
      Only("DeleteObject", DropOf(key), PutOf(key)), Only("ListBucket", ListOf(Vault), PutOf(key)),
      Only("ListAllMyBuckets", ListBuckets, PutOf(key))}

\* "S3 Deny Statement Authorization"
S3Denials ==
  LET key == Txt("nonexistent")
      Without(allowed, denied) ==
        <<S3Statement("allow", allowed, Anything), S3Statement("deny", denied, Anything)>>
  IN {S3Key(Without({"*"}, {"PutObject"}), {GetOf(key), ListBuckets, DropOf(key)}, {PutOf(key)}),
      S3Key(Without({"*"}, {"DeleteObject"}), {PutOf(key)}, {DropOf(key)}),
      S3Key(<<S3Statement("deny", {"*"}, Anything)>>, {}, {ListBuckets, GetOf(Txt("foo"))}),
      S3Key(Without({"GetObject", "ListBucket"}, {"ListBucket"}), {GetOf(key)}, {ListOf(Vault)})}

-----------------------------------------------------------------------------
\* "S3 Resource Scoping"
BucketScope ==
  {S3Key(<<S3Statement("allow", {"*"}, InVault)>>, {ListOf(Vault), GetOf(Txt("nonexistent"))},
         {ListOf(WrongBucket), Request("GET", WrongBucket, Txt("some-key"), {})})}

\* "S3 Prefix Scoping"
PrefixScope ==
  LET image == InDir("images", FileName("smoke-test", "jpg"))
      secret == InDir("secrets", Txt("forbidden"))
  IN {S3Key(<<S3Statement("allow", {"GetObject", "PutObject", "ListBucket"},
                          {<<"account:", "*">>, <<"bucket:", "vault">>, Below("images")})>>,
            {PutOf(image), GetOf(image)}, {GetOf(secret), PutOf(secret)})}

\* "S3 Resource-Scoped Deny"
ScopedDeny ==
  LET public == InDir("public", Txt("test"))
      secret == InDir("secrets", Txt("key"))
  IN {S3Key(<<S3Statement("allow", {"*"}, InVault), S3Statement("deny", {"GetObject"}, {Below("secrets")})>>,
            {PutOf(public), GetOf(public), PutOf(secret)}, {GetOf(secret)})}

\* "S3 Exact Object Key Scoping"
ExactKey ==
  LET app == InDir("config", FileName("app", "json")) IN
  {S3Key(<<S3Statement("allow", {"GetObject", "PutObject"}, {Object(Vault, app)})>>,
         {PutOf(app), GetOf(app)},
         {GetOf(InDir("config", FileName("db", "json"))), GetOf(InDir("data", FileName("report", "csv"))),
          ListBuckets})}

\* "S3 Multiple Prefix Patterns"
SeveralPrefixes ==
  {S3Key(<<S3Statement("allow", {"GetObject", "PutObject"}, {Below("images"), Below("docs")}),
           S3Statement("allow", {"ListBucket"}, {<<"bucket:", "vault">>})>>,
         {GetOf(InDir("images", FileName("photo", "jpg"))), GetOf(InDir("docs", FileName("readme", "md"))),
          ListOf(Vault)},
         {GetOf(InDir("secrets", Txt("token"))), GetOf(Txt("root-file"))})}

\* "S3 Key Extension Condition"
ExtensionCondition ==
  {S3Key(<<S3When("allow", {"PutObject", "GetObject"}, InVault,
                  Leaf("key.extension", "in", {<<"jpg">>, <<"png">>, <<"webp">>}))>>,
         {PutOf(InDir("uploads", FileName("photo", "jpg"))), GetOf(InDir("images", FileName("logo", "png")))},
         {PutOf(InDir("uploads", Txt("doc"))), GetOf(InDir("bin", FileName("tool", "exe")))})}

\* "S3 Key Prefix Condition"
PrefixCondition ==
  {S3Key(<<S3When("allow", {"GetObject", "PutObject", "DeleteObject"}, InVault,
                  Is("key.prefix", "eq", <<"uploads", "/">>))>>,
         {GetOf(InDir("uploads", Txt("file")))},
         {GetOf(InDir("downloads", Txt("file"))), GetOf(Txt("root"))})}

\* "S3 Nested Directory Deny"
NestedDeny ==
  LET key == InDir("secrets", Txt("api-key"))
      report == InDir("archive", FileName("old-report", "pdf"))
  IN {S3Key(<<S3Statement("allow", {"*"}, InVault),
              S3Statement("deny", {"GetObject", "PutObject"}, {Below("secrets")}),
              S3Statement("deny", {"DeleteObject"}, {Below("archive")})>>,
            {GetOf(InDir("public", FileName("page", "html"))), DropOf(key), PutOf(report), ListBuckets},
            {GetOf(key), PutOf(key), DropOf(report)})}

\* "S3 Deny by Extension"
ExtensionDeny ==
  {S3Key(<<S3Statement("allow", {"*"}, InVault),
           S3When("deny", {"PutObject"}, {Object(Vault, Star)},
                  Leaf("key.extension", "in", {<<"exe">>, <<"sh">>, <<"bat">>}))>>,
         {PutOf(Txt("safe")), GetOf(FileName("nonexistent", "exe"))},
         {PutOf(FileName("tool", "exe")), PutOf(FileName("script", "sh"))})}

\* "S3 Overlapping Allow + Deny Prefixes"
Overlap ==
  LET In(file) == InDir("restricted", Txt(file)) IN
  {S3Key(<<S3Statement("allow", {"*"}, InVault), S3Statement("deny", {"GetObject"}, {Below("restricted")}),
           S3Statement("allow", {"GetObject"}, {Object(Vault, In("public-readme"))})>>,
         {GetOf(InDir("public", Txt("hello"))), PutOf(In("new"))},
         {GetOf(In("secret")), GetOf(In("public-readme"))})}

\* "S3 Key Filename Condition"
FilenameCondition ==
  LET report == InDir("data", FileName("report", "csv"))
      Hidden(dir, name) == InDir(dir, <<".", name>>)
  IN {S3Key(<<S3Statement("allow", {"*"}, InVault),
              S3When("deny", {"PutObject"}, {Object(Vault, Star)}, Is("key.filename", "starts_with", <<".">>))>>,
            {PutOf(report), GetOf(report), DropOf(Hidden("config", "hidden-cfg"))},
            {PutOf(Hidden("config", "hidden-cfg")), PutOf(Hidden("repo", "secret-data"))})}

S3Scenarios ==
  R2Bindings \cup FullAccess \cup Multipart \cup ReadOnly \cup OneS3Action \cup S3Denials
    \cup BucketScope \cup PrefixScope \cup ScopedDeny \cup ExactKey \cup SeveralPrefixes
    \cup ExtensionCondition \cup PrefixCondition \cup NestedDeny \cup ExtensionDeny
    \cup Overlap \cup FilenameCondition
=============================================================================
