---------------------------- MODULE AcceptanceCf ----------------------------
(***************************************************************************)
(* The scenarios of cli/smoke/cf-proxy.ts and cli/smoke/dns.ts, section by *)
(* section: keys for an upstream token of account "a", and of zone "z1".   *)
(* 404 from Cloudflare counts as served.                                   *)
(***************************************************************************)
EXTENDS Acceptance, ServiceRoutes, DnsOperations, TLC

AccountToken == Cred("account", <<<<"a">>>>)

\* Resources: the account, and one instance of a service.
Account == <<"account:", "a">>
Instance(service, id) == Account \o <<"/", service, "/", id>>

\* allow or deny, with actions of one service.
CfStatement(effect, service, actions, resource) ==
  Statement(effect, {<<service \o ":", action>> : action \in actions}, {resource}, {})
CfMay(service, actions, resource) == CfStatement("allow", service, actions, resource)
CfMayNot(service, actions, resource) == CfStatement("deny", service, actions, resource)
CfIf(stmt, field, op, values) == [stmt EXCEPT !.conditions = {Leaf(field, op, values)}]

CfKey(policy, served, refused) == Scenario(AccountToken, policy, served, refused)

-----------------------------------------------------------------------------
(* Requests, as the routes dispatch and authorize them. *)

Call(service, method, path) ==
  {ContextOf(service, Dispatched(service, method, path), <<"a">>, path)}

\* classifySqlCommand: the statement's first word, when it is one of these.
SqlCommands == {"select", "insert", "update", "delete", "create", "drop", "alter", "pragma"}
SqlCommandOf(sql) == IF Head(sql) \in SqlCommands THEN <<Head(sql)>> ELSE <<"other">>

D1List == Call("d1", "GET", <<"database">>)
D1Create == Call("d1", "POST", <<"database">>)
D1Get(id) == Call("d1", "GET", <<"database", id>>)
D1Delete(id) == Call("d1", "DELETE", <<"database", id>>)

\* d1QueryContext: the command is a field of the request when there is SQL.
D1Query(id, sql) ==
  {[ctx EXCEPT !.fields = @ @@ ("d1.sql_command" :> SqlCommandOf(sql))] :
     ctx \in Call("d1", "POST", <<"database", id, "query">>)}
D1Select(id) == D1Query(id, <<"select", "1">>)

KvList == Call("kv", "GET", <<"namespaces">>)
KvCreate == Call("kv", "POST", <<"namespaces">>)
KvDelete(ns) == Call("kv", "DELETE", <<"namespaces", ns>>)
KvKeys(ns) == Call("kv", "GET", <<"namespaces", ns, "keys">>)
KvValue(method, ns, key) == Call("kv", method, <<"namespaces", ns, "values">> \o key)
KvBulk(ns) == Call("kv", "PUT", <<"namespaces", ns, "bulk">>)

ScriptList == Call("workers", "GET", <<"scripts">>)
ScriptGet(name) == Call("workers", "GET", <<"scripts", name>>)
ScriptSettings(name) == Call("workers", "GET", <<"scripts", name, "settings">>)
ScriptDelete(name) == Call("workers", "DELETE", <<"scripts", name>>)

-----------------------------------------------------------------------------
\* "CF Proxy Token Binding Validation"
CfBindings ==
  LET Refused(action, resource) ==
        Rejection(AccountToken, <<Statement("allow", {action}, {resource}, {})>>)
      All == <<"d1:", "*">>
  IN {Refused(<<"purge:", "host">>, Account), Refused(<<"dns:", "read">>, Account),
      Refused(All, <<"zone:", "some-zone">>), Refused(All, <<"account:", "*">>),
      Refused(All, <<"account:", "wrong">>),
      Refused(All, <<"account:", "wrong", "/", "d1", "/", "some-db">>),
      CfKey(<<CfMay("d1", {"query"}, Instance("d1", "some-db"))>>, {}, {})}

\* The wildcard key: "CF Proxy — D1", "KV", "Workers", "Queues", "Vectorize" and
\* "Hyperdrive".
EveryService ==
  Statement("allow", {<<service \o ":", "*">> : service \in Services \ {"dns"}}, {Account}, {})

D1Operations == {D1List, D1Create, D1Get("db"), D1Select("db"), D1Delete("db")}

KvOperations ==
  {KvList, KvCreate, KvBulk("ns"), KvKeys("ns"), KvDelete("ns")}
    \cup {KvValue(method, "ns", <<"smoke-key">>) : method \in {"GET", "DELETE"}}

OtherLists ==
  {ScriptList, Call("workers", "GET", <<"subdomain">>), Call("queues", "GET", <<>>),
   Call("vectorize", "GET", <<"v2", "indexes">>), Call("hyperdrive", "GET", <<"configs">>)}

WildcardKey == {CfKey(<<EveryService>>, D1Operations \cup KvOperations \cup OtherLists, {})}

\* "CF Proxy — D1 IAM"
D1ReadOnly == {CfKey(<<CfMay("d1", {"list", "get", "query"}, Account)>>, {D1List}, {D1Create})}

\* "CF Proxy — D1 Resource Scoping"
D1Scopes ==
  {CfKey(<<CfMay("d1", {"query", "get"}, Instance("d1", "db1"))>>,
         {D1Select("db1"), D1Get("db1")}, {D1Select("db2"), D1List, D1Get("db2")})}

\* "CF Proxy — KV Resource Scoping"
KvScopes ==
  {CfKey(<<CfMay("kv", {"list_keys", "get_value", "put_value"}, Instance("kv", "ns"))>>,
         {KvKeys("ns")}, {KvKeys("other"), KvList})}

\* "CF Proxy — D1 Sub-Resource Deny"
D1Denials ==
  {CfKey(<<CfMay("d1", {"*"}, Account), CfMayNot("d1", {"query"}, Instance("d1", "db2"))>>,
         {D1List, D1Select("db1"), D1Get("db2")}, {D1Select("db2")})}

\* "CF Proxy — Workers Script Scoping" and "Workers Condition Fields"
ScriptScopes ==
  {CfKey(<<CfMay("workers", {"get_script", "get_settings", "list_versions"}, Instance("workers", "s1"))>>,
         {ScriptGet("s1"), ScriptSettings("s1")}, {ScriptGet("s2"), ScriptList, ScriptSettings("s2")}),
   CfKey(<<CfIf(CfMay("workers", {"get_script", "get_settings"}, Account),
                "workers.script_name", "eq", {<<"s1">>})>>,
         {ScriptGet("s1")}, {ScriptGet("s2")})}

\* "CF Proxy — Workers Deny Script Operation"
ScriptDenials ==
  {CfKey(<<CfMay("workers", {"*"}, Account), CfMayNot("workers", {"delete_script"}, Instance("workers", "s1"))>>,
         {ScriptList, ScriptGet("s1"), ScriptGet("s2")}, {ScriptDelete("s1")})}

\* "CF Proxy — D1 sql_command Condition"
SqlConditions ==
  LET db == Instance("d1", "db")
      Sql(word) == D1Query("db", <<word>>)
  IN {CfKey(<<CfIf(CfMay("d1", {"query"}, db), "d1.sql_command", "eq", {<<"select">>})>>,
            {Sql("select")}, {Sql("create")}),
      CfKey(<<CfMay("d1", {"query", "get", "list"}, Account),
              CfIf(CfMayNot("d1", {"query"}, Account), "d1.sql_command", "in",
                   {<<"drop">>, <<"delete">>, <<"alter">>})>>,
            {Sql("select"), Sql("create"), D1List}, {Sql("drop")})}

\* "CF Proxy — KV key_name Condition"
KvConditions ==
  LET ns == Instance("kv", "ns")
      Under(actions, dir, stmt(_, _, _)) ==
        CfIf(stmt("kv", actions, ns), RestField, "starts_with", {<<dir, "/">>})
      GetKey(dir, name) == KvValue("GET", "ns", <<dir, name>>)
  IN {CfKey(<<Under({"get_value"}, "config", CfMay)>>,
            {GetKey("config", "app")}, {GetKey("secrets", "api-key")}),
      CfKey(<<CfMay("kv", {"get_value", "put_value", "list_keys"}, ns), Under({"put_value"}, "secrets", CfMayNot)>>,
            {GetKey("secrets", "api-key"), KvKeys("ns")}, {})}

\* "CF Proxy — Cross-Service Scoping" and "Multi-Service Allow + Deny"
CrossService ==
  {CfKey(<<CfMay("d1", {"query", "get"}, Instance("d1", "db")), CfMay("kv", {"list_namespaces"}, Account)>>,
         {D1Select("db"), KvList}, {ScriptList, D1List, D1Create}),
   CfKey(<<Statement("allow", {<<service \o ":", "*">> : service \in {"d1", "kv", "workers"}}, {Account}, {}),
           Statement("deny", {<<"d1:", "delete">>, <<"kv:", "delete_namespace">>, <<"workers:", "delete_script">>},
                     {Account}, {})>>,
         {D1List, KvList, ScriptList}, {D1Delete("db"), ScriptDelete("s1")})}

-----------------------------------------------------------------------------
(* dns.ts *)

ZoneOf(id) == <<"zone:">> \o <<id>>
DnsKey(policy, served, refused) == Scenario(Cred("zone", <<<<"z1">>>>), policy, served, refused)
DnsMay(actions) == CfMay("dns", actions, ZoneOf("z1"))
DnsMayNot(actions) == CfMayNot("dns", actions, ZoneOf("z1"))

RecordOf(type) == [NoRecord EXCEPT !["dns.type"] = <<type>>]

\* The route names the action, the body the record.
DnsCall(zone, method, tail, record) ==
  {DnsContext(Dispatched("dns", method, <<"dns_records">> \o tail).action, <<zone>>, record)}

DnsList(zone) == DnsCall(zone, "GET", <<>>, NoRecord)
DnsExport == DnsCall("z1", "GET", <<"export">>, NoRecord)
DnsCreate(type) == DnsCall("z1", "POST", <<>>, RecordOf(type))
DnsDelete == DnsCall("z1", "DELETE", <<"r1">>, NoRecord)

\* "DNS Authentication" (wrong zone), "DNS List Records", "DNS CRUD" and "DNS Export"
DnsWildcard ==
  {DnsKey(<<DnsMay({"*"})>>,
          {DnsList("z1"), DnsCreate("A"), DnsExport, DnsDelete, DnsCall("z1", "GET", <<"r1">>, NoRecord)}
            \cup {DnsCall("z1", method, <<"r1">>, RecordOf("A")) : method \in {"PATCH", "PUT"}},
          {DnsList("z2")})}

\* "DNS IAM Scoped Keys"
DnsScopes ==
  {DnsKey(<<DnsMay({"read", "export"})>>, {DnsList("z1"), DnsExport}, {DnsCreate("A")}),
   DnsKey(<<DnsMay({"create"})>>, {DnsCreate("TXT")}, {DnsList("z1")})}

\* "DNS Condition Scoping"
DnsConditions ==
  {DnsKey(<<CfIf(DnsMay({"create", "read"}), "dns.type", "eq", {<<"A">>})>>, {}, {DnsCreate("TXT")})}

\* "DNS Deny Statements"
DnsDenials ==
  {DnsKey(<<DnsMay({"*"}), DnsMayNot({"delete"})>>, {DnsList("z1"), DnsCreate("TXT")}, {DnsDelete}),
   DnsKey(<<DnsMayNot({"*"})>>, {}, {DnsList("z1"), DnsCreate("TXT")})}

\* "DNS Action Mutation Coverage"
OneDnsAction ==
  {DnsKey(<<DnsMay({"read"})>>, {DnsList("z1")}, {DnsCreate("A")}),
   DnsKey(<<DnsMay({"export"})>>, {DnsExport}, {DnsList("z1")})}

CfScenarios ==
  CfBindings \cup WildcardKey \cup D1ReadOnly \cup D1Scopes \cup KvScopes \cup D1Denials
    \cup ScriptScopes \cup ScriptDenials \cup SqlConditions \cup KvConditions \cup CrossService
    \cup DnsWildcard \cup DnsScopes \cup DnsConditions \cup DnsDenials \cup OneDnsAction
=============================================================================
