--------------------------- MODULE ServiceRoutes ---------------------------
(***************************************************************************)
(* The routes of the CF API proxy (src/src/cf/): which requests each       *)
(* service takes, in the order in which they are registered, the context   *)
(* under which each is authorized, and the path that it is forwarded to,   *)
(* with the method it was called with.                                     *)
(*                                                                         *)
(* A path is a sequence of segments below the service's mount point, as    *)
(* the client spelled them.  A parameter is written as the condition field *)
(* that it fills; "?" fills none, and RestField takes all the segments     *)
(* that are left.  A handler knows a parameter decoded, and puts it into   *)
(* the path that it forwards, encoded again or as it is.  The fields that  *)
(* come from a body (names of new databases, SQL commands) and the choice  *)
(* between text and binary bodies are left out.                            *)
(***************************************************************************)
EXTENDS PolicyEngine, TLC

Services == {"d1", "kv", "workers", "queues", "vectorize", "hyperdrive", "dns"}

\* The field that names the instance (database, namespace, script, ...).
InstanceField == [
  d1 |-> "d1.database_id", kv |-> "kv.namespace_id", workers |-> "workers.script_name",
  queues |-> "queues.queue_id", vectorize |-> "vectorize.index_name",
  hyperdrive |-> "hyperdrive.config_id", dns |-> "none"]

RestField == "kv.key_name"

SubFields == {RestField, "workers.version_id", "workers.deployment_id",
              "workers.secret_name", "workers.domain_id", "queues.consumer_id"}

PathFields == Range(InstanceField) \cup SubFields

Params == PathFields \cup {"?"}

Route(method, path, action) == [method |-> method, path |-> path, action |-> action]
Get(path, action) == Route("GET", path, action)
Post(path, action) == Route("POST", path, action)
Put(path, action) == Route("PUT", path, action)
Patch(path, action) == Route("PATCH", path, action)
Delete(path, action) == Route("DELETE", path, action)

-----------------------------------------------------------------------------
(* D1. *)

Database(tail) == <<"database", "d1.database_id">> \o tail

D1DataRoutes == <<
  Post(<<"database">>, "create"), Get(<<"database">>, "list"),
  Post(Database(<<"export">>), "export"), Post(Database(<<"import">>), "import"),
  Post(Database(<<"query">>), "query"), Post(Database(<<"raw">>), "raw")>>

D1ManageRoutes == <<
  Get(Database(<<"time_travel", "bookmark">>), "time_travel"),
  Post(Database(<<"time_travel", "restore">>), "time_travel"),
  Get(Database(<<>>), "get"), Put(Database(<<>>), "update"),
  Patch(Database(<<>>), "update"), Delete(Database(<<>>), "delete")>>

(* KV. *)

Namespace(tail) == <<"namespaces", "kv.namespace_id">> \o tail

KvValueRoutes == <<
  Post(<<"namespaces">>, "create_namespace"), Get(<<"namespaces">>, "list_namespaces"),
  Get(Namespace(<<"keys">>), "list_keys"),
  Put(Namespace(<<"values", RestField>>), "put_value"),
  Get(Namespace(<<"values", RestField>>), "get_value"),
  Delete(Namespace(<<"values", RestField>>), "delete_value")>>

KvBulkRoutes == <<
  Get(Namespace(<<"metadata", RestField>>), "get_metadata"),
  Put(Namespace(<<"bulk">>), "bulk_write"),
  Post(Namespace(<<"bulk", "delete">>), "bulk_delete"),
  Post(Namespace(<<"bulk", "get">>), "bulk_get"),
  Get(Namespace(<<>>), "get_namespace")>>

KvNamespaceRoutes == <<
  Put(Namespace(<<>>), "update_namespace"), Delete(Namespace(<<>>), "delete_namespace")>>

(* Workers. *)

Script(tail) == <<"scripts", "workers.script_name">> \o tail

WorkersScriptRoutes == <<
  Get(<<"scripts">>, "list_scripts"), Get(<<"scripts-search">>, "list_scripts"),
  Put(Script(<<>>), "update_script"), Get(Script(<<>>), "get_script"),
  Delete(Script(<<>>), "delete_script"), Put(Script(<<"content">>), "update_content")>>

WorkersSettingsRoutes == <<
  Get(Script(<<"content", "v2">>), "get_content"),
  Patch(Script(<<"settings">>), "update_settings"),
  Get(Script(<<"settings">>), "get_settings"),
  Patch(Script(<<"script-settings">>), "update_script_settings"),
  Get(Script(<<"script-settings">>), "get_script_settings"),
  Post(Script(<<"versions">>), "create_version")>>

WorkersDeploymentRoutes == <<
  Get(Script(<<"versions">>), "list_versions"),
  Get(Script(<<"versions", "workers.version_id">>), "get_version"),
  Post(Script(<<"deployments">>), "create_deployment"),
  Get(Script(<<"deployments">>), "list_deployments"),
  Get(Script(<<"deployments", "workers.deployment_id">>), "get_deployment"),
  Delete(Script(<<"deployments", "workers.deployment_id">>), "delete_deployment")>>

WorkersSecretRoutes == <<
  Put(Script(<<"secrets">>), "update_secret"), Get(Script(<<"secrets">>), "list_secrets"),
  Get(Script(<<"secrets", "workers.secret_name">>), "get_secret"),
  Delete(Script(<<"secrets", "workers.secret_name">>), "delete_secret"),
  Put(Script(<<"schedules">>), "update_schedules"),
  Get(Script(<<"schedules">>), "get_schedules")>>

WorkersTailRoutes == <<
  Post(Script(<<"tails">>), "create_tail"), Get(Script(<<"tails">>), "list_tails"),
  Delete(Script(<<"tails", "?">>), "delete_tail"),
  Post(Script(<<"subdomain">>), "update_subdomain"),
  Get(Script(<<"subdomain">>), "get_subdomain"),
  Delete(Script(<<"subdomain">>), "delete_subdomain")>>

WorkersAccountRoutes == <<
  Post(Script(<<"assets-upload-session">>), "upload_assets"),
  Get(<<"subdomain">>, "get_account_subdomain"),
  Put(<<"subdomain">>, "update_account_subdomain"),
  Delete(<<"subdomain">>, "delete_account_subdomain"),
  Get(<<"account-settings">>, "get_account_settings"),
  Put(<<"account-settings">>, "update_account_settings"),
  Get(<<"domains">>, "list_domains"), Put(<<"domains">>, "update_domain"),
  Get(<<"domains", "workers.domain_id">>, "get_domain")>>

WorkersTelemetryRoutes == <<
  Delete(<<"domains", "workers.domain_id">>, "delete_domain"),
  Post(<<"observability", "telemetry", "keys">>, "telemetry"),
  Post(<<"observability", "telemetry", "query">>, "telemetry"),
  Post(<<"observability", "telemetry", "values">>, "telemetry")>>

(* Queues. *)

Queue(tail) == <<"queues.queue_id">> \o tail

QueuesCrudRoutes == <<
  Post(<<>>, "create"), Get(<<>>, "list"),
  Get(Queue(<<>>), "get"), Put(Queue(<<>>), "update"), Patch(Queue(<<>>), "edit"),
  Delete(Queue(<<>>), "delete"), Post(Queue(<<"messages">>), "push_message")>>

QueuesMessageRoutes == <<
  Post(Queue(<<"messages", "batch">>), "bulk_push"),
  Post(Queue(<<"messages", "pull">>), "pull_messages"),
  Post(Queue(<<"messages", "ack">>), "ack_messages"),
  Post(Queue(<<"purge">>), "purge"), Get(Queue(<<"purge">>), "purge_status"),
  Post(Queue(<<"consumers">>), "create_consumer"),
  Get(Queue(<<"consumers">>), "list_consumers")>>

QueuesConsumerRoutes == <<
  Get(Queue(<<"consumers", "queues.consumer_id">>), "get_consumer"),
  Put(Queue(<<"consumers", "queues.consumer_id">>), "update_consumer"),
  Delete(Queue(<<"consumers", "queues.consumer_id">>), "delete_consumer")>>

(* Vectorize. *)

Index(tail) == <<"v2", "indexes", "vectorize.index_name">> \o tail

VectorizeIndexRoutes == <<
  Post(<<"v2", "indexes">>, "create_index"), Get(<<"v2", "indexes">>, "list_indexes"),
  Get(Index(<<>>), "get_index"), Delete(Index(<<>>), "delete_index"),
  Get(Index(<<"info">>), "get_info"), Post(Index(<<"query">>), "query"),
  Post(Index(<<"insert">>), "insert")>>

VectorizeVectorRoutes == <<
  Post(Index(<<"upsert">>), "upsert"), Post(Index(<<"get_by_ids">>), "get_by_ids"),
  Post(Index(<<"delete_by_ids">>), "delete_by_ids"), Get(Index(<<"list">>), "list_vectors"),
  Post(Index(<<"metadata_index", "create">>), "create_metadata_index"),
  Get(Index(<<"metadata_index", "list">>), "list_metadata_indexes"),
  Post(Index(<<"metadata_index", "delete">>), "delete_metadata_index")>>

(* Hyperdrive. *)

Config(tail) == <<"configs", "hyperdrive.config_id">> \o tail

HyperdriveRoutes == <<
  Post(<<"configs">>, "create"), Get(<<"configs">>, "list"),
  Get(Config(<<>>), "get"), Put(Config(<<>>), "update"), Patch(Config(<<>>), "edit"),
  Delete(Config(<<>>), "delete")>>

(* DNS, mounted under a zone. *)

\* Mutant of DnsCollectionRoutes: the export comes after the records.
DnsCollectionRoutesLateExport == <<
  Post(<<"dns_records">>, "create"), Get(<<"dns_records">>, "read"),
  Get(<<"dns_records", "?">>, "read"),
  Get(<<"dns_records", "export">>, "export"),
  Post(<<"dns_records", "batch">>, "batch"), Post(<<"dns_records", "import">>, "import")>>

DnsCollectionRoutes == <<
  Post(<<"dns_records">>, "create"), Get(<<"dns_records">>, "read"),
  Get(<<"dns_records", "export">>, "export"),
  Post(<<"dns_records", "batch">>, "batch"), Post(<<"dns_records", "import">>, "import")>>

DnsRecordRoutes == <<
  Get(<<"dns_records", "?">>, "read"), Patch(<<"dns_records", "?">>, "update"),
  Put(<<"dns_records", "?">>, "update"), Delete(<<"dns_records", "?">>, "delete")>>

-----------------------------------------------------------------------------
\* The routes of each service in registration order.
RoutesOf == [
  d1         |-> D1DataRoutes \o D1ManageRoutes,
  kv         |-> KvValueRoutes \o KvBulkRoutes \o KvNamespaceRoutes,
  workers    |-> WorkersScriptRoutes \o WorkersSettingsRoutes \o WorkersDeploymentRoutes
                   \o WorkersSecretRoutes \o WorkersTailRoutes \o WorkersAccountRoutes
                   \o WorkersTelemetryRoutes,
  queues     |-> QueuesCrudRoutes \o QueuesMessageRoutes \o QueuesConsumerRoutes,
  vectorize  |-> VectorizeIndexRoutes \o VectorizeVectorRoutes,
  hyperdrive |-> HyperdriveRoutes,
  dns        |-> DnsCollectionRoutes \o DnsRecordRoutes]

(***************************************************************************)
(* Dispatch (the Hono router): the first registered route that matches.    *)
(***************************************************************************)
MatchesPath(pattern, path) ==
  /\ \/ Len(pattern) = Len(path)
     \/ /\ pattern # <<>> /\ Last(pattern) = RestField
        /\ Len(pattern) <= Len(path)
  /\ \A i \in DOMAIN pattern : pattern[i] \in Params \/ pattern[i] = path[i]

Matching(service, method, path) ==
  {i \in DOMAIN RoutesOf[service] :
     RoutesOf[service][i].method = method /\ MatchesPath(RoutesOf[service][i].path, path)}

First(indices) == CHOOSE i \in indices : \A j \in indices : i <= j

Dispatched(service, method, path) == RoutesOf[service][First(Matching(service, method, path))]

(***************************************************************************)
(* Texts.  A segment stands for its text, a sequence of atoms, which is    *)
(* the segment itself unless it has an escaped slash.                      *)
(***************************************************************************)
Escaped == "x%2Fy" :> <<"x", "/", "y">>

Decoded(segment) == IF segment \in DOMAIN Escaped THEN Escaped[segment] ELSE <<segment>>

\* The text of several segments.
TextOf(segments) ==
  FlattenSeq([i \in DOMAIN segments |->
                IF i = 1 THEN Decoded(segments[i]) ELSE <<"/">> \o Decoded(segments[i])])

\* extractKeyName: whatever follows the first segment that is like the one in
\* front of the key, even if that is the namespace.
KeyName(route, path) ==
  LET marker == route.path[Len(route.path) - 1]
  IN TextOf(SubSeq(path, SelectInSeq(path, LAMBDA s : s = marker) + 1, Len(path)))


FieldValue(route, path, field) ==
  IF field \notin Range(route.path) THEN Missing
  ELSE IF field = RestField THEN KeyName(route, path)
  ELSE Decoded(path[SelectInSeq(route.path, LAMBDA s : s = field)])

\* account:<id>, account:<id>/<service>/<instance>, or zone:<id>.
ResourceOf(service, route, account, path) ==
  LET instance == FieldValue(route, path, InstanceField[service]) IN
  IF service = "dns" THEN <<"zone:">> \o account
  ELSE <<"account:">> \o account
         \o (IF instance = Missing THEN <<>> ELSE <<"/", service, "/">> \o instance)

ActionOf(service, route) == <<service \o ":", route.action>>

ContextOf(service, route, account, path) ==
  Context(ActionOf(service, route), ResourceOf(service, route, account, path),
          [f \in PathFields |-> FieldValue(route, path, f)])

(***************************************************************************)
(* The path that a request is forwarded to, as a sequence of texts: the    *)
(* service's part of what proxyToCfApi fetches.                            *)
(***************************************************************************)
\* The parameters that are put through encodeURIComponent.
EncodedParams == {"vectorize.index_name", "workers.script_name", "workers.secret_name"}

\* A slash in a parameter that is not encoded again begins a new segment.
Split(text) ==
  FoldLeft(LAMBDA parts, atom :
             IF atom = "/" THEN Append(parts, <<>>)
             ELSE Append(Front(parts), Append(Last(parts), atom)),
           <<<<>>>>, text)

ForwardedPath(route, path) ==
  LET Written(param, segment) ==
        IF param = RestField THEN <<KeyName(route, path)>>
        ELSE IF param \in Params \ EncodedParams THEN Split(Decoded(segment))
        ELSE <<Decoded(segment)>>
  IN FlattenSeq([i \in DOMAIN route.path |-> Written(route.path[i], path[i])])
=============================================================================
