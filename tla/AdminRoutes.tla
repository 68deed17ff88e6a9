---------------------------- MODULE AdminRoutes ----------------------------
(***************************************************************************)
(* The administration API (src/src/routes/admin*.ts): who is let through   *)
(* to which handler, and what a handler does to the row that its request   *)
(* names, one RPC to the Gatekeeper object at a time, while other          *)
(* administrators and the daily cleanup do as they please with that row.   *)
(*                                                                         *)
(* A request says in `does` what it is meant to do; whether it asks for a  *)
(* permanent deletion or for a preview follows.  "?" in a path stands for  *)
(* a parameter and "**" for all that is left.  What the requests of the    *)
(* command line client, of the dashboard and of the API document are is    *)
(* the module ClientCalls.  Bodies are left out but for a new expiry.      *)
(***************************************************************************)
EXTENDS ClientCalls

CONSTANTS AdminKey, Stranger,  \* callers with X-Admin-Key, and without anything
          NoRequest, NoHandler

ASSUME AdminAssumption == AdminKey # Stranger

Roles == {"viewer", "operator", "admin"}

Rank == [viewer |-> 1, operator |-> 2, admin |-> 3]

\* A caller by Cloudflare Access, in some groups; the groups that RBAC knows.
Members == [groups : SUBSET Roles, rbac : {{}, {"viewer", "admin"}, Roles}]

Rows == {"absent", "live", "expired", "revoked"}

\* The kinds of resources that there are rows of.
Stored == {"key", "cred", "token", "endpoint", "config"}

VARIABLES
  request,  \* the request in progress: a call of a client and who makes it
  stage,    \* "idle", "sent", "routed", "looked" or "answered"
  handler,  \* the registration that took it
  row,      \* the row that the request names, the new one when it creates one
  changed,  \* the request changed it
  audited,  \* an audit event was sent to the log
  wrote,    \* what an update made of the expiry: "nothing", "date" or "none"
  answer

adminVars == <<request, stage, handler, row, changed, audited, wrote, answer>>

AdminInit ==
  /\ request = NoRequest /\ stage = "idle" /\ handler = NoHandler /\ row = "absent"
  /\ changed = FALSE /\ audited = FALSE /\ wrote = "nothing" /\ answer = "none"

-----------------------------------------------------------------------------
(* Handlers, in registration order. *)

KeyHandlers == On(<<"admin", "keys">>, "key", <<
  <<"POST", <<>>, "create">>, <<"GET", <<>>, "list">>, <<"GET", <<"?">>, "get">>>>)

\* Mutant of KeyChangeHandlers: registered for another method.
KeyChangeHandlersPut == On(<<"admin", "keys">>, "key", <<
  <<"POST", <<"?", "rotate">>, "rotate">>, <<"PUT", <<"?">>, "update">>>>)

KeyChangeHandlers == On(<<"admin", "keys">>, "key", <<
  <<"POST", <<"?", "rotate">>, "rotate">>, <<"PATCH", <<"?">>, "update">>>>)

KeyEndHandlers == On(<<"admin", "keys">>, "key", <<
  <<"DELETE", <<"?">>, "end">>, <<"POST", <<"bulk-revoke">>, "bulk_revoke">>,
  <<"POST", <<"bulk-delete">>, "bulk_delete">>>>)

S3Handlers == On(<<"admin", "s3", "credentials">>, "cred", <<
  <<"POST", <<>>, "create">>, <<"GET", <<>>, "list">>, <<"GET", <<"?">>, "get">>>>)

S3ChangeHandlers == On(<<"admin", "s3", "credentials">>, "cred", <<
  <<"POST", <<"?", "rotate">>, "rotate">>, <<"PATCH", <<"?">>, "update">>>>)

S3EndHandlers == On(<<"admin", "s3", "credentials">>, "cred", <<
  <<"DELETE", <<"?">>, "end">>, <<"POST", <<"bulk-revoke">>, "bulk_revoke">>,
  <<"POST", <<"bulk-delete">>, "bulk_delete">>>>)

Reports == <<<<"GET", <<"events">>, "events">>, <<"GET", <<"summary">>, "summary">>,
             <<"GET", <<"timeseries">>, "timeseries">>>>

S3AnalyticsHandlers == On(<<"admin", "s3", "analytics">>, "s3_log", Reports)
AnalyticsHandlers == On(<<"admin", "analytics">>, "purge_log", Reports)
DnsAnalyticsHandlers == On(<<"admin", "dns", "analytics">>, "dns_log", Reports)
CfAnalyticsHandlers == On(<<"admin", "cf", "analytics">>, "cf_log", Reports)
AuditHandlers == On(<<"admin", "audit">>, "audit_log", <<<<"GET", <<"events">>, "events">>>>)

UpstreamTokenHandlers == On(<<"admin", "upstream-tokens">>, "token", <<
  <<"POST", <<>>, "create">>, <<"GET", <<>>, "list">>, <<"GET", <<"?">>, "get">>,
  <<"PATCH", <<"?">>, "update">>>>)

UpstreamTokenEndHandlers == On(<<"admin", "upstream-tokens">>, "token", <<
  <<"DELETE", <<"?">>, "delete">>, <<"POST", <<"bulk-delete">>, "bulk_delete">>>>)

UpstreamR2Handlers == On(<<"admin", "upstream-r2">>, "endpoint", <<
  <<"POST", <<>>, "create">>, <<"GET", <<>>, "list">>, <<"GET", <<"?">>, "get">>,
  <<"PATCH", <<"?">>, "update">>>>)

UpstreamR2EndHandlers == On(<<"admin", "upstream-r2">>, "endpoint", <<
  <<"DELETE", <<"?">>, "delete">>, <<"POST", <<"bulk-delete">>, "bulk_delete">>>>)

ConfigHandlers == On(<<"admin", "config">>, "config", <<
  <<"GET", <<>>, "get">>, <<"PUT", <<>>, "set">>, <<"DELETE", <<"?">>, "reset">>>>)

MeHandlers == On(<<"admin", "me">>, "me", <<<<"GET", <<>>, "get">>>>)

\* What lies before and beside the administration.  The proxies take it from
\* where their routes begin.
AppHandlers ==
  On(<<>>, "app", <<<<"GET", <<"health">>, "get">>, <<"GET", <<"logout">>, "get">>>>)
    \o On(<<"v1", "zones", "?">>, "purge", <<<<"POST", <<"purge_cache">>, "purge">>>>)

ForwardHandlers ==
  LET Any(base, kind) == On(base, kind, [i \in 1 .. 6 |->
        <<<<"GET", "HEAD", "POST", "PUT", "PATCH", "DELETE">>[i], <<"**">>, "forward">>])
  IN Any(<<"s3">>, "s3") \o Any(<<"cf">>, "cf") \o Any(<<"v1", "zones", "?", "dns_records">>, "dns")

Registrations ==
  AppHandlers \o MeHandlers \o KeyHandlers \o KeyChangeHandlers \o KeyEndHandlers
    \o AnalyticsHandlers \o DnsAnalyticsHandlers \o CfAnalyticsHandlers
    \o S3Handlers \o S3ChangeHandlers \o S3EndHandlers \o S3AnalyticsHandlers
    \o UpstreamTokenHandlers \o UpstreamTokenEndHandlers
    \o UpstreamR2Handlers \o UpstreamR2EndHandlers \o ConfigHandlers \o AuditHandlers
    \o ForwardHandlers

PathMatches(pattern, path) ==
  \E n \in 0 .. Len(pattern) :
    /\ IF n < Len(pattern) THEN pattern[n + 1] = "**" /\ 1 .. n \subseteq DOMAIN path
       ELSE DOMAIN path = 1 .. n
    /\ \A i \in 1 .. n : pattern[i] = path[i] \/ pattern[i] = "?"

Takers(method, path) ==
  {i \in DOMAIN Registrations :
     Registrations[i].method = method /\ PathMatches(Registrations[i].path, path)}

HandlerOf(method, path) ==
  Registrations[CHOOSE i \in Takers(method, path) : \A j \in Takers(method, path) : i <= j]

-----------------------------------------------------------------------------
(* Who may do what. *)

\* The highest role that the groups of a caller by Access give it, or "none".
ResolveRole(groups, rbac) ==
  LET mine == groups \cap rbac IN
  IF rbac = {} THEN "admin"
  ELSE IF mine = {} THEN "none"
  ELSE CHOOSE r \in mine : \A s \in mine : Rank[s] <= Rank[r]

AdminAuth(who) ==
  CASE who = AdminKey -> "admin"
    [] who = Stranger -> "none"
    [] OTHER -> ResolveRole(who.groups, who.rbac)

Guard(at, read, write) == [at |-> at, read |-> read, write |-> write]

\* Mutant of Guards: upstream credentials are guarded as keys are.
GuardsByMethod == {
  Guard("keys", "viewer", "operator"), Guard("s3", "viewer", "operator"),
  Guard("analytics", "viewer", "viewer"), Guard("dns", "viewer", "viewer"),
  Guard("cf", "viewer", "viewer"), Guard("audit", "viewer", "viewer"),
  Guard("upstream-tokens", "viewer", "admin"), Guard("upstream-r2", "viewer", "admin"),
  Guard("config", "viewer", "admin")}

\* requireRole and requireRoleByMethod, by the segment after /admin.
Guards == {
  Guard("keys", "viewer", "operator"), Guard("s3", "viewer", "operator"),
  Guard("analytics", "viewer", "viewer"), Guard("dns", "viewer", "viewer"),
  Guard("cf", "viewer", "viewer"), Guard("audit", "viewer", "viewer"),
  Guard("upstream-tokens", "admin", "admin"), Guard("upstream-r2", "admin", "admin"),
  Guard("config", "viewer", "admin")}

\* Whether the middleware lets a request of this role through.
LetThrough(role, method, path) ==
  /\ role # "none"
  /\ \A g \in Guards :
       2 \in DOMAIN path /\ path[2] = g.at =>
         Rank[role] >= Rank[IF method \in {"GET", "HEAD"} THEN g.read ELSE g.write]

-----------------------------------------------------------------------------
(* A request. *)

AnyCaller == {AdminKey, Stranger} \cup Members

\* Any method on any path that some handler has, whatever it is taken for.
OtherCalls ==
  [method : {"GET", "POST", "PUT", "PATCH", "DELETE"},
   path : {Registrations[i].path : i \in DOMAIN Registrations} \ {<<"s3", "**">>},
   kind : {"any"}, does : {"erase", "preview_delete"}]

Respond(a) == stage' = "answered" /\ answer' = a

Quietly == UNCHANGED <<request, handler, row, changed, audited, wrote>>

SendCall(call, who, asked) ==
  /\ request' = [call |-> call, who |-> who, asked |-> asked]
  /\ stage' = "sent"
  /\ UNCHANGED <<handler, row, changed, audited, wrote, answer>>

\* adminAuth, the guards and the router.
RouteCall ==
  LET call == request.call IN
  /\ stage = "sent"
  /\ IF call.path[1] = "admin" /\ ~LetThrough(AdminAuth(request.who), call.method, call.path)
       THEN Respond("forbidden") /\ UNCHANGED <<handler, row>>
     ELSE IF Takers(call.method, call.path) = {}
       THEN Respond("no_route") /\ UNCHANGED <<handler, row>>
     ELSE /\ stage' = "routed"
          /\ handler' = HandlerOf(call.method, call.path)
          /\ row' \in (IF handler'.kind \in Stored THEN Rows ELSE {"absent"})
          /\ UNCHANGED answer
  /\ UNCHANGED <<request, changed, audited, wrote>>

Bulk == {"bulk_revoke", "bulk_delete"}
Writing == {"create", "rotate", "update", "end", "delete", "set", "reset"} \cup Bulk

\* What validation refuses: a body, an id, a binding.
RefuseCall ==
  /\ stage = "routed" /\ handler.does \in Writing
  /\ Respond("invalid")
  /\ Quietly

\* Reads, previews of bulk operations, and what the proxies take over.
ServeRead ==
  /\ stage = "routed"
  /\ handler.does \notin Writing \/ (handler.does \in Bulk /\ request.call.does \in Previews)
  /\ Respond(IF handler.does = "get" /\ handler.kind \in Stored \ {"config"} /\ row = "absent"
               THEN "not_found" ELSE "ok")
  /\ Quietly

\* The first of two RPCs: the row to end is looked up, the keys bound to an
\* upstream credential are counted, a new key's binding is checked.
LookFirst ==
  /\ stage = "routed"
  /\ handler.does \in {"end", "delete", "create"}
  /\ IF handler.does = "end" /\ row = "absent"
       THEN Respond("not_found")
       ELSE stage' = "looked" /\ UNCHANGED answer
  /\ Quietly

Permanent == request.call.does = "erase" \/ handler.does \in {"delete", "bulk_delete"}

\* The rows on which the writing RPC has an effect.
Affected ==
  CASE handler.does \in {"create", "set"} -> Rows
    [] handler.does = "rotate" -> {"live"}
    [] handler.does = "update" -> Rows \ {"absent", "revoked"}
    [] handler.does = "reset" \/ Permanent -> Rows \ {"absent"}
    [] OTHER -> {"live", "expired"}

RowAfter ==
  CASE handler.does \in {"create", "set"} -> "live"
    [] handler.does = "update" -> row
    [] handler.does = "reset" \/ Permanent -> "absent"
    [] OTHER -> "revoked"

\* The RPC; what became of the row, if anything.
WriteRow ==
  IF row \in Affected
    THEN /\ row' = RowAfter
         /\ changed' = TRUE
         /\ wrote' = IF handler.does = "update" THEN ExpirySent(handler.kind, request.asked) ELSE wrote
    ELSE UNCHANGED <<row, changed, wrote>>

Ready ==
  \/ stage = "looked"
  \/ /\ stage = "routed" /\ handler.does \in Writing \ {"end", "delete", "create"}
     /\ ~(handler.does \in Bulk /\ request.call.does \in Previews)

\* Mutant of Act: what was found before the RPC is what gets audited.
ActAsLooked ==
  /\ Ready
  /\ WriteRow
  /\ IF stage = "looked" \/ row \in Affected \/ handler.does \in Bulk
       THEN Respond("ok") /\ audited' = TRUE
       ELSE Respond("not_found") /\ UNCHANGED audited
  /\ UNCHANGED <<request, handler>>

\* The RPC that writes, and emitAudit when it found something to write to.
Act ==
  /\ Ready
  /\ WriteRow
  /\ IF row \in Affected \/ handler.does \in Bulk
       THEN Respond("ok") /\ audited' = TRUE
       ELSE Respond("not_found") /\ UNCHANGED audited
  /\ UNCHANGED <<request, handler>>

\* An RPC throws, before or after the object did what it asks for.
RpcFails ==
  /\ stage \in {"routed", "looked"}
  /\ \/ UNCHANGED <<row, changed, wrote>>
     \/ Ready /\ WriteRow
  /\ Respond("error")
  /\ UNCHANGED <<request, handler, audited>>

Elsewhere == [live |-> {"expired", "revoked", "absent"}, expired |-> {"live", "revoked", "absent"},
          revoked |-> {"absent"}, absent |-> {"live"}]

\* Other administrators, the passing of time, and the cleanup.
OthersAct ==
  /\ stage = "looked"
  /\ row' \in Elsewhere[row]
  /\ UNCHANGED <<request, stage, handler, changed, audited, wrote, answer>>

NextCall ==
  /\ stage = "answered"
  /\ request' = NoRequest /\ stage' = "idle" /\ handler' = NoHandler /\ row' = "absent"
  /\ changed' = FALSE /\ audited' = FALSE /\ wrote' = "nothing" /\ answer' = "none"

\* The command line client and programs by the document have the admin key.
SendAny ==
  /\ stage = "idle"
  /\ \/ \E call \in CallsIn(CliTable) :
          \E asked \in (IF call.does = "update" THEN Expiries ELSE {"nothing"}) :
            SendCall(call, AdminKey, asked)
     \/ \E call \in CallsIn(DashboardTable), who \in Members : SendCall(call, who, "nothing")
     \/ \E call \in CallsIn(DocumentedTable) : SendCall(call, AdminKey, "millis")
     \/ \E call \in OtherCalls, who \in AnyCaller : SendCall(call, who, "millis")

AdminNext ==
  \/ SendAny
  \/ RouteCall \/ RefuseCall \/ ServeRead \/ LookFirst \/ Act \/ RpcFails
  \/ OthersAct \/ NextCall

AdminSpec == AdminInit /\ [][AdminNext]_adminVars

-----------------------------------------------------------------------------
Serves(does) ==
  CASE does = "end" -> {"revoke", "erase"}
    [] does = "bulk_revoke" -> {"bulk_revoke", "preview_revoke"}
    [] does = "bulk_delete" -> {"bulk_delete", "preview_delete"}
    [] OTHER -> {does}

\* A call of a client that gets as far as a handler gets to the one for what
\* it means, and a preview changes nothing, in whatever order the applications
\* are mounted and the routes registered (admin.ts, cli/bulk-helpers.ts:79).
ClientsServed ==
  stage = "answered" /\ request.call \in ClientTables /\ answer # "forbidden" =>
    /\ answer # "no_route"
    /\ handler.kind = request.call.kind /\ request.call.does \in Serves(handler.does)
    /\ request.call.does \in Previews => ~changed /\ ~audited

\* A change that was confirmed to the caller is in the audit log, and what is
\* in the log was confirmed and, bulk operations aside, was a change: also when
\* the row that was found is gone or ended when it is written, and when an RPC
\* fails half-way (admin-keys.ts:257).
ChangesAudited ==
  stage = "answered" =>
    /\ audited => answer = "ok" /\ (changed \/ handler.does \in Bulk)
    /\ changed /\ answer = "ok" => audited

Owner == [key |-> "operator", cred |-> "operator", token |-> "admin", endpoint |-> "admin",
          config |-> "admin"]

Entitled(who, role) ==
  who # Stranger /\ (who # AdminKey =>
    who.rbac = {} \/ \E g \in who.groups \cap who.rbac : Rank[g] >= Rank[role])

\* "operator: viewer + write access to keys and S3 credentials, admin: operator
\* + upstream tokens, upstream R2, config writes" (admin.ts:20): whatever is
\* sent, and through whichever route, nothing of a resource changes but for a
\* caller whose groups give the role for it, and nobody else sees an upstream
\* credential.
RolesHonoured ==
  stage = "answered" /\ answer # "no_route" /\ request.call.path[1] = "admin" =>
    /\ changed => Entitled(request.who, Owner[handler.kind])
    /\ answer # "forbidden" /\ handler.kind \in {"token", "endpoint"}
         => Entitled(request.who, "admin")

\* "New expiry timestamp (ISO 8601 or unix ms). Use "null" to remove expiry."
\* (cli/commands/keys.ts:298): an update that was confirmed has made of the
\* expiry what was asked for.
ExpiryAsAsked ==
  stage = "answered" /\ answer = "ok" /\ request.call \in CallsIn(CliTable) /\ wrote # "nothing" =>
    (wrote = "none" <=> request.asked = "none")
=============================================================================
