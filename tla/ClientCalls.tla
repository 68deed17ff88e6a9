---------------------------- MODULE ClientCalls ----------------------------
(***************************************************************************)
(* The requests that the clients of the gateway send: the command line     *)
(* client (src/cli/), the dashboard (src/dashboard/), and whoever writes a *)
(* client from the API document (src/scripts/generate-openapi.ts).  A call *)
(* says which resource it is about and what it is meant to do with it;     *)
(* "?" is an id that the client fills in.  Two meanings share a request    *)
(* and differ in a query parameter or a field of the body: "revoke" and    *)
(* "erase" (?permanent=true), and a bulk operation and its preview         *)
(* (dry_run).                                                              *)
(***************************************************************************)
EXTENDS Integers, Sequences

Previews == {"preview_revoke", "preview_delete"}

On(base, kind, rows) ==
  [i \in DOMAIN rows |->
     [method |-> rows[i][1], path |-> base \o rows[i][2], kind |-> kind, does |-> rows[i][3]]]

\* What several tables share.
ListAndGet == <<<<"GET", <<>>, "list">>, <<"GET", <<"?">>, "get">>>>
RotateAndUpdate == <<<<"POST", <<"?", "rotate">>, "rotate">>, <<"PATCH", <<"?">>, "update">>>>
RevokeOrErase == <<<<"DELETE", <<"?">>, "revoke">>, <<"DELETE", <<"?">>, "erase">>>>
BulkRevoke == <<<<"POST", <<"bulk-revoke">>, "bulk_revoke">>>>
BulkDelete == <<<<"POST", <<"bulk-delete">>, "bulk_delete">>>>
EventsAndSummary == <<<<"GET", <<"events">>, "events">>, <<"GET", <<"summary">>, "summary">>>>
Timeseries == <<<<"GET", <<"timeseries">>, "timeseries">>>>

KeysAt == <<"admin", "keys">>
CredsAt == <<"admin", "s3", "credentials">>
TokensAt == <<"admin", "upstream-tokens">>
EndpointsAt == <<"admin", "upstream-r2">>
PurgeAt == <<"v1", "zones", "?">>
DnsAt == <<"v1", "zones", "?", "dns_records">>

-----------------------------------------------------------------------------
(* The command line client. *)

\* Without --confirm a bulk command asks for a preview.
MakeBulk(base, kind, action) ==
  On(base, kind, <<<<"POST", <<"bulk-" \o action>>, "bulk_" \o action>>,
                   <<"POST", <<"bulk-" \o action>>, "preview_" \o action>>>>)

CliKeysCreate == On(KeysAt, "key", <<<<"POST", <<>>, "create">>>>)
CliKeysRead == On(KeysAt, "key", ListAndGet)
CliKeysChange == On(KeysAt, "key", RotateAndUpdate)
CliKeysEnd == On(KeysAt, "key", RevokeOrErase)
                \o MakeBulk(KeysAt, "key", "revoke") \o MakeBulk(KeysAt, "key", "delete")

CliCredsCreate == On(CredsAt, "cred", <<<<"POST", <<>>, "create">>>>)
CliCredsRead == On(CredsAt, "cred", ListAndGet)
CliCredsChange == On(CredsAt, "cred", RotateAndUpdate)
CliCredsEnd == On(CredsAt, "cred", RevokeOrErase)
                 \o MakeBulk(CredsAt, "cred", "revoke") \o MakeBulk(CredsAt, "cred", "delete")

CliTokensCreate == On(TokensAt, "token", <<<<"POST", <<>>, "create">>>>)
CliTokensRead == On(TokensAt, "token", ListAndGet)
CliTokensChange == On(TokensAt, "token", <<<<"PATCH", <<"?">>, "update">>, <<"DELETE", <<"?">>, "delete">>>>)
                     \o MakeBulk(TokensAt, "token", "delete")

CliEndpointsCreate == On(EndpointsAt, "endpoint", <<<<"POST", <<>>, "create">>>>)
CliEndpointsRead == On(EndpointsAt, "endpoint", ListAndGet)
CliEndpointsChange == On(EndpointsAt, "endpoint", <<<<"PATCH", <<"?">>, "update">>, <<"DELETE", <<"?">>, "delete">>>>)
                        \o MakeBulk(EndpointsAt, "endpoint", "delete")

CliConfig == On(<<"admin", "config">>, "config", <<
  <<"GET", <<>>, "get">>, <<"PUT", <<>>, "set">>, <<"DELETE", <<"?">>, "reset">>>>)

CliPurgeAnalytics == On(<<"admin", "analytics">>, "purge_log", EventsAndSummary)
CliS3Analytics == On(<<"admin", "s3", "analytics">>, "s3_log", EventsAndSummary)
CliDnsAnalytics == On(<<"admin", "dns", "analytics">>, "dns_log", EventsAndSummary)
CliCfAnalytics == On(<<"admin", "cf", "analytics">>, "cf_log", EventsAndSummary)
CliAudit == On(<<"admin", "audit">>, "audit_log", <<<<"GET", <<"events">>, "events">>>>)
CliMe == On(<<"admin", "me">>, "me", <<<<"GET", <<>>, "get">>>>)
CliHealth == On(<<>>, "app", <<<<"GET", <<"health">>, "get">>>>)
CliPurge == On(PurgeAt, "purge", <<<<"POST", <<"purge_cache">>, "purge">>>>)

CliTable ==
  CliKeysCreate \o CliKeysRead \o CliKeysChange \o CliKeysEnd
    \o CliCredsCreate \o CliCredsRead \o CliCredsChange \o CliCredsEnd
    \o CliTokensCreate \o CliTokensRead \o CliTokensChange
    \o CliEndpointsCreate \o CliEndpointsRead \o CliEndpointsChange
    \o CliConfig \o CliPurgeAnalytics \o CliS3Analytics \o CliDnsAnalytics \o CliCfAnalytics
    \o CliAudit \o CliMe \o CliHealth \o CliPurge

\* What --expires-at may be given as, and what the command makes of it.  For
\* keys and S3 credentials Number() makes NaN of a date, and JSON null of NaN.
Expiries == {"date", "millis", "none"}

ExpirySent(kind, asked) ==
  IF asked = "none" \/ (asked = "date" /\ kind \in {"key", "cred"}) THEN "none" ELSE "date"

-----------------------------------------------------------------------------
(* The dashboard. *)

DashboardKeys ==
  On(KeysAt, "key", <<<<"POST", <<>>, "create">>>> \o ListAndGet \o RevokeOrErase \o BulkRevoke \o BulkDelete)

DashboardReports ==
  On(<<"admin", "analytics">>, "purge_log", EventsAndSummary)
    \o On(<<"admin", "s3", "analytics">>, "s3_log", EventsAndSummary)

DashboardCreds ==
  On(CredsAt, "cred", <<<<"POST", <<>>, "create">>>> \o ListAndGet \o RevokeOrErase \o BulkRevoke \o BulkDelete)

DashboardUpstreams ==
  LET Operations == <<<<"POST", <<>>, "create">>, <<"DELETE", <<"?">>, "delete">>>> \o ListAndGet \o BulkDelete
  IN On(TokensAt, "token", Operations) \o On(EndpointsAt, "endpoint", Operations)

DashboardProxyReports ==
  On(<<"admin", "dns", "analytics">>, "dns_log", EventsAndSummary)
    \o On(<<"admin", "cf", "analytics">>, "cf_log", EventsAndSummary)

DashboardTimeseries ==
  On(<<"admin", "analytics">>, "purge_log", Timeseries) \o On(<<"admin", "s3", "analytics">>, "s3_log", Timeseries)
    \o On(<<"admin", "dns", "analytics">>, "dns_log", Timeseries)
    \o On(<<"admin", "cf", "analytics">>, "cf_log", Timeseries)

DashboardSettings ==
  On(<<"admin", "audit">>, "audit_log", <<<<"GET", <<"events">>, "events">>>>)
    \o On(<<"admin", "config">>, "config", <<
         <<"GET", <<>>, "get">>, <<"PUT", <<>>, "set">>, <<"DELETE", <<"?">>, "reset">>>>)
    \o On(<<"admin", "me">>, "me", <<<<"GET", <<>>, "get">>>>)
    \o On(<<>>, "app", <<<<"GET", <<"health">>, "get">>>>)

DashboardPurge == On(PurgeAt, "purge", <<<<"POST", <<"purge_cache">>, "purge">>>>)

DashboardTable ==
  DashboardKeys \o DashboardReports \o DashboardCreds \o DashboardUpstreams
    \o DashboardProxyReports \o DashboardTimeseries \o DashboardSettings \o DashboardPurge

-----------------------------------------------------------------------------
(* The API document. *)

DocumentedPurge ==
  On(<<>>, "app", <<<<"GET", <<"health">>, "get">>>>)
    \o On(PurgeAt, "purge", <<<<"POST", <<"purge_cache">>, "purge">>>>)

DocumentedDns ==
  LET Forward(method, tail) == <<method, tail, "forward">> IN
  On(DnsAt, "dns", <<
    Forward("POST", <<>>), Forward("GET", <<>>), Forward("GET", <<"export">>),
    Forward("POST", <<"batch">>), Forward("POST", <<"import">>), Forward("GET", <<"?">>),
    Forward("PATCH", <<"?">>), Forward("PUT", <<"?">>), Forward("DELETE", <<"?">>)>>)

DocumentedKeys ==
  On(KeysAt, "key", <<<<"POST", <<>>, "create">>>> \o ListAndGet \o RotateAndUpdate
                     \o RevokeOrErase \o BulkRevoke \o BulkDelete)

DocumentedCreds ==
  On(CredsAt, "cred", <<<<"POST", <<>>, "create">>>> \o ListAndGet \o RotateAndUpdate
                       \o RevokeOrErase \o BulkRevoke \o BulkDelete)

DocumentedReports ==
  LET Reports(base, kind) == On(base, kind, EventsAndSummary \o Timeseries) IN
  Reports(<<"admin", "analytics">>, "purge_log") \o Reports(<<"admin", "s3", "analytics">>, "s3_log")
    \o Reports(<<"admin", "dns", "analytics">>, "dns_log") \o Reports(<<"admin", "cf", "analytics">>, "cf_log")

DocumentedUpstreams ==
  LET Operations == <<<<"POST", <<>>, "create">>, <<"PATCH", <<"?">>, "update">>, <<"DELETE", <<"?">>, "delete">>>>
                      \o ListAndGet \o BulkDelete
  IN On(TokensAt, "token", Operations) \o On(EndpointsAt, "endpoint", Operations)

DocumentedConfig ==
  On(<<"admin", "config">>, "config", <<
    <<"GET", <<>>, "get">>, <<"PUT", <<>>, "set">>, <<"DELETE", <<"?">>, "reset">>>>)
    \o On(<<"admin", "audit">>, "audit_log", <<<<"GET", <<"events">>, "events">>>>)

DocumentedS3 ==
  On(<<"s3">>, "s3", <<<<"GET", <<"?">>, "forward">>, <<"PUT", <<"?">>, "forward">>,
    <<"POST", <<"?">>, "forward">>, <<"DELETE", <<"?">>, "forward">>, <<"HEAD", <<"?">>, "forward">>>>)

DocumentedTable ==
  DocumentedPurge \o DocumentedDns \o DocumentedKeys \o DocumentedCreds \o DocumentedReports
    \o DocumentedUpstreams \o DocumentedConfig \o DocumentedS3

-----------------------------------------------------------------------------
\* The calls in a table.
CallsIn(table) == {table[i] : i \in DOMAIN table}

ClientTables == CallsIn(CliTable) \cup CallsIn(DashboardTable) \cup CallsIn(DocumentedTable)
=============================================================================
