-------------------------- MODULE PurgeOperations --------------------------
(***************************************************************************)
(* What a purge request asks for: which bodies the route takes             *)
(* (src/src/routes/admin-schemas.ts), what they cost (src/src/routes/      *)
(* purge.ts) and the contexts they are authorized under (src/src/iam.ts).  *)
(*                                                                         *)
(* A body is a function from the types of purge that it has to their       *)
(* lists.  A file is [url, host, path, params, headers]: host is Missing   *)
(* when the URL does not parse, params is the sequence of the query's      *)
(* <<name, value>> pairs, and headers a function from names to values.     *)
(* URL decoding is left out.                                               *)
(***************************************************************************)
EXTENDS PolicyEngine, FiniteSets, TLC

\* A body of one type.
Body(type, list) == [t \in {type} |-> list]

PurgeTypes == {"url", "host", "tag", "prefix", "everything"}

\* purgeBodySchema: one type exactly, with something in its list.
ValidBody(body) ==
  /\ Cardinality(DOMAIN body) = 1
  /\ \A type \in DOMAIN body : body[type] # <<>>
  /\ "everything" \in DOMAIN body => body["everything"] = <<True>>

TypeOf(body) == CHOOSE type \in DOMAIN body : TRUE
Items(body) == body[TypeOf(body)]

\* classifyPurge: the bucket a purge draws on, what it takes, and the most it may name.
RateClass(body) == IF TypeOf(body) = "url" THEN "single" ELSE "bulk"
Tokens(body) == IF TypeOf(body) = "url" THEN Len(Items(body)) ELSE 1
Fits(body, maxOps) == TypeOf(body) = "everything" \/ Len(Items(body)) <= maxOps[RateClass(body)]

\* extractRequestFields, for a request at an hour of the day.
RequestFields(hour) == "time.hour" :> hour

Query(params) ==
  FoldLeft(LAMBDA q, p : (IF q = <<>> THEN q ELSE q \o <<"&">>) \o <<p[1], "=">> \o p[2], <<>>, params)

\* Of a parameter given twice, the last value counts.
QueryFields(params) ==
  FoldLeft(LAMBDA fields, p : ("url.query." \o p[1]) :> p[2] @@ fields,
           IF params = <<>> THEN <<>> ELSE "url.query" :> Query(params), params)

HeaderFields(headers) ==
  [f \in {"header." \o name : name \in DOMAIN headers} |->
     headers[CHOOSE name \in DOMAIN headers : "header." \o name = f]]

FileFields(file) ==
  "url" :> file.url
    @@ (IF file.host = Missing THEN <<>>
        ELSE "host" :> file.host @@ "url.path" :> file.path @@ QueryFields(file.params))
    @@ HeaderFields(file.headers)

ItemFields(type, item) ==
  CASE type = "url"        -> FileFields(item)
    [] type = "everything" -> "purge_everything" :> True
    [] OTHER               -> type :> item

\* purgeBodyToContexts: one context for each thing that is purged.
PurgeContexts(zone, body, extra) ==
  {Context(<<"purge:", TypeOf(body)>>, <<"zone:">> \o zone, ItemFields(TypeOf(body), item) @@ extra)
     : item \in Range(Items(body))}
=============================================================================
