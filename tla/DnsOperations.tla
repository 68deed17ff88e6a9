--------------------------- MODULE DnsOperations ---------------------------
(***************************************************************************)
(* The contexts of DNS requests (src/src/cf/dns/operations.ts).  A record  *)
(* is what a body says of it: a function from DnsFieldNames to a value or  *)
(* Missing.  NoRecord is the record of a request that names it by id only. *)
(***************************************************************************)
EXTENDS PolicyEngine

DnsFieldNames == {"dns.type", "dns.name", "dns.content", "dns.proxied", "dns.ttl",
                  "dns.comment", "dns.tags"}

NoRecord == [f \in DnsFieldNames |-> Missing]

\* extractDnsFields: the fields that the body has; an empty list of tags is none.
ExtractDnsFields(record) ==
  [f \in DnsFieldNames |-> IF f = "dns.tags" /\ record[f] = <<>> THEN Missing ELSE record[f]]

\* A request for one record, or for the zone.  The handlers give the body's
\* record to creates and updates and no record to reads, deletes, exports and
\* imports.
DnsContext(action, zone, record) ==
  Context(<<"dns:", action>>, <<"zone:">> \o zone,
          IF action \in {"create", "update"} THEN ExtractDnsFields(record) ELSE NoRecord)

\* A batch is [deletes, patches, puts, posts]: a number of deletions, and sets
\* of records.
Parts(batch) ==
  {<<"delete", NoRecord>> : i \in 1 .. batch.deletes}
    \cup {<<"update", record>> : record \in batch.patches \cup batch.puts}
    \cup {<<"create", record>> : record \in batch.posts}

\* Mutant of DnsBatchContexts: replacing a record is taken for creating one.
DnsBatchContextsUpsert(zone, batch) ==
  {DnsContext("batch", zone, NoRecord)}
    \cup {DnsContext(IF part[2] \in batch.puts THEN "create" ELSE part[1], zone, part[2])
            : part \in Parts(batch)}

\* dnsBatchToContexts
DnsBatchContexts(zone, batch) ==
  {DnsContext("batch", zone, NoRecord)}
    \cup {DnsContext(part[1], zone, part[2]) : part \in Parts(batch)}
=============================================================================
