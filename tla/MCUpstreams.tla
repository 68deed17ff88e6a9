---------------------------- MODULE MCUpstreams ----------------------------
(***************************************************************************)
(* A small instance of Upstreams: one zone, one account and one bucket,    *)
(* exact or wildcard registrations, and a lookup of each kind.             *)
(***************************************************************************)
EXTENDS Upstreams

CONSTANTS u1, u2, n1

TwoIds == {u1, u2}

\* One name serves as the zone, the account and the bucket.
AllNames == TwoIds \cup {n1}

ExactOrAny == {{n1}, {AnyName}}

LookupsBy(kinds) == [by : kinds, name : {n1}]

EachLookup ==
  LookupsBy({"zone", "account", "bucket"})
    \cup {[by |-> "list", name |-> AnyName],
          [by |-> "token", name |-> u1], [by |-> "endpoint", name |-> u1]}
=============================================================================
