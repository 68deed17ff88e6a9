---------------------------- MODULE MCPurgeRoute ----------------------------
(***************************************************************************)
(* Small instances of PurgeRoute.                                          *)
(***************************************************************************)
EXTENDS PurgeRoute

CONSTANTS k1, k2, z1, z2, b1, r1, r2

Purges(key, zone, cost) ==
  [key |-> key, zone |-> zone, body |-> b1, class |-> "bulk", cost |-> cost]

Requests == {r1, r2}

\* The same request made with two keys, at the price of two tokens.
TwoKeys ==
  [r \in Requests |-> Purges(IF r = r1 THEN k1 ELSE k2, z1, 2)]

\* The same body for two zones.
TwoZones ==
  [r \in Requests |-> Purges(k1, IF r = r1 THEN z1 ELSE z2, 1)]

OneHome == [r \in Requests |-> 1]

OneClass == {"bulk"}

Settings(size, drip) == [c \in OneClass |-> [size |-> size, drip |-> drip]]

SmallConfig == {Settings(1, 2)}

LargeConfig == {Settings(2, 1)}

NoLimits == {Settings(Null, Null)}

TwoLimits == {Settings(Null, Null), Settings(1, 1)}
=============================================================================
