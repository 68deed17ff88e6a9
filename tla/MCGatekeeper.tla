---------------------------- MODULE MCGatekeeper ----------------------------
(***************************************************************************)
(* Small instances of Gatekeeper.                                          *)
(***************************************************************************)
EXTENDS Gatekeeper

CONSTANTS k1, k2, z1, b1, r1, r2

\* The same request made with two keys, at the price of two tokens.
TwoKeys ==
  [r \in {r1, r2} |-> [key   |-> IF r = r1 THEN k1 ELSE k2,
                       zone  |-> z1,
                       body  |-> b1,
                       class |-> "bulk",
                       cost  |-> 2]]

BothClasses == {"bulk", "single"}

Settings(bulk, single) ==
  [c \in BothClasses |-> [size |-> IF c = "bulk" THEN bulk ELSE single, drip |-> 2]]

\* A change of configuration touches one class, the other, or both.
ThreeConfigs == {Settings(2, 1), Settings(1, 1), Settings(1, 2)}

BulkOnly(size) ==
  [c \in BothClasses |-> IF c = "bulk" THEN [size |-> size, drip |-> 1]
                                       ELSE [size |-> Null, drip |-> Null]]

\* The key is limited for one class; the other follows the account defaults.
TwoLimits == {BulkOnly(1), BulkOnly(2)}

NoLimits == {[c \in BothClasses |-> [size |-> Null, drip |-> Null]]}
=============================================================================
