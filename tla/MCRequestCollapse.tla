-------------------------- MODULE MCRequestCollapse --------------------------
(***************************************************************************)
(* Small instances of RequestCollapse.                                     *)
(***************************************************************************)
EXTENDS RequestCollapse

CONSTANTS c1, c2, c3, k1, k2

ThreeCalls == {c1, c2, c3}
OneKey == {k1}
TwoKeys == {k1, k2}
=============================================================================
