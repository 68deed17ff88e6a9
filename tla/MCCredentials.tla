--------------------------- MODULE MCCredentials ---------------------------
(* Model values, symmetry and a bound for checking Credentials with TLC. *)
EXTENDS Credentials, TLC

CONSTANTS k1, k2, k3, z1, z2, c1

\* Ids are only compared for equality.
Symmetry == Permutations(Ids)

\* Keys are created with one of two authorities, which differ in everything;
\* the others of a chain have what rotation gives them.
TwoAuthorities ==
  \A i \in Ids :
    Exists(i) /\ origin[i] = i =>
      /\ rows[i].scope = AnyZone <=> rows[i].policy = Contexts
      /\ rows[i].scope = AnyZone <=> rows[i].upstream # "unbound"
=============================================================================
