----------------------------- MODULE MCRegistry -----------------------------
(* Instances of Registry for TLC. *)
EXTENDS Registry, TLC

CONSTANTS c1, c2, c3, c4, k1, k2, s1, v1, v2

\* No definition singles out a call or a key.
Symmetry == Permutations(Calls) \cup Permutations(Keys)
=============================================================================
