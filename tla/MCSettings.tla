----------------------------- MODULE MCSettings -----------------------------
(* Instances of Settings for TLC. *)
EXTENDS Settings, TLC

CONSTANTS s1, s2

ServerSymmetry == Permutations({s1, s2})
=============================================================================
