---------------------------- MODULE MCDownloads ----------------------------
(* Instances of Downloads for TLC. *)
EXTENDS Downloads, TLC

GetSymmetry == Permutations(Gets)
=============================================================================
