------------------------------- MODULE GoMaps -------------------------------
(***************************************************************************)
(* Go maps as functions on the set of keys present: assignment, delete and *)
(* make.                                                                   *)
(***************************************************************************)

\* A map with keys in K and values in V.
MapOf(m, K, V) == DOMAIN m \subseteq K /\ m \in [DOMAIN m -> V]

Empty == [x \in {} |-> x]

Put(m, k, v) == [x \in DOMAIN m \cup {k} |-> IF x = k THEN v ELSE m[x]]

Drop(m, k) == [x \in DOMAIN m \ {k} |-> m[x]]
=============================================================================
