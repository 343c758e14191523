--------------------------- MODULE MCRefreshRunner ---------------------------
(***************************************************************************)
(* RefreshRunner on small instances: everything but the row ids of a       *)
(* property is interchangeable.                                            *)
(***************************************************************************)
EXTENDS RefreshRunner, TLC

Symmetry == Permutations(Objects) \cup Permutations(Workers)
            \cup Permutations(Jobs) \cup Permutations(Ips)
            \cup Permutations(Ids)
=============================================================================
