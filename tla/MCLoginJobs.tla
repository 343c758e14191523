----------------------------- MODULE MCLoginJobs -----------------------------
(***************************************************************************)
(* LoginJobs on small instances.  Requests are interchangeable threads,    *)
(* so their permutations are a symmetry where no liveness is checked.      *)
(***************************************************************************)
EXTENDS LoginJobs, TLC

Symmetry == Permutations(Requests)
=============================================================================
