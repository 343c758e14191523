------------------------- MODULE MCWorkspaceMessages -------------------------
(***************************************************************************)
(* WorkspaceMessages on small instances.  Threads are interchangeable; the *)
(* lock's name is only compared, so permuting them is a symmetry.          *)
(***************************************************************************)
EXTENDS WorkspaceMessages, TLC

Symmetry == Permutations(Requests)
=============================================================================
