--------------------------- MODULE MCWorkspacePages ---------------------------
(* Small instances of WorkspacePages for TLC. *)
EXTENDS WorkspacePages, TLC

Symmetry == Permutations(Workspaces) \cup Permutations(Accounts)
            \cup Permutations(Tabs)
=============================================================================
