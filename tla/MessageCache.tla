---------------------------- MODULE MessageCache ----------------------------
(***************************************************************************)
(* What a workspace's mail cache promises to those who read it, whatever   *)
(* files, locks and crashes lie underneath (WorkspaceMessages implements   *)
(* it): received mail appears, nothing disappears but what a user asked to *)
(* delete or newer mail has pushed out, and a deletion that was confirmed  *)
(* is for good.                                                            *)
(*                                                                         *)
(* A message is its position in the order of arrival: the larger, the      *)
(* newer.                                                                  *)
(***************************************************************************)
EXTENDS Naturals, FiniteSets

CONSTANTS Messages, Cap

VARIABLES
  cache,     \* what a reader is shown
  ignored,   \* what some user asked to delete
  promised   \* what a user was told is deleted

vars == <<cache, ignored, promised>>

Init ==
  /\ cache \in SUBSET Messages
  /\ ignored = {}
  /\ promised = {}

Ask(ms) ==
  /\ ignored' = ignored \cup ms
  /\ UNCHANGED <<cache, promised>>

Outdated(m, shown) == Cardinality({n \in shown : n > m}) >= Cap

Change(received, dropped) ==
  /\ received \cap ignored = {}
  /\ cache' = (cache \ dropped) \cup received
  /\ \A m \in dropped : m \in ignored \/ Outdated(m, cache')
  /\ UNCHANGED <<ignored, promised>>

Confirm(ms) ==
  /\ ms \subseteq ignored
  /\ ms \cap cache = {}
  /\ promised' = promised \cup ms
  /\ UNCHANGED <<cache, ignored>>

Next ==
  \/ \E ms \in SUBSET Messages : Ask(ms) \/ Confirm(ms)
  \/ \E received, dropped \in SUBSET Messages : Change(received, dropped)

Spec == Init /\ [][Next]_vars

(***************************************************************************)
(* A message whose deletion was confirmed is not in the cache any more     *)
(* (README.md:14, workspace_state.py:232).                                 *)
(***************************************************************************)
PromiseKept == promised \cap cache = {}

\* A deletion is only confirmed of what users asked to delete.
PromisesAreRecorded == promised \subseteq ignored
=============================================================================
