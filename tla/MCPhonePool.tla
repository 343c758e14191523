----------------------------- MODULE MCPhonePool -----------------------------
(* Small instances of PhonePool for TLC. *)
EXTENDS PhonePool, Naturals, TLC

Symmetry == Permutations(Rows) \cup Permutations(Phones \ Orders)

\* Two things on their way at a time, and one account or phone bound.
Few ==
  /\ Cardinality(polls) + Cardinality({p \in Phones : Busy(p)})
     + (IF sync.at = "off" THEN 0 ELSE 1)
     + (IF dialog = None THEN 0 ELSE 1) <= 2
  /\ Cardinality(bound \cap Rows) <= 1 /\ Cardinality(bound \cap Phones) <= 1
=============================================================================
