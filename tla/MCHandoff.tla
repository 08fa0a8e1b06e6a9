----------------------------- MODULE MCHandoff -----------------------------
(* Handoff on small instances; people are alike.                           *)
EXTENDS Handoff, TLC

Symmetry == Permutations(Human)
=============================================================================
