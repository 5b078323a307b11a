----------------------------- MODULE MCBilling -----------------------------
(***************************************************************************)
(* Billing on small instances.                                             *)
(***************************************************************************)
EXTENDS Billing, TLC

Symmetry == Permutations(Charges) \cup Permutations(Tasks)
=============================================================================
