----------------------------- MODULE MCBooking -----------------------------
(***************************************************************************)
(* Booking on small instances.                                             *)
(***************************************************************************)
EXTENDS Slots, TLC

Symmetry == Permutations(Appointments) \cup Permutations(Requests)
=============================================================================
