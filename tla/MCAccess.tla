------------------------------ MODULE MCAccess -------------------------------
(***************************************************************************)
(* Bounded instance of Access: two people whose requests cross in pairs.   *)
(* Neither the action under fairness nor the temporal property tells       *)
(* people or requests apart, so that they hold in the quotient too.        *)
(***************************************************************************)
EXTENDS Access, TLC

Symmetry == Permutations(Subjects) \cup Permutations(Requests)
=============================================================================
