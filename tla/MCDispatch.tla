----------------------------- MODULE MCDispatch -----------------------------
(* Instances of Dispatch for TLC.  Messages and agents are interchangeable   *)
(* in the safety runs.                                                       *)
EXTENDS Dispatch, TLC

Symmetry == Permutations(Messages) \cup Permutations(Agents)
=============================================================================
