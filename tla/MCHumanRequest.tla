--------------------------- MODULE MCHumanRequest ---------------------------
(* Instances of HumanRequest for TLC: replies are interchangeable, and so    *)
(* are the runs of each kind.                                                *)
EXTENDS HumanRequest, TLC

Symmetry == Permutations(Replies) \cup Permutations(Runs \ Called)
=============================================================================
