--------------------------- MODULE MCCapabilities ---------------------------
(* Instances of Capabilities for TLC: records, names, contents, requests and  *)
(* readers are interchangeable, except the names of several words.            *)
EXTENDS Capabilities, TLC

Symmetry == Permutations(Records) \cup Permutations(Titles \ Spaced)
              \cup Permutations(Contents) \cup Permutations(Editors)
=============================================================================
