----------------------------- MODULE MCThreads -----------------------------
(* Instances of Threads for TLC: chats, messages and requests are             *)
(* interchangeable.                                                           *)
EXTENDS Threads, TLC

Symmetry == Permutations(Chats) \cup Permutations(Messages) \cup Permutations(Requests)
=============================================================================
