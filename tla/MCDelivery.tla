----------------------------- MODULE MCDelivery -----------------------------
(* Instances of Delivery for TLC: the constants are given in the cfg files. *)
EXTENDS Delivery
=============================================================================
