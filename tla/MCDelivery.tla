------------------------------ MODULE MCDelivery ------------------------------
(* Instances of Delivery. *)
EXTENDS Delivery, TLC

Symmetry == Permutations(Emails) \cup Permutations(Clients)
===============================================================================
