------------------------------ MODULE MCGarage ------------------------------
(* Garage for TLC: users, invites and request slots are interchangeable.   *)
EXTENDS Garage, TLC

Symmetry == Permutations(Users) \cup Permutations(Requests)
=============================================================================
