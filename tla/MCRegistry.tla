---------------------------- MODULE MCRegistry ------------------------------
(* An instance of Registry for TLC.                                         *)
EXTENDS Registry, TLC

(* The users are interchangeable.                                           *)
UserSymmetry == Permutations(Users)
=============================================================================
