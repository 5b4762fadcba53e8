---------------------------- MODULE MCKeyDelivery ----------------------------
(* One request (a target admits one pending command at a time) and two     *)
(* processes; for the duplicate, one process.                              *)
EXTENDS KeyDelivery, TLC

MCSymmetry == Permutations(Processes)
=============================================================================
