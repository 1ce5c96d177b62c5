------------------------------ MODULE MCFiles ------------------------------
(* Files for TLC: names are interchangeable. *)
EXTENDS Files, TLC

Alike == Permutations(Name)
=============================================================================
