------------------------------- MODULE MCStore -------------------------------
(* MovementStore on small instances. *)
EXTENDS MovementStore

CONSTANTS a, b

(* The movements are interchangeable. *)
Symmetric == Permutations(Ids)
=============================================================================
