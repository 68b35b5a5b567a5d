------------------------------ MODULE MCFabric ------------------------------
(* MovementFabric on small instances. *)
EXTENDS MovementFabric, TLC

CONSTANTS m1, m2, v1

OneMovement == {m1}
TwoMovements == {m1, m2}
MCobject == [m \in Movements |-> v1]
NoSample == <<>>
OneSample == <<1>>

(* Two movements of one version are alike. *)
Interchangeable == Permutations(TwoMovements)
=============================================================================
