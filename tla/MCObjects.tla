----------------------------- MODULE MCObjects -----------------------------
(* Two movements of one version and a publisher, over three contents of which *)
(* two have the same size and one is empty.                                   *)
EXTENDS ObjectStore, TLC

CONSTANTS m1, m2, a, b, c

MCSize == (a :> 1) @@ (b :> 1) @@ (c :> 0)

(* The movements, and the two contents of one size, are alike. *)
Interchangeable == Permutations({m1, m2}) \cup Permutations({a, b})
=============================================================================
