------------------------------ MODULE MCThreads ------------------------------
(* CoordinatorThreads for TLC: threads and connections are model values. *)
EXTENDS CoordinatorThreads

CONSTANTS w1, w2, e1, e2, a1

=============================================================================
