------------------------------- MODULE MCData -------------------------------
(* DataPlane for TLC: the configurations choose the window, the options and   *)
(* what may disturb an attempt.                                               *)
EXTENDS DataPlane

=============================================================================
