---------------------------- MODULE MCMembership ----------------------------
(* Membership for TLC: endpoints and objects are model values. *)
EXTENDS Membership

CONSTANTS e1, e2, o1

=============================================================================
