------------------------------ MODULE Movement ------------------------------
(* The movement transaction record and its state machine (movement.hpp,      *)
(* movement_state.hpp, movement.cpp).  Constant-level: every operator here   *)
(* is a pure function of the record it is given.                             *)
(*                                                                           *)
(* A record keeps the fields that control depends on: the state, the fencing *)
(* generation, the attempt count (which also names the attempt, because an   *)
(* attempt identity is fresh and is only ever issued together with an        *)
(* increment of the count), the operator's cancel request and the endpoint   *)
(* incarnations the decision was bound to.                                   *)
EXTENDS Integers

MovementState ==
    {"PLANNED", "AUTHORIZED", "TRANSFERRING", "BYTES_ARRIVED", "VERIFIED",
     "COMMITTED", "CANCELLED", "FAILED", "OUTCOME_UNKNOWN", "SUPERSEDED"}

Terminal == {"COMMITTED", "CANCELLED", "FAILED", "SUPERSEDED"}

is_terminal(s) == s \in Terminal

(* The states every active state may be abandoned to. *)
Abandoned == {"CANCELLED", "FAILED", "SUPERSEDED"}

kTransitions ==
    ({"PLANNED"}         \X ({"AUTHORIZED"} \cup Abandoned))
    \cup ({"AUTHORIZED"}      \X ({"TRANSFERRING", "OUTCOME_UNKNOWN"} \cup Abandoned))
    \cup ({"TRANSFERRING"}    \X ({"BYTES_ARRIVED", "OUTCOME_UNKNOWN"} \cup Abandoned))
    \cup ({"BYTES_ARRIVED"}   \X ({"TRANSFERRING", "VERIFIED", "OUTCOME_UNKNOWN"} \cup Abandoned))
    \cup ({"VERIFIED"}        \X ({"COMMITTED", "OUTCOME_UNKNOWN"} \cup Abandoned))
    \cup ({"OUTCOME_UNKNOWN"} \X ({"COMMITTED"} \cup Abandoned))

(* check_transition: a terminal state admits nothing, the table decides the rest. *)
check_transition(from, to) == ~is_terminal(from) /\ <<from, to>> \in kTransitions

apply_transition_SameGeneration(record, next) ==   \* mutant: no new fencing generation
    [record EXCEPT !.state = next]

(* apply_transition on a legal pair: the generation advances with the state.  *)
(* On an illegal pair the code leaves state and generation alone and returns  *)
(* the refusal, so callers test check_transition first.                       *)
apply_transition(record, next) ==
    [record EXCEPT !.generation = @ + 1, !.state = next]

(* record_attempt_started: a fresh attempt identity, no change of state.  It   *)
(* refuses a terminal record, which a drive never holds: DriveStart returns    *)
(* on one, and a transition to a terminal state ends the thread.               *)
record_attempt_started(record) ==
    [record EXCEPT !.generation = @ + 1, !.attempt_count = @ + 1]
=============================================================================
