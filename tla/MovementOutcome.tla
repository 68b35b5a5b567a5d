-------------------------- MODULE MovementOutcome ---------------------------
(* What a movement promises to its operator, without threads, messages or    *)
(* processes.  A version's effect is the commit whose marker is held at the  *)
(* destination; a movement's outcome is what the coordinator says of it.     *)
(* "unknown" is a statement about knowledge: it is left for "committed" only *)
(* when there is an effect and for "aborted" only when the movement itself   *)
(* has none, and an aborted movement never takes effect afterwards.          *)
EXTENDS Integers

CONSTANTS Movements, Versions, object, NoMovement

VARIABLES
    outcome,    \* what the coordinator reports of each movement
    effect,     \* the movement whose commit marker the destination holds
    errors      \* input: how many errors files and connections have returned

Init ==
    /\ outcome = [m \in Movements |-> "pending"]
    /\ effect = [v \in Versions |-> NoMovement]

Undecided(m) == outcome[m] \in {"pending", "unknown"}

(* The commit marker is written, once per version.  Only an error of reading  *)
(* it lets one be replaced, and never for a movement that was given up.       *)
TakeEffect(m) ==
    /\ \/ Undecided(m) /\ effect[object[m]] = NoMovement
       \/ errors' > errors /\ outcome[m] # "aborted"
    /\ effect' = [effect EXCEPT ![object[m]] = m]
    /\ UNCHANGED outcome

Commit(m) ==
    /\ Undecided(m) /\ effect[object[m]] # NoMovement
    /\ outcome' = [outcome EXCEPT ![m] = "committed"]
    /\ UNCHANGED effect

Abort(m) ==
    /\ Undecided(m) /\ effect[object[m]] # m
    /\ outcome' = [outcome EXCEPT ![m] = "aborted"]
    /\ UNCHANGED effect

(* A restart loses track of any number of movements, and aborts those that    *)
(* were never dispatched.                                                     *)
LoseTrack ==
    /\ \E lost, dropped \in SUBSET Movements :
         /\ \A m \in lost \cup dropped : outcome[m] = "pending"
         /\ \A m \in dropped : effect[object[m]] # m
         /\ outcome' = [m \in Movements |-> IF m \in dropped THEN "aborted"
                                            ELSE IF m \in lost THEN "unknown" ELSE outcome[m]]
    /\ UNCHANGED effect

Next ==
    \/ \E m \in Movements : TakeEffect(m) \/ Commit(m) \/ Abort(m)
    \/ LoseTrack

Spec == Init /\ [][Next]_<<outcome, effect>>
=============================================================================
