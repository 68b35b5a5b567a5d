------------------------------- MODULE MCLink -------------------------------
(* ControlLink for TLC: two announcements, one movement beside one, and two  *)
(* movements with and without room for both grants; with a send that stalls  *)
(* or with either process being stopped where the two do not multiply.       *)
EXTENDS ControlLink

CONSTANTS m1, m2

Load(ms, room, announced, stalled, stops) ==
    [movements |-> ms, room |-> room, announcements |-> announced, stalls |-> stalled,
     stops |-> stops]

MCLoads ==
    { Load({}, 0, 2, 1, FALSE), Load({}, 0, 2, 0, TRUE),
      Load({m1}, 1, 1, 1, FALSE), Load({m1}, 1, 0, 1, TRUE),
      Load({m1, m2}, 1, 0, 0, FALSE), Load({m1, m2}, 2, 0, 0, FALSE) }
=============================================================================
