----------------------- MODULE MovementOutcomeProofs ------------------------
(* A record that says FAILED or SUPERSEDED is of a movement whose commit did *)
(* not take effect and never will; and, as long as nobody cancels, the       *)
(* protocol implements MovementOutcome and every put is a newer revision.    *)
(* All of it where exists() tells whether there is a marker (MarkersSeen):   *)
(* authority() believes it when it fails, and so does reconcile().           *)
(* The argument: the drive of a movement runs once and sends one commit      *)
(* request at most, the link is FIFO, so a reconcile query that finds no     *)
(* marker was read after the request, and a refused request is the only one. *)
EXTENDS MovementCommitProofs, MovementStepProofs

-----------------------------------------------------------------------------
(* The evidence that a movement has no effect.                               *)

(* The path of a marker can always be examined. *)
MarkersSeen == "stat" \notin Faults

(* A step after which nothing more is pending or committed than before, and   *)
(* which denies, and records, only what was certain before it.                *)
LEMMA QuietStep ==
    ASSUME TypeOK, TypeOK', OutcomeInv, CoordinatorStages', RequestsInOrder', PastStays, UNCHANGED marker,
           \A m : CommitPending(m)' => CommitPending(m),
           \A m \in Movements : store'[m].state \in {"PLANNED", "FAILED", "SUPERSEDED"} => Effectless(m),
           \A t \in Threads : slot'[t].status = "answered" /\ Denies(slot'[t]) => Never(t[2]),
           \A s \in Sessions : \A i \in 1 .. Len(fr'[s]) : Denies(fr'[s][i]) => Never(fr'[s][i].movement)
    PROVE  OutcomeInv' /\ NeverStays
<1>1. \A m \in Movements : Effectless(m) => Effectless(m)'
  BY DEF Effectless
<1>2. \A m \in Movements : Never(m) => Never(m)'
  BY <1>1 DEF Never, PastStays
<1>3. ASSUME NEW m \in Movements
      PROVE  /\ ~Past(m)' => Effectless(m)'
             /\ store'[m].state \in {"PLANNED", "FAILED", "SUPERSEDED"} => Effectless(m)'
             /\ marker'[object[m]] = m => ~CommitPending(m)'
  BY <1>1 DEF OutcomeInv, NoEffectEvidence, PastStays
<1>4. ASSUME NEW t \in Threads, slot'[t].status = "answered", Denies(slot'[t])
      PROVE  Never(t[2])'
  BY <1>2, <1>4 DEF Threads
<1>5. ASSUME NEW s \in Sessions, NEW i \in 1 .. Len(fr'[s]), Denies(fr'[s][i])
      PROVE  Never(fr[s][i].movement)'
  <2>1. fr'[s][i].movement \in Movements
    <3>1. fr'[s] \in Seq(Responses)
      BY DEF TypeOK, ControlTypeOK
    <3>2. fr'[s][i] \in Responses
      BY <3>1
    <3> QED BY <3>2 DEF Responses
  <2>2. PICK m \in Movements : m = fr'[s][i].movement
    BY <2>1
  <2>3. Never(m)'
    BY <1>2, <1>5, <2>2
  <2>4. Past(fr[s][i].movement)'
    BY Zenon, <2>2, <2>3 DEF Never, Past
  <2>5. CommitPending(fr[s][i].movement)' => CommitPending(m)'
    BY Zenon, <2>2 DEF CommitPending, IsCommit
  <2>6. Effectless(fr[s][i].movement)'
    BY Zenon, <2>2, <2>3, <2>5 DEF Never, Effectless
  <2> QED BY Zenon, <2>4, <2>6 DEF Never
<1>6. OutcomeInv'
  BY <1>3, <1>4, <1>5 DEF OutcomeInv, NoEffectEvidence, Denies
<1> QED BY <1>2, <1>6 DEF NeverStays

(* A step of a drive thread.  The record says FAILED after the commit request *)
(* only when the request was refused.                                         *)
LEMMA DriveNoEffect ==
    ASSUME TypeOK, TypeOK', CommitEvidence, OutcomeInv, NEW m \in Movements, DriveMoves(m), DriveTraffic(m)
    PROVE  OutcomeInv' /\ NeverStays
<1> DEFINE Sends == drive[m].pc = "commit" /\ drive'[m].pc = "awaitCommit"
<1>1. UNCHANGED <<up, admin, fr, marker, conn, inc>> /\ up
  BY DEF DriveTraffic, driveFrame, endpointVars
<1>2. CoordinatorStages' /\ PastStays
  BY <1>1, DriveStages DEF OutcomeInv
<1>3. Sends => Past(m)' /\ ~Past(m) /\ store'[m].state \notin {"PLANNED", "FAILED", "SUPERSEDED"}
  BY ZenonT(40), <1>2 DEF CoordinatorStages, Stage, Past
<1>4. RequestsInOrder' /\ \A n \in Movements : CommitPending(n)' => CommitPending(n) \/ (n = m /\ Sends)
  <2>1. CASE to' = to
    <3>1. \A s \in Sessions : Shrinks(s) /\ (to'[s] # <<>> => Reads(s)')
      BY <1>1, <2>1 DEF Shrinks, OutcomeInv, RequestsInOrder, Reads
    <3> QED BY <1>2, <3>1, ShrinkInOrder DEF OutcomeInv
  <2>2. CASE to' # to
    <3>1. PICK s, type, n : /\ to' = Sent(s, Request(type, m, n))
                            /\ type \in RequestTypes \ {"AUTHORITY_QUERY"} /\ n \in Nat
                            /\ type = "COMMIT_REQUEST" => s[1] = "D" /\ Sends
      BY <2>2 DEF DriveTraffic
    <3> DEFINE x == Request(type, m, n)
    <3>2. x \in Requests /\ x.type = type /\ x.movement = m
      BY <3>1 DEF Request, Requests
    <3>3. to' = Sent(s, x)
      BY <3>1
    <3> HIDE DEF x, Sends
    <3>4. /\ RequestsInOrder'
          /\ \A k : CommitPending(k)' => CommitPending(k) \/ IsCommit(x, k)
      BY <1>1, <1>2, <1>3, <3>1, <3>2, <3>3, SendInOrder DEF OutcomeInv
    <3> QED BY <3>1, <3>2, <3>4 DEF IsCommit
  <2> QED BY <2>1, <2>2
<1> HIDE DEF Sends
<1>5. \A n \in Movements : Effectless(n) /\ ~(n = m /\ Sends) => Effectless(n)'
  BY <1>1, <1>4 DEF Effectless
<1>6. \A n \in Movements : Never(n) => Never(n)'
  BY <1>2, <1>3, <1>5 DEF Never, PastStays
<1>7. \A n \in Movements : ~Past(n)' => Effectless(n)'
  BY <1>2, <1>3, <1>5 DEF OutcomeInv, NoEffectEvidence, PastStays
<1>8. ASSUME NEW n \in Movements, store'[n].state \in {"PLANNED", "FAILED", "SUPERSEDED"}
      PROVE  Effectless(n)'
  <2>1. CASE store'[n] = store[n]
    BY <1>3, <1>5, <1>8, <2>1 DEF OutcomeInv, NoEffectEvidence
  <2>2. CASE ~Past(n)
    BY <1>3, <1>5, <1>8, <2>2 DEF OutcomeInv, NoEffectEvidence
  <2>3. CASE store'[n] # store[n] /\ Past(n)
    <3>1. n = m
      BY <2>3 DEF DriveMoves, Others
    <3>2. drive[m].pc = "awaitCommit" /\ Ended(m)
      <4>1. store[m].generation > 0 /\ NoRecord.generation = 0 /\ drive[m].pc \in {"idle", "awaitCommit"}
        BY <2>3, <3>1 DEF Past, NoRecord
      <4>2. store[m] # NoRecord /\ "idle" \notin Driving
        BY <4>1 DEF Driving
      <4> QED BY <4>1, <4>2 DEF DriveMoves, Submitted, Authorized, Started, WentOn
    <3>3. slot[<<"drive", m>>].status = "answered" /\ slot[<<"drive", m>>].code # "OK"
      BY <1>8, <2>3, <3>1, <3>2 DEF Ended, Answered
    <3>4. slot[<<"drive", m>>].type = "COMMIT_RESULT"
      BY ZenonT(40), <3>2 DEF CommitEvidence
    <3>5. <<"drive", m>> \in Threads /\ <<"drive", m>>[2] = m
      BY DriveThread
    <3>6. Never(m)
      BY <3>3, <3>4, <3>5 DEF OutcomeInv, NoEffectEvidence, Denies
    <3> QED BY <1>6, <3>1, <3>6 DEF Never
  <2> QED BY <2>1, <2>2, <2>3
<1>9. \A n \in Movements : marker'[object[n]] = n => ~CommitPending(n)'
  BY <1>1, <1>3, <1>4 DEF OutcomeInv, NoEffectEvidence, Effectless
<1>10. ASSUME NEW t \in Threads, slot'[t].status = "answered", Denies(slot'[t]) PROVE Never(t[2])'
  <2>1. slot'[t] = slot[t] /\ t[2] \in Movements
    BY <1>10 DEF DriveTraffic, Threads
  <2> QED BY <1>6, <1>10, <2>1 DEF OutcomeInv, NoEffectEvidence
<1>11. ASSUME NEW s \in Sessions, NEW i \in 1 .. Len(fr[s]), Denies(fr[s][i]) PROVE Never(fr[s][i].movement)'
  <2>1. PICK n \in Movements : n = fr[s][i].movement
    BY AnswerNames
  <2>2. Never(n)'
    BY <1>6, <1>11, <2>1 DEF OutcomeInv, NoEffectEvidence
  <2> QED BY <1>1, <2>1, <2>2 DEF Never, Past, Effectless, CommitPending, IsCommit
<1>12. NoEffectEvidence'
  BY <1>1, <1>7, <1>8, <1>9, <1>10, <1>11 DEF NoEffectEvidence, Denies
<1> QED BY <1>2, <1>4, <1>6, <1>12 DEF OutcomeInv, NeverStays

-----------------------------------------------------------------------------
(* cancel() and reconcile().                                                 *)

(* Whatever the operator's commands do leaves the evidence intact. *)
LEMMA AdminNoEffect ==
    ASSUME TypeOK, TypeOK', CommitEvidence, OutcomeInv, NEW m \in Movements, AdminStep(m)
    PROVE  OutcomeInv' /\ NeverStays
<1> DEFINE q == <<"reconcile", m>>
<1>1. AdminMoves(m)
  BY CancelShape, ReconcileShape DEF AdminStep
<1>2. UNCHANGED <<up, drive, fr, marker, conn, inc>>
  BY <1>1 DEF AdminMoves, adminFrame, endpointVars
<1>3. /\ \A n \in Movements : store[n].generation \in Nat /\ store'[n].generation \in Nat
      /\ admin[q].rec.generation \in Nat /\ admin[<<"cancel", m>>].rec.generation \in Nat
      /\ NoRecord.state = "NONE"
  BY AdminThread DEF TypeOK, CoordinatorTypeOK, Records, NoRecord
<1>4. CoordinatorStages
  BY DEF OutcomeInv
<1>5. admin[q].pc # "idle" => store[m].generation > 0 /\ drive[m].pc = "idle"
  BY <1>4 DEF CoordinatorStages
<1>6. ASSUME NEW n \in Movements PROVE Stage(n)' /\ (Past(n) => Past(n)') /\ (store[n].generation > 0 => store'[n].generation > 0)
  <2>1. CASE store'[n] = store[n]
    BY ZenonT(40), <1>2, <1>4, <2>1 DEF CoordinatorStages, Stage, Past
  <2>2. CASE store'[n] # store[n]
    <3>1. n = m
      BY Zenon, <1>1, <2>2 DEF AdminMoves
    <3>2. /\ store'[m].generation > 0 /\ store'[m].state \in {"CANCELLED", "COMMITTED", "FAILED"}
          /\ store'[m].state # "CANCELLED" => admin[q].pc # "idle"
      BY <1>1, <1>3, <2>2, <3>1 DEF AdminMoves, AdminWrites
    <3>3. store'[m].state \notin {"NONE", "PLANNED", "SUPERSEDED", "OUTCOME_UNKNOWN"} /\ store'[m].generation # 0
      BY <1>3, <3>2
    <3>4. store'[m].state # "CANCELLED" => drive[m].pc = "idle"
      BY Zenon, <1>5, <3>2
    <3> QED BY ZenonT(40), <1>2, <1>4, <3>1, <3>2, <3>3, <3>4 DEF CoordinatorStages, Stage, Past
  <2> QED BY <2>1, <2>2
<1>7. CoordinatorStages' /\ PastStays
  <2>1. ASSUME NEW n \in Movements, admin'[<<"reconcile", n>>].pc # "idle"
        PROVE  store'[n].generation > 0 /\ drive'[n].pc = "idle"
    <3>1. CASE admin[<<"reconcile", n>>].pc # "idle"
      BY <1>2, <1>4, <1>6, <3>1 DEF CoordinatorStages
    <3>2. CASE n = m /\ store[m].state = "OUTCOME_UNKNOWN" /\ store' = store
      BY <1>2, <1>3, <1>4, <3>2 DEF CoordinatorStages, Stage
    <3> QED BY <1>1, <2>1, <3>1, <3>2 DEF AdminMoves
  <2> QED BY <1>2, <1>4, <1>6, <2>1 DEF CoordinatorStages, PastStays
<1>8. RequestsInOrder' /\ \A n : CommitPending(n)' => CommitPending(n)
  <2>1. CASE to' = to
    <3>1. \A s \in Sessions : Shrinks(s) /\ (to'[s] # <<>> => Reads(s)')
      BY <1>2, <2>1 DEF Shrinks, OutcomeInv, RequestsInOrder, Reads
    <3> QED BY <1>7, <3>1, ShrinkInOrder DEF OutcomeInv
  <2>2. CASE to' # to
    <3>1. PICK s, type : /\ to' = Sent(s, Request(type, m, 0)) /\ type \in {"CANCEL", "AUTHORITY_QUERY"}
                         /\ type = "AUTHORITY_QUERY" => s[1] = "D" /\ admin[q].pc # "idle"
      BY <1>1, <2>2 DEF AdminMoves
    <3> DEFINE x == Request(type, m, 0)
    <3>2. x \in Requests /\ x.type = type /\ x.movement = m
      BY <3>1 DEF Request, Requests, RequestTypes
    <3>3. to' = Sent(s, x)
      BY <3>1
    <3> HIDE DEF x
    <3>4. admin[q].pc # "idle" => Past(m)'
      BY <1>5, <1>7 DEF PastStays, Past
    <3>5. /\ RequestsInOrder'
          /\ \A k : CommitPending(k)' => CommitPending(k) \/ IsCommit(x, k)
      BY <1>2, <1>7, <3>1, <3>2, <3>3, <3>4, SendInOrder DEF OutcomeInv
    <3> QED BY <3>1, <3>2, <3>5 DEF IsCommit
  <2> QED BY <2>1, <2>2
<1>9. ASSUME NEW n \in Movements, store'[n].state \in {"PLANNED", "FAILED", "SUPERSEDED"} PROVE Effectless(n)
  <2>1. CASE store'[n] = store[n]
    BY Zenon, <1>9, <2>1 DEF OutcomeInv, NoEffectEvidence
  <2>2. CASE store'[n] # store[n]
    <3>1. n = m /\ admin[q].pc = "awaitReport" /\ Answered(q) /\ slot[q].code = "ABSENT"
      BY <1>1, <1>9, <2>2 DEF AdminMoves, AdminWrites
    <3>2. slot[q].type = "AUTHORITY_REPORT" /\ q \in Threads /\ q[2] = m
      BY ZenonT(40), <3>1, AdminThread DEF CommitEvidence
    <3> QED BY Zenon, <3>1, <3>2 DEF OutcomeInv, NoEffectEvidence, Denies, Answered, Never
  <2> QED BY Zenon, <2>1, <2>2
<1>10. \A t \in Threads : slot'[t].status = "answered" /\ Denies(slot'[t]) => Never(t[2])
  BY Zenon, <1>1 DEF AdminMoves, OutcomeInv, NoEffectEvidence
<1>11. \A s \in Sessions : \A i \in 1 .. Len(fr'[s]) : Denies(fr'[s][i]) => Never(fr'[s][i].movement)
  BY Zenon, <1>2 DEF OutcomeInv, NoEffectEvidence
<1> QED BY <1>2, <1>7, <1>8, <1>9, <1>10, <1>11, QuietStep

-----------------------------------------------------------------------------
(* Sessions, crash and restart of the coordinator.                           *)

(* deliver(), the end of a session, a registration. *)
LEMMA SessionNoEffect ==
    ASSUME TypeOK, TypeOK', OutcomeInv,
           \/ \E e \in Endpoints : Register(e)
           \/ \E s \in Sessions : Deliver(s) \/ SessionEnd(s)
    PROVE  OutcomeInv' /\ NeverStays
<1>1. UNCHANGED <<store, up, drive, admin, to, inc, marker>>
  BY ZenonT(40) DEF Register, Deliver, SessionEnd, endpointVars
<1>2. CoordinatorStages' /\ PastStays
  BY <1>1 DEF OutcomeInv, CoordinatorStages, Stage, PastStays, Past
<1>3. ASSUME NEW s \in Sessions, to'[s] # <<>> PROVE Reads(s)'
  <2>1. Reads(s)
    BY <1>1, <1>3 DEF OutcomeInv, RequestsInOrder
  <2>2. conn' = conn \/ \E e \in Endpoints : conn' = [conn EXCEPT ![e] = "up"]
    BY ZenonT(40) DEF Register, Deliver, SessionEnd, endpointVars
  <2>3. conn \in [Endpoints -> {"down", "new", "up", "lost"}]
    BY DEF TypeOK, EndpointTypeOK
  <2>4. conn'[s[1]] = "up"
    BY <2>1, <2>2, <2>3 DEF Reads, Sessions
  <2> QED BY <1>1, <2>1, <2>4 DEF Reads
<1>4. RequestsInOrder' /\ \A n : CommitPending(n)' => CommitPending(n)
  BY <1>1, <1>2, <1>3, ShrinkInOrder DEF OutcomeInv, Shrinks
<1>5. \A n \in Movements : store'[n].state \in {"PLANNED", "FAILED", "SUPERSEDED"} => Effectless(n)
  BY <1>1 DEF OutcomeInv, NoEffectEvidence
<1>6. ASSUME UNCHANGED <<slot, fr>> PROVE OutcomeInv' /\ NeverStays
  BY ZenonT(40), <1>1, <1>2, <1>4, <1>5, <1>6, QuietStep DEF OutcomeInv, NoEffectEvidence
<1>7. /\ slot \in [Threads -> Slots] /\ fr \in [Sessions -> Seq(Responses)]
  BY DEF TypeOK, CoordinatorTypeOK, ControlTypeOK
<1>8. ASSUME NEW s \in Sessions, Deliver(s) PROVE OutcomeInv' /\ NeverStays
  <2> DEFINE r == Head(fr[s])
  <2>1. /\ fr[s] # <<>> /\ fr' = [fr EXCEPT ![s] = Tail(fr[s])]
        /\ slot' = [t \in Threads |->
                      IF t \in Waiters(s, r)
                      THEN [slot[t] EXCEPT !.status = "answered", !.code = r.code, !.arg = r.n]
                      ELSE slot[t]]
    BY ZenonT(40), <1>8 DEF Deliver
  <2>2. r = fr[s][1] /\ r \in Responses /\ 1 \in 1 .. Len(fr[s])
    BY ZenonT(40), <1>7, <2>1, HeadAndTail
  <2>3. Denies(r) => Never(r.movement)
    BY Zenon, <2>2 DEF OutcomeInv, NoEffectEvidence
  <2>4. ASSUME NEW x \in Sessions, NEW i \in 1 .. Len(fr'[x]), Denies(fr'[x][i]) PROVE Never(fr'[x][i].movement)
    <3>1. CASE x = s
      <4>1. fr'[x] = Tail(fr[s])
        BY ZenonT(40), <1>7, <2>1, <3>1
      <4>2. fr'[x][i] = fr[s][i + 1] /\ i + 1 \in 1 .. Len(fr[s])
        BY ZenonT(40), <1>7, <2>1, <4>1, HeadAndTail
      <4> QED BY <2>4, <4>2 DEF OutcomeInv, NoEffectEvidence
    <3>2. CASE x # s
      <4>1. fr'[x] = fr[x]
        BY ZenonT(40), <1>7, <2>1, <3>2
      <4> QED BY <2>4, <4>1 DEF OutcomeInv, NoEffectEvidence
    <3> QED BY Zenon, <3>1, <3>2
  <2> HIDE DEF r
  <2>5. ASSUME NEW t \in Threads, slot'[t].status = "answered", Denies(slot'[t]) PROVE Never(t[2])
    <3>1. CASE t \in Waiters(s, r)
      <4>1. slot'[t] = [slot[t] EXCEPT !.status = "answered", !.code = r.code, !.arg = r.n] /\ slot[t] \in Slots
        BY ZenonT(40), <1>7, <2>1, <3>1
      <4>2. slot'[t].type = r.type /\ slot'[t].code = r.code /\ t[2] = r.movement
        BY <3>1, <4>1 DEF Slots, Waiters
      <4> QED BY <2>3, <2>5, <4>2 DEF Denies
    <3>2. CASE t \notin Waiters(s, r)
      <4>1. slot'[t] = slot[t]
        BY ZenonT(40), <2>1, <3>2
      <4> QED BY Zenon, <2>5, <4>1 DEF OutcomeInv, NoEffectEvidence
    <3> QED BY <3>1, <3>2
  <2> QED BY <1>1, <1>2, <1>4, <1>5, <2>4, <2>5, QuietStep
<1>9. ASSUME NEW s \in Sessions, SessionEnd(s) PROVE OutcomeInv' /\ NeverStays
  <2>1. fr' = [fr EXCEPT ![s] = <<>>]
    BY <1>9 DEF SessionEnd
  <2>2. ASSUME NEW t \in Threads, slot'[t].status = "answered" PROVE slot'[t] = slot[t]
    <3>1. slot'[t] = slot[t] \/ slot'[t] = [slot[t] EXCEPT !.status = "closed"]
      BY <1>9 DEF SessionEnd
    <3>2. slot[t] \in Slots
      BY <1>7
    <3> QED BY <2>2, <3>1, <3>2 DEF Slots
  <2>3. \A x \in Sessions : Len(fr'[x]) = 0 \/ fr'[x] = fr[x]
    BY <1>7, <2>1
  <2>4. ASSUME NEW x \in Sessions, NEW i \in 1 .. Len(fr'[x]), Denies(fr'[x][i])
        PROVE  Never(fr'[x][i].movement)
    <3>1. fr'[x] = fr[x]
      BY <2>3, <2>4
    <3> QED BY Zenon, <2>4, <3>1 DEF OutcomeInv, NoEffectEvidence
  <2>5. \A t \in Threads : slot'[t].status = "answered" /\ Denies(slot'[t]) => Never(t[2])
    BY Zenon, <2>2 DEF OutcomeInv, NoEffectEvidence
  <2> QED BY <1>1, <1>2, <1>4, <1>5, <2>4, <2>5, QuietStep
<1>10. ASSUME NEW e \in Endpoints, Register(e) PROVE OutcomeInv' /\ NeverStays
  BY <1>6, <1>10 DEF Register
<1> QED BY <1>8, <1>9, <1>10

(* A crash drops the threads; recovery decides what was only planned. *)
LEMMA RestartNoEffect ==
    ASSUME TypeOK, TypeOK', OutcomeInv, CoordinatorCrash \/ CoordinatorStart
    PROVE  OutcomeInv' /\ NeverStays
<1>0. /\ IdleDrive.pc = "idle" /\ IdleAdmin.pc = "idle" /\ FreeSlot.status # "answered" /\ NoRecord.state = "NONE"
      /\ "idle" \notin Driving
  BY DEF IdleDrive, IdleAdmin, FreeSlot, NoRecord, Driving
<1>1. UNCHANGED <<to, inc, conn, marker>>
  BY DEF CoordinatorCrash, CoordinatorStart, endpointVars
<1>2. \A n \in Movements : store[n].generation \in Nat /\ store'[n].generation \in Nat
  BY DEF TypeOK, CoordinatorTypeOK, Records
<1>3. CoordinatorStages
  BY DEF OutcomeInv
<1>4. CASE CoordinatorCrash
  <2>1. /\ store' = store /\ up' = FALSE
        /\ \A n \in Movements : drive'[n] = IdleDrive /\ admin'[<<"reconcile", n>>] = IdleAdmin
        /\ \A t \in Threads : slot'[t] = FreeSlot
        /\ \A s \in Sessions : fr'[s] = <<>>
    BY ZenonT(40), <1>4, AdminThread DEF CoordinatorCrash
  <2>2. CoordinatorStages' /\ PastStays
    BY ZenonT(40), <1>0, <1>3, <2>1 DEF CoordinatorStages, Stage, PastStays, Past
  <2>3. RequestsInOrder' /\ \A n : CommitPending(n)' => CommitPending(n)
    BY ZenonT(40), <1>1, <2>2, ShrinkInOrder DEF OutcomeInv, Shrinks, RequestsInOrder, Reads
  <2>4. \A s \in Sessions : Len(fr'[s]) = 0
    BY <2>1
  <2>5. \A n \in Movements : store'[n].state \in {"PLANNED", "FAILED", "SUPERSEDED"} => Effectless(n)
    BY <2>1 DEF OutcomeInv, NoEffectEvidence
  <2>6. \A t \in Threads : slot'[t].status = "answered" /\ Denies(slot'[t]) => Never(t[2])
    BY <1>0, <2>1
  <2>7. \A s \in Sessions : \A i \in 1 .. Len(fr'[s]) : Denies(fr'[s][i]) => Never(fr'[s][i].movement)
    BY <2>4
  <2> QED BY <1>1, <2>2, <2>3, <2>5, <2>6, <2>7, QuietStep
<1>5. CASE CoordinatorStart
  <2>1. UNCHANGED <<drive, admin, slot, fr>> /\ ~up
    BY <1>5 DEF CoordinatorStart
  <2>2. CoordinatorStages' /\ PastStays
    <3>1. ASSUME NEW n \in Movements
          PROVE  /\ \/ store'[n] = store[n]
                    \/ /\ store'[n].generation > 0 /\ store'[n].generation > store[n].generation
                       /\ store'[n].state \in {"FAILED", "OUTCOME_UNKNOWN"}
                 /\ drive[n].pc = "idle" /\ Stage(n)
      <4>1. drive[n].pc = "idle" /\ Stage(n)
        BY ZenonT(40), <1>3, <2>1 DEF CoordinatorStages
      <4>2. \/ store'[n] = store[n]
            \/ /\ store'[n].generation = store[n].generation + 1
               /\ store'[n].state \in {"FAILED", "OUTCOME_UNKNOWN"}
        BY <1>5, RecoveredRecord
      <4> QED BY <1>2, <4>1, <4>2
    <3>2. ASSUME NEW n \in Movements PROVE Stage(n)' /\ (Past(n) => Past(n)')
      <4>1. CASE store'[n] = store[n]
        BY ZenonT(40), <2>1, <3>1, <4>1 DEF Stage, Past
      <4>2. CASE store'[n].generation > 0 /\ store'[n].state \in {"FAILED", "OUTCOME_UNKNOWN"}
        <5>1. drive'[n].pc = "idle" /\ store'[n].generation # 0
          BY <1>2, <2>1, <3>1, <4>2
        <5>2. Stage(n)'
          BY Zenon, <1>0, <4>2, <5>1 DEF Stage
        <5> QED BY Zenon, <4>2, <5>1, <5>2 DEF Past
      <4> QED BY <3>1, <4>1, <4>2
    <3>3. ASSUME NEW n \in Movements, admin'[<<"reconcile", n>>].pc # "idle"
          PROVE  store'[n].generation > 0 /\ drive'[n].pc = "idle"
      <4>1. store[n].generation > 0
        BY <1>3, <2>1, <3>3 DEF CoordinatorStages
      <4> QED BY <1>2, <2>1, <3>1, <4>1
    <3> QED BY <2>1, <3>1, <3>2, <3>3 DEF CoordinatorStages, PastStays
  <2>3. RequestsInOrder' /\ \A n : CommitPending(n)' => CommitPending(n)
    BY ZenonT(40), <1>1, <2>2, ShrinkInOrder DEF OutcomeInv, Shrinks, RequestsInOrder, Reads
  <2>4. \A n \in Movements : store'[n].state \in {"PLANNED", "FAILED", "SUPERSEDED"} => Effectless(n)
    BY <1>5, RecoveredRecord DEF OutcomeInv, NoEffectEvidence
  <2> QED BY ZenonT(40), <1>1, <2>1, <2>2, <2>3, <2>4, QuietStep DEF OutcomeInv, NoEffectEvidence
<1> QED BY <1>4, <1>5

-----------------------------------------------------------------------------
(* The endpoints.                                                            *)

(* An endpoint step that writes no marker and denies nothing uncertain. *)
LEMMA ReplyNoEffect ==
    ASSUME TypeOK, TypeOK', OutcomeInv, endpointFrame, UNCHANGED marker,
           \A s \in Sessions : Shrinks(s), \A s \in Sessions : to'[s] # <<>> => Reads(s)',
           \/ fr' = fr
           \/ \E u, r : fr' = Replied(u, r) /\ r \in Responses /\ (Denies(r) => Never(r.movement))
    PROVE  OutcomeInv' /\ NeverStays
<1>1. UNCHANGED <<store, up, drive, admin, slot>>
  BY DEF endpointFrame
<1>2. CoordinatorStages' /\ PastStays
  BY ZenonT(40), <1>1 DEF OutcomeInv, CoordinatorStages, Stage, PastStays, Past
<1>3. RequestsInOrder' /\ \A n : CommitPending(n)' => CommitPending(n)
  BY <1>2, ShrinkInOrder DEF OutcomeInv
<1>4. ASSUME NEW s \in Sessions, NEW i \in 1 .. Len(fr'[s]), Denies(fr'[s][i]) PROVE Never(fr'[s][i].movement)
  <2>1. CASE fr' = fr
    BY ZenonT(40), <1>4, <2>1 DEF OutcomeInv, NoEffectEvidence
  <2>2. CASE fr' # fr
    <3>1. PICK u, r : fr' = Replied(u, r) /\ r \in Responses /\ (Denies(r) => Never(r.movement))
      BY <2>2
    <3>2. (i \in 1 .. Len(fr[s]) /\ fr'[s][i] = fr[s][i]) \/ fr'[s][i] = r
      BY <3>1, GrownAnswers
    <3> QED BY ZenonT(40), <1>4, <3>1, <3>2 DEF OutcomeInv, NoEffectEvidence
  <2> QED BY <2>1, <2>2
<1> QED BY ZenonT(40), <1>1, <1>2, <1>3, <1>4, QuietStep DEF OutcomeInv, NoEffectEvidence

(* on_commit_request: the request was the only one of its movement, so a      *)
(* refusal is final.                                                          *)
LEMMA CommitRequestNoEffect ==
    ASSUME TypeOK, TypeOK', OutcomeInv, OnCommitRequest
    PROVE  OutcomeInv' /\ NeverStays
<1>0. PICK m : m = Incoming("D").movement
  OBVIOUS
<1>1. /\ endpointFrame /\ UNCHANGED <<conn, inc>> /\ Receives("D", "COMMIT_REQUEST")
      /\ \/ /\ marker' = [marker EXCEPT ![object[m]] = m]
            /\ fr' = Replied(<<"D", inc["D"]>>, Response("COMMIT_RESULT", m, Incoming("D").n, "OK"))
         \/ /\ marker' = marker
            /\ fr' = Replied(<<"D", inc["D"]>>, Response("COMMIT_RESULT", m, Incoming("D").n, "REFUSED"))
  BY ZenonT(40), <1>0 DEF OnCommitRequest, write_commit_marker
<1>2. m \in Movements /\ Past(m) /\ CommitPending(m) /\ ~CommitPending(m)'
  BY ZenonT(40), <1>0, <1>1, HeadRequest
<1>3. UNCHANGED <<store, up, drive, admin, slot>>
  BY <1>1 DEF endpointFrame
<1>4. CoordinatorStages' /\ PastStays
  BY ZenonT(40), <1>3 DEF OutcomeInv, CoordinatorStages, Stage, PastStays, Past
<1>5. RequestsInOrder' /\ \A n : CommitPending(n)' => CommitPending(n)
  <2>1. "D" \in Endpoints
    BY DEF Endpoints
  <2> QED BY ZenonT(40), <1>1, <1>4, <2>1, HandledQueue, ShrinkInOrder DEF OutcomeInv
<1>6. ~Effectless(m) /\ marker[object[m]] # m
  BY ZenonT(40), <1>2 DEF Effectless, OutcomeInv, NoEffectEvidence
<1>7. \A n \in Movements : Effectless(n) => Effectless(n)'
  <2> SUFFICES ASSUME NEW n \in Movements, Effectless(n) PROVE Effectless(n)'
    OBVIOUS
  <2>1. n # m /\ object[n] \in Versions /\ marker \in [Versions -> Movements \cup {NoMovement}]
    BY <1>6, FabricAssumptions DEF TypeOK, EndpointTypeOK
  <2>2. marker'[object[n]] # n
    BY <1>1, <2>1 DEF Effectless
  <2> QED BY ZenonT(40), <1>5, <2>2 DEF Effectless
<1>8. \A n \in Movements : Never(n) => Never(n)'
  BY <1>4, <1>7 DEF Never, PastStays
<1>9. ASSUME NEW n \in Movements
      PROVE  /\ ~Past(n)' => Effectless(n)'
             /\ store'[n].state \in {"PLANNED", "FAILED", "SUPERSEDED"} => Effectless(n)'
             /\ marker'[object[n]] = n => ~CommitPending(n)'
  <2>1. marker'[object[n]] = n => n = m \/ marker[object[n]] = n
    <3>1. object[n] \in Versions /\ marker \in [Versions -> Movements \cup {NoMovement}]
      BY FabricAssumptions DEF TypeOK, EndpointTypeOK
    <3> QED BY <1>1, <3>1
  <2> QED BY <1>2, <1>3, <1>4, <1>5, <1>7, <2>1 DEF OutcomeInv, NoEffectEvidence, PastStays
<1>10. ASSUME NEW t \in Threads, slot'[t].status = "answered", Denies(slot'[t]) PROVE Never(t[2])'
  BY <1>3, <1>8, <1>10 DEF OutcomeInv, NoEffectEvidence, Threads
<1>11. ASSUME NEW s \in Sessions, NEW i \in 1 .. Len(fr'[s]), Denies(fr'[s][i]) PROVE Never(fr[s][i].movement)'
  <2>1. PICK code \in {"OK", "REFUSED"} :
          /\ fr' = Replied(<<"D", inc["D"]>>, Response("COMMIT_RESULT", m, Incoming("D").n, code))
          /\ code = "REFUSED" => marker' = marker
    BY <1>1
  <2> DEFINE r == Response("COMMIT_RESULT", m, Incoming("D").n, code)
  <2>2. r \in Responses /\ r.type = "COMMIT_RESULT" /\ r.movement = m /\ r.code = code
    <3>1. Incoming("D").n \in Nat
      BY <1>1, ReceivesType DEF Endpoints
    <3> QED BY <1>2, <3>1 DEF Response, Responses, ResponseTypes, Codes
  <2>3. fr' = Replied(<<"D", inc["D"]>>, r)
    BY <2>1
  <2> HIDE DEF r
  <2>4. (i \in 1 .. Len(fr[s]) /\ fr'[s][i] = fr[s][i]) \/ fr'[s][i] = r
    BY <2>2, <2>3, GrownAnswers
  <2>5. PICK n \in Movements : n = fr'[s][i].movement /\ Never(n)'
    <3>1. CASE i \in 1 .. Len(fr[s]) /\ fr'[s][i] = fr[s][i]
      BY ZenonT(40), <1>8, <1>11, <3>1, AnswerNames DEF OutcomeInv, NoEffectEvidence
    <3>2. CASE fr'[s][i] = r
      <4>1. code = "REFUSED"
        BY ZenonT(40), <1>11, <2>1, <2>2, <3>2 DEF Denies
      <4>2. Never(m)'
        BY ZenonT(40), <1>2, <1>4, <1>6, <2>1, <4>1 DEF Never, Effectless, PastStays
      <4> QED BY <1>2, <2>2, <3>2, <4>2
    <3> QED BY <2>4, <3>1, <3>2
  <2> QED BY ZenonT(40), <2>5 DEF Never, Past, Effectless, CommitPending, IsCommit
<1>12. NoEffectEvidence'
  BY ZenonT(40), <1>9, <1>10, <1>11 DEF NoEffectEvidence, Denies
<1> QED BY <1>4, <1>5, <1>8, <1>12 DEF OutcomeInv, NeverStays

(* The fields of an answer an endpoint sends. *)
LEMMA ResponseFields ==
    ASSUME NEW type \in ResponseTypes, NEW m \in Movements, NEW n \in Nat, NEW code \in Codes
    PROVE  /\ Response(type, m, n, code) \in Responses /\ Response(type, m, n, code).type = type
           /\ Response(type, m, n, code).movement = m /\ Response(type, m, n, code).code = code
BY DEF Response, Responses

(* The other handlers.  "No marker" is reported for a movement whose drive is *)
(* past its commit request, none of which is on its way any more.             *)
LEMMA HandleNoEffect ==
    ASSUME MarkersSeen, TypeOK, TypeOK', OutcomeInv, NEW e \in Endpoints, Handle(e)
    PROVE  OutcomeInv' /\ NeverStays
<1>0. ASSUME NEW type \in {"GRANT_ACK", "CANCEL_ACK", "VERIFY_RESPONSE"}, NEW m \in Movements, NEW n \in Nat,
             NEW code \in {"OK", "REFUSED", "CHUNK", "MATCH", "MISMATCH"}
      PROVE  Response(type, m, n, code) \in Responses /\ ~Denies(Response(type, m, n, code))
  <2>1. type \in ResponseTypes /\ code \in Codes
    BY DEF ResponseTypes, Codes
  <2>2. Response(type, m, n, code) \in Responses /\ Response(type, m, n, code).type = type
    BY <2>1, ResponseFields
  <2> QED BY <2>2 DEF Denies
<1>1. CASE e = "D" /\ OnCommitRequest
  BY <1>1, CommitRequestNoEffect
<1>2. CASE ~(e = "D" /\ OnCommitRequest)
  <2>1. PICK type : Receives(e, type)
    BY <1>2 DEF Handle, OnGrant, OnCancel, OnExecute, OnVerify, OnAuthorityQuery
  <2>2. endpointFrame /\ UNCHANGED <<conn, inc, marker>>
    BY <1>2 DEF Handle, OnGrant, OnCancel, OnExecute, OnVerify, OnAuthorityQuery, endpointVars
  <2>3. /\ \A s \in Sessions : Shrinks(s)
        /\ \A s \in Sessions : to'[s] # <<>> => Reads(s)'
    BY <2>1, <2>2, HandledQueue
  <2>4. Incoming(e).movement \in Movements /\ Incoming(e).n \in Nat
    BY <2>1, ReceivesType
  <2>5. \/ fr' = fr
        \/ \E u, r : fr' = Replied(u, r) /\ r \in Responses /\ (Denies(r) => Never(r.movement))
    <3>1. CASE OnGrant(e)
      <4> DEFINE r == Response("GRANT_ACK", Incoming(e).movement, Incoming(e).n, "OK")
      <4>1. fr' = fr \/ fr' = Replied(<<e, inc[e]>>, r)
        BY <3>1 DEF OnGrant
      <4>2. r \in Responses /\ ~Denies(r)
        BY <1>0, <2>4
      <4> HIDE DEF r
      <4> QED BY <4>1, <4>2
    <3>2. CASE OnCancel(e)
      <4> DEFINE r == Response("CANCEL_ACK", Incoming(e).movement, 0, "OK")
      <4>1. fr' = Replied(<<e, inc[e]>>, r)
        BY <3>2 DEF OnCancel
      <4>2. r \in Responses /\ ~Denies(r)
        BY <1>0, <2>4
      <4> HIDE DEF r
      <4> QED BY <4>1, <4>2
    <3>3. CASE OnExecute
      BY <3>3 DEF OnExecute
    <3>4. CASE e = "D" /\ (OnVerify("VERIFY_FULL") \/ OnVerify("VERIFY_CHUNK"))
      <4>1. PICK k \in Nat, code \in {"REFUSED", "CHUNK", "MATCH", "MISMATCH"} :
               fr' = Replied(<<"D", inc["D"]>>, Response("VERIFY_RESPONSE", Incoming("D").movement, k, code))
        BY ZenonT(60), <2>4, <3>4 DEF OnVerify, VerifyAnswer
      <4> DEFINE r == Response("VERIFY_RESPONSE", Incoming("D").movement, k, code)
      <4>2. r \in Responses /\ ~Denies(r)
        BY <1>0, <2>4, <3>4
      <4>3. fr' = Replied(<<"D", inc["D"]>>, r)
        BY <4>1
      <4> HIDE DEF r
      <4> QED BY <4>2, <4>3
    <3>5. CASE e = "D" /\ OnAuthorityQuery
      <4>0. PICK m : m = Incoming("D").movement
        OBVIOUS
      <4>1. PICK code \in {"ABSENT", "INVALID", "AUTHORITATIVE"} :
               /\ fr' = Replied(<<"D", inc["D"]>>, Response("AUTHORITY_REPORT", m, 0, code))
               /\ code = "ABSENT" => marker[object[m]] = NoMovement
        BY ZenonT(40), <3>5, <4>0 DEF OnAuthorityQuery, authority, Unread, MayFault, MarkersSeen
      <4>2. m \in Movements /\ Past(m) /\ ~CommitPending(m)
        <5>1. Receives("D", "AUTHORITY_QUERY")
          BY ZenonT(40), <3>5 DEF OnAuthorityQuery
        <5> QED BY <4>0, <5>1, HeadRequest
      <4>3. code = "ABSENT" => Never(m)
        BY <4>1, <4>2, FabricAssumptions DEF Never, Effectless
      <4> DEFINE r == Response("AUTHORITY_REPORT", m, 0, code)
      <4>4. r \in Responses /\ r.type = "AUTHORITY_REPORT" /\ r.movement = m /\ r.code = code
        <5>1. "AUTHORITY_REPORT" \in ResponseTypes /\ code \in Codes /\ 0 \in Nat
          BY DEF ResponseTypes, Codes
        <5> QED BY <4>2, <5>1, ResponseFields
      <4>5. fr' = Replied(<<"D", inc["D"]>>, r)
        BY <4>1
      <4> HIDE DEF r
      <4> QED BY <4>3, <4>4, <4>5 DEF Denies
    <3> QED BY <1>2, <3>1, <3>2, <3>3, <3>4, <3>5 DEF Handle
  <2> QED BY <2>2, <2>3, <2>5, ReplyNoEffect
<1> QED BY <1>1, <1>2

(* Starting, losing and replacing an endpoint process drops requests only. *)
LEMMA LifeNoEffect ==
    ASSUME TypeOK, TypeOK', OutcomeInv, NEW e \in Endpoints, EndpointStart(e) \/ EndpointCrash(e) \/ LinkLost(e)
    PROVE  OutcomeInv' /\ NeverStays
<1>1. endpointFrame /\ UNCHANGED <<fr, marker>>
  BY DEF EndpointStart, EndpointCrash, LinkLost
<1>2. /\ to \in [Sessions -> Seq(Requests)] /\ conn \in [Endpoints -> {"down", "new", "up", "lost"}]
      /\ inc \in [Endpoints -> 0 .. MaxIncarnation] /\ \A s \in Sessions : s[1] \in Endpoints
  BY ZenonT(40) DEF TypeOK, ControlTypeOK, EndpointTypeOK, Sessions
<1>3. \A s \in Sessions : to'[s] \in {to[s], <<>>}
  BY ZenonT(40), <1>2 DEF EndpointStart, EndpointCrash, LinkLost
<1>4. ASSUME NEW s \in Sessions, to'[s] # <<>> PROVE Reads(s)'
  <2>1. to'[s] = to[s] /\ Reads(s)
    BY ZenonT(40), <1>3, <1>4 DEF OutcomeInv, RequestsInOrder
  <2>2. s[1] # e
    <3>1. CASE EndpointStart(e)
      BY ZenonT(40), <2>1, <3>1 DEF EndpointStart, Reads
    <3>2. CASE EndpointCrash(e)
      BY ZenonT(40), <1>4, <3>2 DEF EndpointCrash
    <3>3. CASE LinkLost(e)
      <4>1. to' = [to EXCEPT ![<<e, inc[e]>>] = <<>>]
        BY ZenonT(40), <3>3 DEF LinkLost
      <4>2. s = <<s[1], s[2]>> /\ s[2] = inc[s[1]]
        BY <2>1 DEF Sessions, Reads
      <4> QED BY <1>2, <1>4, <4>1, <4>2
    <3> QED BY <3>1, <3>2, <3>3
  <2>3. conn'[s[1]] = conn[s[1]] /\ inc'[s[1]] = inc[s[1]]
    BY Zenon, <1>2, <2>2 DEF EndpointStart, EndpointCrash, LinkLost
  <2> QED BY ZenonT(40), <2>1, <2>3 DEF Reads
<1> QED BY <1>1, <1>3, <1>4, ReplyNoEffect DEF Shrinks

(* The transfer threads, and damage to a stored file. *)
LEMMA WorkerNoEffect ==
    ASSUME TypeOK, TypeOK', OutcomeInv,
           (\E m \in Movements : WorkerStep(m)) \/ (\E v \in Versions : Damage(v))
    PROVE  OutcomeInv' /\ NeverStays
<1>1. endpointFrame /\ UNCHANGED <<to, inc, conn, marker>>
  BY ZenonT(60) DEF Damage, WorkerStep, WorkerNoGrant, WorkerBegin, WorkerBeginFails, WorkerReceived, WorkerCancelled,
              WorkerFails, WorkerClearTarget, WorkerRename, WorkerPromoteFails, WorkerReport, workerFrame
<1>2. /\ \A s \in Sessions : Shrinks(s)
      /\ \A s \in Sessions : to'[s] # <<>> => Reads(s)'
  BY Zenon, <1>1 DEF Shrinks, OutcomeInv, RequestsInOrder, Reads
<1>3. \/ fr' = fr
      \/ \E u, r : fr' = Replied(u, r) /\ r \in Responses /\ ~Denies(r)
  <2>1. CASE fr' # fr
    <3>1. PICK m \in Movements :
            fr' = Replied(<<"D", inc["D"]>>, Response("ATTEMPT_RESULT", m, worker[m].attempt, worker[m].outcome))
      BY SMTT(60), <2>1 DEF Damage, WorkerStep, WorkerNoGrant, WorkerBegin, WorkerBeginFails, WorkerReceived,
              WorkerCancelled, WorkerFails, WorkerClearTarget, WorkerRename, WorkerPromoteFails, WorkerReport
    <3> DEFINE r == Response("ATTEMPT_RESULT", m, worker[m].attempt, worker[m].outcome)
    <3>2. worker[m].attempt \in Nat /\ worker[m].outcome \in Codes /\ "ATTEMPT_RESULT" \in ResponseTypes
      BY SMTT(60) DEF TypeOK, EndpointTypeOK, Workers, Codes, ResponseTypes
    <3>3. r \in Responses /\ r.type = "ATTEMPT_RESULT"
      BY <3>2 DEF Response, Responses
    <3>4. fr' = Replied(<<"D", inc["D"]>>, r)
      BY <3>1
    <3> HIDE DEF r
    <3> QED BY <3>3, <3>4 DEF Denies
  <2> QED BY <2>1
<1> QED BY ZenonT(40), <1>1, <1>2, <1>3, ReplyNoEffect

-----------------------------------------------------------------------------

(* Initially there is no record, no request and no marker. *)
LEMMA InitOutcome == Init => OutcomeInv
<1> SUFFICES ASSUME Init PROVE OutcomeInv
  OBVIOUS
<1>1. /\ \A m \in Movements : /\ store[m] = NoRecord /\ drive[m] = IdleDrive
                              /\ admin[<<"reconcile", m>>] = IdleAdmin /\ marker[object[m]] = NoMovement
      /\ \A t \in Threads : slot[t] = FreeSlot
      /\ \A s \in Sessions : to[s] = <<>> /\ fr[s] = <<>>
  BY ZenonT(40), AdminThread, FabricAssumptions DEF Init
<1>2. /\ NoRecord.state = "NONE" /\ NoRecord.generation = 0 /\ IdleDrive.pc = "idle" /\ IdleAdmin.pc = "idle"
      /\ FreeSlot.status = "free" /\ "idle" \notin Driving
  BY ZenonT(40) DEF NoRecord, IdleDrive, IdleAdmin, FreeSlot, Driving
<1>3. CoordinatorStages
  BY ZenonT(40), <1>1, <1>2 DEF CoordinatorStages, Stage
<1>4. \A s \in Sessions : Len(to[s]) = 0 /\ Len(fr[s]) = 0
  BY <1>1
<1>5. RequestsInOrder
  BY <1>1, <1>4 DEF RequestsInOrder
<1>6. \A m \in Movements : Effectless(m)
  <2>1. \A m : ~CommitPending(m)
    BY <1>4 DEF CommitPending
  <2>2. \A m \in Movements : marker[object[m]] # m
    BY ZenonT(40), <1>1, FabricAssumptions
  <2> QED BY <2>1, <2>2 DEF Effectless
<1>7. \A s \in Sessions : \A i \in 1 .. Len(fr[s]) : Denies(fr[s][i]) => Never(fr[s][i].movement)
  BY <1>4
<1>8. \A t \in Threads : slot[t].status # "answered"
  BY <1>1, <1>2
<1>9. \A m \in Movements : ~CommitPending(m)
  BY <1>6 DEF Effectless
<1>10. NoEffectEvidence
  BY ZenonT(40), <1>6, <1>7, <1>8, <1>9 DEF NoEffectEvidence
<1> QED BY <1>3, <1>5, <1>10 DEF OutcomeInv

(* Every step keeps the evidence of no effect. *)
LEMMA NextOutcome ==
    ASSUME MarkersSeen, TypeOK, TypeOK', CommitEvidence, OutcomeInv, [Next]_vars
    PROVE  OutcomeInv' /\ NeverStays
<1>1. CASE Next
  <2>1. ASSUME NEW m \in Movements, SubmitPlan(m) \/ DriveStep(m) PROVE OutcomeInv' /\ NeverStays
    BY <2>1, DriveShape, DriveSends, DriveNoEffect
  <2>2. ASSUME NEW m \in Movements, AdminStep(m) PROVE OutcomeInv' /\ NeverStays
    BY <2>2, AdminNoEffect
  <2>3. CASE \/ \E e \in Endpoints : Register(e)
             \/ \E s \in Sessions : Deliver(s) \/ SessionEnd(s)
    BY <2>3, SessionNoEffect
  <2>4. CASE CoordinatorCrash \/ CoordinatorStart
    BY <2>4, RestartNoEffect
  <2>5. CASE (\E m \in Movements : WorkerStep(m)) \/ (\E v \in Versions : Damage(v))
    BY <2>5, WorkerNoEffect
  <2>6. ASSUME NEW e \in Endpoints, EndpointStart(e) \/ EndpointCrash(e) \/ LinkLost(e) \/ Handle(e) PROVE OutcomeInv' /\ NeverStays
    BY <2>6, LifeNoEffect, HandleNoEffect
  <2> QED BY <1>1, <2>1, <2>2, <2>3, <2>4, <2>5, <2>6 DEF Next
<1>2. CASE UNCHANGED vars
  <2>1. endpointFrame /\ UNCHANGED <<to, fr, inc, conn, marker>>
    BY <1>2 DEF vars, endpointFrame
  <2>2. /\ \A s \in Sessions : Shrinks(s)
        /\ \A s \in Sessions : to'[s] # <<>> => Reads(s)'
    BY ZenonT(40), <2>1 DEF Shrinks, OutcomeInv, RequestsInOrder, Reads
  <2> QED BY ZenonT(40), <2>1, <2>2, ReplyNoEffect
<1> QED BY <1>1, <1>2

(* The drive of a movement sends one commit request at most, whatever says    *)
(* that it had no effect comes after that request, and it is right.           *)
THEOREM OutcomeInvariant == MarkersSeen => (Spec => []OutcomeInv)
<1> SUFFICES ASSUME MarkersSeen PROVE Spec => []OutcomeInv
  OBVIOUS
<1>1. TypeOK /\ TypeOK' /\ CommitEvidence /\ OutcomeInv /\ [Next]_vars => OutcomeInv'
  BY NextOutcome
<1> QED BY <1>1, InitOutcome, TypeCorrect, EvidenceOfCommit, PTL DEF Spec

(* A record reads FAILED or SUPERSEDED only when the movement's own commit    *)
(* did not take effect: no late commit request, no reordering of reconcile's  *)
(* query with it, no crash or lost link lets a failed movement commit, as     *)
(* long as exists() does not deny a marker that is there.                     *)
THEOREM FailedIsReal == MarkersSeen => (Spec => []FailedHasNoEffect)
<1> SUFFICES ASSUME MarkersSeen PROVE Spec => []FailedHasNoEffect
  OBVIOUS
<1>1. OutcomeInv => FailedHasNoEffect
  BY ZenonT(40) DEF OutcomeInv, NoEffectEvidence, Effectless, FailedHasNoEffect
<1> QED BY <1>1, OutcomeInvariant, PTL

-----------------------------------------------------------------------------
(* One thread at a time works on a record.                                   *)

(* Every step. *)
LEMMA NextInStep ==
    ASSUME MarkersSeen, NoCancel, TypeOK, TypeOK', CommitEvidence, OutcomeInv, AllInStep, [Next]_vars
    PROVE  AllInStep' /\ Newer
<1>0. OutcomeInv' /\ NeverStays
  BY NextOutcome
<1>1. ASSUME NEW m \in Movements, SubmitPlan(m) \/ DriveStep(m) PROVE AllInStep' /\ Newer
  BY <1>0, <1>1, DriveShape, DriveSends, DriveInStep
<1>2. ASSUME NEW m \in Movements, AdminStep(m) PROVE AllInStep' /\ Newer
  BY <1>0, <1>2, ReconcileInStep
<1>3. CASE CoordinatorCrash \/ CoordinatorStart
  BY <1>0, <1>3, OtherInStep
<1>4. CASE UNCHANGED vars
  BY <1>0, <1>4, OtherInStep DEF vars
<1>5. CASE AroundRecords
  <2>1. UNCHANGED <<store, drive, admin>>
    BY <1>5, RecordsAlone
  <2> QED BY <1>0, <2>1, OtherInStep
<1> QED BY <1>1, <1>2, <1>3, <1>4, <1>5 DEF Next, AroundRecords

(* Without cancel(), drive_movement, reconcile() and recovery take turns on a *)
(* record: whichever of them is at work holds the record itself, not an old   *)
(* copy, and a record says CANCELLED only of a movement that can no longer    *)
(* commit.                                                                    *)
THEOREM OneWriter == MarkersSeen /\ NoCancel => (Spec => []AllInStep)
<1> SUFFICES ASSUME MarkersSeen, NoCancel PROVE Spec => []AllInStep
  OBVIOUS
<1>1. Init => AllInStep
  BY InitInStep
<1>2. TypeOK /\ TypeOK' /\ CommitEvidence /\ OutcomeInv /\ AllInStep /\ [Next]_vars => AllInStep'
  BY NextInStep
<1> QED BY <1>1, <1>2, OutcomeInvariant, TypeCorrect, EvidenceOfCommit, PTL DEF Spec

(* No put writes an older revision over a newer one and every new state has a *)
(* newer generation, for drive_movement, reconcile() and recovery.            *)
THEOREM GenerationsFence == MarkersSeen /\ NoCancel => (Spec => GenerationFences)
<1> SUFFICES ASSUME MarkersSeen, NoCancel PROVE Spec => GenerationFences
  OBVIOUS
<1>1. TypeOK /\ TypeOK' /\ CommitEvidence /\ OutcomeInv /\ AllInStep /\ [Next]_vars =>
        [\A m \in Movements : store[m] # NoRecord /\ store'[m] # store[m]
                              => store'[m].generation > store[m].generation]_vars
  BY NextInStep DEF Newer
<1>2. Spec => []AllInStep
  BY OneWriter
<1> QED BY <1>1, <1>2, OutcomeInvariant, TypeCorrect, EvidenceOfCommit, PTL DEF Spec, GenerationFences

-----------------------------------------------------------------------------
(* The refinement of MovementOutcome, step by step.                          *)

OutcomeStep == [Outcome!Next]_<<[m \in Movements |-> OutcomeOf(store[m].state)], marker>>

(* The four outcomes a record can report. *)
LEMMA OutcomeValues ==
    ASSUME NEW state
    PROVE  /\ OutcomeOf(state) \in {"pending", "unknown", "committed", "aborted"}
           /\ OutcomeOf(state) = "committed" <=> state = "COMMITTED"
           /\ OutcomeOf(state) = "aborted" <=> state \in {"FAILED", "SUPERSEDED", "CANCELLED"}
           /\ OutcomeOf(state) = "unknown" <=> state = "OUTCOME_UNKNOWN"
BY DEF OutcomeOf

(* A put of one record that was still undecided. *)
LEMMA PutStep ==
    ASSUME CommitEvidence', OutcomeInv', AllInStep', UNCHANGED marker, NEW m \in Movements,
           \A n \in Movements \ {m} : store'[n] = store[n],
           \/ store'[m] = store[m]
           \/ OutcomeOf(store[m].state) = "pending"
           \/ /\ OutcomeOf(store[m].state) = "unknown"
              /\ OutcomeOf(store'[m].state) \in {"committed", "aborted"}
    PROVE  OutcomeStep
<1> DEFINE o == [n \in Movements |-> OutcomeOf(store[n].state)]
<1>1. o'[m] = OutcomeOf(store'[m].state) /\ o[m] = OutcomeOf(store[m].state)
  OBVIOUS
<1>2. o' = [o EXCEPT ![m] = OutcomeOf(store'[m].state)]
  <2>1. \A n \in Movements \ {m} : OutcomeOf(store'[n].state) = OutcomeOf(store[n].state)
    OBVIOUS
  <2>2. o' = [n \in Movements |-> OutcomeOf(store'[n].state)]
    OBVIOUS
  <2> QED BY ZenonT(40), <2>1, <2>2
<1>3. CASE OutcomeOf(store'[m].state) = OutcomeOf(store[m].state)
  <2>1. o' = o
    BY <1>3
  <2> QED BY <2>1 DEF OutcomeStep
<1>4. CASE OutcomeOf(store[m].state) = "pending" /\ OutcomeOf(store'[m].state) = "unknown"
  <2> DEFINE lost == {m}
             dropped == {}
  <2>1. /\ lost \in SUBSET Movements /\ dropped \in SUBSET Movements
        /\ \A n \in lost \cup dropped : o[n] = "pending"
        /\ \A n \in dropped : marker[object[n]] # n
        /\ o' = [n \in Movements |-> IF n \in dropped THEN "aborted" ELSE IF n \in lost THEN "unknown" ELSE o[n]]
    BY Zenon, <1>1, <1>2, <1>4
  <2> HIDE DEF lost, dropped
  <2>2. Outcome!LoseTrack
    BY ZenonT(40), <2>1 DEF Outcome!LoseTrack
  <2> QED BY <2>2 DEF OutcomeStep, Outcome!Next
<1>5. CASE OutcomeOf(store'[m].state) = "committed" /\ OutcomeOf(store[m].state) \in {"pending", "unknown"}
  <2>1. store'[m].state = "COMMITTED"
    BY <1>5, OutcomeValues
  <2>2. marker'[object[m]] # NoMovement
    BY ZenonT(40), <2>1 DEF CommitEvidence
  <2>3. Outcome!Commit(m)
    BY Zenon, <1>1, <1>2, <1>5, <2>2 DEF Outcome!Commit, Outcome!Undecided
  <2> QED BY <2>3 DEF OutcomeStep, Outcome!Next
<1>6. CASE OutcomeOf(store'[m].state) = "aborted" /\ OutcomeOf(store[m].state) \in {"pending", "unknown"}
  <2>1. store'[m].state \in {"FAILED", "SUPERSEDED", "CANCELLED"}
    BY <1>6, OutcomeValues
  <2>2. Effectless(m)'
    BY Zenon, <2>1 DEF OutcomeInv, NoEffectEvidence, AllInStep, InStep, Never
  <2>3. marker[object[m]] # m
    BY Zenon, <2>2 DEF Effectless
  <2>4. Outcome!Abort(m)
    BY ZenonT(40), <1>1, <1>2, <1>6, <2>3 DEF Outcome!Abort, Outcome!Undecided
  <2> QED BY <2>4 DEF OutcomeStep, Outcome!Next
<1>7. OutcomeOf(store'[m].state) \in {"pending", "unknown", "committed", "aborted"}
  BY OutcomeValues
<1> QED BY <1>3, <1>4, <1>5, <1>6, <1>7

(* recover() at the start of the coordinator. *)
LEMMA RecoverStep ==
    ASSUME TypeOK, OutcomeInv, CoordinatorStart
    PROVE  OutcomeStep
<1> DEFINE o == [n \in Movements |-> OutcomeOf(store[n].state)]
           lost == {n \in Movements : store'[n] # store[n] /\ store[n].state \in InFlight}
           dropped == {n \in Movements : store'[n] # store[n] /\ store[n].state = "PLANNED"}
<1>1. UNCHANGED marker
  BY DEF CoordinatorStart, endpointVars
<1>2. ASSUME NEW n \in Movements
      PROVE  /\ n \in lost => OutcomeOf(store[n].state) = "pending" /\ OutcomeOf(store'[n].state) = "unknown"
             /\ n \in dropped => /\ OutcomeOf(store[n].state) = "pending"
                                 /\ OutcomeOf(store'[n].state) = "aborted"
                                 /\ marker[object[n]] # n
             /\ n \notin lost \cup dropped => store'[n] = store[n]
             /\ n \notin lost \/ n \notin dropped
  <2>1. \/ store'[n] = store[n]
        \/ store[n].state = "PLANNED" /\ store'[n].state = "FAILED"
        \/ store[n].state \in InFlight /\ store'[n].state = "OUTCOME_UNKNOWN"
    BY RecoveredRecord
  <2>2. store[n].state = "PLANNED" => marker[object[n]] # n
    BY DEF OutcomeInv, NoEffectEvidence, Effectless
  <2>3. /\ OutcomeOf("FAILED") = "aborted" /\ OutcomeOf("OUTCOME_UNKNOWN") = "unknown"
        /\ store[n].state \in InFlight \cup {"PLANNED"} => OutcomeOf(store[n].state) = "pending"
    BY DEF OutcomeOf, InFlight
  <2> QED BY ZenonT(40), <2>1, <2>2, <2>3 DEF InFlight
<1>3. lost \in SUBSET Movements /\ dropped \in SUBSET Movements
  OBVIOUS
<1> HIDE DEF lost, dropped
<1>4. /\ \A n \in lost \cup dropped : o[n] = "pending"
      /\ \A n \in dropped : marker[object[n]] # n
  BY <1>2, <1>3
<1>5. o' = [n \in Movements |-> IF n \in dropped THEN "aborted" ELSE IF n \in lost THEN "unknown" ELSE o[n]]
  BY <1>2
<1>6. Outcome!LoseTrack
  BY Zenon, <1>1, <1>3, <1>4, <1>5 DEF Outcome!LoseTrack
<1> QED BY <1>6 DEF OutcomeStep, Outcome!Next

(* on_commit_request at the destination: the coordinator has not decided. *)
LEMMA EffectStep ==
    ASSUME TypeOK, CommitEvidence, OutcomeInv, AllInStep, OnCommitRequest
    PROVE  OutcomeStep
<1> DEFINE o == [n \in Movements |-> OutcomeOf(store[n].state)]
<1>0. PICK m : m = Incoming("D").movement
  OBVIOUS
<1>1. /\ UNCHANGED store /\ Receives("D", "COMMIT_REQUEST")
      /\ \/ marker' = [marker EXCEPT ![object[m]] = m] /\ (marker[object[m]] = NoMovement \/ faults' = faults + 1)
         \/ marker' = marker
  BY ZenonT(40), <1>0 DEF OnCommitRequest, write_commit_marker, endpointFrame, Unread
<1>2. m \in Movements /\ CommitPending(m)
  BY <1>0, <1>1, HeadRequest
<1>3. o' = o
  BY <1>1
<1>4. CASE marker' = [marker EXCEPT ![object[m]] = m] /\ (marker[object[m]] = NoMovement \/ faults' = faults + 1)
  <2>0. faults' = faults + 1 => faults' > faults
    <3>1. faults \in 0 .. MaxFaults
      BY Zenon DEF TypeOK, ControlTypeOK
    <3> QED BY <3>1, FabricAssumptions
  <2>1. store[m].state \notin {"FAILED", "SUPERSEDED", "CANCELLED"}
    BY Zenon, <1>2, <1>4 DEF OutcomeInv, NoEffectEvidence, AllInStep, InStep, Never, Effectless
  <2>2. marker[object[m]] = NoMovement => store[m].state # "COMMITTED"
    BY Zenon, <1>2 DEF CommitEvidence
  <2>3. /\ o[m] # "aborted"
        /\ marker[object[m]] = NoMovement => o[m] \in {"pending", "unknown"}
    BY ZenonT(40), <1>2, <2>1, <2>2, OutcomeValues
  <2>4. Outcome!TakeEffect(m)
    BY Zenon, <1>3, <1>4, <2>0, <2>3 DEF Outcome!TakeEffect, Outcome!Undecided
  <2> QED BY <1>2, <2>4 DEF OutcomeStep, Outcome!Next
<1>5. CASE marker' = marker
  BY <1>3, <1>5 DEF OutcomeStep
<1> QED BY <1>1, <1>4, <1>5

(* Every step is a step of MovementOutcome or changes nothing it speaks of. *)
LEMMA NextRefines ==
    ASSUME MarkersSeen, NoCancel, TypeOK, TypeOK', CommitEvidence, CommitEvidence', OutcomeInv, AllInStep,
           [Next]_vars
    PROVE  OutcomeStep
<1>0. OutcomeInv' /\ NeverStays /\ AllInStep'
  BY NextOutcome, NextInStep
<1>1. CASE OnCommitRequest
  BY <1>1, EffectStep
<1>2. CASE CoordinatorStart
  BY <1>2, RecoverStep
<1>3. CASE UNCHANGED <<store, marker>>
  BY <1>3 DEF OutcomeStep
<1>4. ASSUME UNCHANGED marker, NEW m \in Movements, SubmitPlan(m) \/ DriveStep(m) PROVE OutcomeStep
  <2>1. DriveMoves(m)
    BY <1>4, DriveShape
  <2>2. Stage(m) /\ InStep(m)
    BY Zenon DEF OutcomeInv, CoordinatorStages, AllInStep
  <2>3. store'[m] # store[m] => store[m].state \in InFlight \cup {"NONE", "PLANNED"}
    <3> SUFFICES ASSUME store'[m] # store[m] PROVE store[m].state \in InFlight \cup {"NONE", "PLANNED"}
      OBVIOUS
    <3>1. \/ store[m] = NoRecord \/ drive[m].pc \in Driving \cup {"planned"}
      BY Zenon, <2>1 DEF DriveMoves, Submitted, Authorized, Started
    <3>2. CASE store[m] = NoRecord
      <4>1. NoRecord.state = "NONE"
        BY Zenon DEF NoRecord
      <4> QED BY Zenon, <3>2, <4>1
    <3>3. CASE drive[m].pc \in Driving \cup {"planned"}
      <4>1. store[m] = drive[m].rec
        BY <2>2, <3>3 DEF InStep, Driving
      <4> QED BY ZenonT(40), <2>2, <3>3, <4>1 DEF Stage
    <3> QED BY <3>1, <3>2, <3>3
  <2>4. store'[m] # store[m] => OutcomeOf(store[m].state) = "pending"
    BY <2>3 DEF OutcomeOf, InFlight
  <2> QED BY Zenon, <1>0, <1>4, <2>1, <2>4, PutStep DEF DriveMoves, Others
<1>5. ASSUME UNCHANGED marker, NEW m \in Movements, AdminStep(m) PROVE OutcomeStep
  <2>1. AdminMoves(m) /\ (store'[m] # store[m] => store[m].state = "OUTCOME_UNKNOWN")
    BY Zenon, <1>0, <1>5, ReconcileInStep
  <2>2. store'[m] # store[m] => store'[m].state \in {"COMMITTED", "FAILED", "CANCELLED"}
    BY ZenonT(40), <2>1 DEF AdminMoves, AdminWrites
  <2>3. store'[m] # store[m] => /\ OutcomeOf(store[m].state) = "unknown"
                                /\ OutcomeOf(store'[m].state) \in {"committed", "aborted"}
    BY <2>1, <2>2, OutcomeValues
  <2> QED BY Zenon, <1>0, <1>5, <2>1, <2>3, PutStep DEF AdminMoves
<1>6. CASE CoordinatorCrash \/ UNCHANGED vars
  BY <1>3, <1>6 DEF CoordinatorCrash, endpointVars, vars
<1>7. CASE UNCHANGED marker /\ AroundRecords
  BY <1>3, <1>7, RecordsAlone
<1>8. OnCommitRequest \/ UNCHANGED marker
  BY MarkerWriter
<1> QED BY <1>1, <1>2, <1>4, <1>5, <1>6, <1>7, <1>8 DEF Next, AroundRecords

(* Without cancel(), the coordinator, its threads, the endpoints and the      *)
(* links between them implement MovementOutcome.                              *)
THEOREM ProtocolRefinesOutcome == MarkersSeen /\ NoCancel => (Spec => ImplementsOutcome)
<1> SUFFICES ASSUME MarkersSeen, NoCancel PROVE Spec => ImplementsOutcome
  OBVIOUS
<1>1. Init => Outcome!Init
  <2> SUFFICES ASSUME Init PROVE Outcome!Init
    OBVIOUS
  <2>1. marker = [v \in Versions |-> NoMovement] /\ \A m \in Movements : store[m] = NoRecord
    BY DEF Init
  <2>2. OutcomeOf(NoRecord.state) = "pending"
    BY DEF OutcomeOf, NoRecord
  <2> QED BY <2>1, <2>2 DEF Outcome!Init
<1>2. /\ TypeOK /\ TypeOK' /\ CommitEvidence /\ CommitEvidence' /\ OutcomeInv /\ AllInStep /\ [Next]_vars
      => [Outcome!Next]_<<[m \in Movements |-> OutcomeOf(store[m].state)], marker>>
  BY NextRefines DEF OutcomeStep
<1>3. Spec => []AllInStep
  BY OneWriter
<1> QED BY <1>1, <1>2, <1>3, OutcomeInvariant, TypeCorrect, EvidenceOfCommit, PTL
        DEF Spec, ImplementsOutcome, Outcome!Spec
=============================================================================
