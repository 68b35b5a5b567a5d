------------------------ MODULE MovementStepProofs --------------------------
(* What the steps of the threads and of the endpoints do to the records, the *)
(* drives and the queues of the protocol, one lemma for each kind of step.   *)
(* OutcomeInv is stated here; MovementOutcomeProofs shows it inductive.      *)
EXTENDS MovementFabricProofs


(* A drive past submit, and the states of the record it works on. *)
Driving == DrivePc \ {"idle", "planned", "queued"}
InFlight == {"AUTHORIZED", "TRANSFERRING", "BYTES_ARRIVED", "VERIFIED"}

(* How far a drive thread is, and what the store and its own copy say then.   *)
(* The drive of a movement runs once: a record that is decided, or whose      *)
(* outcome is unknown, has no drive any more.                                 *)
Stage(m) ==
    /\ store[m].generation = 0 => store[m] = NoRecord
    /\ store[m].state = "NONE" => store[m].generation = 0
    /\ drive[m].pc # "idle" => store[m].generation > 0
    /\ drive[m].pc = "planned" => drive[m].rec.generation > 0 /\ drive[m].rec.state = "PLANNED"
    /\ drive[m].pc \in Driving => drive[m].rec.generation > 0 /\ drive[m].rec.state \in InFlight
    /\ store[m].state = "PLANNED" => drive[m].pc \in {"idle", "planned"}
    /\ store[m].state \in {"FAILED", "SUPERSEDED", "COMMITTED", "OUTCOME_UNKNOWN"}
          => drive[m].pc = "idle"

(* The drive has sent its commit request, or ended: it will never send one. *)
Past(m) == store[m].generation > 0 /\ drive[m].pc \in {"idle", "awaitCommit"}

(* reconcile() works on a movement whose drive has ended. *)
CoordinatorStages ==
    \A m \in Movements :
        /\ Stage(m)
        /\ admin[<<"reconcile", m>>].pc # "idle" => store[m].generation > 0 /\ drive[m].pc = "idle"
        /\ ~up => drive[m].pc = "idle"

(* A commit request of the movement is on its way. *)
IsCommit(x, m) == x.type = "COMMIT_REQUEST" /\ x.movement = m
CommitPending(m) == \E s \in Sessions : \E i \in 1 .. Len(to[s]) : IsCommit(to[s][i], m)

(* Neither a commit marker of the movement nor a request for one. *)
Effectless(m) == marker[object[m]] # m /\ ~CommitPending(m)

(* ... and there will be none. *)
Never(m) == Past(m) /\ Effectless(m)

(* What will never happen stays so. *)
NeverStays == \A n \in Movements : Never(n) => Never(n)'

(* An answer from which the coordinator concludes that there is no effect. *)
Denies(r) ==
    \/ r.type = "COMMIT_RESULT" /\ r.code # "OK"
    \/ r.type = "AUTHORITY_REPORT" /\ r.code = "ABSENT"

(* Requests are queued only for a process that reads them, and no commit      *)
(* request of a movement follows another one, or a reconcile query, about it. *)
RequestsInOrder ==
    \A s \in Sessions :
        /\ to[s] # <<>> => Reads(s)
        /\ \A i \in 1 .. Len(to[s]) :
             to[s][i].type \in {"COMMIT_REQUEST", "AUTHORITY_QUERY"} =>
               /\ s[1] = "D" /\ Past(to[s][i].movement)
               /\ \A j \in (i + 1) .. Len(to[s]) : ~IsCommit(to[s][j], to[s][i].movement)

(* What a record, an answered key or an answer on its way denies is not so. *)
NoEffectEvidence ==
    /\ \A m \in Movements :
         /\ ~Past(m) => Effectless(m)
         /\ store[m].state \in {"PLANNED", "FAILED", "SUPERSEDED"} => Effectless(m)
         /\ marker[object[m]] = m => ~CommitPending(m)
    /\ \A t \in Threads : slot[t].status = "answered" /\ Denies(slot[t]) => Never(t[2])
    /\ \A s \in Sessions : \A i \in 1 .. Len(fr[s]) : Denies(fr[s][i]) => Never(fr[s][i].movement)

(* The inductive strengthening of FailedHasNoEffect. *)
OutcomeInv == CoordinatorStages /\ RequestsInOrder /\ NoEffectEvidence

-----------------------------------------------------------------------------
(* The steps of a drive thread, by what they do to its record and its pc.    *)

(* Other movements are left alone. *)
Others(m) == \A n \in Movements \ {m} : store'[n] = store[n] /\ drive'[n] = drive[n]

(* submit() creates the record, ... *)
Submitted(m) ==
    /\ drive[m].pc = "idle" /\ store[m] = NoRecord
    /\ \/ store'[m] = NoRecord /\ drive'[m] = IdleDrive
       \/ /\ store'[m].state = "PLANNED" /\ store'[m].generation = 1
          /\ \/ drive'[m] = IdleDrive
             \/ drive'[m].pc = "planned" /\ drive'[m].rec = store'[m]

(* ... authorizes it, ... *)
Authorized(m) ==
    /\ drive[m].pc = "planned"
    /\ \/ store'[m] = store[m] /\ drive'[m] = IdleDrive
       \/ /\ store'[m].state = "AUTHORIZED" /\ store'[m].generation = drive[m].rec.generation + 1
          /\ drive'[m] = IdleDrive \/ drive'[m].pc = "queued"

(* ... and a worker thread takes it up. *)
Started(m) ==
    /\ drive[m].pc = "queued" /\ store'[m] = store[m]
    /\ \/ drive'[m] = IdleDrive
       \/ /\ drive'[m].pc \in {"fail", "attempt"} /\ drive'[m].rec = store[m]
          /\ store[m].state \notin Terminal \cup {"OUTCOME_UNKNOWN"}

(* drive_movement returns; what it may have saved is its copy, one revision on. *)
Ended(m) ==
    /\ drive'[m] = IdleDrive
    /\ store'[m] # store[m] =>
         /\ store'[m].generation = drive[m].rec.generation + 1
         /\ store'[m].state \in MovementState \cup {drive[m].rec.state}
         /\ drive[m].pc = "awaitCommit" =>
              \/ store'[m].state \in {"COMMITTED", "OUTCOME_UNKNOWN"}
              \/ /\ store'[m].state = "FAILED" /\ Answered(<<"drive", m>>)
                 /\ slot[<<"drive", m>>].code # "OK"

(* drive_movement goes on with the copy it had, or with a newer one it saved. *)
WentOn(m) ==
    /\ drive'[m].pc \in Driving /\ drive[m].pc # "awaitCommit"
    /\ drive'[m].pc = "awaitCommit" => drive[m].pc = "commit"
    /\ \/ drive'[m].rec = drive[m].rec /\ store'[m] \in {store[m], drive[m].rec}
       \/ /\ drive'[m].rec.generation = drive[m].rec.generation + 1
          /\ drive'[m].rec.state \in InFlight \cup {drive[m].rec.state}
          /\ store'[m] = drive'[m].rec

DriveMoves(m) ==
    /\ Others(m)
    /\ \/ Submitted(m) \/ Authorized(m) \/ Started(m)
       \/ drive[m].pc \in Driving /\ (Ended(m) \/ WentOn(m))

(* The fields of a transitioned record. *)
LEMMA NewerRecord ==
    ASSUME NEW r \in Records, NEW s \in MovementState
    PROVE  /\ apply_transition(r, s) \in Records /\ apply_transition(r, s).state = s
           /\ apply_transition(r, s).generation = r.generation + 1
           /\ record_attempt_started(r) \in Records /\ record_attempt_started(r).state = r.state
           /\ record_attempt_started(r).generation = r.generation + 1
           /\ r.generation \in Nat
<1>1. r.generation \in Nat
  BY DEF Records
<1>2. apply_transition(r, s).generation = r.generation + 1
  BY DEF Records, apply_transition
<1>3. record_attempt_started(r).generation = r.generation + 1
  BY DEF Records, record_attempt_started
<1> QED BY <1>1, <1>2, <1>3, RecordOps

(* put either keeps the record and goes on, or the thread takes the refusal. *)
LEMMA SaveShape ==
    ASSUME TypeOK, NEW m \in Movements, NEW x, NEW d, NEW e, SaveThen(m, x, d, e)
    PROVE  /\ Others(m)
           /\ \/ store'[m] = x /\ drive'[m] = d
              \/ store'[m] \in {store[m], x} /\ drive'[m] = e
<1>1. store \in [Movements -> Records] /\ drive \in [Movements -> Drives]
  BY DEF TypeOK, CoordinatorTypeOK
<1>2. PICK o \in PutOutcomes :
        /\ store' = IF o = "refused" THEN store ELSE [store EXCEPT ![m] = x]
        /\ drive' = [drive EXCEPT ![m] = IF o = "saved" THEN d ELSE e]
  BY ZenonT(40) DEF SaveThen, Put
<1>3. Others(m)
  BY <1>1, <1>2 DEF Others
<1>4. o = "saved" => store'[m] = x /\ drive'[m] = d
  BY <1>1, <1>2
<1>5. o # "saved" => store'[m] \in {store[m], x} /\ drive'[m] = e
  BY <1>1, <1>2
<1> QED BY <1>3, <1>4, <1>5

(* A thread that moves on without touching the store. *)
LEMMA MoveShape ==
    ASSUME TypeOK, NEW m \in Movements, NEW d, drive' = [drive EXCEPT ![m] = d], store' = store
    PROVE  Others(m) /\ store'[m] = store[m] /\ drive'[m] = d
BY DEF Others, TypeOK, CoordinatorTypeOK

(* The fail lambda ends the drive. *)
LEMMA FailShape ==
    ASSUME TypeOK, NEW m \in Movements, NEW goal \in MovementState, Fail(m, drive[m].rec, goal)
    PROVE  /\ Others(m) /\ drive'[m] = IdleDrive
           /\ \/ store'[m] = store[m]
              \/ store'[m].state = goal /\ store'[m].generation = drive[m].rec.generation + 1
<1> DEFINE x == apply_transition(drive[m].rec, goal)
<1>1. x.state = goal /\ x.generation = drive[m].rec.generation + 1
  BY DriveFields, NewerRecord
<1>2. SaveThen(m, x, IdleDrive, IdleDrive) \/ (drive' = [drive EXCEPT ![m] = IdleDrive] /\ store' = store)
  BY DEF Fail
<1> HIDE DEF x
<1>3. CASE SaveThen(m, x, IdleDrive, IdleDrive)
  BY <1>1, <1>3, SaveShape
<1>4. CASE drive' = [drive EXCEPT ![m] = IdleDrive] /\ store' = store
  BY ZenonT(40), <1>4, MoveShape
<1> QED BY <1>2, <1>3, <1>4

(* A failed attempt ends the drive or begins the next attempt. *)
LEMMA RetryShape ==
    ASSUME TypeOK, NEW m \in Movements, drive[m].pc \in Driving \ {"awaitCommit"}, RetryOrFail(m)
    PROVE  DriveMoves(m)
<1> DEFINE again == [drive[m] EXCEPT !.pc = "attempt", !.probe = 0, !.verify_link = 0]
           r == drive[m].rec
<1>1. again.pc = "attempt" /\ again.rec = r
  BY DriveFields DEF Drives
<1>2. Fail(m, drive[m].rec, "FAILED") \/ SaveThen(m, r, again, again)
  BY DEF RetryOrFail
<1> HIDE DEF again, r
<1>3. CASE Fail(m, drive[m].rec, "FAILED")
  BY <1>3, FailShape DEF DriveMoves, Ended, MovementState
<1>4. CASE SaveThen(m, r, again, again)
  BY <1>1, <1>4, SaveShape DEF DriveMoves, WentOn, Driving, DrivePc, r
<1> QED BY <1>2, <1>3, <1>4

(* submit() and the start of the drive. *)
LEMMA BeginShape ==
    ASSUME TypeOK, NEW m \in Movements, SubmitPlan(m) \/ SubmitAuthorize(m) \/ DriveStart(m)
    PROVE  DriveMoves(m)
<1>1. CASE SubmitPlan(m)
  <2> DEFINE r == [state |-> "PLANNED", generation |-> 1, attempt_count |-> 0,
                   cancel_requested |-> FALSE,
                   source_incarnation |-> topo["S"].incarnation,
                   destination_incarnation |-> topo["D"].incarnation]
             d == [IdleDrive EXCEPT !.pc = "planned", !.rec = r]
  <2>1. SaveThen(m, r, d, IdleDrive) /\ drive[m].pc = "idle" /\ store[m] = NoRecord
    BY <1>1 DEF SubmitPlan
  <2>2. r.state = "PLANNED" /\ r.generation = 1
    OBVIOUS
  <2> HIDE DEF r
  <2>3. d.pc = "planned" /\ d.rec = r
    BY DEF IdleDrive
  <2> HIDE DEF d
  <2> QED BY <2>1, <2>2, <2>3, SaveShape DEF DriveMoves, Submitted
<1>2. CASE SubmitAuthorize(m)
  <2> DEFINE x == apply_transition(drive[m].rec, "AUTHORIZED")
             d == [IdleDrive EXCEPT !.pc = "queued"]
  <2>1. SaveThen(m, x, d, IdleDrive) /\ drive[m].pc = "planned"
    BY <1>2 DEF SubmitAuthorize
  <2>2. x.state = "AUTHORIZED" /\ x.generation = drive[m].rec.generation + 1
    BY DriveFields, NewerRecord DEF MovementState
  <2>3. d.pc = "queued"
    BY DEF IdleDrive
  <2> HIDE DEF x, d
  <2> QED BY <2>1, <2>2, <2>3, SaveShape DEF DriveMoves, Authorized
<1>3. CASE DriveStart(m)
  <2>1. store' = store /\ drive[m].pc = "queued"
    BY <1>3 DEF DriveStart
  <2>2. drive' = [drive EXCEPT ![m] = drive'[m]]
    BY <1>3 DEF DriveStart, TypeOK, CoordinatorTypeOK
  <2>3. \/ drive'[m] = IdleDrive
        \/ /\ drive'[m].pc \in {"fail", "attempt"} /\ drive'[m].rec = store[m]
           /\ store[m].state \notin Terminal \cup {"OUTCOME_UNKNOWN"}
    BY <1>3 DEF DriveStart, is_terminal, IdleDrive, TypeOK, CoordinatorTypeOK
  <2> QED BY <2>1, <2>2, <2>3, MoveShape DEF DriveMoves, Started
<1> QED BY <1>1, <1>2, <1>3

(* The copy, transitioned and saved, and the thread that goes on with it. *)
LEMMA TransitionShape ==
    ASSUME TypeOK, NEW m \in Movements, drive[m].pc \in Driving \ {"awaitCommit"},
           NEW s \in InFlight, NEW pc \in Driving \ {"awaitCommit"},
           SaveThen(m, apply_transition(drive[m].rec, s),
                    [drive[m] EXCEPT !.pc = pc, !.rec = apply_transition(drive[m].rec, s)], IdleDrive)
    PROVE  DriveMoves(m)
<1> DEFINE x == apply_transition(drive[m].rec, s)
           d == [drive[m] EXCEPT !.pc = pc, !.rec = x]
<1>1. x.state = s /\ x.generation = drive[m].rec.generation + 1 /\ s \in MovementState
  BY DriveFields, NewerRecord DEF InFlight, MovementState
<1> HIDE DEF x
<1>2. d.pc = pc /\ d.rec = x
  BY DriveFields DEF Drives
<1>3. SaveThen(m, x, d, IdleDrive)
  BY DEF x
<1> HIDE DEF d
<1>4. Others(m) /\ (\/ store'[m] = x /\ drive'[m] = d
                    \/ store'[m] \in {store[m], x} /\ drive'[m] = IdleDrive)
  BY <1>3, SaveShape
<1>5. CASE store'[m] = x /\ drive'[m] = d
  BY <1>1, <1>2, <1>4, <1>5 DEF DriveMoves, WentOn
<1>6. CASE store'[m] \in {store[m], x} /\ drive'[m] = IdleDrive
  BY <1>1, <1>4, <1>6 DEF DriveMoves, Ended
<1> QED BY <1>4, <1>5, <1>6

(* The steps between requests that save the copy. *)
LEMMA SavingShape ==
    ASSUME TypeOK, NEW m \in Movements,
           DriveFail(m) \/ DriveAttempt(m) \/ DriveTransferring(m)
    PROVE  DriveMoves(m)
<1>1. CASE DriveFail(m)
  <2>1. Fail(m, drive[m].rec, drive[m].goal) /\ drive[m].goal \in MovementState /\ drive[m].pc = "fail"
    BY <1>1, DriveFields DEF DriveFail
  <2> QED BY <2>1, FailShape DEF DriveMoves, Ended, Driving, DrivePc
<1>2. CASE DriveAttempt(m)
  <2> DEFINE x == record_attempt_started(drive[m].rec)
             d == [drive[m] EXCEPT !.pc = "grantS", !.rec = x]
  <2>1. SaveThen(m, x, d, IdleDrive) /\ drive[m].pc = "attempt"
    BY <1>2 DEF DriveAttempt
  <2>2. x.state = drive[m].rec.state /\ x.generation = drive[m].rec.generation + 1
    BY DriveFields, NewerRecord DEF MovementState
  <2> HIDE DEF x
  <2>3. d.pc = "grantS" /\ d.rec = x
    BY DriveFields DEF Drives
  <2> HIDE DEF d
  <2>4. Others(m) /\ (\/ store'[m] = x /\ drive'[m] = d
                      \/ store'[m] \in {store[m], x} /\ drive'[m] = IdleDrive)
    BY <2>1, SaveShape
  <2>5. CASE store'[m] = x /\ drive'[m] = d
    BY <2>1, <2>2, <2>3, <2>4, <2>5 DEF DriveMoves, WentOn, Driving, DrivePc
  <2>6. CASE store'[m] \in {store[m], x} /\ drive'[m] = IdleDrive
    BY <2>1, <2>2, <2>4, <2>6 DEF DriveMoves, Ended, Driving, DrivePc
  <2> QED BY <2>4, <2>5, <2>6
<1>3. CASE DriveTransferring(m)
  <2>1. \/ SaveThen(m, apply_transition(drive[m].rec, "TRANSFERRING"),
                    [drive[m] EXCEPT !.pc = "awaitResult",
                                     !.rec = apply_transition(drive[m].rec, "TRANSFERRING")], IdleDrive)
        \/ drive' = [drive EXCEPT ![m] = IdleDrive] /\ store' = store
    BY <1>3 DEF DriveTransferring
  <2>2. drive[m].pc \in Driving \ {"awaitCommit"}
    BY <1>3 DEF DriveTransferring, Driving, DrivePc
  <2>3. CASE drive' = [drive EXCEPT ![m] = IdleDrive] /\ store' = store
    BY ZenonT(40), <2>2, <2>3, MoveShape DEF DriveMoves, Ended
  <2> QED BY Zenon, <2>1, <2>2, <2>3, TransitionShape DEF InFlight, Driving, DrivePc
<1> QED BY <1>1, <1>2, <1>3

(* A request goes out and the thread waits, or the session has ended. *)
LEMMA RequestShape ==
    ASSUME TypeOK, NEW m \in Movements, drive[m].pc \in Driving \ {"awaitCommit"},
           NEW s, NEW type, NEW n, NEW reply, NEW index,
           NEW pc \in Driving, pc = "awaitCommit" => drive[m].pc = "commit",
           NEW d, d.pc = pc, d.rec = drive[m].rec, NEW g \in MovementState,
           \/ DriveRequest(m, s, type, n, reply, index, d, Fail(m, drive[m].rec, g))
           \/ DriveRequest(m, s, type, n, reply, index, d, RetryOrFail(m))
    PROVE  DriveMoves(m)
<1>1. \/ drive' = [drive EXCEPT ![m] = d] /\ store' = store
      \/ Fail(m, drive[m].rec, g) \/ RetryOrFail(m)
  BY DEF DriveRequest
<1>2. CASE drive' = [drive EXCEPT ![m] = d] /\ store' = store
  BY ZenonT(40), <1>2, MoveShape DEF DriveMoves, WentOn
<1>3. CASE Fail(m, drive[m].rec, g)
  BY <1>3, FailShape DEF DriveMoves, Ended
<1>4. CASE RetryOrFail(m)
  BY <1>4, RetryShape
<1> QED BY <1>1, <1>2, <1>3, <1>4

(* GRANT_TRANSFER, EXECUTE_MOVEMENT, VERIFY_REQUEST and COMMIT_REQUEST. *)
LEMMA RequestsShape ==
    ASSUME TypeOK, NEW m \in Movements,
           \/ \E e \in Endpoints : DriveGrant(m, e)
           \/ DriveExecute(m) \/ DriveProbe(m) \/ DriveCommit(m)
    PROVE  DriveMoves(m)
<1>0. "FAILED" \in MovementState /\ "OUTCOME_UNKNOWN" \in MovementState
  BY DEF MovementState
<1>1. ASSUME NEW pc, NEW i
      PROVE  /\ [drive[m] EXCEPT !.pc = pc].pc = pc /\ [drive[m] EXCEPT !.pc = pc].rec = drive[m].rec
             /\ [drive[m] EXCEPT !.pc = pc, !.verify_link = i].pc = pc
             /\ [drive[m] EXCEPT !.pc = pc, !.verify_link = i].rec = drive[m].rec
  BY DriveFields DEF Drives
<1>2. ASSUME NEW e \in Endpoints, DriveGrant(m, e) PROVE DriveMoves(m)
  <2> DEFINE d == [drive[m] EXCEPT !.pc = AwaitGrantPc[e]]
             a == drive[m].rec.attempt_count
  <2>1. /\ AwaitGrantPc[e] \in Driving /\ AwaitGrantPc[e] # "awaitCommit"
        /\ drive[m].pc \in Driving \ {"awaitCommit"}
    BY <1>2 DEF DriveGrant, AwaitGrantPc, GrantPc, Driving, DrivePc, Endpoints
  <2>2. DriveRequest(m, link_of(m, e), "GRANT_TRANSFER", a, "GRANT_ACK", a, d, Fail(m, drive[m].rec, "FAILED"))
    BY <1>2 DEF DriveGrant
  <2>3. d.pc = AwaitGrantPc[e] /\ d.rec = drive[m].rec
    BY <1>1
  <2> HIDE DEF d, a
  <2> QED BY <1>0, <2>1, <2>2, <2>3, RequestShape
<1>3. CASE DriveExecute(m)
  <2> DEFINE d == [drive[m] EXCEPT !.pc = "dispatched"]
  <2>1. "dispatched" \in Driving /\ drive[m].pc \in Driving \ {"awaitCommit"}
    BY <1>3 DEF DriveExecute, Driving, DrivePc
  <2>2. DriveRequest(m, link_of(m, "D"), "EXECUTE_MOVEMENT", drive[m].rec.attempt_count, "ATTEMPT_RESULT", 0,
                     d, Fail(m, drive[m].rec, "FAILED"))
    BY <1>3 DEF DriveExecute
  <2>3. d.pc = "dispatched" /\ d.rec = drive[m].rec
    BY <1>1
  <2> HIDE DEF d
  <2> QED BY <1>0, <2>1, <2>2, <2>3, RequestShape
<1>4. CASE DriveProbe(m)
  <2> DEFINE k == drive[m].probe
             type == IF k = 0 THEN "VERIFY_FULL" ELSE "VERIFY_CHUNK"
             d(i) == [drive[m] EXCEPT !.pc = "awaitProbe", !.verify_link = i]
  <2>1. "awaitProbe" \in Driving /\ drive[m].pc \in Driving \ {"awaitCommit"}
    BY Zenon, <1>4 DEF DriveProbe, Driving, DrivePc
  <2>2. \/ RetryOrFail(m)
        \/ \E i : DriveRequest(m, <<"D", i>>, type, ProbeIndex(k), "VERIFY_RESPONSE", ProbeIndex(k), d(i),
                               RetryOrFail(m))
    BY ZenonT(40), <1>4 DEF DriveProbe
  <2>3. ASSUME NEW i PROVE d(i).pc = "awaitProbe" /\ d(i).rec = drive[m].rec
    BY <1>1
  <2> HIDE DEF k, type, d
  <2>4. ASSUME NEW i, DriveRequest(m, <<"D", i>>, type, ProbeIndex(k), "VERIFY_RESPONSE", ProbeIndex(k), d(i),
                                   RetryOrFail(m))
        PROVE  DriveMoves(m)
    BY <1>0, <2>1, <2>3, <2>4, RequestShape
  <2> QED BY ZenonT(40), <2>1, <2>2, <2>4, RetryShape
<1>5. CASE DriveCommit(m)
  <2> DEFINE d == [drive[m] EXCEPT !.pc = "awaitCommit"]
  <2>1. "awaitCommit" \in Driving /\ drive[m].pc \in Driving \ {"awaitCommit"} /\ drive[m].pc = "commit"
    BY <1>5 DEF DriveCommit, Driving, DrivePc
  <2>2. DriveRequest(m, link_of(m, "D"), "COMMIT_REQUEST", drive[m].rec.generation, "COMMIT_RESULT", 0,
                     d, Fail(m, drive[m].rec, "OUTCOME_UNKNOWN"))
    BY <1>5 DEF DriveCommit
  <2>3. d.pc = "awaitCommit" /\ d.rec = drive[m].rec
    BY <1>1
  <2> HIDE DEF d
  <2> QED BY <1>0, <2>1, <2>2, <2>3, RequestShape
<1> QED BY <1>2, <1>3, <1>4, <1>5

(* The answers, or their absence. *)
LEMMA AnswersShape ==
    ASSUME TypeOK, NEW m \in Movements,
           \/ DriveResult(m) \/ DriveResultUnanswered(m) \/ DriveProbed(m) \/ DriveProbeUnanswered(m)
           \/ DriveCommitResult(m) \/ DriveCommitUnanswered(m)
           \/ \E e \in Endpoints : DriveGranted(m, e) \/ DriveGrantUnanswered(m, e)
    PROVE  DriveMoves(m)
<1>0. {"FAILED", "CANCELLED", "OUTCOME_UNKNOWN", "COMMITTED"} \subseteq MovementState
  BY DEF MovementState
<1>1. ASSUME NEW goal \in MovementState, Fail(m, drive[m].rec, goal), drive[m].pc \in Driving,
             drive[m].pc = "awaitCommit" =>
                goal = "OUTCOME_UNKNOWN"
                \/ (goal = "FAILED" /\ Answered(<<"drive", m>>) /\ slot[<<"drive", m>>].code # "OK")
      PROVE  DriveMoves(m)
  BY <1>1, FailShape DEF DriveMoves, Ended
<1>2. ASSUME NEW d, d.pc \in Driving \ {"awaitCommit"}, d.rec = drive[m].rec,
             drive[m].pc \in Driving \ {"awaitCommit"},
             drive' = [drive EXCEPT ![m] = d], store' = store
      PROVE  DriveMoves(m)
  BY ZenonT(40), <1>2, MoveShape DEF DriveMoves, WentOn
<1>3. CASE DriveResult(m)
  <2>1. \/ UNCHANGED <<drive, store>> \/ Fail(m, drive[m].rec, "CANCELLED") \/ RetryOrFail(m)
        \/ SaveThen(m, apply_transition(drive[m].rec, "BYTES_ARRIVED"),
                    [drive[m] EXCEPT !.pc = "verify",
                                     !.rec = apply_transition(drive[m].rec, "BYTES_ARRIVED")], IdleDrive)
    BY <1>3 DEF DriveResult
  <2>2. drive[m].pc \in Driving \ {"awaitCommit"} /\ "verify" \in Driving \ {"awaitCommit"}
    BY <1>3 DEF DriveResult, Driving, DrivePc
  <2>3. CASE UNCHANGED <<drive, store>>
    BY <2>2, <2>3 DEF DriveMoves, Others, WentOn
  <2>4. CASE Fail(m, drive[m].rec, "CANCELLED")
    BY <1>0, <1>1, <2>2, <2>4
  <2> QED BY Zenon, <2>1, <2>2, <2>3, <2>4, RetryShape, TransitionShape DEF InFlight
<1>4. CASE DriveProbed(m)
  <2> DEFINE d == [drive[m] EXCEPT !.pc = "verify", !.probe = drive[m].probe + 1]
  <2>1. \/ RetryOrFail(m)
        \/ /\ drive' = [drive EXCEPT ![m].pc = "verify", ![m].probe = drive[m].probe + 1]
           /\ store' = store
        \/ SaveThen(m, apply_transition(drive[m].rec, "VERIFIED"),
                    [drive[m] EXCEPT !.pc = "commit",
                                     !.rec = apply_transition(drive[m].rec, "VERIFIED")], IdleDrive)
    BY <1>4 DEF DriveProbed
  <2>2. /\ drive[m].pc \in Driving \ {"awaitCommit"} /\ "verify" \in Driving \ {"awaitCommit"}
        /\ "commit" \in Driving \ {"awaitCommit"}
    BY <1>4 DEF DriveProbed, Driving, DrivePc
  <2>3. CASE /\ drive' = [drive EXCEPT ![m].pc = "verify", ![m].probe = drive[m].probe + 1]
             /\ store' = store
    <3>1. d.pc = "verify" /\ d.rec = drive[m].rec
      BY DriveFields DEF Drives
    <3>2. drive' = [drive EXCEPT ![m] = d]
      BY ZenonT(60), <2>3 DEF TypeOK, CoordinatorTypeOK
    <3> HIDE DEF d
    <3> QED BY ZenonT(40), <1>2, <2>2, <2>3, <3>1, <3>2
  <2> QED BY Zenon, <2>1, <2>2, <2>3, RetryShape, TransitionShape DEF InFlight
<1>5. CASE DriveResultUnanswered(m) \/ DriveCommitUnanswered(m)
  <2>1. Fail(m, drive[m].rec, "OUTCOME_UNKNOWN") /\ drive[m].pc \in Driving
    BY <1>5 DEF DriveResultUnanswered, DriveCommitUnanswered, Driving, DrivePc
  <2> QED BY <1>0, <1>1, <2>1
<1>6. CASE DriveProbeUnanswered(m)
  BY <1>6, RetryShape DEF DriveProbeUnanswered, Driving, DrivePc
<1>7. CASE DriveCommitResult(m)
  <2> DEFINE x == apply_transition(drive[m].rec, "COMMITTED")
  <2>1. /\ \/ Fail(m, drive[m].rec, "OUTCOME_UNKNOWN")
           \/ Fail(m, drive[m].rec, "FAILED") /\ slot[<<"drive", m>>].code # "OK"
           \/ SaveThen(m, x, IdleDrive, IdleDrive)
        /\ drive[m].pc = "awaitCommit" /\ Answered(<<"drive", m>>)
    BY <1>7 DEF DriveCommitResult
  <2>2. drive[m].pc \in Driving
    BY <2>1 DEF Driving, DrivePc
  <2>3. x.state = "COMMITTED" /\ x.generation = drive[m].rec.generation + 1
    BY <1>0, DriveFields, NewerRecord
  <2> HIDE DEF x
  <2>4. CASE SaveThen(m, x, IdleDrive, IdleDrive)
    BY <1>0, <2>2, <2>3, <2>4, SaveShape DEF DriveMoves, Ended
  <2> QED BY <1>0, <1>1, <2>1, <2>2, <2>4
<1>8. ASSUME NEW e \in Endpoints, DriveGranted(m, e) PROVE DriveMoves(m)
  <2> DEFINE d == [drive[m] EXCEPT !.pc = AfterGrantPc[e]]
  <2>1. /\ AfterGrantPc[e] \in Driving \ {"awaitCommit"} /\ drive[m].pc \in Driving \ {"awaitCommit"}
        /\ drive' = [drive EXCEPT ![m] = d] /\ store' = store
    BY <1>8 DEF DriveGranted, AfterGrantPc, AwaitGrantPc, Driving, DrivePc, Endpoints
  <2>2. d.pc = AfterGrantPc[e] /\ d.rec = drive[m].rec
    BY DriveFields DEF Drives
  <2> HIDE DEF d
  <2> QED BY ZenonT(40), <1>2, <2>1, <2>2
<1>9. ASSUME NEW e \in Endpoints, DriveGrantUnanswered(m, e) PROVE DriveMoves(m)
  <2>1. Fail(m, drive[m].rec, "FAILED") /\ drive[m].pc \in Driving \ {"awaitCommit"}
    BY <1>9 DEF DriveGrantUnanswered, AwaitGrantPc, Driving, DrivePc, Endpoints
  <2> QED BY <1>0, <1>1, <2>1
<1> QED BY <1>3, <1>4, <1>5, <1>6, <1>7, <1>8, <1>9

(* Every step of the submitting thread and of the drive thread. *)
LEMMA DriveShape ==
    ASSUME TypeOK, NEW m \in Movements, SubmitPlan(m) \/ DriveStep(m)
    PROVE  DriveMoves(m)
BY BeginShape, SavingShape, RequestsShape, AnswersShape DEF DriveStep

-----------------------------------------------------------------------------
(* What the drive threads keep.                                              *)

(* Once past, always past. *)
PastStays == \A n \in Movements : Past(n) => Past(n)'

(* A step of one drive keeps every drive at its stage. *)
LEMMA DriveStages ==
    ASSUME TypeOK, TypeOK', CoordinatorStages, NEW m \in Movements, up, UNCHANGED <<up, admin>>, DriveMoves(m)
    PROVE  CoordinatorStages' /\ PastStays
<1>1. ASSUME NEW n \in Movements
      PROVE  /\ store[n] \in Records /\ drive[n] \in Drives /\ drive[n].rec \in Records
             /\ store[n].generation \in Nat /\ drive[n].rec.generation \in Nat
             /\ store[n].state \in MovementState \cup {"NONE"}
             /\ store'[n] \in Records /\ store'[n].generation \in Nat
  BY ZenonT(40) DEF TypeOK, CoordinatorTypeOK, Drives, Records
<1>2. /\ IdleDrive.pc = "idle" /\ NoRecord.state = "NONE" /\ NoRecord.generation = 0
      /\ "idle" \notin Driving /\ "planned" \notin Driving /\ "queued" \notin Driving
  BY DEF IdleDrive, NoRecord, Driving
<1>3. ASSUME NEW n \in Movements \ {m} PROVE Stage(n)' /\ (Past(n) => Past(n)') /\ (drive'[n].pc = drive[n].pc)
  BY ZenonT(60), <1>3 DEF CoordinatorStages, Stage, Past, DriveMoves, Others
<1>4. Stage(m)
  BY ZenonT(40) DEF CoordinatorStages
<1>5. /\ Stage(m)' /\ (Past(m) => Past(m)')
      /\ store[m].generation > 0 /\ drive[m].pc = "idle" => store'[m].generation > 0 /\ drive'[m].pc = "idle"
  <2>1. CASE Submitted(m)
    BY <1>1, <1>2, <1>4, <2>1 DEF Submitted, Stage, Past
  <2>2. CASE Authorized(m)
    BY <1>1, <1>2, <1>4, <2>2 DEF Authorized, Stage, Past
  <2>3. CASE Started(m)
    <3>1. {"fail", "attempt"} \subseteq Driving
      BY DEF Driving, DrivePc
    <3>2. store[m].state \notin Terminal \cup {"OUTCOME_UNKNOWN"} => store[m].state \in InFlight
      BY <1>1, <1>4, <2>3 DEF Started, Stage, Terminal, InFlight, MovementState
    <3> QED BY <1>1, <1>2, <1>4, <2>3, <3>1, <3>2 DEF Started, Stage, Past, Terminal
  <2>4. CASE drive[m].pc \in Driving /\ Ended(m)
    <3>1. drive'[m].pc = "idle" /\ drive[m].rec.generation > 0 /\ drive[m].rec.state \in InFlight
      BY <1>2, <1>4, <2>4 DEF Ended, Stage
    <3>2. store'[m].generation > 0 /\ store'[m].state # "NONE"
      <4>1. CASE store'[m] = store[m]
        <5>1. store[m].generation > 0 /\ (store[m].state = "NONE" => store[m].generation = 0)
          BY Zenon, <1>2, <1>4, <2>4 DEF Stage
        <5>2. store[m].generation # 0
          BY <1>1, <5>1
        <5> QED BY Zenon, <4>1, <5>1, <5>2
      <4>2. CASE store'[m] # store[m]
        <5>1. /\ store'[m].generation = drive[m].rec.generation + 1
              /\ store'[m].state \in MovementState \cup {drive[m].rec.state}
          BY Zenon, <2>4, <4>2 DEF Ended
        <5>2. drive[m].rec.generation \in Nat
          BY Zenon, <1>1
        <5>3. store'[m].generation > 0
          BY <5>1, <5>2
        <5> QED BY Zenon, <3>1, <5>1, <5>3 DEF InFlight, MovementState
      <4> QED BY Zenon, <4>1, <4>2
    <3> QED BY <1>1, <1>2, <2>4, <3>1, <3>2 DEF Stage, Past
  <2>5. CASE drive[m].pc \in Driving /\ WentOn(m)
    <3>1. /\ drive'[m].pc \in Driving /\ drive[m].pc # "awaitCommit"
          /\ drive[m].rec.generation > 0 /\ drive[m].rec.state \in InFlight
      BY <1>2, <1>4, <2>5 DEF WentOn, Stage
    <3>2. drive'[m].rec.generation > 0 /\ drive'[m].rec.state \in InFlight
      BY <1>1, <2>5, <3>1 DEF WentOn
    <3>3. store'[m] \in {store[m], drive[m].rec, drive'[m].rec}
      BY <2>5 DEF WentOn
    <3>4. store'[m].generation > 0 /\ (store'[m] # store[m] => store'[m].state \in InFlight)
      BY <1>2, <1>4, <2>5, <3>1, <3>2, <3>3 DEF Stage, Driving
    <3>5. drive'[m].pc \notin {"idle", "planned"} /\ drive[m].pc \notin {"idle", "planned"}
      BY Zenon, <2>5, <3>1 DEF Driving
    <3>6. store'[m].state \notin {"NONE", "PLANNED", "FAILED", "SUPERSEDED", "COMMITTED", "OUTCOME_UNKNOWN"}
      BY <1>2, <1>4, <3>4, <3>5 DEF Stage, InFlight
    <3>7. store'[m].generation # 0
      BY <3>4
    <3>8. Stage(m)'
      BY Zenon, <3>2, <3>4, <3>5, <3>6, <3>7 DEF Stage
    <3> QED BY Zenon, <3>1, <3>5, <3>8 DEF Past
  <2> QED BY <2>1, <2>2, <2>3, <2>4, <2>5 DEF DriveMoves
<1>6. PastStays
  BY <1>3, <1>5 DEF PastStays
<1>7. ASSUME NEW n \in Movements, admin[<<"reconcile", n>>].pc # "idle"
      PROVE  store'[n].generation > 0 /\ drive'[n].pc = "idle"
  <2>1. store[n].generation > 0 /\ drive[n].pc = "idle"
    BY <1>7 DEF CoordinatorStages
  <2> QED BY <1>3, <1>5, <2>1 DEF DriveMoves, Others
<1> QED BY <1>3, <1>5, <1>6, <1>7 DEF CoordinatorStages

(* What a step of a drive thread does to the keys and on the control links:   *)
(* only a drive at its commit barrier sends a commit request.                 *)
DriveTraffic(m) ==
    /\ up /\ driveFrame
    /\ \A t \in Threads : slot'[t].status = "answered" => slot'[t] = slot[t]
    /\ \/ to' = to
       \/ \E s, type, n : /\ to' = Sent(s, Request(type, m, n))
                          /\ type \in RequestTypes \ {"AUTHORITY_QUERY"} /\ n \in Nat
                          /\ type = "COMMIT_REQUEST" =>
                               s[1] = "D" /\ drive[m].pc = "commit" /\ drive'[m].pc = "awaitCommit"

(* A key that is released or reserved is not answered. *)
LEMMA SlotTraffic ==
    ASSUME TypeOK, NEW m \in Movements, NEW w, w.status # "answered",
           slot' = slot \/ slot' = [slot EXCEPT ![<<"drive", m>>] = w]
    PROVE  \A t \in Threads : slot'[t].status = "answered" => slot'[t] = slot[t]
BY Zenon DEF TypeOK, CoordinatorTypeOK

(* The steps that send nothing. *)
LEMMA SilentTraffic ==
    ASSUME TypeOK, NEW m \in Movements,
           \/ SubmitPlan(m) \/ SubmitAuthorize(m) \/ DriveStart(m) \/ DriveFail(m) \/ DriveAttempt(m)
           \/ DriveTransferring(m) \/ DriveResult(m) \/ DriveResultUnanswered(m)
           \/ DriveProbed(m) \/ DriveProbeUnanswered(m) \/ DriveCommitResult(m) \/ DriveCommitUnanswered(m)
           \/ \E e \in Endpoints : DriveGranted(m, e) \/ DriveGrantUnanswered(m, e)
    PROVE  DriveTraffic(m)
<1>1. /\ up /\ driveFrame /\ to' = to
      /\ \/ UNCHANGED slot \/ Release(<<"drive", m>>)
         \/ slot' = [slot EXCEPT ![<<"drive", m>>] = Reserve(link_of(m, "D"), "ATTEMPT_RESULT", 0)]
  BY DEF SubmitPlan, SubmitAuthorize, DriveStart, DriveFail, DriveAttempt, DriveTransferring, DriveResult,
         DriveResultUnanswered, DriveProbed, DriveProbeUnanswered, DriveCommitResult, DriveCommitUnanswered,
         DriveGranted, DriveGrantUnanswered
<1>2. FreeSlot.status # "answered" /\ Reserve(link_of(m, "D"), "ATTEMPT_RESULT", 0).status # "answered"
  BY DEF FreeSlot, Reserve
<1>3. \A t \in Threads : slot'[t].status = "answered" => slot'[t] = slot[t]
  BY <1>1, <1>2, SlotTraffic DEF Release
<1> QED BY <1>1, <1>3 DEF DriveTraffic

(* The steps that send a request. *)
LEMMA RequestTraffic ==
    ASSUME TypeOK, NEW m \in Movements,
           \/ \E e \in Endpoints : DriveGrant(m, e)
           \/ DriveExecute(m) \/ DriveProbe(m) \/ DriveCommit(m)
    PROVE  DriveTraffic(m)
<1>1. up /\ driveFrame
  BY ZenonT(60) DEF DriveGrant, DriveExecute, DriveProbe, DriveCommit
<1>2. ASSUME NEW s, NEW type \in RequestTypes \ {"AUTHORITY_QUERY"}, NEW n \in Nat, NEW reply, NEW index, NEW pc,
             NEW d, d.pc = pc, NEW Refused,
             type = "COMMIT_REQUEST" => s[1] = "D" /\ drive[m].pc = "commit" /\ pc = "awaitCommit",
             DriveRequest(m, s, type, n, reply, index, d, Refused)
      PROVE  DriveTraffic(m)
  <2>1. /\ slot' = slot \/ slot' = [slot EXCEPT ![<<"drive", m>>] = Reserve(s, reply, index)]
        /\ to' = to \/ (to' = Sent(s, Request(type, m, n)) /\ drive' = [drive EXCEPT ![m] = d])
    BY Zenon, <1>2 DEF DriveRequest
  <2>2. Reserve(s, reply, index).status # "answered"
    BY DEF Reserve
  <2>3. \A t \in Threads : slot'[t].status = "answered" => slot'[t] = slot[t]
    BY <2>1, <2>2, SlotTraffic
  <2>4. drive' = [drive EXCEPT ![m] = d] => drive'[m] = d
    BY DEF TypeOK, CoordinatorTypeOK
  <2> QED BY <1>1, <1>2, <2>1, <2>3, <2>4 DEF DriveTraffic
<1>3. /\ drive[m].rec.attempt_count \in Nat /\ drive[m].rec.generation \in Nat
      /\ ProbeIndex(drive[m].probe) \in Nat
  BY FabricAssumptions, DriveFields DEF ProbeIndex, Records
<1>4. {"GRANT_TRANSFER", "EXECUTE_MOVEMENT", "VERIFY_FULL", "VERIFY_CHUNK", "COMMIT_REQUEST"}
        \subseteq RequestTypes \ {"AUTHORITY_QUERY"}
  BY DEF RequestTypes
<1>5. ASSUME NEW e \in Endpoints, DriveGrant(m, e) PROVE DriveTraffic(m)
  BY <1>2, <1>3, <1>4, <1>5 DEF DriveGrant
<1>6. CASE DriveExecute(m)
  BY <1>2, <1>3, <1>4, <1>6 DEF DriveExecute
<1>7. CASE DriveProbe(m)
  <2>1. CASE UNCHANGED <<slot, to>>
    BY <1>1, <2>1 DEF DriveTraffic
  <2>2. CASE ~UNCHANGED <<slot, to>>
    <3> DEFINE k == drive[m].probe
               type == IF k = 0 THEN "VERIFY_FULL" ELSE "VERIFY_CHUNK"
    <3>1. PICK i : DriveRequest(m, <<"D", i>>, type, ProbeIndex(k), "VERIFY_RESPONSE", ProbeIndex(k),
                                [drive[m] EXCEPT !.pc = "awaitProbe", !.verify_link = i], RetryOrFail(m))
      BY ZenonT(40), <1>7, <2>2 DEF DriveProbe
    <3>2. type \in RequestTypes \ {"AUTHORITY_QUERY"} /\ type # "COMMIT_REQUEST"
      BY <1>4
    <3> HIDE DEF type
    <3> QED BY <1>2, <1>3, <3>1, <3>2
  <2> QED BY <2>1, <2>2
<1>8. CASE DriveCommit(m)
  <2> DEFINE d == [drive[m] EXCEPT !.pc = "awaitCommit"]
  <2>1. DriveRequest(m, link_of(m, "D"), "COMMIT_REQUEST", drive[m].rec.generation, "COMMIT_RESULT", 0,
                     d, Fail(m, drive[m].rec, "OUTCOME_UNKNOWN"))
    BY <1>8 DEF DriveCommit
  <2>2. d.pc = "awaitCommit" /\ drive[m].pc = "commit" /\ link_of(m, "D")[1] = "D"
    BY <1>8, DriveFields DEF Drives, DriveCommit, link_of
  <2> HIDE DEF d
  <2> QED BY <1>2, <1>3, <1>4, <2>1, <2>2
<1> QED BY <1>5, <1>6, <1>7, <1>8

(* What a drive step puts on the links, and the keys it awaits. *)
LEMMA DriveSends ==
    ASSUME TypeOK, NEW m \in Movements, SubmitPlan(m) \/ DriveStep(m)
    PROVE  DriveTraffic(m)
BY SilentTraffic, RequestTraffic DEF DriveStep

-----------------------------------------------------------------------------
(* The requests on the control links.                                        *)

(* A queue that keeps what it has, loses it all, or loses its head. *)
Shrinks(s) ==
    \/ to'[s] = to[s] \/ to'[s] = <<>>
    \/ to[s] # <<>> /\ to'[s] = Tail(to[s])

(* Where the entries of a queue are after a step that takes entries away. *)
LEMMA ShrunkQueue ==
    ASSUME TypeOK, NEW s \in Sessions, Shrinks(s)
    PROVE  \E k \in {0, 1} : \A i \in 1 .. Len(to'[s]) : i + k \in 1 .. Len(to[s]) /\ to'[s][i] = to[s][i + k]
<1>1. to[s] \in Seq(Requests)
  BY DEF TypeOK, ControlTypeOK
<1>2. CASE to'[s] = to[s]
  BY <1>1, <1>2
<1>3. CASE to'[s] = <<>>
  BY <1>3
<1>4. CASE to[s] # <<>> /\ to'[s] = Tail(to[s])
  BY <1>1, <1>4
<1> QED BY <1>2, <1>3, <1>4 DEF Shrinks

(* Taking requests away, or dropping them, keeps the order. *)
LEMMA ShrinkInOrder ==
    ASSUME TypeOK, RequestsInOrder, PastStays, \A s \in Sessions : Shrinks(s),
           \A s \in Sessions : to'[s] # <<>> => Reads(s)'
    PROVE  /\ RequestsInOrder'
           /\ \A m : CommitPending(m)' => CommitPending(m)
<1>1. ASSUME NEW s \in Sessions, NEW i \in 1 .. Len(to[s]) PROVE to[s][i].movement \in Movements
  <2>1. to[s] \in Seq(Requests)
    BY DEF TypeOK, ControlTypeOK
  <2>2. to[s][i] \in Requests
    BY <2>1
  <2> QED BY <2>2 DEF Requests
<1>2. ASSUME NEW s \in Sessions, NEW i \in 1 .. Len(to'[s]),
             to'[s][i].type \in {"COMMIT_REQUEST", "AUTHORITY_QUERY"}
      PROVE  /\ s[1] = "D" /\ Past(to[s][i].movement)'
             /\ \A j \in (i + 1) .. Len(to'[s]) : ~IsCommit(to'[s][j], to'[s][i].movement)
  <2>1. PICK k \in {0, 1} : \A j \in 1 .. Len(to'[s]) : j + k \in 1 .. Len(to[s]) /\ to'[s][j] = to[s][j + k]
    BY ShrunkQueue
  <2>2. i + k \in 1 .. Len(to[s]) /\ to'[s][i] = to[s][i + k]
    BY <2>1
  <2>3. /\ s[1] = "D" /\ Past(to[s][i + k].movement)
        /\ \A j \in (i + k + 1) .. Len(to[s]) : ~IsCommit(to[s][j], to[s][i + k].movement)
    BY <1>2, <2>2 DEF RequestsInOrder
  <2>4. Past(to[s][i].movement)'
    <3>1. PICK m \in Movements : m = to[s][i + k].movement /\ m = to'[s][i].movement
      BY <1>1, <2>2
    <3>2. Past(m)'
      BY <2>3, <3>1 DEF PastStays
    <3> QED BY <3>1, <3>2 DEF Past
  <2>5. ASSUME NEW j \in (i + 1) .. Len(to'[s]) PROVE ~IsCommit(to'[s][j], to'[s][i].movement)
    <3>1. j \in 1 .. Len(to'[s]) /\ j + k \in (i + k + 1) .. Len(to[s])
      BY <2>1
    <3> QED BY <2>1, <2>2, <2>3, <3>1
  <2> QED BY <2>2, <2>3, <2>4, <2>5
<1>3. ASSUME NEW m, CommitPending(m)' PROVE CommitPending(m)
  <2>1. PICK s \in Sessions : \E i \in 1 .. Len(to'[s]) : IsCommit(to'[s][i], m)
    BY <1>3 DEF CommitPending, IsCommit
  <2>2. PICK i \in 1 .. Len(to'[s]) : IsCommit(to'[s][i], m)
    BY <2>1
  <2>3. PICK k \in {0, 1} : i + k \in 1 .. Len(to[s]) /\ to'[s][i] = to[s][i + k]
    BY ShrunkQueue
  <2> QED BY <2>2, <2>3 DEF CommitPending
<1> QED BY <1>2, <1>3 DEF RequestsInOrder

(* Where the entries of a queue are after a send. *)
LEMMA GrownQueue ==
    ASSUME TypeOK, NEW u, NEW x \in Requests, to' = Sent(u, x), NEW s \in Sessions,
           NEW i \in 1 .. Len(to'[s])
    PROVE  \/ i \in 1 .. Len(to[s]) /\ to'[s][i] = to[s][i]
           \/ s = u /\ Reads(s) /\ i = Len(to[s]) + 1 /\ Len(to'[s]) = i /\ to'[s][i] = x
<1>1. to[s] \in Seq(Requests)
  BY DEF TypeOK, ControlTypeOK
<1>2. to'[s] = to[s] \/ (s = u /\ Reads(s) /\ to'[s] = Append(to[s], x))
  BY DEF Sent, TypeOK, ControlTypeOK
<1>3. CASE to'[s] = to[s]
  BY <1>1, <1>3
<1>4. CASE s = u /\ Reads(s) /\ to'[s] = Append(to[s], x)
  BY <1>1, <1>4
<1> QED BY <1>2, <1>3, <1>4

(* A send keeps the order when a commit request is the first of its movement, *)
(* and what is sent about a movement past its commit barrier is not one.      *)
LEMMA SendInOrder ==
    ASSUME TypeOK, RequestsInOrder, PastStays, UNCHANGED <<conn, inc>>, NEW u, NEW x \in Requests,
           to' = Sent(u, x),
           x.type \in {"COMMIT_REQUEST", "AUTHORITY_QUERY"} => u[1] = "D" /\ Past(x.movement)',
           x.type = "COMMIT_REQUEST" => ~Past(x.movement)
    PROVE  /\ RequestsInOrder'
           /\ \A m : CommitPending(m)' => CommitPending(m) \/ IsCommit(x, m)
<1>1. ASSUME NEW s \in Sessions, NEW i \in 1 .. Len(to[s]) PROVE to[s][i].movement \in Movements
  <2>1. to[s] \in Seq(Requests)
    BY DEF TypeOK, ControlTypeOK
  <2>2. to[s][i] \in Requests
    BY <2>1
  <2> QED BY <2>2 DEF Requests
<1>2. ASSUME NEW s \in Sessions, NEW i \in 1 .. Len(to'[s]),
             to'[s][i].type \in {"COMMIT_REQUEST", "AUTHORITY_QUERY"}
      PROVE  /\ s[1] = "D" /\ Past(to[s][i].movement)'
             /\ \A j \in (i + 1) .. Len(to'[s]) : ~IsCommit(to'[s][j], to'[s][i].movement)
  <2>0. Len(to'[s]) \in Nat /\ Len(to[s]) \in Nat
    <3>1. to[s] \in Seq(Requests) /\ to'[s] \in Seq(Requests)
      BY DEF TypeOK, ControlTypeOK, Sent
    <3> QED BY <3>1
  <2>1. CASE i \in 1 .. Len(to[s]) /\ to'[s][i] = to[s][i]
    <3>1. PICK m \in Movements : m = to[s][i].movement /\ m = to'[s][i].movement
      BY <1>1, <2>1
    <3>2. /\ s[1] = "D" /\ Past(m)
          /\ \A j \in (i + 1) .. Len(to[s]) : ~IsCommit(to[s][j], m)
      BY <1>2, <2>1, <3>1 DEF RequestsInOrder
    <3>3. Past(m)'
      BY Zenon, <3>1, <3>2 DEF PastStays
    <3>4. ASSUME NEW j \in (i + 1) .. Len(to'[s]) PROVE ~IsCommit(to'[s][j], m)
      <4>1. j \in 1 .. Len(to'[s])
        BY <2>0, <2>1
      <4>2. CASE j \in 1 .. Len(to[s]) /\ to'[s][j] = to[s][j]
        <5>1. j \in (i + 1) .. Len(to[s])
          BY <2>0, <2>1, <4>2
        <5> QED BY Zenon, <3>2, <4>2, <5>1
      <4>3. CASE to'[s][j] = x
        BY <3>2, <4>3 DEF IsCommit
      <4>4. (j \in 1 .. Len(to[s]) /\ to'[s][j] = to[s][j]) \/ to'[s][j] = x
        BY <4>1, GrownQueue
      <4> QED BY Zenon, <4>2, <4>3, <4>4
    <3> QED BY Zenon, <3>1, <3>2, <3>3, <3>4 DEF Past
  <2>2. CASE s = u /\ i = Len(to[s]) + 1 /\ Len(to'[s]) = i /\ to'[s][i] = x
    <3>1. s[1] = "D" /\ Past(x.movement)'
      BY <1>2, <2>2
    <3>2. (i + 1) .. Len(to'[s]) = {}
      BY <2>0, <2>2
    <3> QED BY Zenon, <2>2, <3>1, <3>2 DEF Past
  <2>3. \/ i \in 1 .. Len(to[s]) /\ to'[s][i] = to[s][i]
        \/ s = u /\ i = Len(to[s]) + 1 /\ Len(to'[s]) = i /\ to'[s][i] = x
    BY GrownQueue
  <2> QED BY Zenon, <2>1, <2>2, <2>3
<1>3. ASSUME NEW m, CommitPending(m)' PROVE CommitPending(m) \/ IsCommit(x, m)
  <2>1. PICK s \in Sessions : \E i \in 1 .. Len(to'[s]) : IsCommit(to'[s][i], m)
    BY <1>3 DEF CommitPending, IsCommit
  <2>2. PICK i \in 1 .. Len(to'[s]) : IsCommit(to'[s][i], m)
    BY <2>1
  <2> QED BY <2>2, GrownQueue DEF CommitPending
<1>4. ASSUME NEW s \in Sessions, to'[s] # <<>> PROVE Reads(s)'
  <2>1. to'[s] = to[s] \/ Reads(s)
    BY DEF Sent, TypeOK, ControlTypeOK
  <2>2. Reads(s)
    BY <1>4, <2>1 DEF RequestsInOrder
  <2> QED BY <2>2 DEF Reads
<1> QED BY ZenonT(40), <1>2, <1>3, <1>4 DEF RequestsInOrder

-----------------------------------------------------------------------------
(* Answers, cancel() and reconcile(), recovery, and what an endpoint reads.  *)

(* Answers name movements. *)
LEMMA AnswerNames ==
    ASSUME TypeOK, NEW s \in Sessions, NEW i \in 1 .. Len(fr[s])
    PROVE  fr[s][i] \in Responses /\ fr[s][i].movement \in Movements
<1>1. fr[s] \in Seq(Responses)
  BY DEF TypeOK, ControlTypeOK
<1>2. fr[s][i] \in Responses
  BY <1>1
<1> QED BY <1>2 DEF Responses

(* What cancel() and reconcile() may write: reconcile() says FAILED only when *)
(* the destination reported that there is no marker.                          *)
AdminWrites(m) ==
    LET q == <<"reconcile", m>>
    IN \/ store'[m] = store[m]
       \/ /\ store'[m].state = "CANCELLED" /\ admin[<<"cancel", m>>].pc # "idle"
          /\ store'[m].generation = admin[<<"cancel", m>>].rec.generation + 1
       \/ /\ admin[q].pc = "awaitReport" /\ Answered(q)
          /\ store'[m].generation = admin[q].rec.generation + 1
          /\ \/ store'[m].state = "COMMITTED" /\ slot[q].code = "AUTHORITATIVE"
             \/ store'[m].state \in {"FAILED", "CANCELLED"} /\ slot[q].code = "ABSENT"

AdminMoves(m) ==
    /\ up /\ adminFrame
    /\ \A n \in Movements \ {m} : store'[n] = store[n]
    /\ AdminWrites(m)
    /\ \A n \in Movements : admin'[<<"reconcile", n>>].pc # "idle" =>
         \/ admin[<<"reconcile", n>>].pc # "idle"
         \/ n = m /\ store[m].state = "OUTCOME_UNKNOWN" /\ store' = store
    /\ \A t \in Threads : slot'[t].status = "answered" => slot'[t] = slot[t]
    /\ \/ to' = to
       \/ \E s, type : /\ to' = Sent(s, Request(type, m, 0)) /\ type \in {"CANCEL", "AUTHORITY_QUERY"}
                       /\ type = "AUTHORITY_QUERY" => s[1] = "D" /\ admin[<<"reconcile", m>>].pc # "idle"

(* The key of the command's own thread, the entry of its own thread. *)
LEMMA AdminThreadShape ==
    ASSUME TypeOK, NEW m \in Movements, NEW k \in {"cancel", "reconcile"}, NEW a, NEW w,
           slot' = slot \/ (w.status # "answered" /\ slot' = [slot EXCEPT ![<<k, m>>] = w]),
           admin' = [admin EXCEPT ![<<k, m>>] = a]
    PROVE  /\ \A t \in Threads : slot'[t].status = "answered" => slot'[t] = slot[t]
           /\ \A n \in Movements : admin'[<<"reconcile", n>>].pc # "idle" =>
                admin[<<"reconcile", n>>].pc # "idle" \/ (n = m /\ k = "reconcile" /\ a.pc # "idle")
<1>1. /\ slot \in [Threads -> Slots] /\ admin \in [AdminThreads -> [pc : AdminPc, rec : Records]]
      /\ <<k, m>> \in AdminThreads /\ \A n \in Movements : <<"reconcile", n>> \in AdminThreads
  BY ZenonT(40), AdminThread DEF TypeOK, CoordinatorTypeOK
<1>2. \A t \in Threads : slot'[t].status = "answered" => slot'[t] = slot[t]
  BY <1>1
<1>3. ASSUME NEW n \in Movements, admin'[<<"reconcile", n>>].pc # "idle"
      PROVE  admin[<<"reconcile", n>>].pc # "idle" \/ (n = m /\ k = "reconcile" /\ a.pc # "idle")
  <2>1. CASE <<"reconcile", n>> = <<k, m>>
    BY <1>1, <1>3, <2>1
  <2>2. CASE <<"reconcile", n>> # <<k, m>>
    BY Zenon, <1>1, <1>3, <2>2
  <2> QED BY <2>1, <2>2
<1> QED BY <1>2, <1>3

(* cancel() *)
LEMMA CancelShape ==
    ASSUME TypeOK, NEW m \in Movements,
           \/ CancelStart(m) \/ CancelNextEndpoint(m) \/ CancelRecord(m)
           \/ \E e \in Endpoints : CancelNotify(m, e)
    PROVE  AdminMoves(m)
<1> DEFINE t == <<"cancel", m>>
<1>1. up /\ adminFrame
  BY DEF CancelStart, CancelNextEndpoint, CancelRecord, CancelNotify
<1>2. PICK a, w : /\ slot' = slot \/ (w.status # "answered" /\ slot' = [slot EXCEPT ![t] = w])
                  /\ admin' = [admin EXCEPT ![t] = a]
  <2>1. CASE CancelStart(m)
    BY ZenonT(40), <2>1 DEF CancelStart
  <2>2. CASE CancelNextEndpoint(m) \/ CancelRecord(m)
    <3>1. FreeSlot.status # "answered" /\ slot' = [slot EXCEPT ![t] = FreeSlot]
      BY <2>2 DEF CancelNextEndpoint, CancelRecord, Release, FreeSlot
    <3>2. \E a : admin' = [admin EXCEPT ![t] = a]
      BY <2>2 DEF CancelNextEndpoint, CancelRecord
    <3> QED BY ZenonT(40), <3>1, <3>2
  <2>3. ASSUME NEW e \in Endpoints, CancelNotify(m, e)
        PROVE  \E a, w : /\ slot' = slot \/ (w.status # "answered" /\ slot' = [slot EXCEPT ![t] = w])
                         /\ admin' = [admin EXCEPT ![t] = a]
    <3>1. PICK i : AdminRequest(t, <<e, i>>, "CANCEL", "CANCEL_ACK", AwaitAckPc[e])
      BY ZenonT(40), <2>3 DEF CancelNotify
    <3>2. Reserve(<<e, i>>, "CANCEL_ACK", 0).status # "answered"
      BY DEF Reserve
    <3>3. slot' = [slot EXCEPT ![t] = Reserve(<<e, i>>, "CANCEL_ACK", 0)] /\ \E a : admin' = [admin EXCEPT ![t] = a]
      BY ZenonT(40), <3>1 DEF AdminRequest
    <3> QED BY ZenonT(40), <3>2, <3>3
  <2> QED BY <2>1, <2>2, <2>3
<1>3. /\ \A u \in Threads : slot'[u].status = "answered" => slot'[u] = slot[u]
      /\ \A n \in Movements : admin'[<<"reconcile", n>>].pc # "idle" => admin[<<"reconcile", n>>].pc # "idle"
  BY ZenonT(40), <1>2, AdminThreadShape
<1>4. \/ to' = to
      \/ \E s, type : to' = Sent(s, Request(type, m, 0)) /\ type = "CANCEL"
  <2>1. ASSUME NEW e \in Endpoints, CancelNotify(m, e) PROVE \E s : to' = Sent(s, Request("CANCEL", m, 0))
    BY <2>1 DEF CancelNotify, AdminRequest
  <2> QED BY <2>1 DEF CancelStart, CancelNextEndpoint, CancelRecord
<1>5. (\A n \in Movements \ {m} : store'[n] = store[n]) /\ AdminWrites(m)
  <2>1. CASE store' = store
    BY Zenon, <2>1 DEF AdminWrites
  <2>2. CASE CancelRecord(m)
    <3> DEFINE x == apply_transition(admin[t].rec, "CANCELLED")
    <3>1. /\ store' = store \/ store' = [store EXCEPT ![m] = x]
          /\ admin[t].pc # "idle"
      BY <2>2 DEF CancelRecord, Put
    <3>2. x.state = "CANCELLED" /\ x.generation = admin[t].rec.generation + 1
      <4>1. admin[t].rec \in Records
        BY ZenonT(60), AdminThread DEF TypeOK, CoordinatorTypeOK
      <4> QED BY <4>1, NewerRecord DEF MovementState
    <3> HIDE DEF x
    <3>3. store' = [store EXCEPT ![m] = x] => store'[m] = x /\ \A n \in Movements \ {m} : store'[n] = store[n]
      BY DEF TypeOK, CoordinatorTypeOK
    <3> QED BY <2>1, <3>1, <3>2, <3>3 DEF AdminWrites
  <2> QED BY Zenon, <2>1, <2>2 DEF CancelStart, CancelNextEndpoint, CancelNotify
<1> QED BY <1>1, <1>3, <1>4, <1>5 DEF AdminMoves

(* reconcile() *)
LEMMA ReconcileShape ==
    ASSUME TypeOK, NEW m \in Movements, ReconcileStart(m) \/ ReconcileQuery(m) \/ ReconcileReport(m)
    PROVE  AdminMoves(m)
<1> DEFINE t == <<"reconcile", m>>
<1>0. FreeSlot.status # "answered" /\ IdleAdmin.pc = "idle"
  BY DEF FreeSlot, IdleAdmin
<1>1. up /\ adminFrame
  BY Zenon DEF ReconcileStart, ReconcileQuery, ReconcileReport
<1>2. CASE ReconcileStart(m)
  <2>1. /\ UNCHANGED <<store, slot, to>> /\ store[m].state = "OUTCOME_UNKNOWN"
        /\ admin' = [admin EXCEPT ![t] = [pc |-> "query", rec |-> store[m]]]
    BY <1>2 DEF ReconcileStart
  <2>2. \A n \in Movements : admin'[<<"reconcile", n>>].pc # "idle" => admin[<<"reconcile", n>>].pc # "idle" \/ n = m
    BY Zenon, <2>1, AdminThreadShape
  <2> QED BY ZenonT(40), <1>1, <2>1, <2>2 DEF AdminMoves, AdminWrites
<1>3. CASE ReconcileQuery(m)
  <2>0. store' = store /\ admin[t].pc = "query"
    BY <1>3 DEF ReconcileQuery
  <2>1. PICK a, w : /\ slot' = slot \/ (w.status # "answered" /\ slot' = [slot EXCEPT ![t] = w])
                    /\ admin' = [admin EXCEPT ![t] = a]
                    /\ \/ to' = to \/ \E s : to' = Sent(s, Request("AUTHORITY_QUERY", m, 0)) /\ s[1] = "D"
    <3>1. CASE admin' = [admin EXCEPT ![t] = IdleAdmin] /\ UNCHANGED <<slot, to>>
      BY ZenonT(40), <3>1
    <3>2. ASSUME NEW i, AdminRequest(t, <<"D", i>>, "AUTHORITY_QUERY", "AUTHORITY_REPORT", "awaitReport")
          PROVE  \E a, w : /\ slot' = slot \/ (w.status # "answered" /\ slot' = [slot EXCEPT ![t] = w])
                           /\ admin' = [admin EXCEPT ![t] = a]
                           /\ \/ to' = to \/ \E s : to' = Sent(s, Request("AUTHORITY_QUERY", m, 0)) /\ s[1] = "D"
      <4> DEFINE w == Reserve(<<"D", i>>, "AUTHORITY_REPORT", 0)
      <4>1. w.status # "answered" /\ <<"D", i>>[1] = "D"
        BY DEF Reserve
      <4>2. /\ slot' = [slot EXCEPT ![t] = w]
            /\ admin' = [admin EXCEPT ![t] = [admin[t] EXCEPT !.pc = "awaitReport"]]
            /\ to' = Sent(<<"D", i>>, Request("AUTHORITY_QUERY", m, 0))
        BY <3>2 DEF AdminRequest
      <4> HIDE DEF w
      <4> QED BY ZenonT(60), <4>1, <4>2
    <3> QED BY ZenonT(40), <1>3, <3>1, <3>2 DEF ReconcileQuery
  <2>2. /\ \A u \in Threads : slot'[u].status = "answered" => slot'[u] = slot[u]
        /\ \A n \in Movements : admin'[<<"reconcile", n>>].pc # "idle" => admin[<<"reconcile", n>>].pc # "idle"
    <3>1. /\ \A u \in Threads : slot'[u].status = "answered" => slot'[u] = slot[u]
          /\ \A n \in Movements : admin'[<<"reconcile", n>>].pc # "idle" =>
               admin[<<"reconcile", n>>].pc # "idle" \/ n = m
      <4>1. /\ slot' = slot \/ (w.status # "answered" /\ slot' = [slot EXCEPT ![<<"reconcile", m>>] = w])
            /\ admin' = [admin EXCEPT ![<<"reconcile", m>>] = a]
        BY <2>1
      <4> QED BY ZenonT(40), <4>1, AdminThreadShape
    <3>2. admin[<<"reconcile", m>>].pc # "idle"
      BY <2>0
    <3> QED BY Zenon, <3>1, <3>2
  <2> QED BY Zenon, <1>1, <2>0, <2>1, <2>2 DEF AdminMoves, AdminWrites
<1>4. CASE ReconcileReport(m)
  <2> DEFINE r == admin[t].rec
             absent == IF r.cancel_requested THEN "CANCELLED" ELSE "FAILED"
             x(g) == apply_transition(r, g)
  <2>1. /\ to' = to /\ admin' = [admin EXCEPT ![t] = IdleAdmin] /\ slot' = [slot EXCEPT ![t] = FreeSlot]
        /\ admin[t].pc = "awaitReport"
        /\ \/ store' = store
           \/ Answered(t) /\ slot[t].code = "AUTHORITATIVE" /\ store' = [store EXCEPT ![m] = x("COMMITTED")]
           \/ Answered(t) /\ slot[t].code = "ABSENT" /\ store' = [store EXCEPT ![m] = x(absent)]
    BY <1>4 DEF ReconcileReport, Put, Release
  <2>2. /\ \A u \in Threads : slot'[u].status = "answered" => slot'[u] = slot[u]
        /\ \A n \in Movements : admin'[<<"reconcile", n>>].pc # "idle" => admin[<<"reconcile", n>>].pc # "idle"
    BY ZenonT(40), <1>0, <2>1, AdminThreadShape
  <2>3. \A g \in MovementState : x(g).state = g /\ x(g).generation = r.generation + 1
    <3>1. r \in Records
      BY ZenonT(60), AdminThread DEF TypeOK, CoordinatorTypeOK
    <3> QED BY <3>1, NewerRecord
  <2>4. "COMMITTED" \in MovementState /\ absent \in MovementState /\ absent \in {"FAILED", "CANCELLED"}
    BY DEF MovementState
  <2> HIDE DEF x, absent
  <2>5. \A y : store' = [store EXCEPT ![m] = y] => store'[m] = y /\ \A n \in Movements \ {m} : store'[n] = store[n]
    BY DEF TypeOK, CoordinatorTypeOK
  <2>6. (\A n \in Movements \ {m} : store'[n] = store[n]) /\ AdminWrites(m)
    <3>1. CASE store' = store
      BY <3>1 DEF AdminWrites
    <3>2. CASE Answered(t) /\ slot[t].code = "AUTHORITATIVE" /\ store' = [store EXCEPT ![m] = x("COMMITTED")]
      <4>1. x("COMMITTED").state = "COMMITTED" /\ x("COMMITTED").generation = r.generation + 1
        BY <2>3, <2>4
      <4>2. store'[m] = x("COMMITTED") /\ \A n \in Movements \ {m} : store'[n] = store[n]
        BY ZenonT(60), <2>5, <3>2
      <4> QED BY Zenon, <2>1, <3>2, <4>1, <4>2 DEF AdminWrites
    <3>3. CASE Answered(t) /\ slot[t].code = "ABSENT" /\ store' = [store EXCEPT ![m] = x(absent)]
      <4>1. x(absent).state = absent /\ x(absent).generation = r.generation + 1
        BY <2>3, <2>4
      <4>2. store'[m] = x(absent) /\ \A n \in Movements \ {m} : store'[n] = store[n]
        BY ZenonT(40), <2>5, <3>3
      <4> QED BY Zenon, <2>1, <2>4, <3>3, <4>1, <4>2 DEF AdminWrites
    <3> QED BY <2>1, <3>1, <3>2, <3>3
  <2> QED BY <1>1, <2>1, <2>2, <2>6 DEF AdminMoves
<1> QED BY <1>2, <1>3, <1>4

(* What recovery makes of a record. *)
LEMMA RecoveredRecord ==
    ASSUME TypeOK, CoordinatorStart, NEW m \in Movements
    PROVE  \/ store'[m] = store[m]
           \/ /\ store'[m].generation = store[m].generation + 1
              /\ \/ store[m].state = "PLANNED" /\ store'[m].state = "FAILED"
                 \/ store[m].state \in InFlight /\ store'[m].state = "OUTCOME_UNKNOWN"
<1>1. store[m] \in Records /\ store[m].state \in MovementState \cup {"NONE"}
  BY DEF TypeOK, CoordinatorTypeOK, Records
<1>2. CASE store'[m] = store[m]
  BY <1>2
<1>3. CASE store'[m] = Recovered(store[m])
  <2>1. store'[m] = Recovered(store[m])
    BY <1>3
  <2>2. ASSUME NEW g \in {"FAILED", "OUTCOME_UNKNOWN"}
        PROVE  /\ apply_transition(store[m], g).state = g
               /\ apply_transition(store[m], g).generation = store[m].generation + 1
    BY <1>1, NewerRecord DEF MovementState
  <2>3. CASE store[m].state = "PLANNED"
    BY <2>1, <2>2, <2>3 DEF Recovered
  <2>4. CASE store[m].state # "PLANNED"
    <3>1. check_transition(store[m].state, "OUTCOME_UNKNOWN") => store[m].state \in InFlight
      BY <1>1, <2>4 DEF check_transition, kTransitions, InFlight, MovementState, Terminal, is_terminal, Abandoned
    <3> QED BY <2>1, <2>2, <2>4, <3>1 DEF Recovered
  <2> QED BY <2>3, <2>4
<1>4. store'[m] = store[m] \/ store'[m] = Recovered(store[m])
  BY Zenon DEF CoordinatorStart
<1> QED BY <1>2, <1>3, <1>4

(* Where the answers on a link are after a reply. *)
LEMMA GrownAnswers ==
    ASSUME TypeOK, NEW u, NEW r \in Responses, fr' = Replied(u, r), NEW s \in Sessions,
           NEW i \in 1 .. Len(fr'[s])
    PROVE  \/ i \in 1 .. Len(fr[s]) /\ fr'[s][i] = fr[s][i]
           \/ fr'[s][i] = r
<1>1. fr[s] \in Seq(Responses)
  BY DEF TypeOK, ControlTypeOK
<1>2. fr'[s] = fr[s] \/ fr'[s] = Append(fr[s], r)
  BY DEF Replied, TypeOK, ControlTypeOK
<1>3. CASE fr'[s] = fr[s]
  BY <1>1, <1>3
<1>4. CASE fr'[s] = Append(fr[s], r)
  BY <1>1, <1>4
<1> QED BY <1>2, <1>3, <1>4

(* The next request at the destination, when it is a commit request or a      *)
(* reconcile query: no other commit request of its movement is on its way.    *)
LEMMA HeadRequest ==
    ASSUME TypeOK, OutcomeInv, NEW type \in {"COMMIT_REQUEST", "AUTHORITY_QUERY"}, Receives("D", type),
           NEW m, m = Incoming("D").movement
    PROVE  /\ m \in Movements /\ Past(m)
           /\ type = "COMMIT_REQUEST" => CommitPending(m)
           /\ type = "AUTHORITY_QUERY" => ~CommitPending(m)
           /\ ~CommitPending(m)'
<1> DEFINE s == <<"D", inc["D"]>>
<1>1. /\ conn["D"] = "up" /\ to[s] # <<>> /\ Head(to[s]).type = type /\ to' = [to EXCEPT ![s] = Tail(@)]
  BY DEF Receives
<1>2. s \in Sessions
  BY <1>1 DEF Sessions, Endpoints, TypeOK, EndpointTypeOK
<1>3. to[s] \in Seq(Requests) /\ to \in [Sessions -> Seq(Requests)]
  BY <1>2 DEF TypeOK, ControlTypeOK
<1>4. to[s][1] = Head(to[s]) /\ 1 \in 1 .. Len(to[s]) /\ to[s][1] \in Requests
  BY <1>1, <1>3
<1>5. m = to[s][1].movement /\ m \in Movements /\ to[s][1].type = type
  BY <1>1, <1>4 DEF Incoming, Requests
<1>6. Past(m) /\ \A j \in 2 .. Len(to[s]) : ~IsCommit(to[s][j], m)
  BY <1>2, <1>4, <1>5 DEF OutcomeInv, RequestsInOrder
<1>7. ASSUME NEW u \in Sessions, NEW i \in 1 .. Len(to[u]), IsCommit(to[u][i], m) PROVE u = s /\ i = 1
  <2>1. u[1] = "D" /\ to[u] # <<>>
    BY <1>7 DEF OutcomeInv, RequestsInOrder, IsCommit
  <2>2. u[2] = inc["D"]
    BY <2>1 DEF OutcomeInv, RequestsInOrder, Reads
  <2>3. u = s
    BY <2>1, <2>2 DEF Sessions
  <2>4. i = 1 \/ i \in 2 .. Len(to[s])
    BY <1>3, <2>3
  <2> QED BY <1>6, <1>7, <2>3, <2>4
<1>8. type = "COMMIT_REQUEST" => CommitPending(m)
  BY <1>2, <1>4, <1>5 DEF CommitPending, IsCommit
<1>9. type = "AUTHORITY_QUERY" => ~CommitPending(m)
  BY <1>5, <1>7 DEF CommitPending, IsCommit
<1>10. ASSUME NEW u \in Sessions, NEW i \in 1 .. Len(to'[u]), IsCommit(to'[u][i], m) PROVE FALSE
  <2>1. CASE u = s
    <3>1. to'[u] = Tail(to[s])
      BY <1>1, <1>2, <1>3, <2>1
    <3>2. i + 1 \in 2 .. Len(to[s]) /\ to'[u][i] = to[s][i + 1]
      <4>1. ASSUME NEW q \in Seq(Requests), q # <<>>, NEW k \in 1 .. Len(Tail(q))
            PROVE  k + 1 \in 2 .. Len(q) /\ Tail(q)[k] = q[k + 1]
        BY <4>1
      <4>2. i \in 1 .. Len(Tail(to[s]))
        BY <3>1
      <4> QED BY ZenonT(60), <1>1, <1>3, <3>1, <4>1, <4>2
    <3> QED BY <1>6, <1>10, <3>2
  <2>2. CASE u # s
    <3>1. to'[u] = to[u]
      BY <1>1, <1>3, <2>2
    <3> QED BY <1>7, <1>10, <2>2, <3>1
  <2> QED BY Zenon, <2>1, <2>2
<1>11. ~CommitPending(m)'
  BY <1>10 DEF CommitPending, IsCommit
<1> QED BY <1>5, <1>6, <1>8, <1>9, <1>11

(* handle_control takes the head of one queue. *)
LEMMA HandledQueue ==
    ASSUME TypeOK, OutcomeInv, NEW e \in Endpoints, NEW type, Receives(e, type), UNCHANGED <<conn, inc>>
    PROVE  /\ \A s \in Sessions : Shrinks(s)
           /\ \A s \in Sessions : to'[s] # <<>> => Reads(s)'
<1> DEFINE u == <<e, inc[e]>>
<1>1. to[u] # <<>> /\ to' = [to EXCEPT ![u] = Tail(to[u])] /\ conn[e] = "up"
  BY DEF Receives
<1>2. to \in [Sessions -> Seq(Requests)]
  BY DEF TypeOK, ControlTypeOK
<1>3. \A s \in Sessions : to'[s] = to[s] \/ (s = u /\ to'[s] = Tail(to[s]))
  BY ZenonT(40), <1>1, <1>2
<1>4. u[1] = e /\ u[2] = inc[e]
  OBVIOUS
<1> HIDE DEF u
<1>5. \A s \in Sessions : Shrinks(s)
  BY <1>1, <1>3 DEF Shrinks
<1>6. ASSUME NEW s \in Sessions, to'[s] # <<>> PROVE Reads(s)'
  BY <1>1, <1>3, <1>4, <1>6 DEF OutcomeInv, RequestsInOrder, Reads
<1> QED BY <1>5, <1>6

-----------------------------------------------------------------------------
(* Without cancel(), which writes its copy back over whatever the drive has  *)
(* saved meanwhile, one thread at a time works on a record.                  *)

NoCancel == "cancel" \notin Commands

(* The copy of the thread at work is the record itself. *)
InStep(m) ==
    /\ drive[m].pc \notin {"idle", "queued"} => store[m] = drive[m].rec
    /\ drive[m].pc = "queued" => store[m].state = "AUTHORIZED"
    /\ admin[<<"reconcile", m>>].pc # "idle" =>
         store[m] = admin[<<"reconcile", m>>].rec /\ store[m].state = "OUTCOME_UNKNOWN"
    /\ store[m].state = "CANCELLED" => drive[m].pc = "idle" /\ Never(m)
    /\ admin[<<"cancel", m>>].pc = "idle"

AllInStep == \A m \in Movements : InStep(m)

(* A record that changes is newer. *)
Newer == \A m \in Movements : store[m] # NoRecord /\ store'[m] # store[m]
                              => store'[m].generation > store[m].generation

(* The drive threads. *)
LEMMA DriveInStep ==
    ASSUME TypeOK, TypeOK', OutcomeInv, OutcomeInv', NeverStays, AllInStep, NEW m \in Movements,
           DriveMoves(m), DriveTraffic(m)
    PROVE  AllInStep' /\ Newer
<1>0. /\ UNCHANGED admin /\ CoordinatorStages /\ CoordinatorStages'
      /\ IdleDrive.pc = "idle" /\ NoRecord.state = "NONE" /\ NoRecord.generation = 0
  BY ZenonT(40) DEF DriveTraffic, driveFrame, OutcomeInv, IdleDrive, NoRecord
<1>1. ASSUME NEW n \in Movements \ {m} PROVE InStep(n)' /\ store'[n] = store[n]
  <2>1. store'[n] = store[n] /\ drive'[n] = drive[n] /\ InStep(n) /\ (Never(n) => Never(n)')
    BY ZenonT(40), <1>1 DEF DriveMoves, Others, AllInStep, NeverStays
  <2> QED BY ZenonT(40), <1>0, <2>1 DEF InStep
<1>2. InStep(m) /\ Stage(m) /\ Stage(m)'
  BY ZenonT(40), <1>0 DEF AllInStep, CoordinatorStages
<1>3. /\ store[m].generation \in Nat /\ drive[m].rec.generation \in Nat /\ store'[m].generation \in Nat
      /\ store[m] \in Records /\ drive[m].pc \in DrivePc
  BY ZenonT(40) DEF TypeOK, CoordinatorTypeOK, Records, Drives
<1>4. store[m] # NoRecord /\ store'[m] # store[m] => store'[m].generation > store[m].generation
  <2> SUFFICES ASSUME store[m] # NoRecord, store'[m] # store[m] PROVE store'[m].generation > store[m].generation
    OBVIOUS
  <2>1. /\ \/ store'[m].generation = drive[m].rec.generation + 1
           \/ store'[m] = drive[m].rec
        /\ drive[m].pc \notin {"idle", "queued"}
    BY Zenon DEF DriveMoves, Submitted, Authorized, Started, Ended, WentOn, Driving
  <2>2. store[m] = drive[m].rec
    BY ZenonT(40), <1>2, <2>1 DEF InStep
  <2> QED BY <1>3, <2>1, <2>2
<1>5. admin[<<"reconcile", m>>].pc = "idle"
  <2>1. drive[m].pc = "idle" => store[m].generation = 0
    BY ZenonT(40), <1>0 DEF DriveMoves, Submitted, Authorized, Started, Driving
  <2>2. admin[<<"reconcile", m>>].pc # "idle" => store[m].generation > 0 /\ drive[m].pc = "idle"
    BY <1>0, Zenon DEF CoordinatorStages
  <2> QED BY <2>1, <2>2
<1>6. /\ drive'[m].pc \notin {"idle", "queued"} => store'[m] = drive'[m].rec
      /\ drive'[m].pc = "queued" => store'[m].state = "AUTHORIZED"
  BY ZenonT(40), <1>0, <1>2, <1>3 DEF DriveMoves, Submitted, Authorized, Started, Ended, WentOn, InStep, Driving
<1>7. ASSUME store'[m].state = "CANCELLED" PROVE drive'[m].pc = "idle" /\ Never(m)'
  <2>1. CASE store[m].state = "CANCELLED" /\ drive[m].pc = "idle" /\ Never(m)
    <3>1. store[m] # NoRecord
      BY ZenonT(40), <1>0, <2>1
    <3> QED BY ZenonT(40), <2>1, <3>1 DEF DriveMoves, Submitted, Authorized, Started, Driving
  <2>2. CASE store[m].state # "CANCELLED"
    <3>1. drive[m].pc \in Driving /\ Ended(m) /\ store'[m] # store[m]
      BY ZenonT(40), <1>0, <1>2, <1>7, <2>2
      DEF DriveMoves, Submitted, Authorized, Started, Ended, WentOn, InStep, InFlight, Stage
    <3>2. drive'[m].pc = "idle" /\ drive[m].pc \notin {"idle", "awaitCommit"} /\ store'[m].generation > 0
      <4>1. drive'[m].pc = "idle" /\ drive[m].pc # "idle"
        BY <1>0, <3>1 DEF Ended, Driving
      <4>2. drive[m].pc # "awaitCommit" /\ store'[m].generation = drive[m].rec.generation + 1
        BY <1>7, <3>1 DEF Ended
      <4> QED BY <1>3, <4>1, <4>2
    <3>3. Effectless(m)
      BY ZenonT(40), <3>2 DEF OutcomeInv, NoEffectEvidence, Past
    <3>4. UNCHANGED marker /\ (CommitPending(m)' => CommitPending(m))
      <4>1. CASE to' = to
        BY ZenonT(40), <4>1 DEF CommitPending, IsCommit, DriveTraffic, driveFrame, endpointVars
      <4>2. CASE to' # to
        <5>1. PICK s, type, n : /\ to' = Sent(s, Request(type, m, n))
                                /\ type \in RequestTypes /\ n \in Nat /\ type # "COMMIT_REQUEST"
          BY ZenonT(40), <3>2, <4>2 DEF DriveTraffic
        <5> DEFINE x == Request(type, m, n)
        <5>2. x \in Requests /\ x.type # "COMMIT_REQUEST" /\ to' = Sent(s, x)
          BY <5>1 DEF Request, Requests
        <5> HIDE DEF x
        <5>3. ASSUME CommitPending(m)' PROVE CommitPending(m)
          <6>1. PICK u \in Sessions : \E i \in 1 .. Len(to'[u]) : IsCommit(to'[u][i], m)
            BY <5>3 DEF CommitPending, IsCommit
          <6>2. PICK i \in 1 .. Len(to'[u]) : IsCommit(to'[u][i], m)
            BY <6>1
          <6>3. (i \in 1 .. Len(to[u]) /\ to'[u][i] = to[u][i]) \/ to'[u][i] = x
            BY <5>2, GrownQueue
          <6>4. i \in 1 .. Len(to[u]) /\ IsCommit(to[u][i], m)
            BY <5>2, <6>2, <6>3 DEF IsCommit
          <6> QED BY <6>4, Zenon DEF CommitPending
        <5> QED BY ZenonT(40), <5>3 DEF DriveTraffic, driveFrame, endpointVars
      <4> QED BY <4>1, <4>2
    <3> QED BY ZenonT(40), <3>2, <3>3, <3>4 DEF Never, Past, Effectless
  <2> QED BY ZenonT(40), <1>2, <2>1, <2>2 DEF InStep
<1>8. InStep(m)'
  BY ZenonT(40), <1>0, <1>2, <1>5, <1>6, <1>7 DEF InStep
<1> QED BY ZenonT(40), <1>1, <1>4, <1>8 DEF AllInStep, Newer

(* The copy reconcile() works on. *)
LEMMA ReconcileCopy ==
    ASSUME TypeOK, NEW m \in Movements, ReconcileStart(m) \/ ReconcileQuery(m) \/ ReconcileReport(m)
    PROVE  LET q == <<"reconcile", m>>
           IN /\ \A t \in AdminThreads \ {q} : admin'[t] = admin[t]
              /\ admin'[q].pc # "idle" =>
                   /\ store' = store
                   /\ \/ admin'[q].rec = store[m] /\ store[m].state = "OUTCOME_UNKNOWN"
                      \/ admin[q].pc # "idle" /\ admin'[q].rec = admin[q].rec
<1> DEFINE q == <<"reconcile", m>>
<1>1. admin \in [AdminThreads -> [pc : AdminPc, rec : Records]] /\ q \in AdminThreads
  BY ZenonT(40), AdminThread DEF TypeOK, CoordinatorTypeOK
<1>2. \E a : /\ admin' = [admin EXCEPT ![q] = a]
             /\ a.pc # "idle" =>
                  /\ store' = store
                  /\ \/ a.rec = store[m] /\ store[m].state = "OUTCOME_UNKNOWN"
                     \/ admin[q].pc # "idle" /\ a.rec = admin[q].rec
  <2>1. CASE ReconcileStart(m)
    <3> DEFINE a == [pc |-> "query", rec |-> store[m]]
    <3>1. admin' = [admin EXCEPT ![q] = a] /\ store' = store /\ store[m].state = "OUTCOME_UNKNOWN"
      BY ZenonT(40), <2>1 DEF ReconcileStart
    <3>2. a.rec = store[m]
      OBVIOUS
    <3> HIDE DEF a
    <3> QED BY ZenonT(40), <3>1, <3>2
  <2>2. CASE admin' = [admin EXCEPT ![q] = IdleAdmin]
    <3>1. IdleAdmin.pc = "idle"
      BY DEF IdleAdmin
    <3> QED BY ZenonT(40), <2>2, <3>1
  <2>3. CASE ReconcileQuery(m) /\ admin' # [admin EXCEPT ![q] = IdleAdmin]
    <3>1. admin[q].pc = "query" /\ store' = store /\ admin' = [admin EXCEPT ![q].pc = "awaitReport"]
      BY ZenonT(40), <2>3 DEF ReconcileQuery, AdminRequest
    <3> DEFINE a == [admin[q] EXCEPT !.pc = "awaitReport"]
    <3>2. a.rec = admin[q].rec
      BY <1>1
    <3>3. admin' = [admin EXCEPT ![q] = a]
      BY <3>1
    <3> HIDE DEF a
    <3> QED BY ZenonT(40), <3>1, <3>2, <3>3
  <2> QED BY ZenonT(40), <2>1, <2>2, <2>3 DEF ReconcileReport
<1>3. PICK a : /\ admin' = [admin EXCEPT ![q] = a]
               /\ a.pc # "idle" =>
                    /\ store' = store
                    /\ \/ a.rec = store[m] /\ store[m].state = "OUTCOME_UNKNOWN"
                       \/ admin[q].pc # "idle" /\ a.rec = admin[q].rec
  BY ZenonT(40), <1>2
<1>4. admin'[q] = a /\ \A t \in AdminThreads \ {q} : admin'[t] = admin[t]
  BY <1>1, <1>3
<1> QED BY ZenonT(40), <1>3, <1>4

(* reconcile(), the only command. *)
LEMMA ReconcileInStep ==
    ASSUME TypeOK, TypeOK', NoCancel, CommitEvidence, OutcomeInv, OutcomeInv', NeverStays, AllInStep,
           NEW m \in Movements, AdminStep(m)
    PROVE  AllInStep' /\ Newer /\ AdminMoves(m) /\ (store'[m] # store[m] => store[m].state = "OUTCOME_UNKNOWN")
<1> DEFINE q == <<"reconcile", m>>
<1>1. ReconcileStart(m) \/ ReconcileQuery(m) \/ ReconcileReport(m)
  <2>1. admin[<<"cancel", m>>].pc = "idle"
    BY ZenonT(40) DEF AllInStep, InStep
  <2> QED BY <2>1 DEF NoCancel, AdminStep, CancelStart, Issue, CancelNextEndpoint, CancelRecord, CancelNotify,
                      NotifyPc, Endpoints
<1>2. AdminMoves(m)
  BY <1>1, ReconcileShape
<1>3. /\ \A t \in AdminThreads \ {q} : admin'[t] = admin[t]
      /\ admin'[q].pc # "idle" =>
           /\ store' = store
           /\ \/ admin'[q].rec = store[m] /\ store[m].state = "OUTCOME_UNKNOWN"
              \/ admin[q].pc # "idle" /\ admin'[q].rec = admin[q].rec
  BY ZenonT(40), <1>1, ReconcileCopy
<1>4. drive' = drive /\ \A n \in Movements \ {m} : store'[n] = store[n]
  BY ZenonT(40), <1>2 DEF AdminMoves, adminFrame
<1>5. /\ \A n \in Movements : <<"cancel", n>> \in AdminThreads /\ <<"cancel", n>> # q
      /\ \A n \in Movements \ {m} : <<"reconcile", n>> \in AdminThreads /\ <<"reconcile", n>> # q
  BY ZenonT(40), AdminThread
<1>6. \A n \in Movements : admin'[<<"cancel", n>>] = admin[<<"cancel", n>>]
  BY ZenonT(40), <1>3, <1>5
<1>7. \A n \in Movements \ {m} : admin'[<<"reconcile", n>>] = admin[<<"reconcile", n>>]
  BY ZenonT(40), <1>3, <1>5
<1>8. InStep(m) /\ admin[<<"cancel", m>>].pc = "idle"
  BY ZenonT(40) DEF AllInStep, InStep
<1>9. ASSUME store'[m] # store[m]
      PROVE  /\ store[m].state = "OUTCOME_UNKNOWN" /\ store'[m].generation = store[m].generation + 1
             /\ admin[q].pc = "awaitReport" /\ Answered(q) /\ drive[m].pc = "idle" /\ admin'[q].pc = "idle"
             /\ store'[m].state # "COMMITTED" => slot[q].code = "ABSENT"
  <2>1. /\ admin[q].pc = "awaitReport" /\ Answered(q) /\ store'[m].generation = admin[q].rec.generation + 1
        /\ store'[m].state # "COMMITTED" => slot[q].code = "ABSENT"
    BY ZenonT(40), <1>2, <1>8, <1>9 DEF AdminMoves, AdminWrites
  <2> QED BY ZenonT(40), <1>3, <1>8, <1>9, <2>1 DEF InStep, OutcomeInv, CoordinatorStages
<1>10. Newer
  <2>1. store[m].generation \in Nat
    BY DEF TypeOK, CoordinatorTypeOK, Records
  <2>2. store'[m] # store[m] => store'[m].generation > store[m].generation
    BY <1>9, <2>1
  <2> QED BY <1>4, <2>2, Zenon DEF Newer
<1>11. ASSUME NEW n \in Movements, store'[n].state = "CANCELLED" PROVE drive'[n].pc = "idle" /\ Never(n)'
  <2>1. CASE store'[n] = store[n]
    BY ZenonT(40), <1>4, <1>11, <2>1 DEF AllInStep, InStep, NeverStays
  <2>2. CASE store'[n] # store[n]
    <3>1. n = m
      BY <1>4, <2>2
    <3>2. slot[q].type = "AUTHORITY_REPORT" /\ q \in Threads /\ q[2] = m
      BY Zenon, <1>9, <2>2, <3>1, AdminThread DEF CommitEvidence
    <3>3. Never(m)
      BY Zenon, <1>9, <1>11, <2>2, <3>1, <3>2 DEF OutcomeInv, NoEffectEvidence, Denies, Answered
    <3> QED BY Zenon, <1>4, <1>9, <2>2, <3>1, <3>3 DEF NeverStays
  <2> QED BY <2>1, <2>2
<1>12. ASSUME NEW n \in Movements PROVE InStep(n)'
  <2>1. CASE n # m
    BY <1>4, <1>6, <1>7, <1>11, <2>1 DEF AllInStep, InStep
  <2>2. CASE n = m
    <3>1. CASE store'[m] = store[m]
      BY Zenon, <1>3, <1>4, <1>6, <1>8, <1>11, <2>2, <3>1 DEF InStep
    <3>2. CASE store'[m] # store[m]
      BY <1>4, <1>6, <1>8, <1>9, <1>11, <2>2, <3>2 DEF InStep
    <3> QED BY <3>1, <3>2
  <2> QED BY <2>1, <2>2
<1> QED BY ZenonT(40), <1>2, <1>9, <1>10, <1>12 DEF AllInStep

(* Crash, restart, and the steps that leave records and threads alone. *)
LEMMA OtherInStep ==
    ASSUME TypeOK, TypeOK', OutcomeInv, OutcomeInv', NeverStays, AllInStep,
           UNCHANGED <<store, drive, admin>> \/ CoordinatorCrash \/ CoordinatorStart
    PROVE  AllInStep' /\ Newer
<1>1. CASE UNCHANGED <<store, drive, admin>>
  BY <1>1 DEF AllInStep, InStep, NeverStays, Newer
<1>2. CASE CoordinatorCrash
  <2>1. /\ store' = store
        /\ \A n \in Movements : /\ drive'[n] = IdleDrive /\ admin'[<<"reconcile", n>>] = IdleAdmin
                                /\ admin'[<<"cancel", n>>] = IdleAdmin
    BY <1>2, AdminThread DEF CoordinatorCrash
  <2>2. IdleDrive.pc = "idle" /\ IdleAdmin.pc = "idle"
    BY DEF IdleDrive, IdleAdmin
  <2> QED BY <2>1, <2>2 DEF AllInStep, InStep, NeverStays, Newer
<1>3. CASE CoordinatorStart
  <2>1. UNCHANGED <<drive, admin>> /\ \A n \in Movements : drive[n].pc = "idle"
    BY ZenonT(40), <1>3 DEF CoordinatorStart, OutcomeInv, CoordinatorStages
  <2>2. ASSUME NEW n \in Movements
        PROVE  /\ store'[n] # store[n] => /\ store'[n].generation > store[n].generation
                                          /\ store[n].state # "OUTCOME_UNKNOWN" /\ store'[n].state # "CANCELLED"
    <3>1. store[n].generation \in Nat
      BY DEF TypeOK, CoordinatorTypeOK, Records
    <3> QED BY <1>3, <3>1, RecoveredRecord DEF InFlight
  <2> QED BY <2>1, <2>2 DEF AllInStep, InStep, NeverStays, Newer
<1> QED BY <1>1, <1>2, <1>3

(* Sessions, endpoints, transfer threads. *)
AroundRecords ==
    \/ \E m \in Movements : WorkerStep(m)
    \/ \E s \in Sessions : Deliver(s) \/ SessionEnd(s)
    \/ \E e \in Endpoints : Register(e) \/ EndpointStart(e) \/ EndpointCrash(e) \/ LinkLost(e) \/ Handle(e)
    \/ \E v \in Versions : Damage(v)

(* They leave the records and the coordinator's threads alone. *)
LEMMA RecordsAlone ==
    ASSUME AroundRecords
    PROVE  UNCHANGED <<store, drive, admin>>
<1>1. ASSUME NEW s \in Sessions, Deliver(s) \/ SessionEnd(s) PROVE UNCHANGED <<store, drive, admin>>
  BY Zenon, <1>1 DEF Deliver, SessionEnd
<1>2. ASSUME NEW e \in Endpoints, Register(e) \/ EndpointStart(e) \/ EndpointCrash(e) \/ LinkLost(e)
      PROVE  UNCHANGED <<store, drive, admin>>
  BY Zenon, <1>2 DEF Register, EndpointStart, EndpointCrash, LinkLost, endpointFrame
<1>3. ASSUME NEW e \in Endpoints, Handle(e) PROVE UNCHANGED <<store, drive, admin>>
  BY ZenonT(60), <1>3
  DEF Handle, OnGrant, OnCancel, OnExecute, OnVerify, OnCommitRequest, OnAuthorityQuery, endpointFrame
<1>4. ASSUME NEW m \in Movements, WorkerStep(m) PROVE UNCHANGED <<store, drive, admin>>
  BY ZenonT(60), <1>4
  DEF WorkerStep, WorkerNoGrant, WorkerBegin, WorkerBeginFails, WorkerReceived, WorkerCancelled, WorkerFails,
      WorkerClearTarget, WorkerRename, WorkerPromoteFails, WorkerReport, workerFrame, endpointFrame
<1>5. ASSUME NEW v \in Versions, Damage(v) PROVE UNCHANGED <<store, drive, admin>>
  BY <1>5 DEF Damage, endpointFrame
<1> QED BY <1>1, <1>2, <1>3, <1>4, <1>5 DEF AroundRecords

(* The first state. *)
LEMMA InitInStep == Init => AllInStep
<1> SUFFICES ASSUME Init PROVE AllInStep
  OBVIOUS
<1>1. ASSUME NEW m \in Movements
      PROVE  /\ drive[m] = IdleDrive /\ store[m] = NoRecord
             /\ admin[<<"reconcile", m>>] = IdleAdmin /\ admin[<<"cancel", m>>] = IdleAdmin
  BY AdminThread DEF Init
<1>2. IdleDrive.pc = "idle" /\ IdleAdmin.pc = "idle" /\ NoRecord.state = "NONE"
  BY DEF IdleDrive, IdleAdmin, NoRecord
<1> QED BY ZenonT(40), <1>1, <1>2 DEF AllInStep, InStep

=============================================================================
