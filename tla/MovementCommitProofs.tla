------------------------ MODULE MovementCommitProofs ------------------------
(* COMMITTED is never claimed without a commit marker, for every value of    *)
(* the constants of MovementFabric.  The argument: a marker may be replaced, *)
(* when it cannot be read, but never disappears; it is written before the    *)
(* answer that announces it is sent, an answer reaches only a thread that    *)
(* waits for its type, and the only two places that write COMMITTED have     *)
(* just read such an answer.                                                 *)
EXTENDS MovementFabricProofs

(* Only on_commit_request, at the destination, writes a commit marker. *)
LEMMA MarkerWriter ==
    ASSUME [Next]_vars
    PROVE  OnCommitRequest \/ UNCHANGED marker
<1>1. ASSUME NEW m \in Movements, SubmitPlan(m) \/ DriveStep(m) PROVE UNCHANGED marker
  BY ZenonT(60), <1>1 DEF SubmitPlan, DriveStep, SubmitAuthorize, DriveStart, DriveFail, DriveAttempt, DriveGrant,
     DriveGranted, DriveGrantUnanswered, DriveExecute, DriveTransferring, DriveResult,
     DriveResultUnanswered, DriveProbe, DriveProbed, DriveProbeUnanswered, DriveCommit,
     DriveCommitResult, DriveCommitUnanswered, driveFrame, endpointVars
<1>2. ASSUME NEW m \in Movements, AdminStep(m) PROVE UNCHANGED marker
  BY SMTT(60), <1>2 DEF AdminStep, CancelStart, CancelNextEndpoint, CancelRecord, CancelNotify, ReconcileStart,
     ReconcileQuery, ReconcileReport, adminFrame, endpointVars
<1>3. ASSUME NEW m \in Movements, WorkerStep(m) PROVE UNCHANGED marker
  BY SMTT(60), <1>3 DEF WorkerStep, WorkerNoGrant, WorkerBegin, WorkerBeginFails, WorkerReceived, WorkerCancelled,
     WorkerFails, WorkerClearTarget, WorkerRename, WorkerPromoteFails, WorkerReport, workerFrame
<1>4. ASSUME NEW s \in Sessions, Deliver(s) \/ SessionEnd(s) PROVE UNCHANGED marker
  BY Zenon, <1>4 DEF Deliver, SessionEnd, endpointVars
<1>5. ASSUME NEW e \in Endpoints, Register(e) \/ EndpointStart(e) \/ EndpointCrash(e) \/ LinkLost(e)
      PROVE UNCHANGED marker
  BY <1>5 DEF Register, EndpointStart, EndpointCrash, LinkLost
<1>6. ASSUME NEW e \in Endpoints, Handle(e) PROVE OnCommitRequest \/ UNCHANGED marker
  BY <1>6 DEF Handle, OnGrant, OnCancel, OnExecute, OnVerify, OnAuthorityQuery, endpointVars
<1>7. CASE CoordinatorCrash \/ CoordinatorStart
  BY <1>7 DEF CoordinatorCrash, CoordinatorStart, endpointVars
<1>8. ASSUME NEW v \in Versions, Damage(v) PROVE UNCHANGED marker
  BY <1>8 DEF Damage
<1>9. CASE UNCHANGED vars
  BY <1>9 DEF vars
<1> QED BY SMTT(60), <1>1, <1>2, <1>3, <1>4, <1>5, <1>6, <1>7, <1>8, <1>9 DEF Next

(* No version loses its marker: write_commit_marker may at most replace one.  *)
LEMMA MarkersKept ==
    ASSUME TypeOK, [Next]_vars
    PROVE \A v \in Versions : marker[v] # NoMovement => marker'[v] # NoMovement
<1>1. CASE OnCommitRequest
  <2>1. PICK m : m = Incoming("D").movement
    OBVIOUS
  <2>2. /\ Receives("D", "COMMIT_REQUEST")
        /\ marker' = [marker EXCEPT ![object[m]] = m] \/ marker' = marker
    BY ZenonT(40), <1>1, <2>1 DEF OnCommitRequest, write_commit_marker
  <2>3. m \in Movements /\ m # NoMovement
    <3>1. "D" \in Endpoints
      BY DEF Endpoints
    <3>2. m \in Movements
      BY <2>1, <2>2, <3>1, ReceivesType
    <3> QED BY <3>2, FabricAssumptions
  <2>4. marker \in [Versions -> Movements \cup {NoMovement}]
    BY Zenon DEF TypeOK, EndpointTypeOK
  <2> QED BY <2>2, <2>3, <2>4
<1>2. CASE UNCHANGED marker
  BY <1>2
<1> QED BY <1>1, <1>2, MarkerWriter

-----------------------------------------------------------------------------
(* What the steps of a drive thread do to the record and to its own state.   *)

(* The thread wrote no COMMITTED record, and does not await a commit now. *)
Harmless(m) ==
    /\ store' = store \/ \E x \in Records : x.state # "COMMITTED" /\ store' = [store EXCEPT ![m] = x]
    /\ \E d \in Drives : /\ d.rec.state # "COMMITTED" /\ d.pc # "awaitCommit"
                         /\ drive' = [drive EXCEPT ![m] = d]

(* Saving a record that is not COMMITTED. *)
LEMMA SaveHarmless ==
    ASSUME NEW m \in Movements, NEW r \in Records, NEW next \in Drives, NEW refused \in Drives,
           SaveThen(m, r, next, refused), r.state # "COMMITTED",
           next.rec.state # "COMMITTED", next.pc # "awaitCommit",
           refused.rec.state # "COMMITTED", refused.pc # "awaitCommit"
    PROVE Harmless(m)
BY Zenon DEF SaveThen, Put, Harmless

(* An idle thread holds no COMMITTED copy. *)
LEMMA IdleHarmless ==
    /\ IdleDrive \in Drives /\ IdleDrive.rec.state # "COMMITTED" /\ IdleDrive.pc # "awaitCommit"
    /\ IdleAdmin.rec.state # "COMMITTED" /\ IdleAdmin.pc # "awaitReport"
    /\ FreeSlot.status # "answered"
BY InitialValues DEF IdleDrive, IdleAdmin, NoRecord, FreeSlot

(* The fail lambda never commits. *)
LEMMA FailHarmless ==
    ASSUME TypeOK, NEW m \in Movements, NEW r \in Records, NEW goal \in MovementState \ {"COMMITTED"},
           Fail(m, r, goal)
    PROVE Harmless(m)
<1> DEFINE x == apply_transition(r, goal)
<1>1. x \in Records /\ x.state # "COMMITTED"
  BY RecordOps
<1>2. SaveThen(m, x, IdleDrive, IdleDrive) \/ (drive' = [drive EXCEPT ![m] = IdleDrive] /\ store' = store)
  BY DEF Fail
<1> HIDE DEF x
<1> QED BY <1>1, <1>2, SaveHarmless, IdleHarmless DEF Harmless

(* A retry saves the copy as it is. *)
LEMMA RetryHarmless ==
    ASSUME TypeOK, NEW m \in Movements, drive[m].rec.state # "COMMITTED", RetryOrFail(m)
    PROVE Harmless(m)
<1> DEFINE again == [drive[m] EXCEPT !.pc = "attempt", !.probe = 0, !.verify_link = 0]
<1>1. drive[m].rec \in Records /\ drive[m] \in Drives
  BY DriveFields
<1>2. again \in Drives
  BY Zenon, <1>1, DriveUpdates DEF DrivePc
<1>3. again.rec.state # "COMMITTED" /\ again.pc # "awaitCommit"
  BY <1>1 DEF Drives
<1>4. Fail(m, drive[m].rec, "FAILED") \/ SaveThen(m, drive[m].rec, again, again)
  BY SMTT(60) DEF RetryOrFail
<1> HIDE DEF again
<1> QED BY <1>1, <1>2, <1>3, <1>4, FailHarmless, SaveHarmless DEF MovementState

(* Steps of a drive thread other than the commit itself. *)
LEMMA DriveKeepsEvidence ==
    ASSUME TypeOK, CommitEvidence, driveFrame, NEW m \in Movements,
           store' = store \/ \E x \in Records : /\ store' = [store EXCEPT ![m] = x]
                                                /\ x.state = "COMMITTED" => marker[object[m]] # NoMovement,
           NEW d \in Drives, drive' = [drive EXCEPT ![m] = d], d.rec.state # "COMMITTED",
           NEW w \in Slots, slot' = [slot EXCEPT ![<<"drive", m>>] = w],
           w = slot[<<"drive", m>>] \/ w.status # "answered",
           d.pc = "awaitCommit" => w.type = "COMMIT_RESULT"
    PROVE CommitEvidence'
<1>0. UNCHANGED <<admin, fr, marker>>
  BY DEF driveFrame, endpointVars
<1>1. /\ store \in [Movements -> Records] /\ drive \in [Movements -> Drives]
      /\ slot \in [Threads -> Slots] /\ <<"drive", m>> \in Threads
  BY DriveThread DEF TypeOK, CoordinatorTypeOK
<1>2. \A n \in Movements :
        /\ store'[n].state = "COMMITTED" => marker[object[n]] # NoMovement
        /\ drive'[n].rec.state # "COMMITTED"
  BY Zenon, <1>1 DEF CommitEvidence
<1>3. \A n \in Movements : drive'[n].pc = "awaitCommit" => slot'[<<"drive", n>>].type = "COMMIT_RESULT"
  <2> TAKE n \in Movements
  <2>1. CASE n = m
    BY <1>1, <2>1
  <2>2. CASE n # m
    BY Zenon, <1>1, <2>2, DriveThread DEF CommitEvidence
  <2> QED BY <2>1, <2>2
<1>4. \A n \in Movements : slot'[<<"reconcile", n>>] = slot[<<"reconcile", n>>]
  BY <1>1, AdminThread
<1>5. \A t \in Threads : slot'[t].status = "answered" => slot'[t] = slot[t]
  BY <1>1
<1>6. \A u \in Threads : slot'[u].status = "answered" /\ ClaimsCommit(slot'[u]) => marker[object[u[2]]] # NoMovement
  BY Zenon, <1>5 DEF CommitEvidence
<1>7. \A s \in Sessions : \A i \in 1 .. Len(fr'[s]) :
        ClaimsCommit(fr'[s][i]) => marker[object[fr'[s][i].movement]] # NoMovement
  BY Zenon, <1>0 DEF CommitEvidence
<1>8. /\ \A n \in Movements : admin'[<<"reconcile", n>>].pc = "awaitReport"
                               => slot'[<<"reconcile", n>>].type = "AUTHORITY_REPORT"
      /\ \A u \in AdminThreads : admin'[u].rec.state # "COMMITTED"
  BY Zenon, <1>0, <1>4 DEF CommitEvidence
<1> QED BY Zenon, <1>0, <1>2, <1>3, <1>6, <1>7, <1>8 DEF CommitEvidence, ClaimsCommit

(* A harmless step, with the key kept, released or reserved afresh. *)
LEMMA HarmlessKeepsEvidence ==
    ASSUME TypeOK, CommitEvidence, driveFrame, NEW m \in Movements, Harmless(m),
           \/ UNCHANGED slot \/ Release(<<"drive", m>>)
           \/ \E x \in Slots : x.status = "pending" /\ slot' = [slot EXCEPT ![<<"drive", m>>] = x]
    PROVE CommitEvidence'
<1>1. slot \in [Threads -> Slots] /\ <<"drive", m>> \in Threads
  BY DriveThread DEF TypeOK, CoordinatorTypeOK
<1>2. PICK w \in Slots : /\ slot' = [slot EXCEPT ![<<"drive", m>>] = w]
                         /\ w = slot[<<"drive", m>>] \/ w.status # "answered"
  <2>1. CASE UNCHANGED slot
    <3>1. slot' = [slot EXCEPT ![<<"drive", m>>] = slot[<<"drive", m>>]] /\ slot[<<"drive", m>>] \in Slots
      BY <1>1, <2>1
    <3> QED BY Zenon, <3>1
  <2>2. CASE Release(<<"drive", m>>)
    BY Zenon, <2>2, InitialValues, IdleHarmless DEF Release
  <2>3. CASE \E x \in Slots : x.status = "pending" /\ slot' = [slot EXCEPT ![<<"drive", m>>] = x]
    BY Zenon, <2>3
  <2> QED BY <2>1, <2>2, <2>3
<1>3. PICK d \in Drives : /\ d.rec.state # "COMMITTED" /\ d.pc # "awaitCommit"
                          /\ drive' = [drive EXCEPT ![m] = d]
  BY Zenon DEF Harmless
<1>4. store' = store \/ \E x \in Records : /\ store' = [store EXCEPT ![m] = x]
                                           /\ x.state = "COMMITTED" => marker[object[m]] # NoMovement
  BY DEF Harmless
<1> QED BY Zenon, <1>2, <1>3, <1>4, DriveKeepsEvidence

(* The record a drive thread holds is not COMMITTED. *)
LEMMA OwnRecord ==
    ASSUME TypeOK, CommitEvidence, NEW m \in Movements
    PROVE /\ drive[m] \in Drives /\ drive[m].rec \in Records
          /\ drive[m].rec.state # "COMMITTED" /\ drive[m].goal \in Abandoned
BY ZenonT(60), DriveFields DEF CommitEvidence

(* apply_transition to another state than COMMITTED, saved. *)
LEMMA TransitionHarmless ==
    ASSUME TypeOK, CommitEvidence, NEW m \in Movements,
           NEW s \in MovementState \ {"COMMITTED"}, NEW d \in Drives, d.rec.state # "COMMITTED",
           d.pc # "awaitCommit", SaveThen(m, apply_transition(drive[m].rec, s), d, IdleDrive)
    PROVE Harmless(m)
<1> DEFINE c == drive[m]
<1> DEFINE x == apply_transition(c.rec, s)
<1>1. x \in Records /\ x.state # "COMMITTED"
  BY SMTT(60), OwnRecord, RecordOps
<1> HIDE DEF x
<1>2. SaveThen(m, x, d, IdleDrive)
  BY DEF x
<1> QED BY SMTT(60), <1>1, <1>2, SaveHarmless, IdleHarmless

(* The thread that goes on with the record so transitioned. *)
LEMMA TransitionedDrive ==
    ASSUME TypeOK, CommitEvidence, NEW m \in Movements,
           NEW s \in MovementState \ {"COMMITTED"}, NEW pc \in DrivePc, pc # "awaitCommit"
    PROVE LET d == [drive[m] EXCEPT !.pc = pc, !.rec = apply_transition(drive[m].rec, s)]
          IN d \in Drives /\ d.rec.state # "COMMITTED" /\ d.pc # "awaitCommit"
<1> DEFINE c == drive[m]
<1> DEFINE x == apply_transition(c.rec, s)
           d == [c EXCEPT !.pc = pc, !.rec = x]
<1>1. x \in Records /\ x.state # "COMMITTED"
  BY SMTT(60), OwnRecord, RecordOps
<1> HIDE DEF x
<1>2. d \in Drives
  BY Zenon, OwnRecord, <1>1, DriveUpdates
<1>3. d.rec = x /\ d.pc = pc
  BY SMTT(60), OwnRecord DEF Drives
<1> QED BY SMTT(60), <1>1, <1>2, <1>3 DEF x

(* submit() and the attempt loop until it waits for the attempt's result. *)
LEMMA DriveBeginHarmless ==
    ASSUME TypeOK, CommitEvidence, NEW m \in Movements,
           \/ SubmitPlan(m) \/ SubmitAuthorize(m) \/ DriveStart(m) \/ DriveFail(m) \/ DriveAttempt(m)
           \/ DriveTransferring(m)
    PROVE Harmless(m)
<1> DEFINE c == drive[m]
<1>0. c \in Drives /\ c.rec \in Records /\ c.rec.state # "COMMITTED" /\ c.goal \in Abandoned
  BY Zenon, OwnRecord
<1>1. ASSUME NEW s \in MovementState \ {"COMMITTED"}, NEW d \in Drives, d.rec.state # "COMMITTED",
             d.pc # "awaitCommit", SaveThen(m, apply_transition(c.rec, s), d, IdleDrive)
      PROVE Harmless(m)
  BY Zenon, <1>1, TransitionHarmless
<1>2. ASSUME NEW s \in MovementState \ {"COMMITTED"}, NEW pc \in DrivePc, pc # "awaitCommit"
      PROVE LET d == [c EXCEPT !.pc = pc, !.rec = apply_transition(c.rec, s)]
            IN d \in Drives /\ d.rec.state # "COMMITTED" /\ d.pc # "awaitCommit"
  BY Zenon, <1>2, TransitionedDrive
<1>3. CASE SubmitPlan(m)
  <2> DEFINE r == [state |-> "PLANNED", generation |-> 1, attempt_count |-> 0,
                   cancel_requested |-> FALSE,
                   source_incarnation |-> topo["S"].incarnation,
                   destination_incarnation |-> topo["D"].incarnation]
             d == [IdleDrive EXCEPT !.pc = "planned", !.rec = r]
  <2>1. topo["S"].incarnation \in Nat /\ topo["D"].incarnation \in Nat
    BY SMTT(60) DEF TypeOK, CoordinatorTypeOK, Endpoints
  <2>2. r \in Records /\ r.state # "COMMITTED"
    BY <2>1 DEF Records, MovementState
  <2>3. SaveThen(m, r, d, IdleDrive)
    BY SMTT(60), <1>3 DEF SubmitPlan
  <2> HIDE DEF r
  <2>4. d \in Drives
    BY Zenon, <2>2, InitialValues, DriveUpdates DEF DrivePc
  <2>5. d.rec = r /\ d.pc = "planned"
    BY SMTT(60), InitialValues DEF Drives
  <2> HIDE DEF d
  <2> QED BY <2>2, <2>3, <2>4, <2>5, SaveHarmless, IdleHarmless
<1>4. CASE SubmitAuthorize(m)
  <2> DEFINE d == [IdleDrive EXCEPT !.pc = "queued"]
  <2>1. d \in Drives /\ d.rec.state # "COMMITTED" /\ d.pc # "awaitCommit"
    BY InitialValues, IdleHarmless DEF Drives, DrivePc
  <2>2. SaveThen(m, apply_transition(c.rec, "AUTHORIZED"), d, IdleDrive)
    BY <1>4 DEF SubmitAuthorize
  <2> HIDE DEF c, d
  <2> QED BY <1>1, <2>1, <2>2 DEF MovementState
<1>5. CASE DriveStart(m)
  <2>1. drive' \in [Movements -> Drives] /\ drive \in [Movements -> Drives] /\ UNCHANGED store
    BY Zenon, <1>5, DriveBeginType DEF DriveStart, TypeOK, CoordinatorTypeOK
  <2>2. drive' = [drive EXCEPT ![m] = drive'[m]]
    BY <1>5, <2>1 DEF DriveStart
  <2>3. drive'[m] = IdleDrive \/ (drive'[m].rec = store[m] /\ store[m].state \notin Terminal
                                  /\ drive'[m].pc \in {"fail", "attempt"})
    BY SMTT(60), <1>5, <2>1, InitialValues DEF DriveStart, is_terminal, Drives
  <2> QED BY SMTT(60), <2>1, <2>2, <2>3, IdleHarmless DEF Harmless, Terminal
<1>6. CASE DriveFail(m)
  BY SMTT(60), <1>0, <1>6, FailHarmless DEF DriveFail, Abandoned, MovementState
<1>7. CASE DriveAttempt(m)
  <2> DEFINE r == record_attempt_started(c.rec)
             d == [c EXCEPT !.pc = "grantS", !.rec = r]
  <2>1. r \in Records /\ r.state # "COMMITTED"
    BY <1>0, RecordOps DEF MovementState
  <2>2. SaveThen(m, r, d, IdleDrive)
    BY SMTT(60), <1>7 DEF DriveAttempt
  <2> HIDE DEF r
  <2>3. d \in Drives
    BY Zenon, <1>0, <2>1, DriveUpdates DEF DrivePc
  <2>4. d.rec = r /\ d.pc = "grantS"
    BY SMTT(60), <1>0 DEF Drives
  <2> HIDE DEF d
  <2> QED BY SMTT(60), <2>1, <2>2, <2>3, <2>4, SaveHarmless, IdleHarmless
<1>8. CASE DriveTransferring(m)
  <2>1. \/ SaveThen(m, apply_transition(c.rec, "TRANSFERRING"),
                    [c EXCEPT !.pc = "awaitResult", !.rec = apply_transition(c.rec, "TRANSFERRING")], IdleDrive)
        \/ drive' = [drive EXCEPT ![m] = IdleDrive] /\ UNCHANGED store
    BY SMTT(60), <1>8 DEF DriveTransferring
  <2> HIDE DEF c
  <2> QED BY Zenon, <1>1, <1>2, <2>1, IdleHarmless DEF MovementState, DrivePc, Harmless
<1> QED BY SMTT(60), <1>3, <1>4, <1>5, <1>6, <1>7, <1>8

(* The answers, or their absence, short of the commit result. *)
LEMMA DriveAnswerHarmless ==
    ASSUME TypeOK, CommitEvidence, NEW m \in Movements,
           \/ DriveResult(m) \/ DriveResultUnanswered(m)
           \/ DriveProbed(m) \/ DriveProbeUnanswered(m) \/ DriveCommitUnanswered(m)
           \/ \E e \in Endpoints : DriveGranted(m, e) \/ DriveGrantUnanswered(m, e)
    PROVE Harmless(m) \/ (DriveResult(m) /\ UNCHANGED <<drive, store>>)
<1> DEFINE c == drive[m]
<1>0. c \in Drives /\ c.rec \in Records /\ c.rec.state # "COMMITTED" /\ c.goal \in Abandoned
  BY Zenon, OwnRecord
<1>1. ASSUME NEW s \in MovementState \ {"COMMITTED"}, NEW d \in Drives, d.rec.state # "COMMITTED",
             d.pc # "awaitCommit", SaveThen(m, apply_transition(c.rec, s), d, IdleDrive)
      PROVE Harmless(m)
  BY Zenon, <1>1, TransitionHarmless
<1>2. ASSUME NEW s \in MovementState \ {"COMMITTED"}, NEW pc \in DrivePc, pc # "awaitCommit"
      PROVE LET d == [c EXCEPT !.pc = pc, !.rec = apply_transition(c.rec, s)]
            IN d \in Drives /\ d.rec.state # "COMMITTED" /\ d.pc # "awaitCommit"
  BY Zenon, <1>2, TransitionedDrive
<1>3. CASE DriveResult(m)
  <2>1. \/ UNCHANGED <<drive, store>> \/ Fail(m, c.rec, "CANCELLED") \/ RetryOrFail(m)
        \/ SaveThen(m, apply_transition(c.rec, "BYTES_ARRIVED"),
                    [c EXCEPT !.pc = "verify", !.rec = apply_transition(c.rec, "BYTES_ARRIVED")], IdleDrive)
    BY SMTT(60), <1>3 DEF DriveResult
  <2>2. RetryOrFail(m) => Harmless(m)
    BY SMTT(60), <1>0, RetryHarmless
  <2> HIDE DEF c
  <2> QED BY ZenonT(60), <1>0, <1>1, <1>2, <1>3, <2>1, <2>2, FailHarmless DEF MovementState, DrivePc
<1>4. CASE DriveProbed(m)
  <2> DEFINE p == [[c EXCEPT !.pc = "verify"] EXCEPT !.probe = c.probe + 1]
  <2>1. \/ RetryOrFail(m)
        \/ /\ c.probe < Len(SampleIndices) /\ UNCHANGED store
           /\ drive' = [drive EXCEPT ![m].pc = "verify", ![m].probe = c.probe + 1]
        \/ SaveThen(m, apply_transition(c.rec, "VERIFIED"),
                    [c EXCEPT !.pc = "commit", !.rec = apply_transition(c.rec, "VERIFIED")], IdleDrive)
    BY <1>4 DEF DriveProbed
  <2>2. RetryOrFail(m) => Harmless(m)
    BY <1>0, RetryHarmless
  <2>3. CASE /\ c.probe < Len(SampleIndices) /\ UNCHANGED store
             /\ drive' = [drive EXCEPT ![m].pc = "verify", ![m].probe = c.probe + 1]
    <3>1. c.probe + 1 \in 0 .. Len(SampleIndices)
      BY SMTT(60), <2>3, FabricAssumptions, DriveFields
    <3>2. [c EXCEPT !.pc = "verify"] \in Drives
      BY Zenon, <1>0, DriveUpdates DEF DrivePc
    <3>3. p \in Drives /\ p.rec = c.rec /\ p.pc = "verify"
      BY Zenon, <3>1, <3>2 DEF Drives
    <3>4. drive' = [drive EXCEPT ![m] = p]
      BY ZenonT(60), <2>3 DEF TypeOK, CoordinatorTypeOK
    <3> HIDE DEF p
    <3> QED BY ZenonT(60), <1>0, <2>3, <3>3, <3>4 DEF Harmless
  <2> HIDE DEF c
  <2> QED BY Zenon, <1>1, <1>2, <2>1, <2>2, <2>3 DEF MovementState, DrivePc
<1>5. CASE \/ DriveResultUnanswered(m) \/ DriveCommitUnanswered(m)
            \/ \E e \in Endpoints : DriveGrantUnanswered(m, e)
  <2> DEFINE failing == Fail(m, c.rec, "OUTCOME_UNKNOWN") \/ Fail(m, c.rec, "FAILED")
  <2>1. DriveResultUnanswered(m) => failing
    BY SMTT(60) DEF DriveResultUnanswered
  <2>2. DriveCommitUnanswered(m) => failing
    BY SMTT(60) DEF DriveCommitUnanswered
  <2>3. ASSUME NEW e \in Endpoints, DriveGrantUnanswered(m, e) PROVE failing
    BY SMTT(60), <2>3 DEF DriveGrantUnanswered
  <2>4. failing
    BY Zenon, <1>5, <2>1, <2>2, <2>3
  <2> HIDE DEF c
  <2> QED BY <1>0, <2>4, FailHarmless DEF MovementState
<1>6. CASE DriveProbeUnanswered(m)
  BY SMTT(60), <1>0, <1>6, RetryHarmless DEF DriveProbeUnanswered
<1>7. CASE \E e \in Endpoints : DriveGranted(m, e)
  <2>1. PICK e \in Endpoints : DriveGranted(m, e)
    BY <1>7
  <2> DEFINE d == [c EXCEPT !.pc = AfterGrantPc[e]]
  <2>2. AfterGrantPc[e] \in DrivePc /\ AfterGrantPc[e] # "awaitCommit"
    BY DEF AfterGrantPc, DrivePc, Endpoints
  <2>3. d \in Drives /\ d.rec = c.rec /\ d.pc = AfterGrantPc[e]
    BY Zenon, <1>0, <2>2, DriveUpdates DEF Drives
  <2>4. drive' = [drive EXCEPT ![m] = d] /\ UNCHANGED store
    BY <2>1 DEF DriveGranted
  <2> HIDE DEF d
  <2> QED BY Zenon, <1>0, <2>2, <2>3, <2>4 DEF Harmless
<1> QED BY SMTT(60), <1>3, <1>4, <1>5, <1>6, <1>7

(* The submitting thread and the attempt loop up to the verdict on the bytes. *)
LEMMA DriveEvidence ==
    ASSUME TypeOK, CommitEvidence, NEW m \in Movements,
           \/ SubmitPlan(m) \/ SubmitAuthorize(m) \/ DriveStart(m) \/ DriveFail(m) \/ DriveAttempt(m)
           \/ DriveTransferring(m) \/ DriveResult(m) \/ DriveResultUnanswered(m)
           \/ DriveProbed(m) \/ DriveProbeUnanswered(m) \/ DriveCommitUnanswered(m)
           \/ \E e \in Endpoints : DriveGranted(m, e) \/ DriveGrantUnanswered(m, e)
    PROVE CommitEvidence'
<1> DEFINE c == drive[m]
<1>0. c \in Drives /\ c.rec \in Records /\ c.rec.state # "COMMITTED" /\ c.goal \in Abandoned
  BY Zenon, OwnRecord
<1>1. driveFrame
  BY DEF SubmitPlan, SubmitAuthorize, DriveStart, DriveFail, DriveAttempt, DriveTransferring, DriveResult,
         DriveResultUnanswered, DriveProbed, DriveProbeUnanswered, DriveCommitUnanswered, DriveGranted,
         DriveGrantUnanswered
<1>2. \/ UNCHANGED slot \/ Release(<<"drive", m>>)
      \/ \E x \in Slots : x.status = "pending" /\ slot' = [slot EXCEPT ![<<"drive", m>>] = x]
  <2>1. Reserve(link_of(m, "D"), "ATTEMPT_RESULT", 0) \in Slots
    BY MessageTypes, DriveFields DEF Endpoints, ResponseTypes
  <2>2. Reserve(link_of(m, "D"), "ATTEMPT_RESULT", 0).status = "pending"
    BY DEF Reserve
  <2> QED BY <2>1, <2>2 DEF SubmitPlan, SubmitAuthorize, DriveStart, DriveFail, DriveAttempt, DriveTransferring,
         DriveResult, DriveResultUnanswered, DriveProbed, DriveProbeUnanswered, DriveCommitUnanswered,
         DriveGranted, DriveGrantUnanswered
<1>3. Harmless(m) \/ (DriveResult(m) /\ UNCHANGED <<drive, store>>)
  BY Zenon, DriveBeginHarmless, DriveAnswerHarmless
<1>4. CASE Harmless(m)
  BY <1>1, <1>2, <1>4, HarmlessKeepsEvidence
<1>5. CASE DriveResult(m) /\ UNCHANGED <<drive, store>>
  <2>1. c.pc # "awaitCommit" /\ drive' = [drive EXCEPT ![m] = c] /\ store' = store
    BY SMTT(60), <1>5 DEF DriveResult, TypeOK, CoordinatorTypeOK
  <2> HIDE DEF c
  <2>2. Harmless(m)
    BY Zenon, <1>0, <2>1 DEF Harmless
  <2> QED BY <1>1, <1>2, <2>2, HarmlessKeepsEvidence
<1> QED BY <1>3, <1>4, <1>5

(* A request by a drive thread that goes out. *)
LEMMA SendKeepsEvidence ==
    ASSUME TypeOK, CommitEvidence, driveFrame, NEW m \in Movements, NEW s \in Endpoints \X Nat,
           NEW reply \in ResponseTypes, NEW index \in Nat, NEW pc \in DrivePc, NEW d \in Drives,
           d.rec = drive[m].rec, d.pc = pc, pc = "awaitCommit" => reply = "COMMIT_RESULT",
           slot' = [slot EXCEPT ![<<"drive", m>>] = Reserve(s, reply, index)],
           drive' = [drive EXCEPT ![m] = d], UNCHANGED store
    PROVE CommitEvidence'
<1> DEFINE w == Reserve(s, reply, index)
<1>1. w \in Slots /\ w.status # "answered" /\ w.type = reply
  BY MessageTypes DEF Reserve
<1>2. d.rec.state # "COMMITTED"
  BY Zenon DEF CommitEvidence
<1> HIDE DEF w
<1>3. slot' = [slot EXCEPT ![<<"drive", m>>] = w]
  BY DEF w
<1> QED BY ZenonT(60), <1>1, <1>2, <1>3, DriveKeepsEvidence

(* GRANT_TRANSFER, EXECUTE_MOVEMENT, VERIFY_REQUEST and COMMIT_REQUEST. *)
LEMMA RequestEvidence ==
    ASSUME TypeOK, CommitEvidence, NEW m \in Movements,
           \/ \E e \in Endpoints : DriveGrant(m, e)
           \/ DriveExecute(m) \/ DriveProbe(m) \/ DriveCommit(m)
    PROVE CommitEvidence'
<1>0. /\ drive[m] \in Drives /\ drive[m].rec \in Records /\ drive[m].rec.state # "COMMITTED"
      /\ drive[m].rec.attempt_count \in Nat
  BY ZenonT(60), DriveFields DEF CommitEvidence
<1>1. driveFrame
  BY ZenonT(60) DEF DriveGrant, DriveExecute, DriveProbe, DriveCommit
<1>2. CASE (Fail(m, drive[m].rec, "FAILED") \/ Fail(m, drive[m].rec, "OUTCOME_UNKNOWN") \/ RetryOrFail(m))
           /\ UNCHANGED slot
  BY SMTT(60), <1>0, <1>1, <1>2, FailHarmless, RetryHarmless, HarmlessKeepsEvidence DEF MovementState
<1>3. ASSUME NEW s \in Endpoints \X Nat, NEW type, NEW n, NEW reply \in ResponseTypes, NEW index \in Nat,
             NEW d \in Drives, d.rec = drive[m].rec, d.pc = "awaitCommit" => reply = "COMMIT_RESULT",
             NEW g \in {"FAILED", "OUTCOME_UNKNOWN"},
             \/ DriveRequest(m, s, type, n, reply, index, d, Fail(m, drive[m].rec, g))
             \/ DriveRequest(m, s, type, n, reply, index, d, RetryOrFail(m))
      PROVE CommitEvidence'
  <2>1. CASE open[s]
    <3>1. /\ slot' = [slot EXCEPT ![<<"drive", m>>] = Reserve(s, reply, index)]
          /\ drive' = [drive EXCEPT ![m] = d] /\ UNCHANGED store
      BY <1>3, <2>1 DEF DriveRequest
    <3>2. d.pc \in DrivePc
      BY DEF Drives
    <3> QED BY ZenonT(60), <1>1, <1>3, <3>1, <3>2, SendKeepsEvidence
  <2>2. CASE ~open[s]
    <3>1. (Fail(m, drive[m].rec, "FAILED") \/ Fail(m, drive[m].rec, "OUTCOME_UNKNOWN") \/ RetryOrFail(m))
           /\ UNCHANGED slot
      BY Zenon, <1>3, <2>2 DEF DriveRequest
    <3> QED BY <1>2, <3>1
  <2> QED BY <2>1, <2>2
<1>4. ASSUME NEW pc \in DrivePc, NEW i \in Nat
      PROVE LET d == [drive[m] EXCEPT !.pc = pc]
                v == [drive[m] EXCEPT !.pc = pc, !.verify_link = i]
            IN /\ d \in Drives /\ d.rec = drive[m].rec /\ d.pc = pc
               /\ v \in Drives /\ v.rec = drive[m].rec /\ v.pc = pc
  BY ZenonT(60), <1>0, DriveUpdates DEF Drives
<1>5. \A e \in Endpoints : link_of(m, e) \in Endpoints \X Nat
  BY SMTT(60), DriveFields
<1>6. ASSUME NEW e \in Endpoints, DriveGrant(m, e) PROVE CommitEvidence'
  <2> DEFINE d == [drive[m] EXCEPT !.pc = AwaitGrantPc[e]]
             a == drive[m].rec.attempt_count
  <2>1. AwaitGrantPc[e] \in DrivePc /\ AwaitGrantPc[e] # "awaitCommit"
    BY SMTT(60) DEF AwaitGrantPc, DrivePc, Endpoints
  <2>2. d \in Drives /\ d.rec = drive[m].rec /\ d.pc # "awaitCommit"
    BY Zenon, <1>4, <2>1
  <2>3. DriveRequest(m, link_of(m, e), "GRANT_TRANSFER", a, "GRANT_ACK", a, d, Fail(m, drive[m].rec, "FAILED"))
    BY <1>6 DEF DriveGrant
  <2>4. "GRANT_ACK" \in ResponseTypes /\ a \in Nat /\ link_of(m, e) \in Endpoints \X Nat
    BY SMTT(60), <1>0, <1>5 DEF ResponseTypes
  <2> HIDE DEF d, a
  <2> QED BY Zenon, <1>3, <2>2, <2>3, <2>4
<1>7. CASE DriveExecute(m)
  <2> DEFINE d == [drive[m] EXCEPT !.pc = "dispatched"]
  <2>1. d \in Drives /\ d.rec = drive[m].rec /\ d.pc # "awaitCommit"
    BY ZenonT(60), <1>4 DEF DrivePc
  <2>2. DriveRequest(m, link_of(m, "D"), "EXECUTE_MOVEMENT", drive[m].rec.attempt_count, "ATTEMPT_RESULT", 0,
                     d, Fail(m, drive[m].rec, "FAILED"))
    BY <1>7 DEF DriveExecute
  <2>3. "ATTEMPT_RESULT" \in ResponseTypes /\ link_of(m, "D") \in Endpoints \X Nat
    BY <1>5 DEF ResponseTypes, Endpoints
  <2> HIDE DEF d
  <2> QED BY SMTT(60), <1>3, <2>1, <2>2, <2>3
<1>8. CASE DriveProbe(m)
  <2> DEFINE k == drive[m].probe
             type == IF k = 0 THEN "VERIFY_FULL" ELSE "VERIFY_CHUNK"
             d(i) == [drive[m] EXCEPT !.pc = "awaitProbe", !.verify_link = i]
  <2>1. ProbeIndex(k) \in Nat /\ "VERIFY_RESPONSE" \in ResponseTypes
    BY FabricAssumptions, DriveFields DEF ProbeIndex, ResponseTypes
  <2>2. find_link("D") \subseteq Nat /\ drive[m].verify_link \in Nat
    BY SMTT(60), <1>0 DEF find_link, Drives
  <2>3. \/ RetryOrFail(m) /\ UNCHANGED slot
        \/ \E i \in Nat :
             DriveRequest(m, <<"D", i>>, type, ProbeIndex(k), "VERIFY_RESPONSE", ProbeIndex(k), d(i), RetryOrFail(m))
    BY ZenonT(60), <1>8, <2>2 DEF DriveProbe
  <2>4. ASSUME NEW i \in Nat
        PROVE /\ d(i) \in Drives /\ d(i).rec = drive[m].rec /\ d(i).pc # "awaitCommit"
              /\ <<"D", i>> \in Endpoints \X Nat
    BY ZenonT(60), <1>4 DEF DrivePc, Endpoints
  <2> HIDE DEF d, k, type
  <2>5. ASSUME NEW i \in Nat,
               DriveRequest(m, <<"D", i>>, type, ProbeIndex(k), "VERIFY_RESPONSE", ProbeIndex(k), d(i), RetryOrFail(m))
        PROVE CommitEvidence'
    <3> DEFINE di == d(i)
    <3>1. DriveRequest(m, <<"D", i>>, type, ProbeIndex(k), "VERIFY_RESPONSE", ProbeIndex(k), di, RetryOrFail(m))
      BY <2>5
    <3>2. di \in Drives /\ di.rec = drive[m].rec /\ di.pc # "awaitCommit" /\ <<"D", i>> \in Endpoints \X Nat
      BY <2>4
    <3> HIDE DEF di
    <3> QED BY <1>3, <2>1, <3>1, <3>2
  <2> QED BY Zenon, <1>2, <2>3, <2>5
<1>9. CASE DriveCommit(m)
  <2> DEFINE d == [drive[m] EXCEPT !.pc = "awaitCommit"]
  <2>1. d \in Drives /\ d.rec = drive[m].rec
    BY ZenonT(60), <1>4 DEF DrivePc
  <2>2. DriveRequest(m, link_of(m, "D"), "COMMIT_REQUEST", drive[m].rec.generation, "COMMIT_RESULT", 0,
                     d, Fail(m, drive[m].rec, "OUTCOME_UNKNOWN"))
    BY <1>9 DEF DriveCommit
  <2>3. "COMMIT_RESULT" \in ResponseTypes /\ link_of(m, "D") \in Endpoints \X Nat
    BY <1>5 DEF ResponseTypes, Endpoints
  <2> HIDE DEF d
  <2> QED BY Zenon, <1>3, <2>1, <2>2, <2>3
<1> QED BY <1>6, <1>7, <1>8, <1>9

-----------------------------------------------------------------------------

(* The drive thread records COMMITTED after an OK from the commit barrier. *)
LEMMA CommitResultEvidence ==
    ASSUME TypeOK, CommitEvidence, NEW m \in Movements, DriveCommitResult(m)
    PROVE CommitEvidence'
<1> DEFINE t == <<"drive", m>>
           r == drive[m].rec
           x == apply_transition(r, "COMMITTED")
<1>1. driveFrame /\ Release(t) /\ drive[m].pc = "awaitCommit" /\ slot[t].status = "answered"
  BY DEF DriveCommitResult, Answered
<1>2. r \in Records /\ t \in Threads /\ x \in Records
  BY SMTT(60), DriveFields, DriveThread, RecordOps DEF MovementState
<1>3. \/ Fail(m, r, "OUTCOME_UNKNOWN") \/ Fail(m, r, "FAILED")
      \/ slot[t].code = "OK" /\ SaveThen(m, x, IdleDrive, IdleDrive)
  BY DEF DriveCommitResult
<1> HIDE DEF r, x
<1>4. CASE Fail(m, r, "OUTCOME_UNKNOWN") \/ Fail(m, r, "FAILED")
  BY SMTT(60), <1>1, <1>2, <1>4, FailHarmless, HarmlessKeepsEvidence DEF MovementState
<1>5. CASE slot[t].code = "OK" /\ SaveThen(m, x, IdleDrive, IdleDrive)
  <2>1. slot[t].type = "COMMIT_RESULT"
    BY ZenonT(60), <1>1 DEF CommitEvidence
  <2>2. marker[object[m]] # NoMovement
    BY <1>1, <1>2, <1>5, <2>1 DEF CommitEvidence, ClaimsCommit
  <2>3. /\ store' = store \/ store' = [store EXCEPT ![m] = x]
        /\ drive' = [drive EXCEPT ![m] = IdleDrive]
    BY <1>5 DEF SaveThen, Put
  <2>4. slot' = [slot EXCEPT ![<<"drive", m>>] = FreeSlot]
    BY SMTT(60), <1>1 DEF Release
  <2> QED BY Zenon, <1>1, <1>2, <2>2, <2>3, <2>4, IdleHarmless, InitialValues, DriveKeepsEvidence
<1> QED BY <1>3, <1>4, <1>5

(* A step of cancel() or reconcile(). *)
LEMMA AdminKeepsEvidence ==
    ASSUME TypeOK, CommitEvidence, adminFrame, NEW t \in AdminThreads,
           store' = store \/ \E x \in Records : /\ store' = [store EXCEPT ![t[2]] = x]
                                                /\ x.state = "COMMITTED" => marker[object[t[2]]] # NoMovement,
           NEW a \in [pc : AdminPc, rec : Records], admin' = [admin EXCEPT ![t] = a],
           a.rec.state # "COMMITTED",
           NEW w \in Slots, slot' = [slot EXCEPT ![t] = w],
           w = slot[t] \/ w.status # "answered",
           a.pc = "awaitReport" => w.type = "AUTHORITY_REPORT"
    PROVE CommitEvidence'
<1>0. UNCHANGED <<drive, fr, marker>>
  BY Zenon DEF adminFrame, endpointVars
<1>1. /\ store \in [Movements -> Records] /\ slot \in [Threads -> Slots] /\ t \in Threads
      /\ admin \in [AdminThreads -> [pc : AdminPc, rec : Records]]
  BY ZenonT(60) DEF TypeOK, CoordinatorTypeOK, AdminThreads, Threads, Roles
<1>2. \A n \in Movements : store'[n].state = "COMMITTED" => marker[object[n]] # NoMovement
  BY Zenon, <1>1 DEF CommitEvidence
<1>3. \A u \in AdminThreads : admin'[u].rec.state # "COMMITTED"
  BY Zenon, <1>1 DEF CommitEvidence
<1>4. \A n \in Movements : admin'[<<"reconcile", n>>].pc = "awaitReport"
                             => slot'[<<"reconcile", n>>].type = "AUTHORITY_REPORT"
  <2> TAKE n \in Movements
  <2>1. CASE t = <<"reconcile", n>>
    BY SMTT(60), <1>1, <2>1
  <2>2. CASE t # <<"reconcile", n>>
    BY ZenonT(60), <1>1, <2>2, AdminThread DEF CommitEvidence
  <2> QED BY <2>1, <2>2
<1>5. \A n \in Movements : slot'[<<"drive", n>>] = slot[<<"drive", n>>]
  <2>1. \A n \in Movements : t # <<"drive", n>> /\ <<"drive", n>> \in Threads
    <3>1. t[1] # "drive"
      BY DEF AdminThreads
    <3>2. \A n \in Movements : <<"drive", n>>[1] = "drive"
      OBVIOUS
    <3> QED BY Zenon, <3>1, <3>2, DriveThread
  <2> QED BY Zenon, <1>1, <2>1
<1>6. \A u \in Threads : slot'[u].status = "answered" => slot'[u] = slot[u]
  BY <1>1
<1>7. \A u \in Threads : slot'[u].status = "answered" /\ ClaimsCommit(slot'[u]) => marker[object[u[2]]] # NoMovement
  BY Zenon, <1>6 DEF CommitEvidence
<1>8. \A s \in Sessions : \A i \in 1 .. Len(fr'[s]) :
        ClaimsCommit(fr'[s][i]) => marker[object[fr'[s][i].movement]] # NoMovement
  BY Zenon, <1>0 DEF CommitEvidence
<1>9. \A n \in Movements : /\ drive'[n].rec.state # "COMMITTED"
                            /\ drive'[n].pc = "awaitCommit" => slot'[<<"drive", n>>].type = "COMMIT_RESULT"
  BY Zenon, <1>0, <1>5 DEF CommitEvidence
<1> QED BY Zenon, <1>0, <1>2, <1>3, <1>4, <1>7, <1>8, <1>9 DEF CommitEvidence, ClaimsCommit

(* cancel() never writes COMMITTED; reconcile() does after AUTHORITATIVE. *)
LEMMA AdminEvidence ==
    ASSUME TypeOK, CommitEvidence, NEW m \in Movements, AdminStep(m)
    PROVE CommitEvidence'
<1> DEFINE c == <<"cancel", m>>
           q == <<"reconcile", m>>
<1>1. /\ c \in Threads /\ c \in AdminThreads /\ q \in Threads /\ q \in AdminThreads
      /\ c[2] = m /\ q[2] = m
  BY AdminThread
<1>2. /\ store \in [Movements -> Records] /\ slot \in [Threads -> Slots]
      /\ admin \in [AdminThreads -> [pc : AdminPc, rec : Records]]
  BY SMTT(60) DEF TypeOK, CoordinatorTypeOK
<1>3. /\ store[m] \in Records /\ admin[c].rec \in Records /\ admin[q].rec \in Records
      /\ admin[c].rec.state # "COMMITTED" /\ admin[q].rec.state # "COMMITTED"
  BY <1>1, <1>2 DEF CommitEvidence
<1>4. find_link("S") \subseteq Nat /\ find_link("D") \subseteq Nat
  BY DEF find_link
<1>5. /\ IdleAdmin \in [pc : AdminPc, rec : Records] /\ IdleAdmin.rec.state # "COMMITTED"
      /\ IdleAdmin.pc # "awaitReport" /\ FreeSlot \in Slots /\ FreeSlot.status # "answered"
  BY InitialValues, IdleHarmless
<1> HIDE DEF c, q
<1>6. CASE CancelStart(m) \/ ReconcileStart(m)
  <2>1. PICK t \in {c, q}, r \in Records, pc \in {"notifyS", "query"} :
           /\ admin' = [admin EXCEPT ![t] = [pc |-> pc, rec |-> r]]
           /\ r.state # "COMMITTED" /\ UNCHANGED <<store, slot>> /\ adminFrame
    <3>1. CASE CancelStart(m)
      <4> DEFINE r == [store[m] EXCEPT !.cancel_requested = TRUE]
      <4>1. r \in Records /\ r.state = store[m].state
        BY Zenon, <1>3 DEF Records
      <4>2. /\ admin' = [admin EXCEPT ![c] = [pc |-> "notifyS", rec |-> r]]
            /\ UNCHANGED <<store, slot>> /\ adminFrame
            /\ store[m].state # "COMMITTED"
        BY <3>1 DEF CancelStart, is_terminal, Terminal, c
      <4> HIDE DEF r
      <4> QED BY Zenon, <4>1, <4>2
    <3>2. CASE ReconcileStart(m)
      BY ZenonT(60), <1>3, <3>2 DEF ReconcileStart, q
    <3> QED BY <1>6, <3>1, <3>2
  <2> DEFINE a == [pc |-> pc, rec |-> r]
  <2>2. a \in [pc : AdminPc, rec : Records] /\ a.rec.state # "COMMITTED" /\ a.pc # "awaitReport"
    BY <2>1 DEF AdminPc
  <2>3. slot' = [slot EXCEPT ![t] = slot[t]] /\ slot[t] \in Slots /\ t \in AdminThreads
    BY <1>1, <1>2, <2>1
  <2>4. admin' = [admin EXCEPT ![t] = a] /\ store' = store /\ adminFrame
    BY <2>1
  <2> HIDE DEF a
  <2> QED BY Zenon, <2>2, <2>3, <2>4, AdminKeepsEvidence
<1>7. ASSUME NEW t \in {c, q}, NEW s \in Endpoints \X Nat, NEW type, NEW reply \in ResponseTypes,
             NEW next \in AdminPc, next = "awaitReport" => reply = "AUTHORITY_REPORT",
             AdminRequest(t, s, type, reply, next), UNCHANGED store, adminFrame
      PROVE CommitEvidence'
  <2> DEFINE a == [admin[t] EXCEPT !.pc = next]
             w == Reserve(s, reply, 0)
  <2>1. t \in AdminThreads /\ admin[t].rec.state # "COMMITTED"
    BY <1>1, <1>3, <1>7
  <2>2. a \in [pc : AdminPc, rec : Records] /\ a.rec.state # "COMMITTED" /\ a.pc = next
    BY <1>2, <2>1
  <2>3. w \in Slots /\ w.status # "answered" /\ w.type = reply
    BY MessageTypes DEF Reserve
  <2>4. admin' = [admin EXCEPT ![t] = a] /\ slot' = [slot EXCEPT ![t] = w]
    BY <1>7 DEF AdminRequest
  <2> HIDE DEF a, w
  <2> QED BY Zenon, <1>7, <2>1, <2>2, <2>3, <2>4, AdminKeepsEvidence
<1>8. ASSUME NEW e \in Endpoints, CancelNotify(m, e) PROVE CommitEvidence'
  <2>1. PICK i \in find_link(e) : AdminRequest(c, <<e, i>>, "CANCEL", "CANCEL_ACK", AwaitAckPc[e])
    BY <1>8 DEF CancelNotify, c
  <2>2. <<e, i>> \in Endpoints \X Nat
    BY <1>4 DEF Endpoints
  <2>3. AwaitAckPc[e] \in AdminPc /\ AwaitAckPc[e] # "awaitReport" /\ "CANCEL_ACK" \in ResponseTypes
    BY DEF AwaitAckPc, AdminPc, Endpoints, ResponseTypes
  <2>4. UNCHANGED store /\ adminFrame
    BY SMTT(60), <1>8 DEF CancelNotify
  <2> QED BY SMTT(60), <1>7, <2>1, <2>2, <2>3, <2>4
<1>9. CASE CancelNextEndpoint(m)
  <2> DEFINE a == [admin[c] EXCEPT !.pc = "notifyD"]
  <2>1. /\ admin' = [admin EXCEPT ![c] = a] /\ slot' = [slot EXCEPT ![c] = FreeSlot]
        /\ store' = store /\ adminFrame
    BY <1>9 DEF CancelNextEndpoint, Release, c
  <2>2. a \in [pc : AdminPc, rec : Records] /\ a.rec.state # "COMMITTED" /\ a.pc # "awaitReport"
    BY <1>1, <1>2, <1>3 DEF AdminPc
  <2> HIDE DEF a
  <2> QED BY Zenon, <1>1, <1>5, <2>1, <2>2, AdminKeepsEvidence
<1>10. ASSUME NEW t \in {c, q}, NEW x \in Records,
              x.state = "COMMITTED" => marker[object[m]] # NoMovement,
              store' = store \/ store' = [store EXCEPT ![m] = x],
              admin' = [admin EXCEPT ![t] = IdleAdmin], Release(t), adminFrame
       PROVE CommitEvidence'
  <2>1. t \in AdminThreads /\ t[2] = m /\ slot' = [slot EXCEPT ![t] = FreeSlot]
    BY <1>1, <1>10 DEF Release
  <2> QED BY ZenonT(60), <1>5, <1>10, <2>1, AdminKeepsEvidence
<1>11. CASE CancelRecord(m)
  <2> DEFINE x == apply_transition(admin[c].rec, "CANCELLED")
  <2>1. x \in Records /\ x.state = "CANCELLED"
    BY <1>3, RecordOps DEF MovementState
  <2>2. /\ store' = store \/ store' = [store EXCEPT ![m] = x]
        /\ admin' = [admin EXCEPT ![c] = IdleAdmin] /\ Release(c) /\ adminFrame
    BY <1>11 DEF CancelRecord, Put, c
  <2> HIDE DEF x
  <2> QED BY <1>10, <2>1, <2>2
<1>12. CASE ReconcileQuery(m)
  <2>1. UNCHANGED store /\ adminFrame
    BY <1>12 DEF ReconcileQuery
  <2>2. CASE admin' = [admin EXCEPT ![q] = IdleAdmin] /\ UNCHANGED slot
    <3>1. slot' = [slot EXCEPT ![q] = slot[q]] /\ slot[q] \in Slots
      BY <1>1, <1>2, <2>2
    <3> QED BY ZenonT(60), <1>1, <1>5, <2>1, <2>2, <3>1, AdminKeepsEvidence
  <2>3. ASSUME NEW i \in find_link("D"),
               AdminRequest(q, <<"D", i>>, "AUTHORITY_QUERY", "AUTHORITY_REPORT", "awaitReport")
        PROVE CommitEvidence'
    <3>1. <<"D", i>> \in Endpoints \X Nat /\ "AUTHORITY_REPORT" \in ResponseTypes /\ "awaitReport" \in AdminPc
      BY SMTT(60), <1>4 DEF Endpoints, ResponseTypes, AdminPc
    <3> QED BY <1>7, <2>1, <2>3, <3>1
  <2> QED BY Zenon, <1>12, <2>2, <2>3 DEF ReconcileQuery, q
<1>13. CASE ReconcileReport(m)
  <2> DEFINE r == admin[q].rec
             x(g) == apply_transition(r, g)
  <2>1. \A g \in MovementState : x(g) \in Records /\ x(g).state = g
    BY ZenonT(60), <1>3, RecordOps
  <2>2. admin[q].pc = "awaitReport" /\ admin' = [admin EXCEPT ![q] = IdleAdmin] /\ Release(q) /\ adminFrame
    BY <1>13 DEF ReconcileReport, q
  <2>3. \/ /\ slot[q].status = "answered" /\ slot[q].code = "AUTHORITATIVE"
           /\ store' = store \/ store' = [store EXCEPT ![m] = x("COMMITTED")]
        \/ store' = store \/ store' = [store EXCEPT ![m] = x("CANCELLED")]
           \/ store' = [store EXCEPT ![m] = x("FAILED")]
    BY <1>13 DEF ReconcileReport, Answered, Put, q
  <2>4. slot[q].type = "AUTHORITY_REPORT"
    BY ZenonT(60), <2>2 DEF CommitEvidence, q
  <2>5. slot[q].status = "answered" /\ slot[q].code = "AUTHORITATIVE" => marker[object[m]] # NoMovement
    BY Zenon, <1>1, <2>4 DEF CommitEvidence, ClaimsCommit
  <2> HIDE DEF x
  <2>6. PICK y \in Records : /\ store' = store \/ store' = [store EXCEPT ![m] = y]
                             /\ y.state = "COMMITTED" => marker[object[m]] # NoMovement
    BY <2>1, <2>3, <2>5 DEF MovementState
  <2> QED BY SMTT(60), <1>10, <2>2, <2>6
<1> QED BY <1>6, <1>8, <1>9, <1>11, <1>12, <1>13 DEF AdminStep

(* The head and the tail of what a session still has to deliver. *)
LEMMA HeadAndTail ==
    ASSUME NEW q \in Seq(Responses), q # <<>>
    PROVE /\ Head(q) = q[1] /\ q[1] \in Responses /\ 1 \in 1 .. Len(q)
          /\ \A i \in 1 .. Len(Tail(q)) : Tail(q)[i] = q[i + 1] /\ i + 1 \in 1 .. Len(q)
OBVIOUS

(* deliver(), the end of a session, and the coordinator's crash and restart. *)
LEMMA SessionEvidence ==
    ASSUME TypeOK, CommitEvidence,
           \/ \E e \in Endpoints : Register(e)
           \/ \E s \in Sessions : Deliver(s) \/ SessionEnd(s)
           \/ CoordinatorCrash \/ CoordinatorStart
    PROVE CommitEvidence'
<1>0. /\ slot \in [Threads -> Slots] /\ fr \in [Sessions -> Seq(Responses)]
      /\ store \in [Movements -> Records]
  BY SMTT(60) DEF TypeOK, CoordinatorTypeOK, ControlTypeOK
<1>1. ASSUME NEW e \in Endpoints, Register(e) PROVE CommitEvidence'
  BY ZenonT(60), <1>1 DEF Register, CommitEvidence, ClaimsCommit
<1>2. ASSUME NEW s \in Sessions, Deliver(s) PROVE CommitEvidence'
  <2> DEFINE r == Head(fr[s])
  <2>1. /\ fr[s] # <<>> /\ fr' = [fr EXCEPT ![s] = Tail(fr[s])]
        /\ UNCHANGED <<store, drive, admin, marker>>
        /\ slot' = [t \in Threads |->
                      IF t \in Waiters(s, r)
                      THEN [slot[t] EXCEPT !.status = "answered", !.code = r.code, !.arg = r.n]
                      ELSE slot[t]]
    BY ZenonT(60), <1>2 DEF Deliver, endpointVars
  <2>2. r = fr[s][1] /\ r \in Responses /\ 1 \in 1 .. Len(fr[s])
    BY ZenonT(60), <1>0, <2>1, HeadAndTail
  <2>3. ClaimsCommit(r) => marker[object[r.movement]] # NoMovement
    BY ZenonT(60), <2>2 DEF CommitEvidence
  <2>4. \A x \in Sessions : \A i \in 1 .. Len(fr'[x]) :
          ClaimsCommit(fr'[x][i]) => marker[object[fr'[x][i].movement]] # NoMovement
    <3> TAKE x \in Sessions
    <3>1. CASE x = s
      <4>1. \A i \in 1 .. Len(Tail(fr[s])) : Tail(fr[s])[i] = fr[s][i + 1] /\ i + 1 \in 1 .. Len(fr[s])
        BY ZenonT(60), <1>0, <2>1, HeadAndTail
      <4>2. fr'[x] = Tail(fr[s])
        BY ZenonT(60), <1>0, <2>1, <3>1
      <4> HIDE DEF r
      <4>3. \A i \in 1 .. Len(fr[s]) : ClaimsCommit(fr[s][i]) => marker[object[fr[s][i].movement]] # NoMovement
        BY Zenon DEF CommitEvidence
      <4> QED BY Zenon, <4>1, <4>2, <4>3
    <3>2. CASE x # s
      BY ZenonT(60), <1>0, <2>1, <3>2 DEF CommitEvidence
    <3> QED BY ZenonT(60), <3>1, <3>2
  <2> HIDE DEF r
  <2>5. ASSUME NEW t \in Threads, t \in Waiters(s, r)
        PROVE slot'[t].type = slot[t].type /\ slot[t].type = r.type /\ slot'[t].code = r.code /\ t[2] = r.movement
    <3>1. slot'[t] = [slot[t] EXCEPT !.status = "answered", !.code = r.code, !.arg = r.n]
      BY Zenon, <2>1, <2>5
    <3>2. slot[t] \in Slots
      BY <1>0
    <3>3. slot'[t].type = slot[t].type /\ slot'[t].code = r.code
      BY SMTT(60), <3>1, <3>2 DEF Slots
    <3> QED BY Zenon, <2>5, <3>3 DEF Waiters
  <2>6. ASSUME NEW t \in Threads, t \notin Waiters(s, r)
        PROVE slot'[t] = slot[t]
    BY ZenonT(60), <2>1, <2>6
  <2>7. \A t \in Threads : slot'[t].type = slot[t].type
    BY SMTT(60), <2>5, <2>6
  <2>8. \A t \in Threads : slot'[t].status = "answered" /\ ClaimsCommit(slot'[t]) => marker[object[t[2]]] # NoMovement
    <3> TAKE t \in Threads
    <3>1. CASE t \in Waiters(s, r)
      BY SMTT(60), <2>3, <2>5, <3>1 DEF ClaimsCommit
    <3>2. CASE t \notin Waiters(s, r)
      BY ZenonT(60), <2>6, <3>2 DEF CommitEvidence
    <3> QED BY <3>1, <3>2
  <2>9. /\ \A n \in Movements : slot'[<<"drive", n>>].type = slot[<<"drive", n>>].type
        /\ \A n \in Movements : slot'[<<"reconcile", n>>].type = slot[<<"reconcile", n>>].type
    BY ZenonT(60), <2>7, DriveThread, AdminThread
  <2> QED BY ZenonT(60), <2>1, <2>4, <2>8, <2>9 DEF CommitEvidence, ClaimsCommit
<1>3. ASSUME NEW s \in Sessions, SessionEnd(s) PROVE CommitEvidence'
  <2>1. UNCHANGED <<store, drive, admin, marker>> /\ fr' = [fr EXCEPT ![s] = <<>>]
    BY <1>3 DEF SessionEnd, endpointVars
  <2>2. \A t \in Threads : /\ slot'[t].type = slot[t].type
                           /\ slot'[t].status = "answered" => slot'[t] = slot[t]
    <3> TAKE t \in Threads
    <3>1. slot[t] \in Slots
      BY <1>0
    <3>2. slot'[t] = slot[t] \/ slot'[t] = [slot[t] EXCEPT !.status = "closed"]
      BY <1>3 DEF SessionEnd
    <3> QED BY <3>1, <3>2 DEF Slots
  <2>3. /\ \A n \in Movements : slot'[<<"drive", n>>].type = slot[<<"drive", n>>].type
        /\ \A n \in Movements : slot'[<<"reconcile", n>>].type = slot[<<"reconcile", n>>].type
    BY Zenon, <2>2, DriveThread, AdminThread
  <2>4. \A x \in Sessions : Len(fr'[x]) = 0 \/ fr'[x] = fr[x]
    BY <1>0, <2>1
  <2>5. \A x \in Sessions : \A i \in 1 .. Len(fr'[x]) :
          ClaimsCommit(fr'[x][i]) => marker[object[fr'[x][i].movement]] # NoMovement
    <3> SUFFICES ASSUME NEW x \in Sessions, NEW i \in 1 .. Len(fr'[x])
                 PROVE  ClaimsCommit(fr'[x][i]) => marker[object[fr'[x][i].movement]] # NoMovement
      OBVIOUS
    <3>1. fr'[x] = fr[x]
      BY <2>4
    <3> QED BY Zenon, <3>1 DEF CommitEvidence
  <2> QED BY ZenonT(60), <2>1, <2>2, <2>3, <2>5 DEF CommitEvidence, ClaimsCommit
<1>4. CASE CoordinatorCrash
  <2>1. /\ drive' = [m \in Movements |-> IdleDrive] /\ admin' = [t \in AdminThreads |-> IdleAdmin]
        /\ slot' = [t \in Threads |-> FreeSlot] /\ fr' = [s \in Sessions |-> <<>>]
        /\ UNCHANGED <<store, marker>>
    BY <1>4 DEF CoordinatorCrash, endpointVars
  <2>2. \A m \in Movements : drive'[m] = IdleDrive /\ admin'[<<"reconcile", m>>] = IdleAdmin
    BY Zenon, <2>1, AdminThread
  <2>3. \A x \in Sessions : Len(fr'[x]) = 0
    BY SMTT(60), <2>1
  <2>4. \A x \in Sessions : \A i \in 1 .. Len(fr'[x]) :
          ClaimsCommit(fr'[x][i]) => marker[object[fr'[x][i].movement]] # NoMovement
    BY SMTT(60), <2>3
  <2> QED BY Zenon, <2>1, <2>2, <2>4, IdleHarmless DEF CommitEvidence, ClaimsCommit
<1>5. CASE CoordinatorStart
  <2>1. \A m \in Movements : store'[m].state = "COMMITTED" => store[m].state = "COMMITTED"
    <3> TAKE m \in Movements
    <3>1. store'[m] = NoRecord \/ store'[m] = store[m]
          \/ \E g \in {"FAILED", "OUTCOME_UNKNOWN"} : store'[m] = apply_transition(store[m], g)
      BY ZenonT(60), <1>5 DEF CoordinatorStart, Recovered
    <3>2. \A g \in {"FAILED", "OUTCOME_UNKNOWN"} : apply_transition(store[m], g).state = g
      BY <1>0, RecordOps DEF MovementState
    <3>3. NoRecord.state # "COMMITTED"
      BY SMTT(60) DEF NoRecord
    <3> QED BY ZenonT(60), <3>1, <3>2, <3>3
  <2> QED BY ZenonT(60), <1>5, <2>1 DEF CoordinatorStart, endpointVars, CommitEvidence, ClaimsCommit
<1> QED BY SMTT(60), <1>1, <1>2, <1>3, <1>4, <1>5

(* An endpoint step sends at most one answer, and only backed commit claims. *)
LEMMA EndpointKeepsEvidence ==
    ASSUME TypeOK, CommitEvidence, endpointFrame,
           \A v \in Versions : marker[v] # NoMovement => marker'[v] # NoMovement,
           \/ UNCHANGED fr
           \/ \E s, r : /\ fr' = Replied(s, r) /\ r \in Responses
                        /\ ClaimsCommit(r) => marker'[object[r.movement]] # NoMovement
    PROVE CommitEvidence'
<1>0. /\ object \in [Movements -> Versions] /\ fr \in [Sessions -> Seq(Responses)]
      /\ UNCHANGED <<store, drive, admin, slot>>
  BY ZenonT(60), FabricAssumptions DEF TypeOK, ControlTypeOK, endpointFrame
<1>1. \A m \in Movements : marker[object[m]] # NoMovement => marker'[object[m]] # NoMovement
  BY ZenonT(60), <1>0
<1>2. \A x \in Sessions : \A i \in 1 .. Len(fr[x]) :
        fr[x][i].movement \in Movements
        /\ (ClaimsCommit(fr[x][i]) => marker[object[fr[x][i].movement]] # NoMovement)
  <2> TAKE x \in Sessions
  <2> TAKE i \in 1 .. Len(fr[x])
  <2>1. fr[x] \in Seq(Responses)
    BY Zenon, <1>0
  <2>2. fr[x][i] \in Responses
    BY SMTT(60), <2>1
  <2>3. fr[x][i].movement \in Movements
    BY <2>2 DEF Responses
  <2>4. ClaimsCommit(fr[x][i]) => marker[object[fr[x][i].movement]] # NoMovement
    BY Zenon DEF CommitEvidence
  <2> QED BY Zenon, <2>3, <2>4
<1>3. \A x \in Sessions : \A i \in 1 .. Len(fr'[x]) :
        ClaimsCommit(fr'[x][i]) => marker'[object[fr'[x][i].movement]] # NoMovement
  <2>1. CASE UNCHANGED fr
    BY Zenon, <1>1, <1>2, <2>1
  <2>2. ASSUME NEW s, NEW r, fr' = Replied(s, r), r \in Responses,
               ClaimsCommit(r) => marker'[object[r.movement]] # NoMovement,
               NEW x \in Sessions, NEW i \in 1 .. Len(fr'[x]), ClaimsCommit(fr'[x][i])
        PROVE marker'[object[fr'[x][i].movement]] # NoMovement
    <3>1. fr'[x] = fr[x] \/ fr'[x] = Append(fr[x], r)
      BY Zenon, <1>0, <2>2 DEF Replied
    <3>2. CASE fr'[x] = fr[x]
      <4>1. /\ i \in 1 .. Len(fr[x]) /\ fr'[x][i] = fr[x][i] /\ ClaimsCommit(fr[x][i])
        BY Zenon, <2>2, <3>2
      <4> QED BY Zenon, <1>1, <1>2, <4>1
    <3>3. CASE fr'[x] = Append(fr[x], r)
      <4>1. fr[x] \in Seq(Responses)
        BY Zenon, <1>0
      <4>2. i \in 1 .. Len(fr[x]) + 1
        BY SMTT(60), <2>2, <3>3, <4>1
      <4>3. CASE i \in 1 .. Len(fr[x])
        <5>1. fr'[x][i] = fr[x][i]
          BY SMTT(60), <3>3, <4>1, <4>3
        <5> QED BY Zenon, <1>1, <1>2, <2>2, <4>3, <5>1
      <4>4. CASE i = Len(fr[x]) + 1
        <5>1. fr'[x][i] = r
          BY SMTT(60), <3>3, <4>1, <4>4
        <5> QED BY SMTT(60), <2>2, <5>1
      <4> QED BY SMTT(60), <4>1, <4>2, <4>3, <4>4
    <3> QED BY Zenon, <3>1, <3>2, <3>3
  <2> QED BY Zenon, <2>1, <2>2
<1>4. \A t \in Threads : t[2] \in Movements
  BY DEF Threads
<1> QED BY ZenonT(60), <1>0, <1>1, <1>3, <1>4 DEF CommitEvidence, ClaimsCommit

(* An endpoint's answer that claims a commit only if the marker is there. *)
LEMMA ReplyEvidence ==
    ASSUME TypeOK, CommitEvidence, endpointFrame,
           \A v \in Versions : marker[v] # NoMovement => marker'[v] # NoMovement,
           NEW s, NEW m \in Movements, NEW type \in ResponseTypes, NEW n \in Nat, NEW code \in Codes,
           fr' = Replied(s, Response(type, m, n, code)),
           type = "COMMIT_RESULT" => code = "REFUSED" \/ marker'[object[m]] # NoMovement,
           type = "AUTHORITY_REPORT" => code # "AUTHORITATIVE" \/ marker'[object[m]] # NoMovement
    PROVE CommitEvidence'
<1> DEFINE r == Response(type, m, n, code)
<1>1. r \in Responses
  BY Zenon, MessageTypes
<1>2. r.type = type /\ r.movement = m /\ r.code = code
  BY SMTT(60) DEF Response
<1>3. fr' = Replied(s, r)
  BY SMTT(60)
<1> HIDE DEF r
<1>4. ClaimsCommit(r) => marker'[object[r.movement]] # NoMovement
  BY SMTT(60), <1>2 DEF ClaimsCommit
<1> QED BY ZenonT(60), <1>1, <1>3, <1>4, EndpointKeepsEvidence

(* The handlers of handle_control. *)
LEMMA HandleEvidence ==
    ASSUME TypeOK, CommitEvidence, NEW e \in Endpoints, Handle(e),
           \A v \in Versions : marker[v] # NoMovement => marker'[v] # NoMovement
    PROVE CommitEvidence'
<1> DEFINE m == Incoming(e).movement
           n == Incoming(e).n
           s == <<e, inc[e]>>
<1>1. m \in Movements /\ n \in Nat
  <2>1. \E type : Receives(e, type)
    BY ZenonT(60) DEF Handle, OnGrant, OnCancel, OnExecute, OnVerify, OnCommitRequest, OnAuthorityQuery
  <2> QED BY SMTT(60), <2>1, ReceivesType
<1>2. endpointFrame
  BY ZenonT(60) DEF Handle, OnGrant, OnCancel, OnExecute, OnVerify, OnCommitRequest, OnAuthorityQuery
<1>3. CASE OnGrant(e)
  <2>1. UNCHANGED fr \/ fr' = Replied(s, Response("GRANT_ACK", m, n, "OK"))
    BY SMTT(60), <1>3 DEF OnGrant
  <2> HIDE DEF m, n, s
  <2> QED BY Zenon, ReplyEvidence, EndpointKeepsEvidence, <1>1, <1>2, <2>1 DEF ResponseTypes, Codes
<1>4. CASE OnCancel(e)
  <2>1. fr' = Replied(s, Response("CANCEL_ACK", m, 0, "OK"))
    BY <1>4 DEF OnCancel
  <2> HIDE DEF m, n, s
  <2> QED BY ZenonT(60), ReplyEvidence, <1>1, <1>2, <2>1 DEF ResponseTypes, Codes
<1>5. CASE OnExecute
  BY SMTT(60), EndpointKeepsEvidence, <1>2, <1>5 DEF OnExecute
<1>6. CASE e = "D" /\ (OnVerify("VERIFY_FULL") \/ OnVerify("VERIFY_CHUNK"))
  <2>1. PICK k \in Nat, code \in {"REFUSED", "CHUNK", "MATCH", "MISMATCH"} :
           fr' = Replied(s, Response("VERIFY_RESPONSE", m, k, code))
    BY ZenonT(60), <1>1, <1>6 DEF OnVerify, VerifyAnswer
  <2> HIDE DEF m, n, s
  <2>2. "VERIFY_RESPONSE" \in ResponseTypes /\ code \in Codes
    BY <2>1 DEF ResponseTypes, Codes
  <2> QED BY ZenonT(60), ReplyEvidence, <1>1, <1>2, <2>1, <2>2
<1>7. CASE e = "D" /\ OnCommitRequest
  <2>1. \/ /\ marker' = [marker EXCEPT ![object[m]] = m]
           /\ fr' = Replied(s, Response("COMMIT_RESULT", m, n, "OK"))
        \/ fr' = Replied(s, Response("COMMIT_RESULT", m, n, "REFUSED"))
    BY ZenonT(60), <1>7 DEF OnCommitRequest, write_commit_marker
  <2> HIDE DEF m, n, s
  <2>2. marker' = [marker EXCEPT ![object[m]] = m] => marker'[object[m]] # NoMovement
    BY SMTT(60), <1>1, FabricAssumptions DEF TypeOK, EndpointTypeOK
  <2> QED BY SMTT(60), ReplyEvidence, <1>1, <1>2, <2>1, <2>2 DEF ResponseTypes, Codes
<1>8. CASE e = "D" /\ OnAuthorityQuery
  <2>1. /\ UNCHANGED marker
        /\ \E code \in {"ABSENT", "INVALID", "AUTHORITATIVE"} :
             /\ fr' = Replied(s, Response("AUTHORITY_REPORT", m, 0, code))
             /\ code = "AUTHORITATIVE" => marker[object[m]] # NoMovement
    BY ZenonT(40), <1>8 DEF OnAuthorityQuery, authority, endpointVars
  <2> HIDE DEF m, n, s
  <2> QED BY SMTT(60), ReplyEvidence, <1>1, <1>2, <2>1 DEF ResponseTypes, Codes
<1> QED BY SMTT(60), <1>3, <1>4, <1>5, <1>6, <1>7, <1>8 DEF Handle

(* The endpoint handlers, the transfer threads and the endpoint's life cycle. *)
LEMMA EndpointEvidence ==
    ASSUME TypeOK, CommitEvidence, Next,
           \/ \E m \in Movements : WorkerStep(m)
           \/ \E e \in Endpoints : EndpointStart(e) \/ EndpointCrash(e) \/ LinkLost(e) \/ Handle(e)
           \/ \E v \in Versions : Damage(v)
    PROVE CommitEvidence'
<1>1. \A v \in Versions : marker[v] # NoMovement => marker'[v] # NoMovement
  BY SMTT(60), MarkersKept
<1>2. CASE endpointFrame /\ UNCHANGED fr
  BY Zenon, <1>1, <1>2, EndpointKeepsEvidence
<1>3. ASSUME NEW m \in Movements, WorkerStep(m) PROVE CommitEvidence'
  <2>1. endpointFrame
    BY ZenonT(60), <1>3 DEF WorkerStep, WorkerNoGrant, WorkerBegin, WorkerBeginFails, WorkerReceived, WorkerCancelled,
                WorkerFails, WorkerClearTarget, WorkerRename, WorkerPromoteFails, WorkerReport, workerFrame
  <2>2. \/ UNCHANGED fr
        \/ fr' = Replied(<<"D", inc["D"]>>, Response("ATTEMPT_RESULT", m, worker[m].attempt, worker[m].outcome))
    BY Zenon, <1>3 DEF WorkerStep, WorkerNoGrant, WorkerBegin, WorkerBeginFails, WorkerReceived, WorkerCancelled,
                WorkerFails, WorkerClearTarget, WorkerRename, WorkerPromoteFails, WorkerReport
  <2>3. worker[m].attempt \in Nat /\ worker[m].outcome \in Codes /\ "ATTEMPT_RESULT" \in ResponseTypes
    BY SMTT(60) DEF TypeOK, EndpointTypeOK, Workers, Codes, ResponseTypes
  <2>4. CASE ~UNCHANGED fr
    BY ZenonT(60), <1>1, <2>1, <2>2, <2>3, <2>4, ReplyEvidence
  <2> QED BY Zenon, <1>2, <2>1, <2>4
<1>4. ASSUME NEW e \in Endpoints, EndpointStart(e) \/ EndpointCrash(e) \/ LinkLost(e) PROVE CommitEvidence'
  BY ZenonT(60), <1>2, <1>4 DEF EndpointStart, EndpointCrash, LinkLost
<1>5. ASSUME NEW v \in Versions, Damage(v) PROVE CommitEvidence'
  BY <1>2, <1>5 DEF Damage
<1>6. ASSUME NEW e \in Endpoints, Handle(e) PROVE CommitEvidence'
  BY Zenon, <1>1, <1>6, HandleEvidence
<1> QED BY SMTT(60), <1>3, <1>4, <1>5, <1>6

-----------------------------------------------------------------------------

(* Initially nothing is claimed. *)
LEMMA InitEvidence == Init => CommitEvidence
<1> SUFFICES ASSUME Init PROVE CommitEvidence
  BY SMTT(60)
<1>1. /\ \A m \in Movements : /\ store[m] = NoRecord /\ drive[m] = IdleDrive
                              /\ admin[<<"reconcile", m>>] = IdleAdmin
      /\ \A t \in AdminThreads : admin[t] = IdleAdmin
      /\ \A t \in Threads : slot[t] = FreeSlot
  BY ZenonT(60), AdminThread DEF Init
<1>2. \A s \in Sessions : Len(fr[s]) = 0
  BY DEF Init
<1>3. NoRecord.state # "COMMITTED"
  BY DEF NoRecord
<1> QED BY SMTT(60), <1>1, <1>2, <1>3, IdleHarmless DEF CommitEvidence

(* Every step keeps the evidence. *)
LEMMA NextEvidence == TypeOK /\ CommitEvidence /\ [Next]_vars => CommitEvidence'
<1> SUFFICES ASSUME TypeOK, CommitEvidence, [Next]_vars PROVE CommitEvidence'
  OBVIOUS
<1>1. CASE Next
  <2>1. ASSUME NEW m \in Movements, SubmitPlan(m) \/ DriveStep(m) PROVE CommitEvidence'
    BY <2>1, DriveEvidence, RequestEvidence, CommitResultEvidence DEF DriveStep
  <2>2. ASSUME NEW m \in Movements, AdminStep(m) PROVE CommitEvidence'
    BY <2>2, AdminEvidence
  <2>3. CASE \/ \E e \in Endpoints : Register(e)
             \/ \E s \in Sessions : Deliver(s) \/ SessionEnd(s)
             \/ CoordinatorCrash \/ CoordinatorStart
    BY <2>3, SessionEvidence
  <2>4. CASE \/ \E m \in Movements : WorkerStep(m)
             \/ \E e \in Endpoints : EndpointStart(e) \/ EndpointCrash(e) \/ LinkLost(e) \/ Handle(e)
             \/ \E v \in Versions : Damage(v)
    BY SMTT(60), <1>1, <2>4, EndpointEvidence
  <2> QED BY <1>1, <2>1, <2>2, <2>3, <2>4 DEF Next
<1>2. CASE UNCHANGED vars
  BY Zenon, <1>2 DEF vars, CommitEvidence, ClaimsCommit
<1> QED BY <1>1, <1>2

(* Wherever the coordinator or a message claims a commit there is a marker. *)
THEOREM EvidenceOfCommit == Spec => []CommitEvidence
BY InitEvidence, NextEvidence, TypeCorrect, PTL DEF Spec

(* A record reads COMMITTED only when the destination holds a commit marker   *)
(* for the version: no interleaving of drive_movement, cancel and reconcile,  *)
(* no crash, lost link or failed write makes the coordinator announce a       *)
(* commit that did not happen.                                                *)
THEOREM CommittedIsReal == Spec => []CommittedHasMarker
<1>1. CommitEvidence => CommittedHasMarker
  BY Zenon DEF CommitEvidence, CommittedHasMarker
<1> QED BY <1>1, EvidenceOfCommit, PTL
=============================================================================
