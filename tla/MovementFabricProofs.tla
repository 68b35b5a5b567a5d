------------------------ MODULE MovementFabricProofs ------------------------
(* Type correctness of MovementFabric for every set of movements and          *)
(* versions, any number of attempts, probes, incarnations, epochs, faults and *)
(* commands: the drive of a movement, cancel() and reconcile(), the sessions, *)
(* the endpoints and their workers.                                           *)
EXTENDS MovementFabric, TLAPS

(* The record operations keep a record a record (movement.cpp). *)
LEMMA RecordOps ==
    ASSUME NEW r \in Records, NEW s \in MovementState
    PROVE /\ apply_transition(r, s) \in Records
          /\ apply_transition(r, s).state = s
          /\ record_attempt_started(r) \in Records
          /\ record_attempt_started(r).state = r.state
<1> DEFINE newer == [r EXCEPT !.generation = @ + 1]
<1>1. newer \in Records /\ newer.state = r.state
  BY DEF Records
<1>2. apply_transition(r, s) = [newer EXCEPT !.state = s]
  BY DEF apply_transition
<1>3. record_attempt_started(r) = [newer EXCEPT !.attempt_count = @ + 1]
  BY DEF record_attempt_started
<1> HIDE DEF newer
<1>4. apply_transition(r, s) \in Records /\ apply_transition(r, s).state = s
  BY <1>1, <1>2 DEF Records
<1>5. record_attempt_started(r) \in Records /\ record_attempt_started(r).state = r.state
  BY <1>1, <1>3 DEF Records
<1> QED BY <1>4, <1>5

(* The constants of the module have the shapes the variables are declared with. *)
LEMMA InitialValues ==
    /\ NoRecord \in Records
    /\ IdleDrive \in Drives
    /\ IdleAdmin \in [pc : AdminPc, rec : Records]
    /\ FreeSlot \in Slots
    /\ IdleWorker \in Workers
BY FabricAssumptions DEF NoRecord, Records, IdleDrive, Drives, IdleAdmin, AdminPc, FreeSlot, Slots, IdleWorker,
   Workers, DrivePc, Abandoned, Endpoints, SlotStatus, Codes

(* What the coordinator starts with, and what the endpoints hold, is well typed. *)
LEMMA InitType == Init => TypeOK
BY InitialValues, FabricAssumptions DEF Init, TypeOK, CoordinatorTypeOK, ControlTypeOK, EndpointTypeOK, Endpoints

(* MovementStore::put within the fault bound. *)
LEMMA PutType ==
    ASSUME TypeOK, NEW m \in Movements, NEW r \in Records,
           NEW o \in PutOutcomes, Put(m, r, o)
    PROVE store' \in [Movements -> Records] /\ faults' \in 0 .. MaxFaults
BY FabricAssumptions DEF Put, PutOutcomes, MayFault, TypeOK, CoordinatorTypeOK, ControlTypeOK

(* A drive thread saves its copy and moves on. *)
LEMMA SaveThenType ==
    ASSUME TypeOK, NEW m \in Movements, NEW r \in Records, NEW next \in Drives,
           NEW refused \in Drives, SaveThen(m, r, next, refused)
    PROVE /\ store' \in [Movements -> Records] /\ faults' \in 0 .. MaxFaults
          /\ drive' \in [Movements -> Drives]
<1>1. PICK o \in PutOutcomes :
         /\ Put(m, r, o)
         /\ drive' = [drive EXCEPT ![m] = IF o = "saved" THEN next ELSE refused]
  BY Zenon DEF SaveThen
<1>2. store' \in [Movements -> Records] /\ faults' \in 0 .. MaxFaults
  BY <1>1, PutType
<1>3. drive' \in [Movements -> Drives]
  BY <1>1 DEF TypeOK, CoordinatorTypeOK
<1> QED BY <1>2, <1>3

(* The fail lambda of drive_movement. *)
LEMMA FailType ==
    ASSUME TypeOK, NEW m \in Movements, NEW r \in Records, NEW goal \in MovementState,
           Fail(m, r, goal)
    PROVE /\ store' \in [Movements -> Records] /\ faults' \in 0 .. MaxFaults
          /\ drive' \in [Movements -> Drives]
<1>1. CASE check_transition(r.state, goal)
  BY <1>1, SaveThenType, RecordOps, InitialValues DEF Fail
<1>2. CASE ~check_transition(r.state, goal)
  BY Zenon, <1>2, InitialValues DEF Fail, TypeOK, CoordinatorTypeOK, ControlTypeOK
<1> QED BY <1>1, <1>2

-----------------------------------------------------------------------------
(* Type correctness, one lemma per group of actions.                         *)

(* reserve(), FrameStream::send and send_control put well-typed entries. *)
LEMMA MessageTypes ==
    /\ \A s \in Endpoints \X Nat, type \in ResponseTypes, i \in Nat : Reserve(s, type, i) \in Slots
    /\ \A type \in RequestTypes, m \in Movements, n \in Nat : Request(type, m, n) \in Requests
    /\ \A type \in ResponseTypes, m \in Movements, n \in Nat, c \in Codes :
          Response(type, m, n, c) \in Responses
<1>1. \A s \in Endpoints \X Nat, type \in ResponseTypes, i \in Nat : Reserve(s, type, i) \in Slots
  BY DEF Reserve, Slots, SlotStatus, Codes
<1>2. \A type \in RequestTypes, m \in Movements, n \in Nat : Request(type, m, n) \in Requests
  BY DEF Request, Requests
<1>3. \A type \in ResponseTypes, m \in Movements, n \in Nat, c \in Codes :
          Response(type, m, n, c) \in Responses
  BY DEF Response, Responses
<1> QED BY <1>1, <1>2, <1>3

(* FrameStream::send appends a well-typed request, or nothing. *)
LEMMA SentType ==
    ASSUME TypeOK, NEW s, NEW msg \in Requests
    PROVE Sent(s, msg) \in [Sessions -> Seq(Requests)]
<1>1. to \in [Sessions -> Seq(Requests)]
  BY DEF TypeOK, ControlTypeOK
<1>2. \A x \in Sessions : Append(to[x], msg) \in Seq(Requests)
  BY <1>1
<1>3. [to EXCEPT ![s] = Append(@, msg)] \in [Sessions -> Seq(Requests)]
  BY Zenon, <1>1, <1>2
<1> QED BY <1>1, <1>3 DEF Sent

(* send_control appends a well-typed answer, or nothing. *)
LEMMA RepliedType ==
    ASSUME TypeOK, NEW s, NEW msg \in Responses
    PROVE Replied(s, msg) \in [Sessions -> Seq(Responses)]
<1>1. fr \in [Sessions -> Seq(Responses)]
  BY DEF TypeOK, ControlTypeOK
<1>2. \A x \in Sessions : Append(fr[x], msg) \in Seq(Responses)
  BY <1>1
<1>3. [fr EXCEPT ![s] = Append(@, msg)] \in [Sessions -> Seq(Responses)]
  BY Zenon, <1>1, <1>2
<1> QED BY <1>1, <1>3 DEF Replied

(* An update of one pending-answer slot keeps the table well typed. *)
LEMMA SlotUpdateType ==
    ASSUME TypeOK, NEW t \in Threads, NEW x \in Slots, slot' = [slot EXCEPT ![t] = x]
    PROVE slot' \in [Threads -> Slots]
BY DEF TypeOK, CoordinatorTypeOK

(* release() keeps the table of pending answers well typed. *)
LEMMA ReleaseType ==
    ASSUME TypeOK, NEW t \in Threads, Release(t)
    PROVE slot' \in [Threads -> Slots]
BY Zenon, SlotUpdateType, InitialValues DEF Release

(* A drive thread is one of the threads that reserve keys. *)
LEMMA DriveThread == \A m \in Movements : <<"drive", m>> \in Threads
BY DEF Threads, Roles

(* So are the admin threads that run cancel() and reconcile(). *)
LEMMA AdminThread ==
    \A m \in Movements : /\ <<"cancel", m>> \in Threads /\ <<"cancel", m>> \in AdminThreads
                         /\ <<"reconcile", m>> \in Threads /\ <<"reconcile", m>> \in AdminThreads
BY DEF Threads, AdminThreads, Roles

(* The fields of a drive thread's state. *)
LEMMA DriveFields ==
    ASSUME TypeOK, NEW m \in Movements
    PROVE /\ drive[m] \in Drives
          /\ drive[m].rec \in Records
          /\ drive[m].goal \in Abandoned /\ drive[m].goal \in MovementState
          /\ drive[m].probe \in 0 .. Len(SampleIndices)
          /\ drive[m].rec.attempt_count \in Nat /\ drive[m].rec.generation \in Nat
          /\ \A e \in Endpoints : link_of(m, e) \in Endpoints \X Nat
BY SMTT(60) DEF TypeOK, CoordinatorTypeOK, Drives, Records, Abandoned, MovementState, link_of

(* A step of a drive thread leaves everything else alone. *)
LEMMA DriveFrameType ==
    ASSUME TypeOK, driveFrame,
           store' \in [Movements -> Records], faults' \in 0 .. MaxFaults,
           drive' \in [Movements -> Drives], slot' \in [Threads -> Slots],
           to' \in [Sessions -> Seq(Requests)]
    PROVE TypeOK'
BY DEF TypeOK, CoordinatorTypeOK, ControlTypeOK, EndpointTypeOK, driveFrame, endpointVars

(* The submitting thread. *)
LEMMA SubmitType ==
    ASSUME TypeOK, NEW m \in Movements, SubmitPlan(m) \/ SubmitAuthorize(m)
    PROVE TypeOK'
<1>1. CASE SubmitPlan(m)
  <2> DEFINE r == [state |-> "PLANNED", generation |-> 1, attempt_count |-> 0,
                   cancel_requested |-> FALSE,
                   source_incarnation |-> topo["S"].incarnation,
                   destination_incarnation |-> topo["D"].incarnation]
             d == [IdleDrive EXCEPT !.pc = "planned", !.rec = r]
  <2>1. topo["S"].incarnation \in Nat /\ topo["D"].incarnation \in Nat
    BY DEF TypeOK, CoordinatorTypeOK, Endpoints
  <2>2. r \in Records
    BY <2>1 DEF Records, MovementState
  <2>3. SaveThen(m, r, d, IdleDrive) /\ UNCHANGED <<slot, to>> /\ driveFrame
    BY <1>1 DEF SubmitPlan
  <2> HIDE DEF r
  <2>4. d \in Drives
    BY Zenon, <2>2, InitialValues DEF Drives, DrivePc
  <2> HIDE DEF d
  <2>5. store' \in [Movements -> Records] /\ faults' \in 0 .. MaxFaults /\ drive' \in [Movements -> Drives]
    BY <2>2, <2>3, <2>4, SaveThenType, InitialValues
  <2> QED BY <2>3, <2>5, DriveFrameType DEF TypeOK, CoordinatorTypeOK, ControlTypeOK
<1>2. CASE SubmitAuthorize(m)
  <2> DEFINE r == apply_transition(drive[m].rec, "AUTHORIZED")
             d == [IdleDrive EXCEPT !.pc = "queued"]
  <2>1. r \in Records
    BY DriveFields, RecordOps DEF MovementState
  <2>2. d \in Drives
    BY InitialValues DEF Drives, DrivePc
  <2>3. SaveThen(m, r, d, IdleDrive) /\ UNCHANGED <<slot, to>> /\ driveFrame
    BY <1>2 DEF SubmitAuthorize
  <2> HIDE DEF r, d
  <2>5. store' \in [Movements -> Records] /\ faults' \in 0 .. MaxFaults /\ drive' \in [Movements -> Drives]
    BY <2>1, <2>2, <2>3, SaveThenType, InitialValues
  <2> QED BY <2>3, <2>5, DriveFrameType DEF TypeOK, CoordinatorTypeOK, ControlTypeOK
<1> QED BY <1>1, <1>2

(* Updates of a drive thread's state that keep it well typed. *)
LEMMA DriveUpdates ==
    ASSUME NEW d \in Drives, NEW pc \in DrivePc, NEW r \in Records, NEW i \in Nat
    PROVE /\ [d EXCEPT !.pc = pc] \in Drives
          /\ [d EXCEPT !.pc = pc, !.rec = r] \in Drives
          /\ [d EXCEPT !.pc = pc, !.verify_link = i] \in Drives
          /\ [d EXCEPT !.pc = pc, !.probe = 0, !.verify_link = 0] \in Drives
<1> DEFINE c == [d EXCEPT !.pc = pc]
<1>1. c \in Drives
  BY DEF Drives
<1>2. /\ [d EXCEPT !.pc = pc, !.rec = r] = [c EXCEPT !.rec = r]
      /\ [d EXCEPT !.pc = pc, !.verify_link = i] = [c EXCEPT !.verify_link = i]
      /\ [d EXCEPT !.pc = pc, !.probe = 0, !.verify_link = 0]
           = [[c EXCEPT !.probe = 0] EXCEPT !.verify_link = 0]
  OBVIOUS
<1>3. 0 \in 0 .. Len(SampleIndices)
  BY FabricAssumptions
<1> HIDE DEF c
<1>4. [c EXCEPT !.rec = r] \in Drives /\ [c EXCEPT !.verify_link = i] \in Drives
  BY <1>1 DEF Drives
<1>5. [c EXCEPT !.probe = 0] \in Drives
  BY <1>1, <1>3 DEF Drives
<1>6. [[c EXCEPT !.probe = 0] EXCEPT !.verify_link = 0] \in Drives
  BY Zenon, <1>5 DEF Drives
<1>7. [d EXCEPT !.pc = pc] \in Drives
  BY <1>1 DEF c
<1> QED BY <1>2, <1>4, <1>6, <1>7

(* A failed attempt is retried or, when it was the last, recorded FAILED. *)
LEMMA RetryOrFailType ==
    ASSUME TypeOK, NEW m \in Movements, RetryOrFail(m)
    PROVE /\ store' \in [Movements -> Records] /\ faults' \in 0 .. MaxFaults
          /\ drive' \in [Movements -> Drives]
<1> DEFINE r == drive[m].rec
           again == [drive[m] EXCEPT !.pc = "attempt", !.probe = 0, !.verify_link = 0]
<1>1. r \in Records /\ again \in Drives
  BY Zenon, DriveFields, DriveUpdates DEF DrivePc
<1>2. Fail(m, r, "FAILED") \/ SaveThen(m, r, again, again)
  BY DEF RetryOrFail
<1> HIDE DEF r, again
<1> QED BY <1>1, <1>2, FailType, SaveThenType DEF MovementState

(* drive_movement up to the dispatch of an attempt. *)
LEMMA DriveBeginType ==
    ASSUME TypeOK, NEW m \in Movements,
           DriveStart(m) \/ DriveFail(m) \/ DriveAttempt(m) \/ DriveTransferring(m)
    PROVE TypeOK'
<1>1. CASE DriveStart(m)
  <2> DEFINE failing(goal) == [IdleDrive EXCEPT !.pc = "fail", !.rec = store[m], !.goal = goal]
             going == [IdleDrive EXCEPT !.pc = "attempt", !.rec = store[m],
                         !.source_link = links["S"], !.destination_link = links["D"]]
  <2>1. store[m] \in Records /\ links["S"] \in Nat /\ links["D"] \in Nat
    BY FabricAssumptions DEF TypeOK, CoordinatorTypeOK, Endpoints
  <2>2. \A g \in Abandoned : failing(g) \in Drives
    <3> TAKE g \in Abandoned
    <3>1. [IdleDrive EXCEPT !.pc = "fail", !.rec = store[m]] \in Drives
      BY Zenon, <2>1, InitialValues, DriveUpdates DEF DrivePc
    <3>2. failing(g) = [[IdleDrive EXCEPT !.pc = "fail", !.rec = store[m]] EXCEPT !.goal = g]
      OBVIOUS
    <3> QED BY ZenonT(60), <3>1, <3>2 DEF Drives
  <2>3. going \in Drives
    <3>1. [IdleDrive EXCEPT !.pc = "attempt", !.rec = store[m]] \in Drives
      BY Zenon, <2>1, InitialValues, DriveUpdates DEF DrivePc
    <3>2. going = [[[IdleDrive EXCEPT !.pc = "attempt", !.rec = store[m]]
                     EXCEPT !.source_link = links["S"]] EXCEPT !.destination_link = links["D"]]
      OBVIOUS
    <3>3. [[IdleDrive EXCEPT !.pc = "attempt", !.rec = store[m]] EXCEPT !.source_link = links["S"]] \in Drives
      BY Zenon, <2>1, <3>1 DEF Drives
    <3> QED BY Zenon, <2>1, <3>2, <3>3 DEF Drives
  <2>4. \E d \in {IdleDrive, going, failing("CANCELLED"), failing("FAILED"), failing("SUPERSEDED")} :
           drive' = [drive EXCEPT ![m] = d]
    BY ZenonT(60), <1>1 DEF DriveStart
  <2>5. UNCHANGED <<store, faults, slot, to>> /\ driveFrame
    BY <1>1 DEF DriveStart
  <2> HIDE DEF failing, going
  <2>6. drive' \in [Movements -> Drives]
    BY Zenon, <2>2, <2>3, <2>4, InitialValues DEF TypeOK, CoordinatorTypeOK, Abandoned
  <2> QED BY <2>5, <2>6, DriveFrameType DEF TypeOK, CoordinatorTypeOK, ControlTypeOK
<1>2. CASE DriveFail(m)
  <2>1. Fail(m, drive[m].rec, drive[m].goal) /\ UNCHANGED <<slot, to>> /\ driveFrame
    BY Zenon, <1>2 DEF DriveFail
  <2>2. drive[m].rec \in Records /\ drive[m].goal \in MovementState
    BY Zenon, DriveFields
  <2>3. /\ store' \in [Movements -> Records] /\ faults' \in 0 .. MaxFaults
        /\ drive' \in [Movements -> Drives]
    BY Zenon, <2>1, <2>2, FailType
  <2>4. slot' \in [Threads -> Slots] /\ to' \in [Sessions -> Seq(Requests)]
    BY Zenon, <2>1 DEF TypeOK, CoordinatorTypeOK, ControlTypeOK
  <2> QED BY Zenon, <2>1, <2>3, <2>4, DriveFrameType
<1>3. CASE DriveAttempt(m)
  <2> DEFINE r == record_attempt_started(drive[m].rec)
             d == [drive[m] EXCEPT !.pc = "grantS", !.rec = r]
  <2>1. r \in Records
    BY DriveFields, RecordOps DEF MovementState
  <2>2. SaveThen(m, r, d, IdleDrive) /\ UNCHANGED <<slot, to>> /\ driveFrame
    BY SMTT(60), <1>3 DEF DriveAttempt
  <2> HIDE DEF r
  <2>3. d \in Drives
    BY Zenon, <2>1, DriveFields, DriveUpdates DEF DrivePc
  <2> HIDE DEF d
  <2> QED BY SMTT(60), <2>1, <2>2, <2>3, SaveThenType, InitialValues, DriveFrameType
          DEF TypeOK, CoordinatorTypeOK, ControlTypeOK
<1>4. CASE DriveTransferring(m)
  <2> DEFINE r == apply_transition(drive[m].rec, "TRANSFERRING")
             d == [drive[m] EXCEPT !.pc = "awaitResult", !.rec = r]
  <2>1. r \in Records
    BY DriveFields, RecordOps DEF MovementState
  <2>2. \/ SaveThen(m, r, d, IdleDrive) /\ UNCHANGED slot
        \/ drive' = [drive EXCEPT ![m] = IdleDrive] /\ Release(<<"drive", m>>) /\ UNCHANGED <<store, faults>>
    BY <1>4 DEF DriveTransferring
  <2>3. UNCHANGED to /\ driveFrame
    BY SMTT(60), <1>4 DEF DriveTransferring
  <2> HIDE DEF r
  <2>4. d \in Drives
    BY ZenonT(60), <2>1, DriveFields, DriveUpdates DEF DrivePc
  <2> HIDE DEF d
  <2>5. CASE SaveThen(m, r, d, IdleDrive) /\ UNCHANGED slot
    BY SMTT(60), <2>1, <2>3, <2>4, <2>5, SaveThenType, InitialValues, DriveFrameType
       DEF TypeOK, CoordinatorTypeOK, ControlTypeOK
  <2>6. CASE drive' = [drive EXCEPT ![m] = IdleDrive] /\ Release(<<"drive", m>>) /\ UNCHANGED <<store, faults>>
    BY SMTT(60), <2>3, <2>6, ReleaseType, DriveThread, InitialValues, DriveFrameType
       DEF TypeOK, CoordinatorTypeOK, ControlTypeOK
  <2> QED BY <2>2, <2>5, <2>6
<1> QED BY <1>1, <1>2, <1>3, <1>4

(* request() by a drive thread, when the session is alive. *)
LEMMA DriveSendType ==
    ASSUME TypeOK, driveFrame, NEW m \in Movements, NEW s \in Endpoints \X Nat,
           NEW type \in RequestTypes, NEW n \in Nat, NEW reply \in ResponseTypes,
           NEW index \in Nat, NEW next \in Drives,
           slot' = [slot EXCEPT ![<<"drive", m>>] = Reserve(s, reply, index)],
           to' = Sent(s, Request(type, m, n)),
           drive' = [drive EXCEPT ![m] = next],
           UNCHANGED <<store, faults>>
    PROVE TypeOK'
<1>1. slot' \in [Threads -> Slots]
  BY Zenon, MessageTypes, SlotUpdateType, DriveThread
<1>2. to' \in [Sessions -> Seq(Requests)]
  BY MessageTypes, SentType
<1>3. drive' \in [Movements -> Drives]
  BY DEF TypeOK, CoordinatorTypeOK
<1> QED BY Zenon, <1>1, <1>2, <1>3, DriveFrameType DEF TypeOK, CoordinatorTypeOK, ControlTypeOK

(* GRANT_TRANSFER, EXECUTE_MOVEMENT, VERIFY_REQUEST and COMMIT_REQUEST. *)
LEMMA DriveRequestType ==
    ASSUME TypeOK, NEW m \in Movements,
           \/ \E e \in Endpoints : DriveGrant(m, e)
           \/ DriveExecute(m) \/ DriveProbe(m) \/ DriveCommit(m)
    PROVE TypeOK'
<1>0. (\A e \in Endpoints : link_of(m, e) \in Endpoints \X Nat) /\ "D" \in Endpoints
  BY Zenon, DriveFields DEF Endpoints
<1> USE DriveFields, FailType, DriveFrameType
<1>1. ASSUME NEW e \in Endpoints, DriveGrant(m, e) PROVE TypeOK'
  <2> DEFINE next == [drive[m] EXCEPT !.pc = AwaitGrantPc[e]]
  <2>1. next \in Drives
    <3>1. AwaitGrantPc[e] \in DrivePc
      BY DEF AwaitGrantPc, DrivePc, Endpoints
    <3>2. drive[m] \in Drives
      OBVIOUS
    <3> QED BY Zenon, <3>1, <3>2, DriveUpdates
  <2>2. link_of(m, e) \in Endpoints \X Nat
    BY Zenon, <1>0
  <2>3. CASE open[link_of(m, e)]
    <3>1. /\ slot' = [slot EXCEPT ![<<"drive", m>>] = Reserve(link_of(m, e), "GRANT_ACK", drive[m].rec.attempt_count)]
          /\ to' = Sent(link_of(m, e), Request("GRANT_TRANSFER", m, drive[m].rec.attempt_count))
          /\ drive' = [drive EXCEPT ![m] = next]
          /\ UNCHANGED <<store, faults>> /\ driveFrame
      BY SMTT(60), <1>1, <2>3 DEF DriveGrant, DriveRequest
    <3> HIDE DEF next
    <3> QED BY ZenonT(60), <2>1, <2>2, <3>1, DriveSendType DEF RequestTypes, ResponseTypes
  <2>4. CASE ~open[link_of(m, e)]
    BY Zenon, <1>1, <2>4 DEF DriveGrant, DriveRequest, MovementState, TypeOK, CoordinatorTypeOK, ControlTypeOK
  <2> QED BY SMTT(60), <2>3, <2>4
<1>2. CASE DriveExecute(m)
  <2> DEFINE next == [drive[m] EXCEPT !.pc = "dispatched"]
  <2>1. next \in Drives
    BY ZenonT(60), DriveUpdates DEF DrivePc
  <2>2. link_of(m, "D") \in Endpoints \X Nat
    BY Zenon, <1>0
  <2>3. CASE open[link_of(m, "D")]
    <3>1. /\ slot' = [slot EXCEPT ![<<"drive", m>>] = Reserve(link_of(m, "D"), "ATTEMPT_RESULT", 0)]
          /\ to' = Sent(link_of(m, "D"), Request("EXECUTE_MOVEMENT", m, drive[m].rec.attempt_count))
          /\ drive' = [drive EXCEPT ![m] = next]
          /\ UNCHANGED <<store, faults>> /\ driveFrame
      BY SMTT(60), <1>2, <2>3 DEF DriveExecute, DriveRequest
    <3> HIDE DEF next
    <3> QED BY Zenon, <2>1, <2>2, <3>1, DriveSendType DEF RequestTypes, ResponseTypes
  <2>4. CASE ~open[link_of(m, "D")]
    BY SMTT(60), <1>2, <2>4 DEF DriveExecute, DriveRequest, MovementState, TypeOK, CoordinatorTypeOK, ControlTypeOK
  <2> QED BY <2>3, <2>4
<1>3. CASE DriveProbe(m)
  <2> DEFINE k == drive[m].probe
             type == IF k = 0 THEN "VERIFY_FULL" ELSE "VERIFY_CHUNK"
             next(i) == [drive[m] EXCEPT !.pc = "awaitProbe", !.verify_link = i]
  <2>1. ProbeIndex(k) \in Nat /\ type \in RequestTypes
    BY FabricAssumptions DEF ProbeIndex, RequestTypes
  <2>2. driveFrame
    BY Zenon, <1>3 DEF DriveProbe
  <2>3. CASE RetryOrFail(m) /\ UNCHANGED <<slot, to>>
    BY ZenonT(60), <2>2, <2>3, RetryOrFailType DEF TypeOK, CoordinatorTypeOK, ControlTypeOK
  <2>4. ASSUME NEW i \in Nat, open[<<"D", i>>],
               DriveRequest(m, <<"D", i>>, type, ProbeIndex(k), "VERIFY_RESPONSE", ProbeIndex(k),
                            next(i), RetryOrFail(m))
        PROVE TypeOK'
    <3>1. next(i) \in Drives /\ <<"D", i>> \in Endpoints \X Nat
      BY ZenonT(60), DriveUpdates DEF DrivePc, Endpoints
    <3> HIDE DEF next, type, k
    <3> QED BY ZenonT(60), <2>1, <2>2, <2>4, <3>1, DriveSendType DEF DriveRequest, ResponseTypes
  <2>5. \/ RetryOrFail(m) /\ UNCHANGED <<slot, to>>
        \/ \E i \in Nat :
             DriveRequest(m, <<"D", i>>, type, ProbeIndex(k), "VERIFY_RESPONSE", ProbeIndex(k),
                          next(i), RetryOrFail(m))
    <3>1. find_link("D") \subseteq Nat /\ drive[m].verify_link \in Nat
      BY SMTT(60) DEF find_link, Drives
    <3> QED BY ZenonT(60), <1>3, <3>1 DEF DriveProbe
  <2>6. \A i : DriveRequest(m, <<"D", i>>, type, ProbeIndex(k), "VERIFY_RESPONSE", ProbeIndex(k),
                            next(i), RetryOrFail(m))
               => open[<<"D", i>>] \/ (RetryOrFail(m) /\ UNCHANGED <<slot, to>>)
    BY DEF DriveRequest
  <2> HIDE DEF next, type, k
  <2> QED BY ZenonT(60), <2>3, <2>4, <2>5, <2>6
<1>4. CASE DriveCommit(m)
  <2> DEFINE next == [drive[m] EXCEPT !.pc = "awaitCommit"]
  <2>1. next \in Drives
    BY Zenon, DriveUpdates DEF DrivePc
  <2>2. link_of(m, "D") \in Endpoints \X Nat
    BY Zenon, <1>0
  <2>3. CASE open[link_of(m, "D")]
    <3>1. /\ slot' = [slot EXCEPT ![<<"drive", m>>] = Reserve(link_of(m, "D"), "COMMIT_RESULT", 0)]
          /\ to' = Sent(link_of(m, "D"), Request("COMMIT_REQUEST", m, drive[m].rec.generation))
          /\ drive' = [drive EXCEPT ![m] = next]
          /\ UNCHANGED <<store, faults>> /\ driveFrame
      BY SMTT(60), <1>4, <2>3 DEF DriveCommit, DriveRequest
    <3> HIDE DEF next
    <3> QED BY Zenon, <2>1, <2>2, <3>1, DriveSendType DEF RequestTypes, ResponseTypes
  <2>4. CASE ~open[link_of(m, "D")]
    BY SMTT(60), <1>4, <2>4 DEF DriveCommit, DriveRequest, MovementState, TypeOK, CoordinatorTypeOK, ControlTypeOK
  <2> QED BY <2>3, <2>4
<1> QED BY SMTT(60), <1>1, <1>2, <1>3, <1>4

(* The answers, or their absence, that a drive thread waits for. *)
LEMMA DriveAnswerType ==
    ASSUME TypeOK, NEW m \in Movements,
           \/ \E e \in Endpoints : DriveGranted(m, e) \/ DriveGrantUnanswered(m, e)
           \/ DriveResult(m) \/ DriveResultUnanswered(m)
           \/ DriveProbed(m) \/ DriveProbeUnanswered(m)
           \/ DriveCommitResult(m) \/ DriveCommitUnanswered(m)
    PROVE TypeOK'
<1> DEFINE t == <<"drive", m>>
<1>1. t \in Threads /\ drive[m] \in Drives /\ drive[m].rec \in Records
  BY DriveThread, DriveFields
<1>2. driveFrame /\ UNCHANGED to
  BY DEF DriveGranted, DriveGrantUnanswered, DriveResult, DriveResultUnanswered, DriveProbed,
         DriveProbeUnanswered, DriveCommitResult, DriveCommitUnanswered
<1>3. slot' \in [Threads -> Slots]
  <2>1. Release(t) \/ slot' = [slot EXCEPT ![t] = Reserve(link_of(m, "D"), "ATTEMPT_RESULT", 0)]
    BY Zenon, SMTT(60) DEF DriveGranted, DriveGrantUnanswered, DriveResult, DriveResultUnanswered, DriveProbed,
         DriveProbeUnanswered, DriveCommitResult, DriveCommitUnanswered
  <2>2. Reserve(link_of(m, "D"), "ATTEMPT_RESULT", 0) \in Slots
    BY MessageTypes, DriveFields DEF Endpoints, ResponseTypes
  <2> QED BY <1>1, <2>1, <2>2, ReleaseType, SlotUpdateType
<1>4. /\ store' \in [Movements -> Records] /\ faults' \in 0 .. MaxFaults
      /\ drive' \in [Movements -> Drives]
  <2>0. /\ store \in [Movements -> Records] /\ faults \in 0 .. MaxFaults
        /\ drive \in [Movements -> Drives]
    BY DEF TypeOK, CoordinatorTypeOK, ControlTypeOK
  <2>1. CASE \E e \in Endpoints : DriveGranted(m, e)
    <3>1. PICK e \in Endpoints : DriveGranted(m, e)
      BY <2>1
    <3>2. AfterGrantPc[e] \in DrivePc
      BY DEF AfterGrantPc, DrivePc, Endpoints
    <3>3. drive' = [drive EXCEPT ![m] = [drive[m] EXCEPT !.pc = AfterGrantPc[e]]]
      BY SMTT(60), <3>1 DEF DriveGranted
    <3>4. [drive[m] EXCEPT !.pc = AfterGrantPc[e]] \in Drives
      BY Zenon, <1>1, <3>2, DriveUpdates
    <3> QED BY <2>0, <3>1, <3>3, <3>4 DEF DriveGranted
  <2>2. CASE \E goal \in MovementState : Fail(m, drive[m].rec, goal)
    BY <1>1, <2>2, FailType
  <2>3. CASE RetryOrFail(m)
    BY <2>3, RetryOrFailType
  <2>4. CASE DriveResult(m)
    <3> DEFINE r == apply_transition(drive[m].rec, "BYTES_ARRIVED")
               d == [drive[m] EXCEPT !.pc = "verify", !.rec = r]
    <3>1. \/ UNCHANGED <<drive, store, faults>>
          \/ Fail(m, drive[m].rec, "CANCELLED") \/ RetryOrFail(m)
          \/ SaveThen(m, r, d, IdleDrive)
      BY SMTT(60), <2>4 DEF DriveResult
    <3>2. r \in Records
      BY Zenon, <1>1, RecordOps DEF MovementState
    <3> HIDE DEF r
    <3>3. d \in Drives
      BY Zenon, <1>1, <3>2, DriveUpdates DEF DrivePc
    <3> HIDE DEF d
    <3>4. CASE SaveThen(m, r, d, IdleDrive)
      BY <3>2, <3>3, <3>4, SaveThenType, InitialValues
    <3> QED BY <2>0, <2>2, <2>3, <3>1, <3>4 DEF MovementState
  <2>5. CASE DriveProbed(m)
    <3> DEFINE r == apply_transition(drive[m].rec, "VERIFIED")
               d == [drive[m] EXCEPT !.pc = "commit", !.rec = r]
               k == drive[m].probe
               p == [[drive[m] EXCEPT !.pc = "verify"] EXCEPT !.probe = k + 1]
    <3>1. \/ RetryOrFail(m)
          \/ /\ k < Len(SampleIndices)
             /\ drive' = [drive EXCEPT ![m].pc = "verify", ![m].probe = k + 1]
             /\ UNCHANGED <<store, faults>>
          \/ SaveThen(m, r, d, IdleDrive)
      BY SMTT(60), <2>5 DEF DriveProbed
    <3>2. r \in Records
      BY SMTT(60), <1>1, RecordOps DEF MovementState
    <3> HIDE DEF r
    <3>3. d \in Drives
      BY Zenon, <1>1, <3>2, DriveUpdates DEF DrivePc
    <3> HIDE DEF d
    <3>4. CASE SaveThen(m, r, d, IdleDrive)
      BY <3>2, <3>3, <3>4, SaveThenType, InitialValues
    <3>5. CASE /\ k < Len(SampleIndices)
               /\ drive' = [drive EXCEPT ![m].pc = "verify", ![m].probe = k + 1]
               /\ UNCHANGED <<store, faults>>
      <4>1. k + 1 \in 0 .. Len(SampleIndices)
        BY SMTT(60), <3>5, FabricAssumptions, DriveFields
      <4>2. [drive[m] EXCEPT !.pc = "verify"] \in Drives
        BY Zenon, <1>1, DriveUpdates DEF DrivePc
      <4> HIDE DEF k
      <4>3. p \in Drives
        BY Zenon, <4>1, <4>2 DEF Drives
      <4>4. drive' = [drive EXCEPT ![m] = p]
        BY ZenonT(60), <2>0, <3>5
      <4> QED BY <2>0, <3>5, <4>3, <4>4
    <3> QED BY <2>3, <3>1, <3>4, <3>5
  <2>6. CASE DriveCommitResult(m)
    <3> DEFINE r == apply_transition(drive[m].rec, "COMMITTED")
    <3>1. \/ \E goal \in MovementState : Fail(m, drive[m].rec, goal)
          \/ SaveThen(m, r, IdleDrive, IdleDrive)
      BY ZenonT(60), <2>6 DEF DriveCommitResult, MovementState
    <3>2. r \in Records
      BY <1>1, RecordOps DEF MovementState
    <3> HIDE DEF r
    <3> QED BY <2>2, <3>1, <3>2, SaveThenType, InitialValues
  <2>7. CASE \/ \E e \in Endpoints : DriveGrantUnanswered(m, e)
             \/ DriveResultUnanswered(m) \/ DriveCommitUnanswered(m)
    <3>1. Fail(m, drive[m].rec, "FAILED") \/ Fail(m, drive[m].rec, "OUTCOME_UNKNOWN")
      BY Zenon, <2>7 DEF DriveGrantUnanswered, DriveResultUnanswered, DriveCommitUnanswered
    <3> QED BY SMTT(60), <2>2, <3>1 DEF MovementState
  <2>8. CASE DriveProbeUnanswered(m)
    BY Zenon, <2>3, <2>8 DEF DriveProbeUnanswered
  <2> QED BY <2>1, <2>4, <2>5, <2>6, <2>7, <2>8
<1> QED BY <1>2, <1>3, <1>4, DriveFrameType DEF TypeOK, ControlTypeOK

-----------------------------------------------------------------------------
(* cancel(), reconcile(), the sessions and the endpoints.                    *)

(* A step of cancel() or reconcile() leaves everything else alone. *)
LEMMA AdminFrameType ==
    ASSUME TypeOK, adminFrame,
           store' \in [Movements -> Records], faults' \in 0 .. MaxFaults,
           admin' \in [AdminThreads -> [pc : AdminPc, rec : Records]],
           slot' \in [Threads -> Slots], to' \in [Sessions -> Seq(Requests)],
           issued' \in [CommandKinds -> 0 .. MaxCommands]
    PROVE TypeOK'
BY DEF TypeOK, CoordinatorTypeOK, ControlTypeOK, EndpointTypeOK, adminFrame, endpointVars

(* An admin thread's request: the key, the message and the next step. *)
LEMMA AdminRequestType ==
    ASSUME TypeOK, NEW t \in AdminThreads, NEW s \in Endpoints \X Nat, NEW type \in RequestTypes,
           NEW reply \in ResponseTypes, NEW next \in AdminPc, AdminRequest(t, s, type, reply, next)
    PROVE /\ admin' \in [AdminThreads -> [pc : AdminPc, rec : Records]]
          /\ slot' \in [Threads -> Slots] /\ to' \in [Sessions -> Seq(Requests)]
<1>1. t \in Threads /\ t[2] \in Movements
  BY DEF AdminThreads, Threads, Roles
<1>2. slot' \in [Threads -> Slots]
  BY Zenon, <1>1, MessageTypes, SlotUpdateType DEF AdminRequest
<1>3. to' \in [Sessions -> Seq(Requests)]
  BY <1>1, MessageTypes, SentType DEF AdminRequest
<1>4. admin' \in [AdminThreads -> [pc : AdminPc, rec : Records]]
  BY DEF AdminRequest, TypeOK, CoordinatorTypeOK
<1> QED BY <1>2, <1>3, <1>4

(* cancel() and reconcile(). *)
LEMMA AdminStepType ==
    ASSUME TypeOK, NEW m \in Movements, AdminStep(m)
    PROVE TypeOK'
<1> DEFINE c == <<"cancel", m>>
           q == <<"reconcile", m>>
<1>1. c \in Threads /\ c \in AdminThreads /\ q \in Threads /\ q \in AdminThreads
  BY AdminThread
<1>2. /\ store \in [Movements -> Records] /\ faults \in 0 .. MaxFaults
      /\ issued \in [CommandKinds -> 0 .. MaxCommands]
      /\ admin \in [AdminThreads -> [pc : AdminPc, rec : Records]]
      /\ slot \in [Threads -> Slots] /\ to \in [Sessions -> Seq(Requests)]
  BY DEF TypeOK, CoordinatorTypeOK, ControlTypeOK
<1>3. store[m] \in Records /\ admin[c].rec \in Records /\ admin[q].rec \in Records
  BY <1>1, <1>2
<1>4. find_link("S") \subseteq Nat /\ find_link("D") \subseteq Nat
  BY DEF find_link
<1> HIDE DEF c, q
<1>5. CASE CancelStart(m)
  <2> DEFINE r == [store[m] EXCEPT !.cancel_requested = TRUE]
  <2>1. r \in Records
    BY Zenon, <1>3 DEF Records
  <2>2. /\ admin' = [admin EXCEPT ![c] = [pc |-> "notifyS", rec |-> r]]
        /\ Issue("cancel") /\ UNCHANGED <<store, faults, slot, to>> /\ adminFrame
    BY <1>5 DEF CancelStart, c
  <2> HIDE DEF r
  <2>3. admin' \in [AdminThreads -> [pc : AdminPc, rec : Records]]
    BY ZenonT(60), <1>2, <2>1, <2>2 DEF AdminPc
  <2>4. issued' \in [CommandKinds -> 0 .. MaxCommands]
    BY <1>2, <2>2, FabricAssumptions DEF Issue, CommandKinds
  <2> QED BY <1>2, <2>2, <2>3, <2>4, AdminFrameType
<1>6. CASE ReconcileStart(m)
  <2>1. /\ admin' = [admin EXCEPT ![q] = [pc |-> "query", rec |-> store[m]]]
        /\ Issue("reconcile") /\ UNCHANGED <<store, faults, slot, to>> /\ adminFrame
    BY <1>6 DEF ReconcileStart, q
  <2>2. admin' \in [AdminThreads -> [pc : AdminPc, rec : Records]]
    BY Zenon, <1>2, <1>3, <2>1 DEF AdminPc
  <2>3. issued' \in [CommandKinds -> 0 .. MaxCommands]
    BY <1>2, <2>1, FabricAssumptions DEF Issue, CommandKinds
  <2> QED BY <1>2, <2>1, <2>2, <2>3, AdminFrameType
<1>7. ASSUME NEW e \in Endpoints, CancelNotify(m, e) PROVE TypeOK'
  <2>1. PICK i \in find_link(e) : AdminRequest(c, <<e, i>>, "CANCEL", "CANCEL_ACK", AwaitAckPc[e])
    BY <1>7 DEF CancelNotify, c
  <2>2. <<e, i>> \in Endpoints \X Nat
    BY <1>4 DEF Endpoints
  <2>3. AwaitAckPc[e] \in AdminPc
    BY DEF AwaitAckPc, AdminPc, Endpoints
  <2>4. "CANCEL" \in RequestTypes /\ "CANCEL_ACK" \in ResponseTypes
    BY DEF RequestTypes, ResponseTypes
  <2>5. UNCHANGED <<store, faults, issued>> /\ adminFrame
    BY <1>7 DEF CancelNotify
  <2> QED BY <1>1, <1>2, <2>1, <2>2, <2>3, <2>4, <2>5, AdminRequestType, AdminFrameType
<1>8. CASE CancelNextEndpoint(m)
  <2>1. /\ admin' = [admin EXCEPT ![c].pc = "notifyD"] /\ Release(c)
        /\ UNCHANGED <<store, faults, to, issued>> /\ adminFrame
    BY <1>8 DEF CancelNextEndpoint, c
  <2>2. admin' \in [AdminThreads -> [pc : AdminPc, rec : Records]]
    BY ZenonT(60), <1>2, <2>1 DEF AdminPc
  <2> QED BY <1>1, <1>2, <2>1, <2>2, ReleaseType, AdminFrameType
<1>9. CASE CancelRecord(m)
  <2> DEFINE r == apply_transition(admin[c].rec, "CANCELLED")
  <2>1. r \in Records
    BY <1>3, RecordOps DEF MovementState
  <2>2. /\ \E o \in PutOutcomes : Put(m, r, o)
        /\ admin' = [admin EXCEPT ![c] = IdleAdmin] /\ Release(c)
        /\ UNCHANGED <<to, issued>> /\ adminFrame
    BY <1>9 DEF CancelRecord, c
  <2> HIDE DEF r
  <2>3. admin' \in [AdminThreads -> [pc : AdminPc, rec : Records]]
    BY Zenon, <1>2, <2>2, InitialValues
  <2> QED BY <1>1, <1>2, <2>1, <2>2, <2>3, PutType, ReleaseType, AdminFrameType
<1>10. CASE ReconcileQuery(m)
  <2>1. UNCHANGED <<store, faults, issued>> /\ adminFrame
    BY <1>10 DEF ReconcileQuery
  <2>2. CASE admin' = [admin EXCEPT ![q] = IdleAdmin] /\ UNCHANGED <<slot, to>>
    BY Zenon, <1>2, <2>1, <2>2, InitialValues, AdminFrameType
  <2>3. ASSUME NEW i \in find_link("D"),
               AdminRequest(q, <<"D", i>>, "AUTHORITY_QUERY", "AUTHORITY_REPORT", "awaitReport")
        PROVE TypeOK'
    <3>1. <<"D", i>> \in Endpoints \X Nat
      BY <1>4 DEF Endpoints
    <3>2. "AUTHORITY_QUERY" \in RequestTypes /\ "AUTHORITY_REPORT" \in ResponseTypes /\ "awaitReport" \in AdminPc
      BY DEF RequestTypes, ResponseTypes, AdminPc
    <3> QED BY Zenon, <1>1, <1>2, <2>1, <2>3, <3>1, <3>2, AdminRequestType, AdminFrameType
  <2> QED BY Zenon, <1>10, <2>2, <2>3 DEF ReconcileQuery, q
<1>11. CASE ReconcileReport(m)
  <2> DEFINE r == admin[q].rec
  <2>1. /\ \/ \E g \in MovementState : \E o \in PutOutcomes : Put(m, apply_transition(r, g), o)
           \/ UNCHANGED <<store, faults>>
        /\ admin' = [admin EXCEPT ![q] = IdleAdmin] /\ Release(q)
        /\ UNCHANGED <<to, issued>> /\ adminFrame
    BY <1>11 DEF ReconcileReport, MovementState, q
  <2>2. \A g \in MovementState : apply_transition(r, g) \in Records
    BY Zenon, <1>3, RecordOps
  <2> HIDE DEF r
  <2>3. admin' \in [AdminThreads -> [pc : AdminPc, rec : Records]]
    BY ZenonT(60), <1>2, <2>1, InitialValues
  <2>4. store' \in [Movements -> Records] /\ faults' \in 0 .. MaxFaults
    BY <1>2, <2>1, <2>2, PutType
  <2> QED BY Zenon, <1>1, <1>2, <2>1, <2>3, <2>4, ReleaseType, AdminFrameType
<1> QED BY <1>5, <1>6, <1>7, <1>8, <1>9, <1>10, <1>11 DEF AdminStep

(* A field update of one waiter. *)
LEMMA SlotFields ==
    ASSUME NEW x \in Slots
    PROVE /\ [x EXCEPT !.status = "closed"] \in Slots
          /\ \A r \in Responses : [x EXCEPT !.status = "answered", !.code = r.code, !.arg = r.n] \in Slots
<1>1. [x EXCEPT !.status = "closed"] \in Slots
  BY DEF Slots, SlotStatus
<1>2. ASSUME NEW r \in Responses
      PROVE [x EXCEPT !.status = "answered", !.code = r.code, !.arg = r.n] \in Slots
  <2> DEFINE a == [x EXCEPT !.status = "answered"]
  <2>1. a \in Slots
    BY DEF Slots, SlotStatus
  <2>2. [x EXCEPT !.status = "answered", !.code = r.code, !.arg = r.n]
          = [[a EXCEPT !.code = r.code] EXCEPT !.arg = r.n]
    OBVIOUS
  <2> HIDE DEF a
  <2>3. r.code \in Codes /\ r.n \in Nat
    BY DEF Responses
  <2>4. [a EXCEPT !.code = r.code] \in Slots
    BY <2>1, <2>3 DEF Slots
  <2>5. [[a EXCEPT !.code = r.code] EXCEPT !.arg = r.n] \in Slots
    BY Zenon, <2>3, <2>4 DEF Slots
  <2> QED BY <2>2, <2>5
<1> QED BY Zenon, <1>1, <1>2

(* Registration, delivery, the end of a session, the coordinator's crash and start. *)
LEMMA SessionType ==
    ASSUME TypeOK,
           \/ \E e \in Endpoints : Register(e)
           \/ \E s \in Sessions : Deliver(s) \/ SessionEnd(s)
           \/ CoordinatorCrash \/ CoordinatorStart
    PROVE TypeOK'
<1>1. ASSUME NEW e \in Endpoints, Register(e) PROVE TypeOK'
  <2>1. inc[e] \in 0 .. MaxIncarnation /\ inc[e] \in Nat
    BY FabricAssumptions DEF TypeOK, EndpointTypeOK
  <2>2. [incarnation |-> inc[e], live |-> TRUE] \in [incarnation : Nat, live : BOOLEAN]
    BY SMTT(60), <2>1
  <2>3. topo' \in [Endpoints -> [incarnation : Nat, live : BOOLEAN]]
    <3>1. /\ topo' = [topo EXCEPT ![e] = [incarnation |-> inc[e], live |-> TRUE]]
          /\ topo \in [Endpoints -> [incarnation : Nat, live : BOOLEAN]]
      BY Zenon, <1>1 DEF Register, TypeOK, CoordinatorTypeOK
    <3> QED BY Zenon, <2>2, <3>1
  <2>4. links' \in [Endpoints -> 0 .. MaxIncarnation] /\ open' \in [Sessions -> BOOLEAN]
    BY ZenonT(60), <1>1, <2>1 DEF Register, TypeOK, CoordinatorTypeOK
  <2>5. conn' \in [Endpoints -> {"down", "new", "up", "lost"}]
    BY <1>1 DEF Register, TypeOK, EndpointTypeOK
  <2> QED BY Zenon, <1>1, <2>3, <2>4, <2>5 DEF Register, TypeOK, CoordinatorTypeOK, ControlTypeOK, EndpointTypeOK
<1>2. ASSUME NEW s \in Sessions, Deliver(s) PROVE TypeOK'
  <2>1. fr \in [Sessions -> Seq(Responses)] /\ fr[s] # <<>> /\ slot \in [Threads -> Slots]
    BY Zenon, <1>2 DEF Deliver, TypeOK, CoordinatorTypeOK, ControlTypeOK
  <2>2. Head(fr[s]) \in Responses /\ Tail(fr[s]) \in Seq(Responses)
    BY SMTT(60), <2>1
  <2>3. fr' \in [Sessions -> Seq(Responses)]
    BY ZenonT(60), <1>2, <2>1, <2>2 DEF Deliver
  <2>4. slot' \in [Threads -> Slots]
    BY ZenonT(60), <1>2, <2>1, <2>2, SlotFields DEF Deliver
  <2> QED BY Zenon, <1>2, <2>3, <2>4 DEF Deliver, TypeOK, CoordinatorTypeOK, ControlTypeOK, EndpointTypeOK, endpointVars
<1>3. ASSUME NEW s \in Sessions, SessionEnd(s) PROVE TypeOK'
  <2>1. s[1] \in Endpoints /\ slot \in [Threads -> Slots]
    BY DEF Sessions, TypeOK, CoordinatorTypeOK
  <2>2. slot' \in [Threads -> Slots]
    BY Zenon, <1>3, <2>1, SlotFields DEF SessionEnd
  <2>3. faults' \in 0 .. MaxFaults
    BY SMTT(60), <1>3, FabricAssumptions DEF SessionEnd, MayFault, TypeOK, ControlTypeOK
  <2>4. fr' \in [Sessions -> Seq(Responses)]
    BY <1>3 DEF SessionEnd, TypeOK, ControlTypeOK
  <2>5. topo' \in [Endpoints -> [incarnation : Nat, live : BOOLEAN]]
    <3> DEFINE dead == [topo[s[1]] EXCEPT !.live = FALSE]
    <3>1. dead \in [incarnation : Nat, live : BOOLEAN]
      BY ZenonT(60), <2>1 DEF TypeOK, CoordinatorTypeOK
    <3>2. topo' = [topo EXCEPT ![s[1]] = dead]
      BY <1>3 DEF SessionEnd
    <3> HIDE DEF dead
    <3> QED BY Zenon, <3>1, <3>2 DEF TypeOK, CoordinatorTypeOK
  <2>6. links' \in [Endpoints -> 0 .. MaxIncarnation]
    BY SMTT(60), <1>3, <2>1, FabricAssumptions DEF SessionEnd, TypeOK, CoordinatorTypeOK
  <2>7. open' \in [Sessions -> BOOLEAN]
    BY SMTT(60), <1>3 DEF SessionEnd, TypeOK, CoordinatorTypeOK
  <2> QED BY ZenonT(60), <1>3, <2>2, <2>3, <2>4, <2>5, <2>6, <2>7
          DEF SessionEnd, TypeOK, CoordinatorTypeOK, ControlTypeOK, EndpointTypeOK, endpointVars
<1>4. CASE CoordinatorCrash
  <2>1. /\ drive' \in [Movements -> Drives] /\ slot' \in [Threads -> Slots]
        /\ admin' \in [AdminThreads -> [pc : AdminPc, rec : Records]]
    BY <1>4, InitialValues DEF CoordinatorCrash
  <2>2. fr' \in [Sessions -> Seq(Responses)]
    BY <1>4 DEF CoordinatorCrash
  <2>3. /\ topo' \in [Endpoints -> [incarnation : Nat, live : BOOLEAN]]
        /\ links' \in [Endpoints -> 0 .. MaxIncarnation] /\ open' \in [Sessions -> BOOLEAN]
    BY <1>4, FabricAssumptions DEF CoordinatorCrash
  <2> QED BY ZenonT(60), <1>4, <2>1, <2>2, <2>3
          DEF CoordinatorCrash, TypeOK, CoordinatorTypeOK, ControlTypeOK, EndpointTypeOK, endpointVars
<1>5. CASE CoordinatorStart
  <2>1. \A m \in Movements : Recovered(store[m]) \in Records
    <3> TAKE m \in Movements
    <3>1. store[m] \in Records
      BY DEF TypeOK, CoordinatorTypeOK
    <3> QED BY <3>1, RecordOps DEF Recovered, MovementState
  <2>2. store' \in [Movements -> Records]
    <3>1. PICK unsaved \in SUBSET Movements :
            store' = [m \in Movements |->
                        IF m \in unsaved \/ store[m] = NoRecord THEN store[m] ELSE Recovered(store[m])]
      BY Zenon, <1>5 DEF CoordinatorStart
    <3>2. \A m \in Movements : store[m] \in Records
      BY Zenon DEF TypeOK, CoordinatorTypeOK
    <3> QED BY Zenon, <2>1, <3>1, <3>2
  <2>3. faults' \in 0 .. MaxFaults
    <3>1. UNCHANGED faults \/ (faults < MaxFaults /\ faults' = faults + 1)
      BY Zenon, <1>5 DEF CoordinatorStart, MayFault
    <3>2. faults \in 0 .. MaxFaults
      BY Zenon DEF TypeOK, ControlTypeOK
    <3> QED BY <3>1, <3>2, FabricAssumptions
  <2>4. epoch' = epoch + 1 /\ up' = TRUE
        /\ UNCHANGED <<topo, links, open, drive, admin, slot, to, fr, endpointVars, issued>>
    BY Zenon, <1>5 DEF CoordinatorStart
  <2>5. EndpointTypeOK'
    BY Zenon, <2>4 DEF TypeOK, EndpointTypeOK, endpointVars
  <2>6. ControlTypeOK'
    BY Zenon, <2>3, <2>4 DEF TypeOK, ControlTypeOK
  <2>7. CoordinatorTypeOK'
    BY SMTT(60), <2>2, <2>4 DEF TypeOK, CoordinatorTypeOK
  <2> QED BY <2>5, <2>6, <2>7 DEF TypeOK
<1> QED BY Zenon, <1>1, <1>2, <1>3, <1>4, <1>5

(* A step of an endpoint leaves the coordinator's state alone. *)
LEMMA EndpointFrameType ==
    ASSUME TypeOK, endpointFrame, EndpointTypeOK',
           to' \in [Sessions -> Seq(Requests)], fr' \in [Sessions -> Seq(Responses)],
           faults' \in 0 .. MaxFaults
    PROVE TypeOK'
BY DEF TypeOK, CoordinatorTypeOK, ControlTypeOK, endpointFrame

(* The reader thread takes one message off its session. *)
LEMMA ReceivesType ==
    ASSUME TypeOK, NEW e \in Endpoints, NEW type, Receives(e, type)
    PROVE /\ to' \in [Sessions -> Seq(Requests)]
          /\ Incoming(e) \in Requests /\ Incoming(e).type = type
          /\ Incoming(e).movement \in Movements /\ Incoming(e).n \in Nat
<1> DEFINE s == <<e, inc[e]>>
<1>1. to \in [Sessions -> Seq(Requests)]
  BY DEF TypeOK, ControlTypeOK
<1>2. to[s] # <<>> /\ Head(to[s]).type = type /\ to' = [to EXCEPT ![s] = Tail(@)]
  BY DEF Receives
<1>3. s \in Sessions
  <2>1. inc[e] \in 0 .. MaxIncarnation /\ inc[e] > 0
    BY DEF Receives, TypeOK, EndpointTypeOK
  <2>2. inc[e] \in 1 .. MaxIncarnation
    BY <2>1, FabricAssumptions
  <2> QED BY <2>2 DEF Sessions
<1>4. Incoming(e) = Head(to[s])
  BY DEF Incoming
<1> HIDE DEF s
<1>5. Head(to[s]) \in Requests /\ Tail(to[s]) \in Seq(Requests)
  BY <1>1, <1>2, <1>3
<1>6. to' \in [Sessions -> Seq(Requests)]
  BY <1>1, <1>2, <1>3, <1>5
<1> QED BY Zenon, <1>2, <1>4, <1>5, <1>6 DEF Requests

(* Starting, losing and replacing an endpoint process. *)
LEMMA EndpointLifeType ==
    ASSUME TypeOK, NEW e \in Endpoints, EndpointStart(e) \/ EndpointCrash(e) \/ LinkLost(e)
    PROVE TypeOK'
<1>1. CASE EndpointStart(e)
  <2>1. EndpointTypeOK'
    BY SMTT(60), <1>1, FabricAssumptions DEF EndpointStart, TypeOK, EndpointTypeOK
  <2> QED BY SMTT(60), <1>1, <2>1, EndpointFrameType DEF EndpointStart, TypeOK, ControlTypeOK
<1>2. ASSUME Forget(e)
      PROVE /\ grants' \in [Endpoints -> SUBSET (Movements \X Nat)] /\ consumed' \subseteq grants'["S"]
  BY SMTT(60), <1>2 DEF Forget, TypeOK, EndpointTypeOK, Endpoints
<1>3. CASE EndpointCrash(e)
  <2>1. worker' \in [Movements -> Workers]
    BY ZenonT(60), <1>3, InitialValues DEF EndpointCrash, TypeOK, EndpointTypeOK
  <2>2. /\ Forget(e) /\ UNCHANGED <<inc, bytes, marker>> /\ conn' = [conn EXCEPT ![e] = "down"]
        /\ flags' = [flags EXCEPT ![e] = {}]
    BY ZenonT(60), <1>3 DEF EndpointCrash
  <2>3. EndpointTypeOK'
    BY SMTT(60), <1>2, <2>1, <2>2 DEF TypeOK, EndpointTypeOK
  <2>4. to' \in [Sessions -> Seq(Requests)]
    BY SMTT(60), <1>3 DEF EndpointCrash, TypeOK, ControlTypeOK
  <2> QED BY SMTT(60), <1>3, <2>3, <2>4, EndpointFrameType DEF EndpointCrash, TypeOK, ControlTypeOK
<1>4. CASE LinkLost(e)
  <2>1. /\ Forget(e) /\ UNCHANGED <<inc, flags, worker, bytes, marker>>
        /\ conn[e] = "up" /\ conn' = [conn EXCEPT ![e] = "lost"]
    BY Zenon, <1>4 DEF LinkLost
  <2>2. EndpointTypeOK'
    BY <1>2, <2>1 DEF TypeOK, EndpointTypeOK
  <2>3. to' \in [Sessions -> Seq(Requests)]
    <3>1. to' = [to EXCEPT ![<<e, inc[e]>>] = <<>>] /\ to \in [Sessions -> Seq(Requests)]
      BY Zenon, <1>4 DEF LinkLost, TypeOK, ControlTypeOK
    <3>2. <<>> \in Seq(Requests)
      OBVIOUS
    <3> QED BY ZenonT(60), <3>1, <3>2
  <2>4. faults' \in 0 .. MaxFaults
    <3>1. faults' = faults \/ (faults < MaxFaults /\ faults' = faults + 1)
      BY ZenonT(60), <1>4 DEF LinkLost, MayFault
    <3>2. faults \in 0 .. MaxFaults
      BY ZenonT(60) DEF TypeOK, ControlTypeOK
    <3> QED BY SMTT(60), <3>1, <3>2, FabricAssumptions
  <2>5. endpointFrame /\ fr' = fr
    BY ZenonT(60), <1>4 DEF LinkLost
  <2>6. fr' \in [Sessions -> Seq(Responses)]
    BY ZenonT(60), <2>5 DEF TypeOK, ControlTypeOK
  <2> QED BY ZenonT(60), <2>2, <2>3, <2>4, <2>5, <2>6, EndpointFrameType
<1> QED BY SMTT(60), <1>1, <1>3, <1>4

(* handle_control and the handlers it calls. *)
LEMMA HandleType ==
    ASSUME TypeOK, NEW e \in Endpoints, Handle(e)
    PROVE TypeOK'
<1> DEFINE m == Incoming(e).movement
           n == Incoming(e).n
           s == <<e, inc[e]>>
<1>0. /\ fr \in [Sessions -> Seq(Responses)] /\ faults \in 0 .. MaxFaults
      /\ object \in [Movements -> Versions]
  BY FabricAssumptions DEF TypeOK, ControlTypeOK
<1>1. CASE OnGrant(e)
  <2>1. Receives(e, "GRANT_TRANSFER") /\ endpointFrame
        /\ UNCHANGED <<inc, conn, consumed, flags, worker, bytes, marker, faults>>
    BY SMTT(60), <1>1 DEF OnGrant
  <2>2. \/ UNCHANGED <<grants, fr>>
        \/ /\ grants' = [grants EXCEPT ![e] = @ \cup {<<m, n>>}]
           /\ fr' = Replied(s, Response("GRANT_ACK", m, n, "OK"))
    BY <1>1 DEF OnGrant
  <2>3. m \in Movements /\ n \in Nat /\ to' \in [Sessions -> Seq(Requests)]
    BY <2>1, ReceivesType
  <2> HIDE DEF m, n, s
  <2>4. Response("GRANT_ACK", m, n, "OK") \in Responses
    BY <2>3, MessageTypes DEF ResponseTypes, Codes
  <2>5. fr' \in [Sessions -> Seq(Responses)]
    BY SMTT(60), <1>0, <2>2, <2>4, RepliedType
  <2>6. grants' \in [Endpoints -> SUBSET (Movements \X Nat)] /\ grants["S"] \subseteq grants'["S"]
    BY SMTT(60), <2>2, <2>3 DEF TypeOK, EndpointTypeOK, Endpoints
  <2>7. EndpointTypeOK'
    BY <2>1, <2>6 DEF TypeOK, EndpointTypeOK
  <2> QED BY SMTT(60), <1>0, <2>1, <2>3, <2>5, <2>7, EndpointFrameType
<1>2. CASE OnCancel(e)
  <2>1. /\ Receives(e, "CANCEL") /\ endpointFrame
        /\ UNCHANGED <<inc, conn, grants, consumed, worker, bytes, marker, faults>>
        /\ flags' = [flags EXCEPT ![e] = @ \cup {m}]
        /\ fr' = Replied(s, Response("CANCEL_ACK", m, 0, "OK"))
    BY SMTT(60), <1>2 DEF OnCancel
  <2>2. m \in Movements /\ to' \in [Sessions -> Seq(Requests)]
    BY <2>1, ReceivesType
  <2> HIDE DEF m, n, s
  <2>3. Response("CANCEL_ACK", m, 0, "OK") \in Responses
    BY <2>2, MessageTypes DEF ResponseTypes, Codes
  <2>4. fr' \in [Sessions -> Seq(Responses)]
    BY SMTT(60), <2>1, <2>3, RepliedType
  <2>5. EndpointTypeOK'
    BY <2>1, <2>2 DEF TypeOK, EndpointTypeOK
  <2> QED BY SMTT(60), <1>0, <2>1, <2>2, <2>4, <2>5, EndpointFrameType
<1>3. CASE e = "D" /\ OnExecute
  <2>1. /\ Receives(e, "EXECUTE_MOVEMENT") /\ endpointFrame
        /\ UNCHANGED <<fr, inc, conn, grants, consumed, bytes, marker, faults>>
        /\ \/ /\ flags' = [flags EXCEPT ![e] = @ \ {m}]
              /\ worker' = [worker EXCEPT ![m] = [IdleWorker EXCEPT !.pc = "begin", !.attempt = n]]
           \/ UNCHANGED <<flags, worker>>
    BY <1>3 DEF OnExecute
  <2>2. m \in Movements /\ n \in Nat /\ to' \in [Sessions -> Seq(Requests)]
    BY <2>1, ReceivesType
  <2> HIDE DEF m, n, s
  <2>3. [IdleWorker EXCEPT !.pc = "begin", !.attempt = n] \in Workers
    BY Zenon, <2>2 DEF IdleWorker, Workers
  <2> DEFINE w == [IdleWorker EXCEPT !.pc = "begin", !.attempt = n]
  <2> HIDE DEF w
  <2>4. worker' \in [Movements -> Workers] /\ flags' \in [Endpoints -> SUBSET Movements]
    <3>1. w \in Workers
      BY <2>3 DEF w
    <3>2. \/ /\ flags' = [flags EXCEPT ![e] = @ \ {m}]
             /\ worker' = [worker EXCEPT ![m] = w]
          \/ UNCHANGED <<flags, worker>>
      BY <2>1 DEF w
    <3> QED BY <3>1, <3>2 DEF TypeOK, EndpointTypeOK
  <2>5. EndpointTypeOK'
    BY <2>1, <2>4 DEF TypeOK, EndpointTypeOK
  <2> QED BY <1>0, <2>1, <2>2, <2>5, EndpointFrameType
<1>4. ASSUME NEW type \in {"VERIFY_FULL", "VERIFY_CHUNK"}, e = "D", OnVerify(type)
      PROVE TypeOK'
  <2>1. /\ Receives(e, type) /\ endpointFrame /\ UNCHANGED <<endpointVars, faults>>
        /\ fr' = Replied(s, VerifyAnswer(Incoming(e)))
    BY <1>4 DEF OnVerify
  <2>2. m \in Movements /\ n \in Nat /\ to' \in [Sessions -> Seq(Requests)]
    BY <2>1, ReceivesType
  <2>3. VerifyAnswer(Incoming(e)) \in Responses
    BY <2>2, MessageTypes DEF VerifyAnswer, ResponseTypes, Codes
  <2>4. fr' \in [Sessions -> Seq(Responses)]
    BY SMTT(60), <2>1, <2>3, RepliedType
  <2>5. EndpointTypeOK'
    BY SMTT(60), <2>1 DEF TypeOK, EndpointTypeOK, endpointVars
  <2> QED BY Zenon, <1>0, <2>1, <2>2, <2>4, <2>5, EndpointFrameType
<1>5. CASE e = "D" /\ OnCommitRequest
  <2>1. /\ Receives(e, "COMMIT_REQUEST") /\ endpointFrame
        /\ UNCHANGED <<inc, conn, grants, consumed, flags, worker, bytes>>
        /\ UNCHANGED marker \/ marker' = [marker EXCEPT ![object[m]] = m]
        /\ \/ fr' = Replied(s, Response("COMMIT_RESULT", m, n, "OK"))
           \/ fr' = Replied(s, Response("COMMIT_RESULT", m, n, "REFUSED"))
        /\ UNCHANGED faults \/ (faults < MaxFaults /\ faults' = faults + 1)
    BY ZenonT(60), <1>5 DEF OnCommitRequest, write_commit_marker, Unread, MayFault
  <2>2. m \in Movements /\ n \in Nat /\ to' \in [Sessions -> Seq(Requests)]
    BY Zenon, <2>1, ReceivesType
  <2> HIDE DEF m, n, s
  <2>3. /\ Response("COMMIT_RESULT", m, n, "OK") \in Responses
        /\ Response("COMMIT_RESULT", m, n, "REFUSED") \in Responses
    BY SMTT(60), <2>2, MessageTypes DEF ResponseTypes, Codes
  <2>4. fr' \in [Sessions -> Seq(Responses)]
    BY SMTT(60), <2>1, <2>3, RepliedType
  <2>5. faults' \in 0 .. MaxFaults
    BY SMTT(60), <1>0, <2>1, FabricAssumptions
  <2>6. EndpointTypeOK'
    BY ZenonT(60), <1>0, <2>1, <2>2 DEF TypeOK, EndpointTypeOK
  <2> QED BY SMTT(60), <2>1, <2>2, <2>4, <2>5, <2>6, EndpointFrameType
<1>6. CASE e = "D" /\ OnAuthorityQuery
  <2>1. /\ Receives(e, "AUTHORITY_QUERY") /\ endpointFrame /\ UNCHANGED endpointVars
        /\ UNCHANGED faults \/ (faults < MaxFaults /\ faults' = faults + 1)
        /\ \E code \in {"ABSENT", "INVALID", "AUTHORITATIVE"} :
             fr' = Replied(s, Response("AUTHORITY_REPORT", m, 0, code))
    BY ZenonT(60), <1>6 DEF OnAuthorityQuery, authority, Unread, MayFault
  <2>2. m \in Movements /\ to' \in [Sessions -> Seq(Requests)]
    BY <2>1, ReceivesType
  <2> HIDE DEF m, n, s
  <2>3. \A code \in {"ABSENT", "INVALID", "AUTHORITATIVE"} :
           Response("AUTHORITY_REPORT", m, 0, code) \in Responses
    BY <2>2, MessageTypes DEF ResponseTypes, Codes
  <2>4. fr' \in [Sessions -> Seq(Responses)]
    BY SMTT(60), <2>1, <2>3, RepliedType
  <2>5. EndpointTypeOK'
    BY Zenon, <2>1 DEF TypeOK, EndpointTypeOK, endpointVars
  <2>6. faults' \in 0 .. MaxFaults
    BY SMTT(60), <1>0, <2>1, FabricAssumptions
  <2> QED BY Zenon, <2>1, <2>2, <2>4, <2>5, <2>6, EndpointFrameType
<1> QED BY <1>1, <1>2, <1>3, <1>4, <1>5, <1>6 DEF Handle

(* The transfer thread, and damage to a stored object. *)
LEMMA WorkerType ==
    ASSUME TypeOK, \/ \E m \in Movements : WorkerStep(m)
                   \/ \E v \in Versions : Damage(v)
    PROVE TypeOK'
<1>0. /\ fr \in [Sessions -> Seq(Responses)] /\ to \in [Sessions -> Seq(Requests)]
      /\ faults \in 0 .. MaxFaults /\ worker \in [Movements -> Workers]
      /\ object \in [Movements -> Versions] /\ bytes \in [Versions -> {"absent", "good", "bad"}]
      /\ consumed \subseteq grants["S"]
  BY SMTT(60), FabricAssumptions DEF TypeOK, ControlTypeOK, EndpointTypeOK
<1>1. ASSUME NEW m \in Movements, WorkerStep(m) PROVE TypeOK'
  <2> DEFINE w == worker[m]
  <2>1. w \in Workers /\ w.attempt \in Nat /\ w.outcome \in Codes
    BY Zenon, <1>0 DEF Workers, Codes
  <2>2. /\ UNCHANGED <<to, inc, conn, grants, marker>> /\ endpointFrame
        /\ UNCHANGED flags \/ flags' = [flags EXCEPT !["D"] = @ \ {m}]
    BY Zenon, <1>1 DEF WorkerStep, WorkerNoGrant, WorkerBegin, WorkerBeginFails, WorkerReceived, WorkerCancelled,
                WorkerFails, WorkerClearTarget, WorkerRename, WorkerPromoteFails, WorkerReport, workerFrame
  <2>3. worker' \in [Movements -> Workers]
    <3>1. /\ [w EXCEPT !.pc = "pull"] \in Workers /\ [w EXCEPT !.pc = "promote"] \in Workers
          /\ [w EXCEPT !.pc = "rename"] \in Workers
      BY <2>1 DEF Workers
    <3>2. \A o \in {"FAILED", "CANCELLED", "BYTES_ARRIVED"} :
             [[w EXCEPT !.pc = "report"] EXCEPT !.outcome = o] \in Workers
      BY Zenon, <2>1 DEF Workers
    <3>3. \A o \in {"FAILED", "CANCELLED", "BYTES_ARRIVED"} :
             Reporting(m, o) = [worker EXCEPT ![m] = [[w EXCEPT !.pc = "report"] EXCEPT !.outcome = o]]
      BY ZenonT(60), <1>0 DEF Reporting
    <3>4. \/ \E x \in {[w EXCEPT !.pc = "pull"], [w EXCEPT !.pc = "promote"], [w EXCEPT !.pc = "rename"], IdleWorker} :
               worker' = [worker EXCEPT ![m] = x]
          \/ \E o \in {"FAILED", "CANCELLED", "BYTES_ARRIVED"} : worker' = Reporting(m, o)
      BY <1>1 DEF WorkerStep, WorkerNoGrant, WorkerBegin, WorkerBeginFails, WorkerReceived, WorkerCancelled,
                  WorkerFails, WorkerClearTarget, WorkerRename, WorkerPromoteFails, WorkerReport
    <3>5. CASE \E x \in {[w EXCEPT !.pc = "pull"], [w EXCEPT !.pc = "promote"], [w EXCEPT !.pc = "rename"], IdleWorker} :
                 worker' = [worker EXCEPT ![m] = x]
      <4>1. PICK x \in Workers : worker' = [worker EXCEPT ![m] = x]
        BY Zenon, <3>1, <3>5, InitialValues
      <4> QED BY <1>0, <4>1
    <3>6. CASE \E o \in {"FAILED", "CANCELLED", "BYTES_ARRIVED"} : worker' = Reporting(m, o)
      <4>1. PICK x \in Workers : worker' = [worker EXCEPT ![m] = x]
        BY <3>2, <3>3, <3>6
      <4> QED BY <1>0, <4>1
    <3> QED BY <3>4, <3>5, <3>6
  <2>4. fr' \in [Sessions -> Seq(Responses)]
    <3>1. UNCHANGED fr \/ fr' = Replied(<<"D", inc["D"]>>, Response("ATTEMPT_RESULT", m, w.attempt, w.outcome))
      BY <1>1 DEF WorkerStep, WorkerNoGrant, WorkerBegin, WorkerBeginFails, WorkerReceived, WorkerCancelled,
                  WorkerFails, WorkerClearTarget, WorkerRename, WorkerPromoteFails, WorkerReport
    <3>2. Response("ATTEMPT_RESULT", m, w.attempt, w.outcome) \in Responses
      BY Zenon, <2>1, MessageTypes DEF ResponseTypes
    <3> HIDE DEF w
    <3>3. CASE UNCHANGED fr
      BY Zenon, <1>0, <3>3
    <3>4. CASE fr' = Replied(<<"D", inc["D"]>>, Response("ATTEMPT_RESULT", m, w.attempt, w.outcome))
      BY Zenon, <3>2, <3>4, RepliedType
    <3> QED BY Zenon, <3>1, <3>3, <3>4
  <2>5. faults' \in 0 .. MaxFaults
    <3>1. UNCHANGED faults \/ (faults < MaxFaults /\ faults' = faults + 1)
      BY Zenon, <1>1 DEF WorkerStep, WorkerNoGrant, WorkerBegin, WorkerBeginFails, WorkerReceived, WorkerCancelled,
                  WorkerFails, WorkerClearTarget, WorkerRename, WorkerPromoteFails, WorkerReport, MayFault
    <3> QED BY SMTT(60), <1>0, <3>1, FabricAssumptions
  <2>6. consumed' \subseteq grants["S"]
    <3>1. UNCHANGED consumed \/ (GrantOf(m) \in grants["S"] /\ consumed' = consumed \cup {GrantOf(m)})
      BY <1>1 DEF WorkerStep, WorkerNoGrant, WorkerBegin, WorkerBeginFails, WorkerReceived, WorkerCancelled,
                  WorkerFails, WorkerClearTarget, WorkerRename, WorkerPromoteFails, WorkerReport, TransferPossible
    <3> QED BY Zenon, <1>0, <3>1
  <2>7. bytes' \in [Versions -> {"absent", "good", "bad"}]
    <3>1. UNCHANGED bytes \/ \E b \in {"absent", "good"} : bytes' = [bytes EXCEPT ![object[m]] = b]
      BY Zenon, <1>1 DEF WorkerStep, WorkerNoGrant, WorkerBegin, WorkerBeginFails, WorkerReceived, WorkerCancelled,
                  WorkerFails, WorkerClearTarget, WorkerRename, WorkerPromoteFails, WorkerReport
    <3> QED BY SMTT(60), <1>0, <3>1
  <2>8. flags' \in [Endpoints -> SUBSET Movements]
    BY <2>2 DEF TypeOK, EndpointTypeOK
  <2>9. EndpointTypeOK'
    BY Zenon, <2>2, <2>3, <2>6, <2>7, <2>8 DEF TypeOK, EndpointTypeOK
  <2> QED BY Zenon, <1>0, <2>2, <2>4, <2>5, <2>9, EndpointFrameType
<1>2. ASSUME NEW v \in Versions, Damage(v) PROVE TypeOK'
  <2>1. faults' \in 0 .. MaxFaults
    <3>1. faults < MaxFaults /\ faults' = faults + 1
      BY Zenon, <1>2 DEF Damage, MayFault
    <3>2. MaxFaults \in Nat /\ faults \in 0 .. MaxFaults
      BY Zenon, <1>0, FabricAssumptions
    <3> QED BY <3>1, <3>2
  <2>2. EndpointTypeOK'
    BY <1>2 DEF Damage, TypeOK, EndpointTypeOK
  <2> QED BY Zenon, <1>0, <1>2, <2>1, <2>2, EndpointFrameType DEF Damage
<1> QED BY SMTT(60), <1>1, <1>2

(* Every action keeps the state well typed. *)
LEMMA NextType == TypeOK /\ [Next]_vars => TypeOK'
<1> SUFFICES ASSUME TypeOK, [Next]_vars PROVE TypeOK'
  BY SMTT(60)
<1>1. CASE Next
  <2>1. ASSUME NEW m \in Movements, SubmitPlan(m) \/ DriveStep(m) PROVE TypeOK'
    BY Zenon, <2>1, SubmitType, DriveBeginType, DriveRequestType, DriveAnswerType DEF DriveStep
  <2> QED BY SMTT(60), <1>1, <2>1, AdminStepType, SessionType, EndpointLifeType, HandleType, WorkerType DEF Next
<1>2. CASE UNCHANGED vars
  BY <1>2 DEF vars, TypeOK, CoordinatorTypeOK, ControlTypeOK, EndpointTypeOK
<1> QED BY <1>1, <1>2

(* Type correctness of the coordinator, the control links and the endpoints,  *)
(* in every behaviour and for every value of the constants.                   *)
THEOREM TypeCorrect == Spec => []TypeOK
BY InitType, NextType, PTL DEF Spec
=============================================================================
