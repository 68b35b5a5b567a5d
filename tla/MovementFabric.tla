--------------------------- MODULE MovementFabric ---------------------------
(* The movement protocol end to end: one coordinator, one source endpoint    *)
(* "S", one destination endpoint "D", and the operator commands that race    *)
(* with a running movement (coordinator.cpp, endpoint_agent.cpp, and of      *)
(* object_store.cpp the parts that decide authority).                        *)
(*                                                                           *)
(* Threads.  Every movement is driven by at most one worker thread (role     *)
(* "drive"); an admin session may run cancel() and another reconcile() on    *)
(* the same movement at the same time.  All three work on a private copy of  *)
(* the record and write it back with an unconditional put, so each local     *)
(* copy is a variable of its own.  A step of a thread reaches from one       *)
(* access to shared state to the next: a put, a send or an awaited answer.   *)
(*                                                                           *)
(* Links.  A control session is an endpoint and the incarnation that opened  *)
(* it.  Both directions are FIFO.  open[s] is the coordinator's end (alive), *)
(* conn[e] is the endpoint's end.                                            *)
EXTENDS Movement, Sequences, FiniteSets

CONSTANTS
    Movements,      \* movement identities that may be submitted
    Versions,       \* object versions (object_id, generation)
    object,         \* the version each movement moves
    NoMovement,     \* "no commit marker"
    max_attempts,   \* MovementPolicy::max_attempts
    SampleIndices,  \* the chunk indices verification_sample returns, in order
    max_grants,     \* max_movements_in_flight * 2, the bound of grants_
    MaxIncarnation, \* bound: starts of each endpoint process
    MaxEpoch,       \* bound: starts of the coordinator process
    MaxFaults,      \* bound: environment faults in one behaviour
    Faults,         \* the kinds of fault that may happen: "break", "transfer", "io",
                    \* "damage", "read" (a marker cannot be read), "stat" (nor seen)
    Crashable,      \* the processes that may crash: "C", "S", "D"
    Commands,       \* the operator commands in use: "cancel", "reconcile"
    MaxCommands     \* bound: operator commands of each kind in one behaviour

ASSUME FabricAssumptions ==
    /\ NoMovement \notin Movements
    /\ object \in [Movements -> Versions]
    /\ max_attempts \in Nat \ {0}
    /\ SampleIndices \in Seq(Nat)
    /\ max_grants \in Nat
    /\ MaxIncarnation \in Nat \ {0}
    /\ MaxEpoch \in Nat \ {0}
    /\ MaxFaults \in Nat
    /\ MaxCommands \in Nat

Endpoints == {"S", "D"}
CommandKinds == {"cancel", "reconcile"}
Sessions == Endpoints \X (1 .. MaxIncarnation)
Roles == {"drive", "cancel", "reconcile"}
Threads == Roles \X Movements
AdminThreads == {"cancel", "reconcile"} \X Movements

VARIABLES
    store,      \* durable: the movement records of MovementStore, by identity
    epoch,      \* durable: the coordinator epoch
    up,         \* the coordinator process runs
    topo,       \* TopologyView: the registered incarnation and its liveness
    links,      \* links_: the incarnation whose session serves each endpoint
    open,       \* ControlLink::alive of each session
    drive,      \* the worker thread (and the submitting thread) of each movement
    admin,      \* the cancel and the reconcile thread of each movement
    slot,       \* ControlLink::pending, by the thread that reserved the key
    to,         \* messages on their way to the endpoint, per session
    fr,         \* messages on their way to the coordinator, per session
    inc,        \* durable: the epoch file of each endpoint
    conn,       \* endpoint side: "down", "new", "up" or "lost"
    grants,     \* grants_ of each endpoint: <<movement, attempt>>
    consumed,   \* grants of the source already presented once
    flags,      \* cancellations_ of each endpoint: the movements flagged true
    worker,     \* the transfer thread of each movement at the destination
    bytes,      \* durable at D: the object file of each version
    marker,     \* durable at D: the movement named by each commit marker
    faults,     \* environment faults so far
    issued      \* operator commands of each kind so far

coordinatorVars == <<store, epoch, up, topo, links, open, drive, admin, slot>>
endpointVars == <<inc, conn, grants, consumed, flags, worker, bytes, marker>>
vars == <<store, epoch, up, topo, links, open, drive, admin, slot, to, fr,
          inc, conn, grants, consumed, flags, worker, bytes, marker, faults, issued>>

-----------------------------------------------------------------------------
(* Records and messages.                                                     *)

NoRecord ==
    [state |-> "NONE", generation |-> 0, attempt_count |-> 0,
     cancel_requested |-> FALSE, source_incarnation |-> 0, destination_incarnation |-> 0]

IdleDrive ==
    [pc |-> "idle", rec |-> NoRecord, goal |-> "FAILED", probe |-> 0,
     source_link |-> 0, destination_link |-> 0, verify_link |-> 0]

IdleAdmin == [pc |-> "idle", rec |-> NoRecord]

FreeSlot ==
    [status |-> "free", session |-> <<"S", 1>>, type |-> "NONE", index |-> 0,
     code |-> "NONE", arg |-> 0]

IdleWorker == [pc |-> "none", attempt |-> 0, outcome |-> "FAILED"]

(* A message to an endpoint; n is the attempt, the generation or the index.  *)
Request(type, m, n) == [type |-> type, movement |-> m, n |-> n]
Response(type, m, n, code) == [type |-> type, movement |-> m, n |-> n, code |-> code]

(* deliver(): the part of the answer that is the key beyond type and movement. *)
key_for(r) == IF r.type \in {"GRANT_ACK", "VERIFY_RESPONSE"} THEN r.n ELSE 0

(* The session's endpoint process still reads the control link. *)
Reads(s) == conn[s[1]] = "up" /\ inc[s[1]] = s[2]

(* FrameStream::send on a session: bytes for a process that is gone are lost. *)
Sent(s, msg) == IF Reads(s) THEN [to EXCEPT ![s] = Append(@, msg)] ELSE to

(* send_control: an answer for a coordinator that closed the session is lost. *)
Replied(s, msg) == IF open[s] THEN [fr EXCEPT ![s] = Append(@, msg)] ELSE fr

(* reserve() *)
Reserve(s, type, index) ==
    [status |-> "pending", session |-> s, type |-> type, index |-> index,
     code |-> "NONE", arg |-> 0]

(* find_link: the incarnations whose live session serves the endpoint. *)
find_link(e) == {i \in 1 .. MaxIncarnation : links[e] = i /\ open[<<e, i>>]}

(* A fault of the given kind is still within the bound. *)
MayFault(kind) == kind \in Faults /\ faults < MaxFaults

(* MovementStore::put: acknowledged; refused with nothing kept; or kept and   *)
(* an error returned all the same (retention fails after the append).        *)
PutOutcomes == IF MayFault("io") THEN {"saved", "refused", "unacknowledged"} ELSE {"saved"}
Put(m, record, outcome) ==
    /\ store' = IF outcome = "refused" THEN store ELSE [store EXCEPT ![m] = record]
    /\ faults' = IF outcome = "saved" THEN faults ELSE faults + 1

Init ==
    /\ store = [m \in Movements |-> NoRecord]
    /\ epoch = 1 /\ up = TRUE
    /\ topo = [e \in Endpoints |-> [incarnation |-> 0, live |-> FALSE]]
    /\ links = [e \in Endpoints |-> 0]
    /\ open = [s \in Sessions |-> FALSE]
    /\ drive = [m \in Movements |-> IdleDrive]
    /\ admin = [t \in AdminThreads |-> IdleAdmin]
    /\ slot = [t \in Threads |-> FreeSlot]
    /\ to = [s \in Sessions |-> <<>>] /\ fr = [s \in Sessions |-> <<>>]
    /\ inc = [e \in Endpoints |-> 0] /\ conn = [e \in Endpoints |-> "down"]
    /\ grants = [e \in Endpoints |-> {}] /\ consumed = {}
    /\ flags = [e \in Endpoints |-> {}]
    /\ worker = [m \in Movements |-> IdleWorker]
    /\ bytes = [v \in Versions |-> "absent"]
    /\ marker = [v \in Versions |-> NoMovement]
    /\ faults = 0 /\ issued = [c \in CommandKinds |-> 0]

-----------------------------------------------------------------------------
(* The submitting thread and the worker thread of a movement.                *)

driveFrame == UNCHANGED <<issued, epoch, up, topo, links, open, admin, fr, endpointVars>>

(* Save the record, then continue as next; as refused when put fails. *)
SaveThen(m, record, next, refused) ==
    \E outcome \in PutOutcomes :
        /\ Put(m, record, outcome)
        /\ drive' = [drive EXCEPT ![m] = IF outcome = "saved" THEN next ELSE refused]

(* The fail lambda: a refused transition saves nothing; a failed put is ignored. *)
Fail(m, record, goal) ==
    IF check_transition(record.state, goal)
    THEN SaveThen(m, apply_transition(record, goal), IdleDrive, IdleDrive)
    ELSE /\ drive' = [drive EXCEPT ![m] = IdleDrive]
         /\ UNCHANGED <<store, faults>>

(* request(): reserve the key, then push; refused is taken when the session has ended. *)
DriveRequest(m, s, type, n, reply, index, next, Refused) ==
    IF open[s]
    THEN /\ slot' = [slot EXCEPT ![<<"drive", m>>] = Reserve(s, reply, index)]
         /\ to' = Sent(s, Request(type, m, n))
         /\ drive' = [drive EXCEPT ![m] = next]
         /\ UNCHANGED <<store, faults>>
    ELSE Refused /\ UNCHANGED <<slot, to>>

Answered(t) == slot[t].status = "answered"

(* await(): the budget ran out, or the session ended before it answered. *)
Unanswered(t) == slot[t].status \in {"pending", "closed"}

Release(t) == slot' = [slot EXCEPT ![t] = FreeSlot]

(* submit(): every check passed, the record is created PLANNED and saved. *)
SubmitPlan(m) ==
    /\ up /\ drive[m].pc = "idle" /\ store[m] = NoRecord
    /\ \A e \in Endpoints : topo[e].live
    /\ LET r == [state |-> "PLANNED", generation |-> 1, attempt_count |-> 0,
                 cancel_requested |-> FALSE,
                 source_incarnation |-> topo["S"].incarnation,
                 destination_incarnation |-> topo["D"].incarnation]
       IN SaveThen(m, r, [IdleDrive EXCEPT !.pc = "planned", !.rec = r], IdleDrive)
    /\ UNCHANGED <<slot, to>> /\ driveFrame

(* submit(): authorize, save, enqueue. *)
SubmitAuthorize(m) ==
    /\ up /\ drive[m].pc = "planned"
    /\ LET r == apply_transition(drive[m].rec, "AUTHORIZED")
       IN SaveThen(m, r, [IdleDrive EXCEPT !.pc = "queued"], IdleDrive)
    /\ UNCHANGED <<slot, to>> /\ driveFrame

(* worker_loop pops the movement; drive_movement up to the first attempt.  A  *)
(* linked endpoint is always registered, so "left the topology" cannot occur. *)
DriveStart(m) ==
    /\ up /\ drive[m].pc = "queued"
    /\ LET r == store[m]
           failing(goal) == [IdleDrive EXCEPT !.pc = "fail", !.rec = r, !.goal = goal]
       IN drive' = [drive EXCEPT ![m] =
            IF is_terminal(r.state) \/ r.state = "OUTCOME_UNKNOWN" THEN IdleDrive
            ELSE IF r.cancel_requested THEN failing("CANCELLED")
            ELSE IF find_link("S") = {} \/ find_link("D") = {} THEN failing("FAILED")
            ELSE IF \/ topo["S"].incarnation # r.source_incarnation
                    \/ topo["D"].incarnation # r.destination_incarnation
            THEN failing("SUPERSEDED")
            ELSE [IdleDrive EXCEPT !.pc = "attempt", !.rec = r,
                                   !.source_link = links["S"],
                                   !.destination_link = links["D"]]]
    /\ UNCHANGED <<store, faults, slot, to>> /\ driveFrame

(* The early returns of DriveStart record their verdict. *)
DriveFail(m) ==
    /\ up /\ drive[m].pc = "fail"
    /\ Fail(m, drive[m].rec, drive[m].goal)
    /\ UNCHANGED <<slot, to>> /\ driveFrame

(* Top of the attempt loop: a fresh attempt identity is made durable.  The    *)
(* local copy never learns of a cancel, so "cancelled between attempts" is    *)
(* not reachable from here.                                                   *)
DriveAttempt(m) ==
    /\ up /\ drive[m].pc = "attempt"
    /\ LET r == record_attempt_started(drive[m].rec)
       IN SaveThen(m, r, [drive[m] EXCEPT !.pc = "grantS", !.rec = r], IdleDrive)
    /\ UNCHANGED <<slot, to>> /\ driveFrame

link_of(m, e) == <<e, IF e = "S" THEN drive[m].source_link ELSE drive[m].destination_link>>
GrantPc == [S |-> "grantS", D |-> "grantD"]
AwaitGrantPc == [S |-> "awaitGrantS", D |-> "awaitGrantD"]
AfterGrantPc == [S |-> "grantD", D |-> "execute"]

(* GRANT_TRANSFER to the source, then to the destination. *)
DriveGrant(m, e) ==
    /\ up /\ drive[m].pc = GrantPc[e]
    /\ LET r == drive[m].rec
       IN DriveRequest(m, link_of(m, e), "GRANT_TRANSFER", r.attempt_count,
                       "GRANT_ACK", r.attempt_count,
                       [drive[m] EXCEPT !.pc = AwaitGrantPc[e]], Fail(m, r, "FAILED"))
    /\ driveFrame

DriveGranted(m, e) ==
    /\ up /\ drive[m].pc = AwaitGrantPc[e] /\ Answered(<<"drive", m>>)
    /\ drive' = [drive EXCEPT ![m].pc = AfterGrantPc[e]]
    /\ Release(<<"drive", m>>)
    /\ UNCHANGED <<store, faults, to>> /\ driveFrame

DriveGrantUnanswered_Returns(m, e) ==   \* mutant: the early return records nothing
    /\ up /\ drive[m].pc = AwaitGrantPc[e] /\ Unanswered(<<"drive", m>>)
    /\ drive' = [drive EXCEPT ![m] = IdleDrive]
    /\ Release(<<"drive", m>>)
    /\ UNCHANGED <<store, faults, to>> /\ driveFrame

DriveGrantUnanswered(m, e) ==
    /\ up /\ drive[m].pc = AwaitGrantPc[e] /\ Unanswered(<<"drive", m>>)
    /\ Fail(m, drive[m].rec, "FAILED")
    /\ Release(<<"drive", m>>)
    /\ UNCHANGED to /\ driveFrame

(* The result key is reserved before EXECUTE_MOVEMENT is pushed. *)
DriveExecute(m) ==
    /\ up /\ drive[m].pc = "execute"
    /\ LET r == drive[m].rec
       IN DriveRequest(m, link_of(m, "D"), "EXECUTE_MOVEMENT", r.attempt_count,
                       "ATTEMPT_RESULT", 0,
                       [drive[m] EXCEPT !.pc = "dispatched"], Fail(m, r, "FAILED"))
    /\ driveFrame

(* AUTHORIZED or BYTES_ARRIVED becomes TRANSFERRING; from any other state the  *)
(* transition is refused, the key released and the thread returns.  A failed   *)
(* put returns without releasing the key.                                      *)
DriveTransferring(m) ==
    /\ up /\ drive[m].pc = "dispatched"
    /\ IF check_transition(drive[m].rec.state, "TRANSFERRING")
       THEN LET r == apply_transition(drive[m].rec, "TRANSFERRING")
            IN /\ SaveThen(m, r, [drive[m] EXCEPT !.pc = "awaitResult", !.rec = r], IdleDrive)
               /\ UNCHANGED slot
       ELSE /\ drive' = [drive EXCEPT ![m] = IdleDrive]
            /\ Release(<<"drive", m>>)
            /\ UNCHANGED <<store, faults>>
    /\ UNCHANGED to /\ driveFrame

(* A failed attempt that is not the last one is retried: the record is saved  *)
(* as it is, and the loop continues whether or not the save succeeded.        *)
RetryOrFail(m) ==
    LET r == drive[m].rec
        again == [drive[m] EXCEPT !.pc = "attempt", !.probe = 0, !.verify_link = 0]
    IN IF r.attempt_count >= max_attempts
       THEN Fail(m, r, "FAILED")
       ELSE SaveThen(m, r, again, again)

(* The outcome of the attempt, believed only when it names this attempt. *)
DriveResult(m) ==
    LET t == <<"drive", m>>
        r == drive[m].rec
        arrived == apply_transition(r, "BYTES_ARRIVED")
    IN /\ up /\ drive[m].pc = "awaitResult" /\ Answered(t)
       /\ IF slot[t].arg # r.attempt_count
          THEN /\ slot' = [slot EXCEPT ![t] = Reserve(link_of(m, "D"), "ATTEMPT_RESULT", 0)]
               /\ UNCHANGED <<drive, store, faults>>
          ELSE /\ Release(t)
               /\ CASE slot[t].code = "CANCELLED" -> Fail(m, r, "CANCELLED")
                    [] slot[t].code = "BYTES_ARRIVED" ->
                         SaveThen(m, arrived, [drive[m] EXCEPT !.pc = "verify", !.rec = arrived],
                                  IdleDrive)
                    [] OTHER -> RetryOrFail(m)
       /\ UNCHANGED to /\ driveFrame

DriveResultUnanswered(m) ==
    /\ up /\ drive[m].pc = "awaitResult" /\ Unanswered(<<"drive", m>>)
    /\ Fail(m, drive[m].rec, "OUTCOME_UNKNOWN")
    /\ Release(<<"drive", m>>)
    /\ UNCHANGED to /\ driveFrame

(* verify_destination: probe 0 asks for the full digest, the others for a     *)
(* sampled chunk.  The link is looked up afresh, once for all the probes.     *)
ProbeIndex(k) == IF k = 0 THEN 0 ELSE SampleIndices[k]

DriveProbe(m) ==
    LET k == drive[m].probe
        links_now == IF k = 0 THEN find_link("D") ELSE {drive[m].verify_link}
    IN /\ up /\ drive[m].pc = "verify"
       /\ \/ /\ links_now = {}
             /\ RetryOrFail(m) /\ UNCHANGED <<slot, to>>
          \/ \E i \in links_now :
               DriveRequest(m, <<"D", i>>, IF k = 0 THEN "VERIFY_FULL" ELSE "VERIFY_CHUNK",
                            ProbeIndex(k), "VERIFY_RESPONSE", ProbeIndex(k),
                            [drive[m] EXCEPT !.pc = "awaitProbe", !.verify_link = i],
                            RetryOrFail(m))
       /\ driveFrame

(* The full digest must be the authorized one; a sampled chunk only has to    *)
(* hash to the digest that came with it.  After the last probe: VERIFIED.     *)
DriveProbed(m) ==
    LET t == <<"drive", m>>
        k == drive[m].probe
        verified == apply_transition(drive[m].rec, "VERIFIED")
    IN /\ up /\ drive[m].pc = "awaitProbe" /\ Answered(t)
       /\ IF slot[t].code # (IF k = 0 THEN "MATCH" ELSE "CHUNK") THEN RetryOrFail(m)
          ELSE IF k < Len(SampleIndices)
          THEN /\ drive' = [drive EXCEPT ![m].pc = "verify", ![m].probe = k + 1]
               /\ UNCHANGED <<store, faults>>
          ELSE SaveThen(m, verified, [drive[m] EXCEPT !.pc = "commit", !.rec = verified], IdleDrive)
       /\ Release(t)
       /\ UNCHANGED to /\ driveFrame

DriveProbeUnanswered(m) ==
    /\ up /\ drive[m].pc = "awaitProbe" /\ Unanswered(<<"drive", m>>)
    /\ RetryOrFail(m)
    /\ Release(<<"drive", m>>)
    /\ UNCHANGED to /\ driveFrame

(* The commit barrier goes to the session captured when the drive started. *)
DriveCommit(m) ==
    /\ up /\ drive[m].pc = "commit"
    /\ LET r == drive[m].rec
       IN DriveRequest(m, link_of(m, "D"), "COMMIT_REQUEST", r.generation, "COMMIT_RESULT", 0,
                       [drive[m] EXCEPT !.pc = "awaitCommit"], Fail(m, r, "OUTCOME_UNKNOWN"))
    /\ driveFrame

DriveCommitResult_IgnoresCode(m) ==   \* mutant: any answer for this generation commits
    LET t == <<"drive", m>>
        r == drive[m].rec
    IN /\ up /\ drive[m].pc = "awaitCommit" /\ Answered(t)
       /\ IF slot[t].arg # r.generation THEN Fail(m, r, "OUTCOME_UNKNOWN")
          ELSE SaveThen(m, apply_transition(r, "COMMITTED"), IdleDrive, IdleDrive)
       /\ Release(t)
       /\ UNCHANGED to /\ driveFrame

DriveCommitResult(m) ==
    LET t == <<"drive", m>>
        r == drive[m].rec
    IN /\ up /\ drive[m].pc = "awaitCommit" /\ Answered(t)
       /\ IF slot[t].arg # r.generation THEN Fail(m, r, "OUTCOME_UNKNOWN")
          ELSE IF slot[t].code # "OK" THEN Fail(m, r, "FAILED")
          ELSE SaveThen(m, apply_transition(r, "COMMITTED"), IdleDrive, IdleDrive)
       /\ Release(t)
       /\ UNCHANGED to /\ driveFrame

DriveCommitUnanswered_Fails(m) ==   \* mutant: a silent commit is taken for a failed one
    /\ up /\ drive[m].pc = "awaitCommit" /\ Unanswered(<<"drive", m>>)
    /\ Fail(m, drive[m].rec, "FAILED")
    /\ Release(<<"drive", m>>)
    /\ UNCHANGED to /\ driveFrame

DriveCommitUnanswered(m) ==
    /\ up /\ drive[m].pc = "awaitCommit" /\ Unanswered(<<"drive", m>>)
    /\ Fail(m, drive[m].rec, "OUTCOME_UNKNOWN")
    /\ Release(<<"drive", m>>)
    /\ UNCHANGED to /\ driveFrame

DriveStep(m) ==
    \/ SubmitAuthorize(m) \/ DriveStart(m) \/ DriveFail(m) \/ DriveAttempt(m)
    \/ \E e \in Endpoints : DriveGrant(m, e) \/ DriveGranted(m, e) \/ DriveGrantUnanswered(m, e)
    \/ DriveExecute(m) \/ DriveTransferring(m) \/ DriveResult(m) \/ DriveResultUnanswered(m)
    \/ DriveProbe(m) \/ DriveProbed(m) \/ DriveProbeUnanswered(m)
    \/ DriveCommit(m) \/ DriveCommitResult(m) \/ DriveCommitUnanswered(m)

-----------------------------------------------------------------------------
(* Operator commands: cancel() and reconcile(), each on an admin session.    *)

adminFrame == UNCHANGED <<epoch, up, topo, links, open, drive, fr, endpointVars>>

AdminRequest(t, s, type, reply, next) ==
    /\ slot' = [slot EXCEPT ![t] = Reserve(s, reply, 0)]
    /\ to' = Sent(s, Request(type, t[2], 0))
    /\ admin' = [admin EXCEPT ![t].pc = next]

NotifyPc == [S |-> "notifyS", D |-> "notifyD"]
AwaitAckPc == [S |-> "awaitAckS", D |-> "awaitAckD"]

(* An operator gives a command, within its bound. *)
Issue(c) ==
    c \in Commands /\ issued[c] < MaxCommands /\ issued' = [issued EXCEPT ![c] = @ + 1]

(* get, the terminal check, and cancel_requested on the private copy. *)
CancelStart(m) ==
    LET t == <<"cancel", m>>
    IN /\ up /\ Issue("cancel") /\ admin[t].pc = "idle"
       /\ store[m] # NoRecord /\ ~is_terminal(store[m].state)
       /\ admin' = [admin EXCEPT ![t] =
                      [pc |-> "notifyS", rec |-> [store[m] EXCEPT !.cancel_requested = TRUE]]]
       /\ UNCHANGED <<store, faults, slot, to>> /\ adminFrame

CancelNotify(m, e) ==
    LET t == <<"cancel", m>>
    IN /\ up /\ admin[t].pc = NotifyPc[e]
       /\ \E i \in find_link(e) : AdminRequest(t, <<e, i>>, "CANCEL", "CANCEL_ACK", AwaitAckPc[e])
       /\ UNCHANGED <<store, faults, issued>> /\ adminFrame

(* No live session, an answer, a timeout: the loop goes on to the destination. *)
CancelNextEndpoint(m) ==
    LET t == <<"cancel", m>>
    IN /\ up
       /\ \/ admin[t].pc = "notifyS" /\ find_link("S") = {}
          \/ admin[t].pc = "awaitAckS"
       /\ admin' = [admin EXCEPT ![t].pc = "notifyD"]
       /\ Release(t)
       /\ UNCHANGED <<store, faults, to, issued>> /\ adminFrame

(* After both notices: the transition on the private copy, and an unconditional put. *)
CancelRecord(m) ==
    LET t == <<"cancel", m>>
    IN /\ up
       /\ \/ admin[t].pc = "notifyD" /\ find_link("D") = {}
          \/ admin[t].pc = "awaitAckD"
       /\ \E outcome \in PutOutcomes : Put(m, apply_transition(admin[t].rec, "CANCELLED"), outcome)
       /\ admin' = [admin EXCEPT ![t] = IdleAdmin]
       /\ Release(t)
       /\ UNCHANGED <<to, issued>> /\ adminFrame

ReconcileStart(m) ==
    LET t == <<"reconcile", m>>
    IN /\ up /\ Issue("reconcile") /\ admin[t].pc = "idle"
       /\ store[m].state = "OUTCOME_UNKNOWN"
       /\ admin' = [admin EXCEPT ![t] = [pc |-> "query", rec |-> store[m]]]
       /\ UNCHANGED <<store, faults, slot, to>> /\ adminFrame

(* An unreachable destination leaves the outcome unknown. *)
ReconcileQuery(m) ==
    LET t == <<"reconcile", m>>
    IN /\ up /\ admin[t].pc = "query"
       /\ \/ /\ find_link("D") = {}
             /\ admin' = [admin EXCEPT ![t] = IdleAdmin]
             /\ UNCHANGED <<slot, to>>
          \/ \E i \in find_link("D") :
               AdminRequest(t, <<"D", i>>, "AUTHORITY_QUERY", "AUTHORITY_REPORT", "awaitReport")
       /\ UNCHANGED <<store, faults, issued>> /\ adminFrame

(* A valid marker commits, no marker fails (or cancels), anything else, and   *)
(* no answer, leaves the record as it is.                                     *)
ReconcileReport(m) ==
    LET t == <<"reconcile", m>>
        r == admin[t].rec
        absent == IF r.cancel_requested THEN "CANCELLED" ELSE "FAILED"
    IN /\ up /\ admin[t].pc = "awaitReport"
       /\ \/ /\ Answered(t) /\ slot[t].code = "AUTHORITATIVE"
             /\ \E outcome \in PutOutcomes : Put(m, apply_transition(r, "COMMITTED"), outcome)
          \/ /\ Answered(t) /\ slot[t].code = "ABSENT"
             /\ \E outcome \in PutOutcomes : Put(m, apply_transition(r, absent), outcome)
          \/ /\ Unanswered(t) \/ slot[t].code = "INVALID"
             /\ UNCHANGED <<store, faults>>
       /\ admin' = [admin EXCEPT ![t] = IdleAdmin]
       /\ Release(t)
       /\ UNCHANGED <<to, issued>> /\ adminFrame

AdminStep(m) ==
    \/ CancelStart(m) \/ CancelNextEndpoint(m) \/ CancelRecord(m)
    \/ \E e \in Endpoints : CancelNotify(m, e)
    \/ ReconcileStart(m) \/ ReconcileQuery(m) \/ ReconcileReport(m)

-----------------------------------------------------------------------------
(* Control sessions at the coordinator.                                      *)

(* REGISTER: the registration, then the link; the newest session wins. *)
Register(e) ==
    /\ up /\ conn[e] = "new"
    /\ topo' = [topo EXCEPT ![e] = [incarnation |-> inc[e], live |-> TRUE]]
    /\ links' = [links EXCEPT ![e] = inc[e]]
    /\ open' = [open EXCEPT ![<<e, inc[e]>>] = TRUE]
    /\ conn' = [conn EXCEPT ![e] = "up"]
    /\ UNCHANGED <<store, epoch, up, drive, admin, slot, to, fr,
                   inc, grants, consumed, flags, worker, bytes, marker, faults, issued>>

(* The waiters the head of a session's answers belongs to. *)
Waiters(s, r) ==
    {t \in Threads : /\ slot[t].status = "pending" /\ slot[t].session = s
                     /\ slot[t].type = r.type /\ slot[t].index = key_for(r)
                     /\ t[2] = r.movement}

(* session_loop and deliver: the answer completes its waiter or is dropped. *)
Deliver(s) ==
    /\ up /\ open[s] /\ fr[s] # <<>>
    /\ LET r == Head(fr[s])
       IN slot' = [t \in Threads |->
                     IF t \in Waiters(s, r)
                     THEN [slot[t] EXCEPT !.status = "answered", !.code = r.code, !.arg = r.n]
                     ELSE slot[t]]
    /\ fr' = [fr EXCEPT ![s] = Tail(@)]
    /\ UNCHANGED <<store, epoch, up, topo, links, open, drive, admin, to, endpointVars, faults, issued>>

(* The end of session_loop: waiters are released empty-handed, the link is    *)
(* erased if it is still this one, and the endpoint is marked dead whichever  *)
(* session serves it by now.                                                  *)
SessionEnd(s) ==
    /\ up /\ open[s]
    /\ \/ ~Reads(s) /\ UNCHANGED faults
       \/ MayFault("break") /\ faults' = faults + 1
    /\ open' = [open EXCEPT ![s] = FALSE]
    /\ slot' = [t \in Threads |-> IF slot[t].status = "pending" /\ slot[t].session = s
                                  THEN [slot[t] EXCEPT !.status = "closed"] ELSE slot[t]]
    /\ links' = [links EXCEPT ![s[1]] = IF @ = s[2] THEN 0 ELSE @]
    /\ topo' = [topo EXCEPT ![s[1]].live = FALSE]
    /\ fr' = [fr EXCEPT ![s] = <<>>]
    /\ UNCHANGED <<store, epoch, up, drive, admin, to, endpointVars, issued>>

(* A kill of the coordinator: only the store and the epoch survive. *)
CoordinatorCrash ==
    /\ up /\ "C" \in Crashable /\ epoch < MaxEpoch
    /\ up' = FALSE
    /\ topo' = [e \in Endpoints |-> [incarnation |-> 0, live |-> FALSE]]
    /\ links' = [e \in Endpoints |-> 0]
    /\ open' = [s \in Sessions |-> FALSE]
    /\ drive' = [m \in Movements |-> IdleDrive]
    /\ admin' = [t \in AdminThreads |-> IdleAdmin]
    /\ slot' = [t \in Threads |-> FreeSlot]
    /\ fr' = [s \in Sessions |-> <<>>]
    /\ UNCHANGED <<store, epoch, to, endpointVars, faults, issued>>

Recovered_Fails(r) ==   \* mutant: whatever was in flight is declared failed
    IF check_transition(r.state, "FAILED") /\ r.state # "OUTCOME_UNKNOWN"
    THEN apply_transition(r, "FAILED") ELSE r

(* recover_after_restart on one record: PLANNED fails, every other active     *)
(* state becomes OUTCOME_UNKNOWN; the table refuses it from OUTCOME_UNKNOWN.  *)
Recovered(r) ==
    LET next == IF r.state = "PLANNED" THEN "FAILED" ELSE "OUTCOME_UNKNOWN"
    IN IF check_transition(r.state, next) THEN apply_transition(r, next) ELSE r

(* A failed put is ignored, and leaves its record as the crash did. *)
CoordinatorStart ==
    /\ ~up
    /\ up' = TRUE
    /\ epoch' = epoch + 1
    /\ \E unsaved \in SUBSET Movements :
         /\ IF unsaved = {} THEN UNCHANGED faults ELSE MayFault("io") /\ faults' = faults + 1
         /\ store' = [m \in Movements |->
                        IF m \in unsaved \/ store[m] = NoRecord THEN store[m] ELSE Recovered(store[m])]
    /\ UNCHANGED <<topo, links, open, drive, admin, slot, to, fr, endpointVars, issued>>

-----------------------------------------------------------------------------
(* Endpoint processes.                                                       *)

endpointFrame == UNCHANGED <<issued, store, epoch, up, topo, links, open, drive, admin, slot>>

(* start(): the epoch file is advanced before anything else. *)
EndpointStart(e) ==
    /\ conn[e] = "down" /\ inc[e] < MaxIncarnation
    /\ inc' = [inc EXCEPT ![e] = @ + 1]
    /\ conn' = [conn EXCEPT ![e] = "new"]
    /\ UNCHANGED <<to, fr, grants, consumed, flags, worker, bytes, marker, faults>>
    /\ endpointFrame

Forget_KeepsConsumed(e) ==   \* mutant: the use of a grant outlives the grant
    /\ grants' = [grants EXCEPT ![e] = {}]
    /\ UNCHANGED consumed

(* Every grant of the endpoint is dropped, and with it the mark of its use. *)
Forget(e) ==
    /\ grants' = [grants EXCEPT ![e] = {}]
    /\ consumed' = IF e = "S" THEN {} ELSE consumed

(* A kill, a shutdown, or the supervisor replacing a process that lost its    *)
(* link (it never reconnects by itself).  The old process is gone before the  *)
(* new one starts.                                                            *)
EndpointCrash(e) ==
    /\ conn[e] # "down" /\ (e \in Crashable \/ conn[e] = "lost")
    /\ conn' = [conn EXCEPT ![e] = "down"]
    /\ Forget(e)
    /\ flags' = [flags EXCEPT ![e] = {}]
    /\ to' = [s \in Sessions |-> IF s[1] = e THEN <<>> ELSE to[s]]
    /\ worker' = IF e = "D" THEN [m \in Movements |-> IdleWorker] ELSE worker
    /\ UNCHANGED <<fr, inc, bytes, marker, faults>>
    /\ endpointFrame

(* control_reader_loop ends: the peer closed and everything it sent was read, *)
(* or the link broke or stayed silent for a whole io budget.  The grants die  *)
(* with the link.  A transfer that already runs goes on, and cancellations_   *)
(* is cleared without effect on it: it shares ownership of its own flag, and  *)
(* after the reader nothing else looks a flag up.                             *)
LinkLost(e) ==
    LET s == <<e, inc[e]>>
    IN /\ conn[e] = "up"
       /\ \/ ~open[s] /\ to[s] = <<>> /\ UNCHANGED faults
          \/ MayFault("break") /\ faults' = faults + 1
       /\ conn' = [conn EXCEPT ![e] = "lost"]
       /\ Forget(e)
       /\ to' = [to EXCEPT ![s] = <<>>]
       /\ UNCHANGED <<fr, inc, flags, worker, bytes, marker>>
       /\ endpointFrame

(* The reader thread takes the next control message and handles it inline. *)
Receives(e, type) ==
    LET s == <<e, inc[e]>>
    IN /\ conn[e] = "up" /\ to[s] # <<>> /\ Head(to[s]).type = type
       /\ to' = [to EXCEPT ![s] = Tail(@)]

Incoming(e) == Head(to[<<e, inc[e]>>])

(* A full grant table refuses the grant with an ERROR nobody waits for. *)
OnGrant(e) ==
    LET m == Incoming(e).movement
        a == Incoming(e).n
    IN /\ Receives(e, "GRANT_TRANSFER")
       /\ IF Cardinality(grants[e]) >= max_grants
          THEN UNCHANGED <<grants, fr>>
          ELSE /\ grants' = [grants EXCEPT ![e] = @ \cup {<<m, a>>}]
               /\ fr' = Replied(<<e, inc[e]>>, Response("GRANT_ACK", m, a, "OK"))
       /\ UNCHANGED <<inc, conn, consumed, flags, worker, bytes, marker, faults>>
       /\ endpointFrame

(* A fresh cancellation flag and a transfer thread; no grant, no thread. *)
OnExecute ==
    LET m == Incoming("D").movement
        a == Incoming("D").n
    IN /\ Receives("D", "EXECUTE_MOVEMENT")
       /\ IF <<m, a>> \in grants["D"]
          THEN /\ flags' = [flags EXCEPT !["D"] = @ \ {m}]
               /\ worker' = [worker EXCEPT ![m] = [IdleWorker EXCEPT !.pc = "begin", !.attempt = a]]
          ELSE UNCHANGED <<flags, worker>>
       /\ UNCHANGED <<fr, inc, conn, grants, consumed, bytes, marker, faults>>
       /\ endpointFrame

OnCancel(e) ==
    LET m == Incoming(e).movement
    IN /\ Receives(e, "CANCEL")
       /\ flags' = [flags EXCEPT ![e] = @ \cup {m}]
       /\ fr' = Replied(<<e, inc[e]>>, Response("CANCEL_ACK", m, 0, "OK"))
       /\ UNCHANGED <<inc, conn, grants, consumed, worker, bytes, marker, faults>>
       /\ endpointFrame

(* The answer to a probe.  Without bytes it is a refusal, whose chunk index   *)
(* keeps its default 0 whatever index was asked for.                          *)
VerifyAnswer(req) ==
    LET b == bytes[object[req.movement]]
    IN IF b = "absent" THEN Response("VERIFY_RESPONSE", req.movement, 0, "REFUSED")
       ELSE IF req.type = "VERIFY_CHUNK"
       THEN Response("VERIFY_RESPONSE", req.movement, req.n, "CHUNK")
       ELSE Response("VERIFY_RESPONSE", req.movement, 0, IF b = "good" THEN "MATCH" ELSE "MISMATCH")

OnVerify(type) ==
    /\ Receives("D", type)
    /\ fr' = Replied(<<"D", inc["D"]>>, VerifyAnswer(Incoming("D")))
    /\ UNCHANGED <<endpointVars, faults>>
    /\ endpointFrame

(* The marker of a version is there, and an error keeps it from being read. *)
Unread(v, kinds) ==
    /\ marker[v] # NoMovement /\ \E kind \in kinds : MayFault(kind)
    /\ faults' = faults + 1

(* A marker is written where there is none, and over one that cannot be seen  *)
(* (exists() fails), opened, read or decoded.                                 *)
write_commit_marker(m) ==
    /\ \/ marker[object[m]] = NoMovement /\ UNCHANGED faults
       \/ Unread(object[m], {"read", "stat"})
    /\ marker' = [marker EXCEPT ![object[m]] = m]

(* on_commit_request: a cancelled movement, bytes that are missing or no      *)
(* longer hash, an existing marker and a failed write are refused; otherwise  *)
(* the marker is written before the answer is sent.                           *)
OnCommitRequest ==
    LET m == Incoming("D").movement
        v == object[m]
        answer(code) == Replied(<<"D", inc["D"]>>, Response("COMMIT_RESULT", m, Incoming("D").n, code))
        usable == m \notin flags["D"] /\ bytes[v] = "good"
    IN /\ Receives("D", "COMMIT_REQUEST")
       /\ \/ usable /\ write_commit_marker(m) /\ fr' = answer("OK")
          \/ /\ IF usable /\ marker[v] = NoMovement
                THEN MayFault("io") /\ faults' = faults + 1 ELSE UNCHANGED faults
             /\ fr' = answer("REFUSED")
             /\ UNCHANGED marker
       /\ UNCHANGED <<inc, conn, grants, consumed, flags, worker, bytes>>
       /\ endpointFrame

OnAuthorityQuery_TrustsBytes ==   \* mutant: bytes in place are taken for a commit
    LET m == Incoming("D").movement
        code == IF bytes[object[m]] = "absent" THEN "ABSENT" ELSE "AUTHORITATIVE"
    IN /\ Receives("D", "AUTHORITY_QUERY")
       /\ fr' = Replied(<<"D", inc["D"]>>, Response("AUTHORITY_REPORT", m, 0, code))
       /\ UNCHANGED <<endpointVars, faults>>
       /\ endpointFrame

(* What is reported of a version: the marker and the presence (and size) of   *)
(* the bytes decide, not their digest and not the movement that asks.  A      *)
(* marker that cannot be read is reported as invalid; but when its path       *)
(* cannot be examined either, exists() returns false and there is none.       *)
authority(v, code) ==
    \/ /\ code = IF marker[v] = NoMovement THEN "ABSENT"
                 ELSE IF bytes[v] = "absent" THEN "INVALID" ELSE "AUTHORITATIVE"
       /\ UNCHANGED faults
    \/ Unread(v, {"read"}) /\ code = "INVALID"
    \/ Unread(v, {"stat"}) /\ code = "ABSENT"

OnAuthorityQuery ==
    LET m == Incoming("D").movement
    IN /\ Receives("D", "AUTHORITY_QUERY")
       /\ \E code \in {"ABSENT", "INVALID", "AUTHORITATIVE"} :
            /\ authority(object[m], code)
            /\ fr' = Replied(<<"D", inc["D"]>>, Response("AUTHORITY_REPORT", m, 0, code))
       /\ UNCHANGED endpointVars
       /\ endpointFrame

-----------------------------------------------------------------------------
(* The transfer thread at the destination (execute_movement_worker and       *)
(* run_transfer) and what it needs of the source (serve_data_connection).    *)

workerFrame == UNCHANGED <<to, inc, conn, grants, flags, marker>> /\ endpointFrame

Reporting(m, outcome) == [worker EXCEPT ![m].pc = "report", ![m].outcome = outcome]

GrantOf(m) == <<m, worker[m].attempt>>

(* The topology answer, the connection and an unused grant at the source. *)
TransferPossible(m) ==
    /\ open[<<"D", inc["D"]>>] /\ conn["D"] = "up"
    /\ GrantOf(m) \in grants["S"] \ consumed

(* The grant was dropped with the link before the thread looked it up: no report. *)
WorkerNoGrant(m) ==
    /\ worker[m].pc = "begin" /\ GrantOf(m) \notin grants["D"]
    /\ worker' = [worker EXCEPT ![m] = IdleWorker]
    /\ UNCHANGED <<fr, consumed, bytes, faults>> /\ workerFrame

(* DATA_BEGIN is accepted: the source marks the grant consumed. *)
WorkerBegin(m) ==
    /\ worker[m].pc = "begin" /\ GrantOf(m) \in grants["D"] /\ TransferPossible(m)
    /\ consumed' = consumed \cup {GrantOf(m)}
    /\ worker' = [worker EXCEPT ![m].pc = "pull"]
    /\ UNCHANGED <<fr, bytes, faults>> /\ workerFrame

(* A topology query that is BUSY or times out, no connection, a refusal by    *)
(* the source (which may have consumed the grant by then).  A resume point    *)
(* the source does not confirm also clears the cancellation flag.             *)
WorkerBeginFails(m) ==
    /\ worker[m].pc = "begin" /\ GrantOf(m) \in grants["D"]
    /\ IF TransferPossible(m) THEN MayFault("transfer") /\ faults' = faults + 1 ELSE UNCHANGED faults
    /\ \/ UNCHANGED <<consumed, flags>>
       \/ /\ GrantOf(m) \in grants["S"] /\ consumed' = consumed \cup {GrantOf(m)}
          /\ flags' \in {flags, [flags EXCEPT !["D"] = @ \ {m}]}
    /\ worker' = Reporting(m, "FAILED")
    /\ UNCHANGED <<to, fr, inc, conn, grants, bytes, marker>> /\ endpointFrame

(* Every chunk arrived and the staged bytes hash to the granted digest. *)
WorkerReceived(m) ==
    /\ worker[m].pc = "pull"
    /\ worker' = [worker EXCEPT ![m].pc = "promote"]
    /\ UNCHANGED <<fr, consumed, bytes, faults>> /\ workerFrame

(* Either end sees its cancellation flag at a chunk boundary, or the source    *)
(* shuts down, which it announces with the same code.                         *)
WorkerCancelled(m) ==
    /\ worker[m].pc = "pull"
    /\ conn["S"] = "down" \/ \E e \in Endpoints : m \in flags[e]
    /\ worker' = Reporting(m, "CANCELLED")
    /\ UNCHANGED <<fr, consumed, bytes, faults>> /\ workerFrame

(* The data connection or the staging store failed. *)
WorkerFails(m) ==
    /\ worker[m].pc = "pull"
    /\ IF conn["S"] = "down" THEN UNCHANGED faults ELSE MayFault("transfer") /\ faults' = faults + 1
    /\ worker' = Reporting(m, "FAILED")
    /\ UNCHANGED <<fr, consumed, bytes>> /\ workerFrame

(* promote_staging: the previous object file is removed, ... *)
WorkerClearTarget(m) ==
    /\ worker[m].pc = "promote"
    /\ bytes' = [bytes EXCEPT ![object[m]] = "absent"]
    /\ worker' = [worker EXCEPT ![m].pc = "rename"]
    /\ UNCHANGED <<fr, consumed, faults>> /\ workerFrame

(* ... and the staged file is renamed into its place. *)
WorkerRename(m) ==
    /\ worker[m].pc = "rename"
    /\ bytes' = [bytes EXCEPT ![object[m]] = "good"]
    /\ worker' = Reporting(m, "BYTES_ARRIVED")
    /\ UNCHANGED <<fr, consumed, faults>> /\ workerFrame

(* A step of promote_staging fails: the removal, the rename, or the sync that *)
(* follows the rename, when the bytes are already in place.                   *)
WorkerPromoteFails(m) ==
    /\ worker[m].pc \in {"promote", "rename"}
    /\ MayFault("io") /\ faults' = faults + 1
    /\ \/ UNCHANGED bytes
       \/ worker[m].pc = "rename" /\ bytes' = [bytes EXCEPT ![object[m]] = "good"]
    /\ worker' = Reporting(m, "FAILED")
    /\ UNCHANGED <<fr, consumed>> /\ workerFrame

(* report_attempt_result, the last thing the thread does. *)
WorkerReport(m) ==
    /\ worker[m].pc = "report"
    /\ fr' = Replied(<<"D", inc["D"]>>,
                     Response("ATTEMPT_RESULT", m, worker[m].attempt, worker[m].outcome))
    /\ worker' = [worker EXCEPT ![m] = IdleWorker]
    /\ UNCHANGED <<consumed, bytes, faults>> /\ workerFrame

WorkerStep(m) ==
    \/ WorkerNoGrant(m) \/ WorkerBegin(m) \/ WorkerBeginFails(m) \/ WorkerReceived(m)
    \/ WorkerCancelled(m) \/ WorkerFails(m) \/ WorkerClearTarget(m) \/ WorkerRename(m)
    \/ WorkerPromoteFails(m) \/ WorkerReport(m)

(* Environment: a stored object file is damaged without changing its size. *)
Damage(v) ==
    /\ bytes[v] = "good" /\ MayFault("damage") /\ faults' = faults + 1
    /\ bytes' = [bytes EXCEPT ![v] = "bad"]
    /\ UNCHANGED <<to, fr, inc, conn, grants, consumed, flags, worker, marker>> /\ endpointFrame

-----------------------------------------------------------------------------

Handle(e) ==
    \/ OnGrant(e) \/ OnCancel(e)
    \/ e = "D" /\ (OnExecute \/ OnVerify("VERIFY_FULL") \/ OnVerify("VERIFY_CHUNK")
                   \/ OnCommitRequest \/ OnAuthorityQuery)

Next ==
    \/ \E m \in Movements : SubmitPlan(m) \/ DriveStep(m) \/ AdminStep(m) \/ WorkerStep(m)
    \/ \E s \in Sessions : Deliver(s) \/ SessionEnd(s)
    \/ \E e \in Endpoints : Register(e) \/ EndpointStart(e) \/ EndpointCrash(e) \/ LinkLost(e) \/ Handle(e)
    \/ CoordinatorCrash \/ CoordinatorStart
    \/ \E v \in Versions : Damage(v)

Spec == Init /\ [][Next]_vars

-----------------------------------------------------------------------------
(* Properties.                                                               *)

SlotStatus == {"free", "pending", "answered", "closed"}
DrivePc == {"idle", "planned", "queued", "fail", "attempt", "grantS", "awaitGrantS", "grantD",
            "awaitGrantD", "execute", "dispatched", "awaitResult", "verify", "awaitProbe",
            "commit", "awaitCommit"}
AdminPc == {"idle", "notifyS", "awaitAckS", "notifyD", "awaitAckD", "query", "awaitReport"}
Codes == {"NONE", "OK", "REFUSED", "MATCH", "MISMATCH", "CHUNK", "BYTES_ARRIVED", "FAILED",
          "CANCELLED", "AUTHORITATIVE", "ABSENT", "INVALID"}
RequestTypes == {"GRANT_TRANSFER", "EXECUTE_MOVEMENT", "VERIFY_FULL", "VERIFY_CHUNK",
                 "COMMIT_REQUEST", "AUTHORITY_QUERY", "CANCEL"}
ResponseTypes == {"GRANT_ACK", "ATTEMPT_RESULT", "VERIFY_RESPONSE", "COMMIT_RESULT",
                  "AUTHORITY_REPORT", "CANCEL_ACK"}
Requests == [type : RequestTypes, movement : Movements, n : Nat]
Responses == [type : ResponseTypes, movement : Movements, n : Nat, code : Codes]
Records ==
    [state : MovementState \cup {"NONE"}, generation : Nat, attempt_count : Nat,
     cancel_requested : BOOLEAN, source_incarnation : Nat, destination_incarnation : Nat]
Drives ==
    [pc : DrivePc, rec : Records, goal : Abandoned, probe : 0 .. Len(SampleIndices),
     source_link : Nat, destination_link : Nat, verify_link : Nat]
Slots ==
    [status : SlotStatus, session : Endpoints \X Nat, type : ResponseTypes \cup {"NONE"},
     index : Nat, code : Codes, arg : Nat]
Workers ==
    [pc : {"none", "begin", "pull", "promote", "rename", "report"}, attempt : Nat,
     outcome : {"FAILED", "CANCELLED", "BYTES_ARRIVED"}]

CoordinatorTypeOK ==
    /\ store \in [Movements -> Records]
    /\ epoch \in Nat /\ up \in BOOLEAN
    /\ topo \in [Endpoints -> [incarnation : Nat, live : BOOLEAN]]
    /\ links \in [Endpoints -> 0 .. MaxIncarnation]
    /\ open \in [Sessions -> BOOLEAN]
    /\ drive \in [Movements -> Drives]
    /\ admin \in [AdminThreads -> [pc : AdminPc, rec : Records]]
    /\ slot \in [Threads -> Slots]

ControlTypeOK ==
    /\ to \in [Sessions -> Seq(Requests)]
    /\ fr \in [Sessions -> Seq(Responses)]
    /\ faults \in 0 .. MaxFaults /\ issued \in [CommandKinds -> 0 .. MaxCommands]

EndpointTypeOK ==
    /\ inc \in [Endpoints -> 0 .. MaxIncarnation]
    /\ conn \in [Endpoints -> {"down", "new", "up", "lost"}]
    /\ \A e \in Endpoints : conn[e] # "down" => inc[e] > 0
    /\ grants \in [Endpoints -> SUBSET (Movements \X Nat)]
    /\ consumed \subseteq grants["S"]
    /\ flags \in [Endpoints -> SUBSET Movements]
    /\ worker \in [Movements -> Workers]
    /\ bytes \in [Versions -> {"absent", "good", "bad"}]
    /\ marker \in [Versions -> Movements \cup {NoMovement}]

(* Type invariant: the shape of the coordinator's tables and threads, of the  *)
(* messages on the control links and of the endpoints' state; a process that  *)
(* runs has an incarnation, and the source consumed only grants it holds.     *)
TypeOK == CoordinatorTypeOK /\ ControlTypeOK /\ EndpointTypeOK

(* A record says COMMITTED only when the destination holds a commit marker    *)
(* for the version, whatever the interleaving of drive_movement, cancel and   *)
(* reconcile, and across crashes of every process.                            *)
CommittedHasMarker ==
    \A m \in Movements : store[m].state = "COMMITTED" => marker[object[m]] # NoMovement

(* An answer from which the coordinator concludes that a version is committed. *)
ClaimsCommit(r) ==
    \/ r.type = "COMMIT_RESULT" /\ r.code = "OK"
    \/ r.type = "AUTHORITY_REPORT" /\ r.code = "AUTHORITATIVE"

(* Wherever a commit is claimed, on a control link, in an answered key or in  *)
(* a record, the marker is already there; no thread holds a COMMITTED copy,   *)
(* and a thread that awaits a verdict holds the key of that verdict only.     *)
(* This is the inductive strengthening of CommittedHasMarker.                 *)
CommitEvidence ==
    LET committed(m) == marker[object[m]] # NoMovement
    IN /\ \A m \in Movements :
            /\ store[m].state = "COMMITTED" => committed(m)
            /\ drive[m].rec.state # "COMMITTED"
            /\ drive[m].pc = "awaitCommit" => slot[<<"drive", m>>].type = "COMMIT_RESULT"
            /\ admin[<<"reconcile", m>>].pc = "awaitReport"
                  => slot[<<"reconcile", m>>].type = "AUTHORITY_REPORT"
       /\ \A t \in AdminThreads : admin[t].rec.state # "COMMITTED"
       /\ \A t \in Threads :
            slot[t].status = "answered" /\ ClaimsCommit(slot[t]) => committed(t[2])
       /\ \A s \in Sessions : \A i \in 1 .. Len(fr[s]) :
            ClaimsCommit(fr[s][i]) => committed(fr[s][i].movement)

(* A record says FAILED or SUPERSEDED only when the movement's own commit did *)
(* not take effect and never will: reconcile's "the effect provably did not   *)
(* happen", drive_movement's refusals and the recovery of a PLANNED record.   *)
(* A destination that cannot examine the path of a marker (a "stat" fault)    *)
(* reports that there is none, and is believed.                               *)
FailedHasNoEffect ==
    \A m \in Movements : store[m].state \in {"FAILED", "SUPERSEDED"} => marker[object[m]] # m

(* What the record of a movement says of its outcome. *)
OutcomeOf(state) ==
    CASE state = "COMMITTED" -> "committed"
      [] state \in {"FAILED", "SUPERSEDED", "CANCELLED"} -> "aborted"
      [] state = "OUTCOME_UNKNOWN" -> "unknown"
      [] OTHER -> "pending"

Outcome == INSTANCE MovementOutcome
             WITH outcome <- [m \in Movements |-> OutcomeOf(store[m].state)], effect <- marker,
                  errors <- faults

(* The protocol implements MovementOutcome: terminal records are final, a     *)
(* record resolves as its commit did, and a refused movement never commits    *)
(* later.  Of drive_movement, reconcile and recovery; cancel and "stat"       *)
(* faults are excluded.                                                       *)
ImplementsOutcome == Outcome!Spec

(* Fencing: once a record exists, no put writes an older revision over a      *)
(* newer one, and a new state always comes with a newer generation            *)
(* (apply_transition; drive, reconcile and recovery all work on copies).      *)
GenerationFences ==
    [][\A m \in Movements :
         store[m] # NoRecord /\ store'[m] # store[m]
         => store'[m].generation > store[m].generation]_vars

(* A cancelled movement stays cancelled: no other thread's put resurrects it. *)
CancelIsDurable ==
    [][\A m \in Movements :
         store[m].state = "CANCELLED" => store'[m].state = "CANCELLED"]_vars

(* Scheduling: worker threads run and every await is bounded by io_budget, so *)
(* a drive always takes its next step; a supervisor restarts the coordinator. *)
FairSpec ==
    /\ Spec
    /\ \A m \in Movements : WF_vars(DriveStep(m))
    /\ WF_vars(CoordinatorStart)

Settled == Terminal \cup {"OUTCOME_UNKNOWN"}

(* Every accepted movement settles: it reaches a terminal state, or           *)
(* OUTCOME_UNKNOWN for reconcile to decide, and is never left in flight with  *)
(* no thread driving it.                                                      *)
EveryMovementSettles ==
    \A m \in Movements : [](store[m] # NoRecord => <>(store[m].state \in Settled))
=============================================================================
