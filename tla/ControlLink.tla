---------------------------- MODULE ControlLink ----------------------------
(* The link between one endpoint process and the coordinator, on one framed  *)
(* connection: the handshake and registration, announcements, grants and     *)
(* transfers, the threads that share the link at each end, and how it ends   *)
(* (endpoint_agent.cpp; session_loop and its helpers in coordinator.cpp).    *)
EXTENDS FramedStream, FiniteSets

CONSTANTS
    Secrets,            \* shared secrets the endpoint may be configured with
    CoordinatorSecret,  \* the coordinator's
    Roles,              \* session roles a client may offer
    Movements,          \* movements granted to this endpoint
    Generations,        \* generations of the one object it announces
    Loads,              \* what is asked of the link: movements granted, room for
                        \* grants (2 * max_movements_in_flight), calls of announce(),
                        \* sends that may stall, and whether either process is stopped
    NoThread

ASSUME LinkAssumption ==
    /\ CoordinatorSecret \in Secrets
    /\ "ENDPOINT" \in Roles
    /\ Generations \subseteq Nat \ {0}
    /\ \A l \in Loads : /\ l.movements \subseteq Movements
                        /\ {l.room, l.announcements, l.stalls} \subseteq Nat
                        /\ l.stops \in BOOLEAN
    /\ NoThread \notin Movements /\ "main" \notin Movements

VARIABLES
    load,               \* the one of Loads this behaviour is under
    secret, role,       \* the endpoint's configuration
    main,               \* the thread that connects, registers and announces
    generation,         \* generation of the announcement under way
    announcements,      \* calls of announce() so far
    expiries,           \* of those, the ones that timed out
    acknowledged,       \* generations announce() reported as announced
    reader,             \* control_reader_loop
    alive,              \* control_->alive
    pending,            \* control_->pending: the thread behind each promise
    grants,             \* grants_
    worker,             \* execute_movement_worker of each movement
    stopping, stopper,  \* stopping_, and the thread that calls stop()
    erring,             \* ends whose handler failed and has an ERROR to send
    session,            \* session_loop of the coordinator
    inventory,          \* generation the coordinator's inventory holds, or 0
    driver              \* the coordinator's drive of each movement

mainVars == <<main, generation, announcements, expiries, acknowledged>>
threadVars == <<reader, alive, pending, grants, worker>>
stopVars == <<stopping, stopper>>
config == <<load, secret, role>>
endpointVars == <<config, mainVars, threadVars, stopVars>>
coordinatorVars == <<session, inventory, driver>>
vars == <<streamVars, endpointVars, coordinatorVars, erring>>

Slots == {"ANNOUNCE_ACK", "TOPOLOGY_REPORT"}

OK == 0
STALE_STATE_GENERATION == 1

Init ==
    /\ load \in Loads
    /\ StreamInit(load.stalls)
    /\ secret \in Secrets /\ role \in Roles
    /\ main = "connect" /\ generation = 0 /\ announcements = 0 /\ expiries = 0
    /\ acknowledged = {}
    /\ reader = "none" /\ alive = FALSE
    /\ pending = [k \in Slots |-> NoThread]
    /\ grants = {} /\ worker = [m \in Movements |-> "none"]
    /\ stopping = FALSE /\ stopper = "idle"
    /\ erring = {}
    /\ session = "hello" /\ inventory = 0
    /\ driver = [m \in Movements |-> "ready"]

----------------------------------------------------------------------------
(* The handshake (session.cpp).  Each end draws one nonce for the one        *)
(* session, so a MAC or key is told apart by its secret and by whose it is.  *)

compute_client_mac(s, r) == <<"client", s, r>>
compute_server_mac(s, client_mac) == <<"server", s, client_mac>>
derive_session_key(s) == <<"session", s>>

make_hello_request == [role |-> role, mac |-> compute_client_mac(secret, role)]

accept_hello_request_AnyMac(hello) == TRUE
accept_hello_request(hello) ==
    hello.mac = compute_client_mac(CoordinatorSecret, hello.role)

verify_hello_response(server_mac) ==
    server_mac = compute_server_mac(secret, compute_client_mac(secret, role))

----------------------------------------------------------------------------
(* The endpoint's main thread: connect_to_coordinator                        *)

OnlyMain == UNCHANGED <<config, generation, announcements, expiries, acknowledged,
                        threadVars, stopVars, coordinatorVars, erring>>

SendHello(outcome) ==
    /\ main = "connect"
    /\ Say("client", "HELLO", make_hello_request, outcome)
    /\ main' = IF SendOk("client", "HELLO", outcome) THEN "await hello" ELSE "abandon"
    /\ OnlyMain

MainReceives ==
    /\ main \in {"await hello", "await register"}
    /\ Receive("client") /\ UNCHANGED main /\ OnlyMain

MainReceiveFails ==
    /\ main \in {"await hello", "await register"}
    /\ Failing("client") /\ main' = "abandon" /\ OnlyMain

HandleHelloAck ==
    LET frame == held["client"]
        proved == frame.type = "HELLO_ACK" /\ verify_hello_response(frame.body)
    IN  /\ main = "await hello" /\ ~Idle("client")
        /\ IF proved THEN set_session_key("client", derive_session_key(secret))
           ELSE NoAnswer("client")
        /\ main' = IF proved THEN "keyed" ELSE "abandon"
        /\ OnlyMain

SendRegister(outcome) ==
    /\ main = "keyed"
    /\ Say("client", "REGISTER", 0, outcome)
    /\ main' = IF SendOk("client", "REGISTER", outcome) THEN "await register" ELSE "abandon"
    /\ OnlyMain

\* Only a REGISTER_ACK registers; only then does a second thread read the stream.
HandleRegisterAck ==
    LET registered == held["client"].type = "REGISTER_ACK"
    IN  /\ main = "await register" /\ ~Idle("client")
        /\ NoAnswer("client")
        /\ main' = IF registered THEN "ready" ELSE "abandon"
        /\ reader' = IF registered THEN "reading" ELSE reader
        /\ alive' = registered
        /\ UNCHANGED <<config, generation, announcements, expiries, acknowledged,
                       pending, grants, worker, stopVars, coordinatorVars, erring>>

\* connect_to_coordinator returns an error and its stream is closed.
Abandon ==
    /\ main = "abandon" /\ main' = "failed"
    /\ Shut("client") /\ OnlyMain


----------------------------------------------------------------------------
(* The endpoint's senders: announce() and the detached transfers             *)

\* send_control: refused unless the link is alive.
send_control(type, body, outcome) ==
    IF alive THEN Say("client", type, body, outcome)
    ELSE outcome = "nothing" /\ UNCHANGED streamVars

SentControl(type, outcome) == alive /\ SendOk("client", type, outcome)

Announce_KeepsSlot(g, outcome) ==
    /\ main = "ready" /\ announcements < load.announcements
    /\ alive /\ pending["ANNOUNCE_ACK"] = NoThread
    /\ send_control("ANNOUNCE_OBJECT", g, outcome)
    /\ generation' = g /\ announcements' = announcements + 1
    /\ main' = IF SentControl("ANNOUNCE_OBJECT", outcome) THEN "waiting" ELSE "ready"
    /\ pending' = [pending EXCEPT !["ANNOUNCE_ACK"] = "main"]
    /\ UNCHANGED <<config, expiries, acknowledged, reader, alive, grants, worker,
                   stopVars, coordinatorVars, erring>>

\* announce(): the slot is taken, the message sent, and the slot given back if
\* the send failed.
Announce(g, outcome) ==
    LET sent == SentControl("ANNOUNCE_OBJECT", outcome)
    IN  /\ main = "ready" /\ announcements < load.announcements
        /\ alive /\ pending["ANNOUNCE_ACK"] = NoThread
        /\ send_control("ANNOUNCE_OBJECT", g, outcome)
        /\ generation' = g /\ announcements' = announcements + 1
        /\ main' = IF sent THEN "waiting" ELSE "ready"
        /\ pending' = [pending EXCEPT !["ANNOUNCE_ACK"] = IF sent THEN "main" ELSE NoThread]
        /\ UNCHANGED <<config, expiries, acknowledged, reader, alive, grants, worker,
                       stopVars, coordinatorVars, erring>>

\* wait_for gives up; the slot is erased, by its key, in a step of its own.
AnnounceExpires ==
    /\ main = "waiting" /\ main' = "expired" /\ expiries' = expiries + 1
    /\ UNCHANGED <<streamVars, config, generation, announcements, acknowledged,
                   threadVars, stopVars, coordinatorVars, erring>>

AnnounceErases ==
    /\ main = "expired" /\ main' = "ready"
    /\ pending' = [pending EXCEPT !["ANNOUNCE_ACK"] = NoThread]
    /\ UNCHANGED <<streamVars, config, generation, announcements, expiries,
                   acknowledged, reader, alive, grants, worker, stopVars, coordinatorVars,
                   erring>>

OnlyWorker == UNCHANGED <<config, mainVars, reader, alive, grants, stopVars,
                          coordinatorVars, erring>>

\* execute_movement_worker looks its grant up again, and run_transfer asks for
\* the topology; one query at a time.
WorkerStarts(m, outcome) ==
    LET sent == SentControl("TOPOLOGY_REQUEST", outcome)
        free == pending["TOPOLOGY_REPORT"] = NoThread
    IN  /\ worker[m] = "start" /\ stopper # "stopped"
        /\ IF m \in grants /\ free
           THEN /\ send_control("TOPOLOGY_REQUEST", 0, outcome)
                /\ pending' = [pending EXCEPT !["TOPOLOGY_REPORT"] = IF sent THEN m ELSE NoThread]
           ELSE UNCHANGED <<streamVars, pending>> /\ outcome = "nothing"
        /\ worker' = [worker EXCEPT ![m] =
                         CASE m \notin grants -> "done"
                           [] m \in grants /\ free /\ sent -> "waiting"
                           [] m \in grants /\ ~(free /\ sent) -> "report failed"]
        /\ OnlyWorker

WorkerExpires(m) ==
    /\ worker[m] = "waiting" /\ worker' = [worker EXCEPT ![m] = "expired"]
    /\ UNCHANGED <<streamVars, pending>> /\ OnlyWorker

WorkerErases(m) ==
    /\ worker[m] = "expired" /\ worker' = [worker EXCEPT ![m] = "report failed"]
    /\ pending' = [pending EXCEPT !["TOPOLOGY_REPORT"] = NoThread]
    /\ UNCHANGED streamVars /\ OnlyWorker

\* The transfer itself (DataPlane) ends one way or the other.
WorkerMoves(m, result) ==
    /\ worker[m] = "moving" /\ worker' = [worker EXCEPT ![m] = result]
    /\ UNCHANGED <<streamVars, pending>> /\ OnlyWorker

\* report_attempt_result.  A transfer whose good report cannot be sent is
\* reported as failed; that report is not tried again.
WorkerReports(m, outcome) ==
    /\ worker[m] \in {"report arrived", "report failed"}
    /\ send_control("ATTEMPT_RESULT", m, outcome)
    /\ worker' = [worker EXCEPT ![m] =
                     IF @ = "report arrived" /\ ~SentControl("ATTEMPT_RESULT", outcome)
                     THEN "report failed" ELSE "done"]
    /\ UNCHANGED pending /\ OnlyWorker

----------------------------------------------------------------------------
(* The endpoint's reader: control_reader_loop and handle_control             *)

OnlyReader == UNCHANGED <<config, generation, announcements, expiries, stopVars, alive,
                          coordinatorVars>>

\* Every promise still in the table is set to an empty frame.
Drain ==
    /\ pending' = [k \in Slots |-> NoThread]
    /\ main' = IF main = "waiting" /\ pending["ANNOUNCE_ACK"] = "main" THEN "ready" ELSE main
    /\ worker' = [m \in Movements |->
                     IF worker[m] = "waiting" /\ pending["TOPOLOGY_REPORT"] = m
                     THEN "report failed" ELSE worker[m]]

ReaderReceives ==
    /\ reader = "reading" /\ "client" \notin erring
    /\ Receive("client")
    /\ UNCHANGED <<endpointVars, coordinatorVars, erring>>

\* The loop's own test: it leaves without draining what request_shutdown drains.
ReaderLeaves ==
    /\ reader = "reading" /\ Idle("client") /\ "client" \notin erring /\ stopping
    /\ reader' = "ended"
    /\ UNCHANGED <<streamVars, config, mainVars, alive, pending, grants, worker,
                   stopVars, coordinatorVars, erring>>

ReaderFails_KeepsGrants ==
    /\ reader = "reading" /\ "client" \notin erring
    /\ Failing("client")
    /\ reader' = "ended" /\ Drain
    /\ UNCHANGED <<acknowledged, grants, erring>> /\ OnlyReader

\* The link has ended: waiters are released and its grants die with it.
ReaderFails ==
    /\ reader = "reading" /\ "client" \notin erring
    /\ Failing("client")
    /\ reader' = "ended" /\ Drain /\ grants' = {}
    /\ UNCHANGED <<acknowledged, erring>> /\ OnlyReader

Held(type) == reader = "reading" /\ held["client"].type = type

\* A reply completes the request that waits for its type.
ReaderFulfils ==
    \E k \in Slots :
        /\ Held(k) /\ pending[k] # NoThread
        /\ NoAnswer("client")
        /\ pending' = [pending EXCEPT ![k] = NoThread]
        /\ IF k = "ANNOUNCE_ACK" /\ main = "waiting"
           THEN /\ main' = "ready"
                /\ acknowledged' = acknowledged \cup
                        (IF held["client"].body = OK THEN {generation} ELSE {})
           ELSE UNCHANGED <<main, acknowledged>>
        /\ worker' = [m \in Movements |->
                         IF pending[k] = m /\ worker[m] = "waiting" THEN "moving" ELSE worker[m]]
        /\ UNCHANGED <<reader, grants, erring>> /\ OnlyReader

OnlyHandler == UNCHANGED <<main, acknowledged, reader, pending>> /\ OnlyReader

\* handle_control on a reply nobody waits for.  Its case for a reported error is
\* not modelled: session_loop reports a refused registration, which
\* connect_to_coordinator reads, or a push that failed, and nothing is accepted
\* after that.
ReaderDrops ==
    /\ \/ Held("ANNOUNCE_ACK") /\ pending["ANNOUNCE_ACK"] = NoThread /\ UNCHANGED erring
       \/ /\ Held("TOPOLOGY_REPORT") /\ pending["TOPOLOGY_REPORT"] = NoThread
          /\ erring' = erring \cup {"client"}
    /\ NoAnswer("client")
    /\ UNCHANGED <<grants, worker>> /\ OnlyHandler

\* The answer a handler sends through send_control.
Reply(type, body, outcome) ==
    IF alive THEN Answer("client", type, body, outcome)
    ELSE outcome = "nothing" /\ NoAnswer("client")

on_grant_AckFirst(outcome) ==
    LET m == held["client"].body
    IN  /\ Held("GRANT_TRANSFER")
        /\ Reply("GRANT_ACK", m, outcome)
        /\ grants' = IF Cardinality(grants) < load.room THEN grants \cup {m} ELSE grants
        /\ erring' = IF SentControl("GRANT_ACK", outcome) THEN erring ELSE erring \cup {"client"}
        /\ UNCHANGED worker /\ OnlyHandler

\* on_grant: refused when the table is full, whether or not the grants in it
\* have been used.
on_grant(outcome) ==
    LET m == held["client"].body
        room == Cardinality(grants) < load.room
    IN  /\ Held("GRANT_TRANSFER")
        /\ IF room THEN Reply("GRANT_ACK", m, outcome)
           ELSE outcome = "nothing" /\ NoAnswer("client")
        /\ grants' = IF room THEN grants \cup {m} ELSE grants
        /\ erring' = IF room /\ SentControl("GRANT_ACK", outcome) THEN erring
                     ELSE erring \cup {"client"}
        /\ UNCHANGED worker /\ OnlyHandler

on_execute ==
    LET m == held["client"].body
    IN  /\ Held("EXECUTE_MOVEMENT")
        /\ NoAnswer("client")
        /\ worker' = IF m \in grants THEN [worker EXCEPT ![m] = "start"] ELSE worker
        /\ erring' = IF m \in grants THEN erring ELSE erring \cup {"client"}
        /\ UNCHANGED grants /\ OnlyHandler

\* A handler failed: the reader says so, and goes on whether or not it could.
ReaderReports(outcome) ==
    /\ reader = "reading" /\ "client" \in erring
    /\ send_control("ERROR", 0, outcome)
    /\ erring' = erring \ {"client"}
    /\ UNCHANGED <<endpointVars, coordinatorVars>>

----------------------------------------------------------------------------
(* The endpoint's stop(), called by the program that owns the agent          *)

StopSignals ==
    /\ load.stops /\ stopper = "idle" /\ main \in {"ready", "waiting", "expired"}
    /\ stopping' = TRUE /\ stopper' = "signalled"
    /\ UNCHANGED <<streamVars, config, mainVars, threadVars, coordinatorVars, erring>>

StopShuts ==
    /\ stopper = "signalled" /\ stopper' = "shut"
    /\ alive' = FALSE /\ shut' = shut \cup {"client"}
    /\ UNCHANGED <<key, send_sequence, expected_sequence, wire, held, calls, firstLost,
                   refused, stalls, config, mainVars, reader, pending, grants, worker,
                   stopping, coordinatorVars, erring>>

StopDrains ==
    /\ stopper = "shut" /\ stopper' = "joining"
    /\ Drain
    /\ UNCHANGED <<streamVars, config, generation, announcements, expiries,
                   acknowledged, reader, alive, grants, stopping, coordinatorVars, erring>>

StopJoins ==
    /\ stopper = "joining" /\ reader = "ended" /\ stopper' = "stopped"
    /\ UNCHANGED <<streamVars, config, mainVars, threadVars, stopping,
                   coordinatorVars, erring>>

----------------------------------------------------------------------------
(* The coordinator's session_loop                                            *)

\* Where session_loop blocks in receive(), and where drivers find the link.
Reading == {"hello", "open", "registered"}
Listed == {"registering", "registered"}
LinkAlive == session # "ended" /\ "server" \notin shut

OnlySession == UNCHANGED <<endpointVars>>

SessionReceives ==
    /\ session \in Reading /\ "server" \notin erring
    /\ Receive("server")
    /\ UNCHANGED <<endpointVars, coordinatorVars, erring>>

\* The hello is answered in the clear, and only then is the session keyed.
AcceptHello(outcome) ==
    LET hello == held["server"].body
        proved == hello.role = "ENDPOINT" /\ accept_hello_request(hello)
    IN  /\ session = "hello" /\ held["server"].type = "HELLO"
        /\ IF hello.role # "ENDPOINT" THEN Say("server", "HELLO_REJECT", 0, outcome)
           ELSE IF proved
           THEN Say("server", "HELLO_ACK", compute_server_mac(CoordinatorSecret, hello.mac), outcome)
           ELSE outcome = "nothing" /\ UNCHANGED streamVars
        /\ session' = IF proved /\ SendOk("server", "HELLO_ACK", outcome) THEN "keying"
                      ELSE "leaving"
        /\ UNCHANGED <<inventory, driver, erring>> /\ OnlySession

KeySession ==
    /\ session = "keying" /\ session' = "open"
    /\ set_session_key("server", derive_session_key(CoordinatorSecret))
    /\ UNCHANGED <<inventory, driver, erring>> /\ OnlySession

Got(type) == session \in {"open", "registered"} /\ held["server"].type = type

push(type, body, outcome) ==
    IF LinkAlive THEN Answer("server", type, body, outcome)
    ELSE outcome = "nothing" /\ NoAnswer("server")

Pushed(type, outcome) == LinkAlive /\ SendOk("server", type, outcome)
ErrUnless(ok) == erring' = IF ok THEN erring ELSE erring \cup {"server"}

\* REGISTER: the topology may refuse the endpoint; otherwise the link is listed
\* for the drivers before the acknowledgement is pushed.
HandleRegister ==
    /\ Got("REGISTER") /\ NoAnswer("server")
    /\ \/ session' = "registering" /\ UNCHANGED erring
       \/ UNCHANGED session /\ ErrUnless(FALSE)
    /\ UNCHANGED <<inventory, driver>> /\ OnlySession

AckRegister(outcome) ==
    /\ session = "registering" /\ session' = "registered"
    /\ push("REGISTER_ACK", 0, outcome) /\ ErrUnless(Pushed("REGISTER_ACK", outcome))
    /\ UNCHANGED <<inventory, driver>> /\ OnlySession

HandleAnnounce_NeverStale(outcome) ==
    /\ Got("ANNOUNCE_OBJECT")
    /\ push("ANNOUNCE_ACK", OK, outcome) /\ ErrUnless(Pushed("ANNOUNCE_ACK", outcome))
    /\ inventory' = held["server"].body
    /\ UNCHANGED <<session, driver>> /\ OnlySession

\* ANNOUNCE_OBJECT: an older generation than the inventory's is refused.
HandleAnnounce(outcome) ==
    LET g == held["server"].body
    IN  /\ Got("ANNOUNCE_OBJECT")
        /\ push("ANNOUNCE_ACK", IF inventory > g THEN STALE_STATE_GENERATION ELSE OK, outcome)
        /\ ErrUnless(Pushed("ANNOUNCE_ACK", outcome))
        /\ inventory' = IF inventory > g THEN inventory ELSE g
        /\ UNCHANGED <<session, driver>> /\ OnlySession

HandleTopology(outcome) ==
    /\ Got("TOPOLOGY_REQUEST")
    /\ push("TOPOLOGY_REPORT", 0, outcome) /\ ErrUnless(Pushed("TOPOLOGY_REPORT", outcome))
    /\ UNCHANGED coordinatorVars /\ OnlySession

\* deliver(): a response wakes the driver that waits for it; one nobody waits
\* for, like a reported error, is dropped.
Deliver ==
    LET m == held["server"].body
    IN  /\ \/ /\ Got("GRANT_ACK")
              /\ driver' = [driver EXCEPT ![m] = IF @ = "granting" THEN "granted" ELSE @]
           \/ /\ Got("ATTEMPT_RESULT")
              /\ driver' = [driver EXCEPT ![m] = IF @ = "executing" THEN "reported" ELSE @]
           \/ Got("ERROR") /\ UNCHANGED driver
        /\ NoAnswer("server")
        /\ UNCHANGED <<session, inventory, erring>> /\ OnlySession

SessionReports(outcome) ==
    /\ session \in Reading /\ "server" \in erring
    /\ push("ERROR", 0, outcome) /\ erring' = erring \ {"server"}
    /\ UNCHANGED coordinatorVars /\ OnlySession

SessionFails ==
    /\ session \in Reading /\ "server" \notin erring
    /\ Failing("server") /\ session' = "leaving"
    /\ UNCHANGED <<inventory, driver, erring>> /\ OnlySession

\* The end of session_loop: waiting drivers are released, the link is unlisted
\* and its stream closed.
SessionEnds ==
    /\ session = "leaving" /\ session' = "ended"
    /\ driver' = [m \in Movements |->
                     IF driver[m] \in {"granting", "executing"} THEN "failed" ELSE driver[m]]
    /\ Shut("server")
    /\ UNCHANGED <<inventory, erring>> /\ OnlySession

\* request_shutdown of the coordinator reaches the link.
CoordinatorShuts ==
    /\ load.stops /\ session \in Listed /\ "server" \notin shut /\ shut' = shut \cup {"server"}
    /\ UNCHANGED <<key, send_sequence, expected_sequence, wire, held, calls, firstLost,
                   refused, stalls, endpointVars, coordinatorVars, erring>>

----------------------------------------------------------------------------
(* The coordinator's drives: request() and await()                           *)

OnlyDriver == UNCHANGED <<endpointVars, session, inventory, erring>>

Tell(m, type, outcome, waiting) ==
    /\ IF LinkAlive THEN Say("server", type, m, outcome)
       ELSE outcome = "nothing" /\ UNCHANGED streamVars
    /\ driver' = [driver EXCEPT ![m] = IF Pushed(type, outcome) THEN waiting ELSE "failed"]
    /\ OnlyDriver

DriverGrants(m, outcome) ==
    /\ m \in load.movements /\ driver[m] = "ready" /\ session \in Listed /\ LinkAlive
    /\ Tell(m, "GRANT_TRANSFER", outcome, "granting")

DriverExecutes(m, outcome) ==
    /\ driver[m] = "granted" /\ Tell(m, "EXECUTE_MOVEMENT", outcome, "executing")

DriverExpires(m) ==
    /\ driver[m] \in {"granting", "executing"}
    /\ driver' = [driver EXCEPT ![m] = "failed"]
    /\ UNCHANGED streamVars /\ OnlyDriver

----------------------------------------------------------------------------

SendOutcomes == {"all", "header", "nothing"}

Connecting ==
    \/ \E o \in SendOutcomes : SendHello(o) \/ SendRegister(o)
    \/ MainReceives \/ HandleHelloAck \/ HandleRegisterAck \/ Abandon

Reader ==
    \/ ReaderReceives \/ ReaderLeaves \/ ReaderFulfils \/ ReaderDrops \/ on_execute
    \/ \E o \in SendOutcomes : on_grant(o) \/ ReaderReports(o)

Worker(m) ==
    \/ \E o \in SendOutcomes : WorkerStarts(m, o) \/ WorkerReports(m, o)
    \/ WorkerExpires(m) \/ WorkerErases(m)
    \/ \E r \in {"report arrived", "report failed"} : WorkerMoves(m, r)

Stop == StopShuts \/ StopDrains \/ StopJoins

Session ==
    \/ SessionReceives \/ KeySession \/ HandleRegister \/ Deliver \/ SessionEnds
    \/ \E o \in SendOutcomes :
         \/ AcceptHello(o) \/ AckRegister(o) \/ HandleAnnounce(o) \/ HandleTopology(o)
         \/ SessionReports(o)

Next ==
    \/ Connecting \/ MainReceiveFails
    \/ \E g \in Generations, o \in SendOutcomes : Announce(g, o)
    \/ AnnounceExpires \/ AnnounceErases
    \/ Reader \/ ReaderFails
    \/ \E m \in Movements : Worker(m)
    \/ StopSignals \/ Stop
    \/ Session \/ SessionFails \/ CoordinatorShuts
    \/ \E m \in Movements, o \in SendOutcomes : DriverGrants(m, o) \/ DriverExecutes(m, o)
    \/ \E m \in Movements : DriverExpires(m)

\* Every thread that can run does, and a receive() that gets no whole frame gives
\* up after io_budget_millis.  Nobody has to announce, to grant or to stop.
Fairness ==
    /\ WF_vars(Connecting) /\ WF_vars(MainReceiveFails)
    /\ WF_vars(Reader) /\ WF_vars(ReaderFails)
    /\ WF_vars(Session) /\ WF_vars(SessionFails)
    /\ WF_vars(Stop)

Spec == Init /\ [][Next]_vars /\ Fairness

----------------------------------------------------------------------------

\* The coordinator keys a session only with an endpoint that holds its secret
\* and offered the role of the listener, and two keyed ends have the same key.
KeyedIsPeer ==
    /\ key["server"] # NoKey => secret = CoordinatorSecret /\ role = "ENDPOINT"
    /\ \A e \in Ends : key[e] # NoKey /\ key[Peer(e)] # NoKey => key[e] = key[Peer(e)]

\* "A caller that sees success knows the inventory holds this version"
\* (announce() in endpoint_agent.cpp): while no earlier announcement has timed
\* out, a generation reported as announced is in the coordinator's inventory or
\* has been superseded there.  The one slot per reply type makes the proviso
\* necessary: a late acknowledgement is taken for the next announcement's.
AckedIsAnnounced ==
    expiries = 0 => \A g \in acknowledged : g <= inventory

\* A promise in the endpoint's table belongs to a thread that is waiting for it
\* or about to erase it: no path through announce() or run_transfer leaves its
\* slot taken for the next caller to find BUSY.
SlotHolderWaits ==
    /\ pending["ANNOUNCE_ACK"] # NoThread => main \in {"waiting", "expired"}
    /\ \A m \in Movements :
         pending["TOPOLOGY_REPORT"] = m => worker[m] \in {"waiting", "expired"}

\* A grant the coordinator has seen acknowledged is in the endpoint's table for
\* as long as the endpoint reads the link (on_grant; nothing else removes one).
AckedGrantIsHeld ==
    \A m \in Movements :
        driver[m] \in {"granted", "executing"} /\ reader = "reading" => m \in grants

\* No transfer gets under way on a grant whose link has ended, although its
\* thread may have been started before (control_reader_loop,
\* execute_movement_worker).
NoTransferAfterLinkEnd ==
    [][\A m \in Movements :
          worker[m] = "start" /\ worker'[m] = "waiting" => reader = "reading" \/ stopping]_vars

\* When the endpoint stops reading its link, which it does without closing the
\* connection, or closes it, the coordinator's session ends too; and when the
\* coordinator closes it the endpoint stops reading.
LinkEndsAtBothEnds ==
    /\ (reader = "ended" \/ "client" \in shut) ~> session = "ended"
    /\ (session = "ended") ~> reader # "reading"
=============================================================================
