------------------------- MODULE ControlLinkProofs -------------------------
(* What the two processes of a control link, and the threads they run on it, *)
(* can count on, for any number of movements, generations, announcements,    *)
(* stalls and stops.                                                         *)
EXTENDS ControlLinkStreamProofs

----------------------------------------------------------------------------
(* What is under way                                                         *)

\* EXECUTE_MOVEMENT is sent once per movement, and starts its thread once.
ExecuteInv ==
    \A m \in Movements :
        /\ driver[m] \in {"ready", "granting", "granted"} => worker[m] = "none"
        /\ \A f \in InTransit("server") : f.type = "EXECUTE_MOVEMENT" /\ f.body = m =>
             /\ worker[m] = "none" /\ driver[m] \notin {"ready", "granting", "granted"}
             /\ \A g \in InTransit("server") : g.type = f.type /\ g.body = m => g = f

GrantInv ==
    /\ reader = "none" => /\ \A f \in InTransit("client") : f.type # "GRANT_ACK"
                          /\ \A m \in Movements : driver[m] \notin {"granted", "executing"}
    /\ reader = "reading" =>
         /\ \A f \in InTransit("client") : f.type = "GRANT_ACK" => f.body \in grants
         /\ AckedGrantIsHeld

\* Sent before the first of the endpoint's sends that failed.
Live(f) == firstLost["client"] = 0 \/ f.sequence < firstLost["client"]

Announced == {f \in InTransit("client") : f.type = "ANNOUNCE_OBJECT" /\ Live(f)}
Acks == {f \in InTransit("server") : f.type = "ANNOUNCE_ACK"}

\* While nothing has timed out, the one announcement under way is on its way to
\* the coordinator or acknowledged.
AnnounceInv ==
    /\ inventory \in Nat /\ generation \in Nat /\ expiries \in Nat /\ acknowledged \subseteq Nat
    /\ \A f \in InTransit("client") : f.type = "ANNOUNCE_OBJECT" => f.body \in Nat
    /\ reader = "none" => /\ \A f \in InTransit("client") : f.type # "ANNOUNCE_OBJECT"
                          /\ Acks = {}
    /\ main = "expired" => expiries # 0
    /\ expiries = 0 /\ reader = "reading" =>
         /\ main = "ready" /\ alive => Announced = {} /\ Acks = {}
         /\ main = "waiting" =>
              /\ \A f \in Announced : f.body = generation /\ Acks = {}
              /\ \A f, g \in Announced : f = g
              /\ \A f, g \in Acks : f = g
              /\ \A f \in Acks : f.body = OK => generation <= inventory
    /\ AckedIsAnnounced

----------------------------------------------------------------------------
(* Keys                                                                      *)

Opened == {"open", "registering", "registered"}

KeyInv ==
    /\ DOMAIN key = Ends
    /\ \A f \in InTransit("client") : f.type = "HELLO" => f.body = make_hello_request
    /\ session \in Opened \cup {"keying"} \/ key["server"] # NoKey
          => secret = CoordinatorSecret /\ role = "ENDPOINT"
    /\ session \in Opened => key["server"] # NoKey
    /\ key["server"] \in {NoKey, derive_session_key(CoordinatorSecret)}
    /\ key["client"] \in {NoKey, derive_session_key(secret)}
    /\ \A f \in InTransit("server") :
         f.type = "HELLO_ACK" /\ verify_hello_response(f.body) => secret = CoordinatorSecret
    /\ \A f \in InTransit("server") : f.type = "HELLO_ACK" => session # "hello"
    /\ key["client"] # NoKey => session # "hello" /\ secret = CoordinatorSecret

\* A frame is tagged as its type asks for, with a key its receiver has, or, in
\* the case of the coordinator, has by the time it reads it.
TagInv ==
    /\ \A e \in Ends : \A f \in InTransit(e) \ {NoFrame} : f.type \in Handshake <=> f.tag = NoKey
    /\ \A f \in InTransit("client") : f.tag \in {NoKey, key["client"]}
    /\ \A f \in InTransit("server") :
         f.tag # NoKey => f.tag = key["server"] /\ key["client"] # NoKey
    /\ session \in {"registering", "registered"} => key["client"] # NoKey
    /\ "server" \in erring => key["client"] # NoKey
    /\ \A m \in Movements : driver[m] # "ready" => key["client"] # NoKey

\* How keys and the session change.
KeyMoves ==
    \/ key' = key
    \/ /\ key' = [key EXCEPT !["client"] = derive_session_key(secret)] /\ session' = session
       /\ held["client"].type = "HELLO_ACK" /\ verify_hello_response(held["client"].body)
    \/ /\ key' = [key EXCEPT !["server"] = derive_session_key(CoordinatorSecret)]
       /\ session = "keying" /\ session' = "open"

SessionMoves ==
    \/ session' = session
    \/ /\ session = "hello" /\ session' = "keying" /\ held["server"].type = "HELLO"
       /\ held["server"].body.role = "ENDPOINT" /\ accept_hello_request(held["server"].body)
    \/ /\ session = "keying" /\ session' = "open"
       /\ key' = [key EXCEPT !["server"] = derive_session_key(CoordinatorSecret)]
    \/ Got("REGISTER") /\ session' = "registering"
    \/ session = "registering" /\ session' = "registered"
    \/ session' \in {"leaving", "ended"}

\* What else gives the coordinator something to send.
TalkMoves ==
    /\ "server" \in erring' =>
         \/ "server" \in erring \/ session \in Listed
         \/ \E type \in {"REGISTER", "ANNOUNCE_OBJECT", "TOPOLOGY_REQUEST"} : Got(type)
    /\ \A m \in Movements : driver[m] = "ready" /\ driver'[m] # "ready" => session \in Listed

LinkMoves == UNCHANGED config /\ KeyMoves /\ SessionMoves /\ TalkMoves

\* The endpoint's threads key their own end and touch nothing of the coordinator.
LEMMA EndpointLinkMoves ==
    ASSUME \/ Connecting \/ MainReceiveFails \/ AnnounceExpires \/ AnnounceErases
           \/ StopSignals \/ Stop \/ Reader \/ ReaderFails
           \/ \E m \in Movements : Worker(m)
           \/ \E g \in Generations, o \in SendOutcomes : Announce(g, o)
    PROVE  LinkMoves
<1>1. CASE HandleHelloAck
  <2>1. KeyMoves
    BY Zenon, <1>1 DEF HandleHelloAck, KeyMoves, set_session_key, NoAnswer, OnlyMain, coordinatorVars
  <2> QED BY Zenon, <1>1, <2>1 DEF HandleHelloAck, OnlyMain, LinkMoves, SessionMoves, TalkMoves, coordinatorVars, config
<1>2. ASSUME UNCHANGED <<key, config, coordinatorVars>>, "server" \in erring' => "server" \in erring PROVE LinkMoves
  BY <1>2 DEF LinkMoves, KeyMoves, SessionMoves, TalkMoves, coordinatorVars
<1>3. ASSUME NEW o, SendHello(o) \/ SendRegister(o) PROVE LinkMoves
  <2>1. UNCHANGED <<key, config, coordinatorVars, erring>>
    BY Zenon, <1>3 DEF SendHello, SendRegister, OnlyMain, Say
  <2> QED BY <1>2, <2>1
<1>4. CASE MainReceives \/ MainReceiveFails \/ Abandon \/ HandleRegisterAck
  <2>1. UNCHANGED <<key, config, coordinatorVars, erring>>
    BY Zenon, <1>4 DEF MainReceives, MainReceiveFails, Abandon, HandleRegisterAck, OnlyMain, Receive, Failing, Shut,
       NoAnswer
  <2> QED BY <1>2, <2>1
<1>5. CASE AnnounceExpires \/ AnnounceErases \/ StopSignals \/ Stop
  <2>1. UNCHANGED <<key, config, coordinatorVars, erring>>
    BY ZenonT(40), <1>5 DEF AnnounceExpires, AnnounceErases, StopSignals, Stop, StopShuts, StopDrains, StopJoins, streamVars
  <2> QED BY <1>2, <2>1
<1>6. ASSUME NEW g, NEW o, Announce(g, o) PROVE LinkMoves
  <2>1. UNCHANGED <<key, config, coordinatorVars, erring>>
    BY <1>6 DEF Announce, send_control, Say, streamVars
  <2> QED BY <1>2, <2>1
<1>7. CASE Reader \/ ReaderFails
  <2>1. CASE ReaderReceives \/ ReaderLeaves \/ ReaderFails
    <3>1. UNCHANGED <<key, config, coordinatorVars, erring>>
      BY <2>1 DEF ReaderReceives, ReaderLeaves, ReaderFails, Receive, Failing, OnlyReader, endpointVars, streamVars
    <3> QED BY <1>2, <3>1
  <2>2. CASE ReaderFulfils \/ ReaderDrops \/ on_execute
    <3>1. UNCHANGED <<key, config, coordinatorVars>> /\ ("server" \in erring' => "server" \in erring)
      BY <2>2 DEF ReaderFulfils, ReaderDrops, on_execute, NoAnswer, OnlyReader, OnlyHandler
    <3> QED BY <1>2, <3>1
  <2>3. ASSUME NEW o, on_grant(o) PROVE LinkMoves
    <3>1. UNCHANGED <<key, config, coordinatorVars>> /\ ("server" \in erring' => "server" \in erring)
      BY <2>3 DEF on_grant, Reply, Answer, NoAnswer, OnlyReader, OnlyHandler
    <3> QED BY <1>2, <3>1
  <2>4. ASSUME NEW o, ReaderReports(o) PROVE LinkMoves
    <3>1. UNCHANGED <<key, config, coordinatorVars>> /\ ("server" \in erring' => "server" \in erring)
      BY <2>4 DEF ReaderReports, send_control, Say, endpointVars, streamVars
    <3> QED BY <1>2, <3>1
  <2> QED BY <1>7, <2>1, <2>2, <2>3, <2>4 DEF Reader
<1>8. ASSUME NEW m, Worker(m) PROVE LinkMoves
  <2>1. UNCHANGED <<key, config, coordinatorVars, erring>>
    BY Zenon, <1>8 DEF Worker, WorkerStarts, WorkerReports, WorkerExpires, WorkerErases, WorkerMoves, OnlyWorker,
       send_control, Say, streamVars
  <2> QED BY <1>2, <2>1
<1> QED BY <1>1, <1>3, <1>4, <1>5, <1>6, <1>7, <1>8 DEF Connecting

\* session_loop and the drivers.
LEMMA CoordinatorLinkMoves ==
    ASSUME SlotInv,
           \/ Session \/ SessionFails \/ CoordinatorShuts
           \/ \E m \in Movements, o \in SendOutcomes : DriverGrants(m, o) \/ DriverExecutes(m, o)
           \/ \E m \in Movements : DriverExpires(m)
    PROVE  LinkMoves
<1>0. DOMAIN driver = Movements
  BY DEF SlotInv
<1>1. ASSUME UNCHANGED <<key, config, driver>>, SessionMoves,
             "server" \in erring' =>
               \/ "server" \in erring \/ session \in Listed
               \/ \E type \in {"REGISTER", "ANNOUNCE_OBJECT", "TOPOLOGY_REQUEST"} : Got(type)
      PROVE  LinkMoves
  BY <1>1 DEF LinkMoves, KeyMoves, TalkMoves
<1>2. CASE SessionReceives \/ SessionFails \/ CoordinatorShuts
  <2>1. UNCHANGED <<key, config, driver, erring>> /\ SessionMoves
    BY <1>2 DEF SessionReceives, SessionFails, CoordinatorShuts, Receive, Failing, OnlySession, endpointVars,
       coordinatorVars, SessionMoves
  <2> QED BY <1>1, <2>1
<1>3. ASSUME NEW o, AcceptHello(o) PROVE LinkMoves
  <2>1. UNCHANGED <<key, config, driver, erring>> /\ SessionMoves
    BY Zenon, <1>3 DEF AcceptHello, Say, OnlySession, endpointVars, streamVars, SessionMoves
  <2> QED BY <1>1, <2>1
<1>4. CASE KeySession
  <2>1. /\ key' = [key EXCEPT !["server"] = derive_session_key(CoordinatorSecret)]
        /\ session = "keying" /\ session' = "open" /\ UNCHANGED <<config, driver, erring>>
    BY <1>4 DEF KeySession, set_session_key, OnlySession, endpointVars
  <2> QED BY Zenon, <2>1 DEF LinkMoves, KeyMoves, SessionMoves, TalkMoves
<1>5. CASE HandleRegister
  <2>1. UNCHANGED <<key, config, driver>> /\ Got("REGISTER") /\ SessionMoves
    BY ZenonT(40), <1>5 DEF HandleRegister, NoAnswer, OnlySession, endpointVars, SessionMoves
  <2> QED BY <1>1, <2>1
<1>6. ASSUME NEW o, AckRegister(o) PROVE LinkMoves
  <2>1. UNCHANGED <<key, config, driver>> /\ session = "registering" /\ session' = "registered"
    BY <1>6 DEF AckRegister, push, Answer, NoAnswer, OnlySession, endpointVars
  <2> QED BY <1>1, <2>1 DEF SessionMoves, Listed
<1>7. ASSUME NEW o, HandleAnnounce(o) \/ HandleTopology(o) PROVE LinkMoves
  <2>1. UNCHANGED <<key, config, driver, session>> /\ (Got("ANNOUNCE_OBJECT") \/ Got("TOPOLOGY_REQUEST"))
    BY <1>7 DEF HandleAnnounce, HandleTopology, push, Answer, NoAnswer, OnlySession, endpointVars, coordinatorVars
  <2> QED BY <1>1, <2>1 DEF SessionMoves
<1>8. ASSUME NEW o, SessionReports(o) PROVE LinkMoves
  <2>1. UNCHANGED <<key, config, driver, session>> /\ ("server" \in erring' => "server" \in erring)
    BY <1>8 DEF SessionReports, push, Answer, NoAnswer, OnlySession, endpointVars, coordinatorVars
  <2> QED BY <1>1, <2>1 DEF SessionMoves
<1>9. CASE Deliver \/ SessionEnds
  <2>1. UNCHANGED <<key, config, erring>> /\ session' \in {session, "ended"}
    BY <1>9 DEF Deliver, SessionEnds, NoAnswer, Shut, OnlySession, endpointVars
  <2>2. \A m \in Movements : driver[m] = "ready" => driver'[m] = "ready"
    BY <1>0, <1>9 DEF Deliver, SessionEnds
  <2> QED BY ZenonT(40), <2>1, <2>2 DEF LinkMoves, KeyMoves, SessionMoves, TalkMoves
<1>10. ASSUME NEW m \in Movements, NEW o, DriverGrants(m, o) \/ DriverExecutes(m, o) \/ DriverExpires(m)
       PROVE  LinkMoves
  <2>1. UNCHANGED <<key, config, erring, session>>
    BY ZenonT(40), <1>10 DEF DriverGrants, DriverExecutes, DriverExpires, Tell, Say, OnlyDriver, endpointVars, streamVars
  <2>2. driver[m] = "ready" => session \in Listed
    BY <1>10 DEF DriverGrants, DriverExecutes, DriverExpires
  <2>3. \A n \in Movements \ {m} : driver'[n] = driver[n]
    BY Zenon, <1>0, <1>10 DEF DriverGrants, DriverExecutes, DriverExpires, Tell
  <2> QED BY <2>1, <2>2, <2>3 DEF LinkMoves, KeyMoves, SessionMoves, TalkMoves
<1> QED BY <1>2, <1>3, <1>4, <1>5, <1>6, <1>7, <1>8, <1>9, <1>10 DEF Session

\* How the keys, the session and what the coordinator has to say may change.
LEMMA NextLinkMoves ==
    ASSUME SlotInv, [Next]_vars
    PROVE  LinkMoves
<1>1. CASE UNCHANGED vars
  BY <1>1 DEF vars, streamVars, endpointVars, config, coordinatorVars, LinkMoves, KeyMoves, SessionMoves, TalkMoves
<1>2. CASE Next
  BY <1>2, EndpointLinkMoves, CoordinatorLinkMoves DEF Next
<1> QED BY <1>1, <1>2

\* A frame on its way is one that was, or one that this step sends.
LEMMA OldOrFresh ==
    ASSUME Traffic, NEW f
    PROVE  /\ f \in InTransit("client")' => f \in InTransit("client") \/ f = NoFrame \/ ClientSays(f)
           /\ f \in InTransit("server")' => f \in InTransit("server") \/ f = NoFrame \/ ServerSays(f)
BY DEF Traffic, Fresh


\* A hello that is accepted was made with the coordinator's secret.
LEMMA AcceptedHello ==
    ASSUME KeyInv, held["server"].type = "HELLO", accept_hello_request(held["server"].body)
    PROVE  secret = CoordinatorSecret /\ held["server"].body.role = role
<1>1. held["server"].body = make_hello_request
  BY HeldInTransit DEF KeyInv
<1>2. <<"client", secret, role>> = <<"client", CoordinatorSecret, role>>
  BY <1>1 DEF make_hello_request, accept_hello_request, compute_client_mac
<1> QED BY <1>1, <1>2 DEF make_hello_request

\* A hello answer that verifies was made with the endpoint's secret.
LEMMA VerifiedHello ==
    ASSUME KeyInv, NEW f \in InTransit("server"), f.type = "HELLO_ACK", verify_hello_response(f.body)
    PROVE  secret = CoordinatorSecret /\ session # "hello"
BY DEF KeyInv

\* accept_hello_request, verify_hello_response and the keying of either end.
LEMMA KeyStep ==
    ASSUME KeyInv, Traffic, LinkMoves
    PROVE  KeyInv'
<1>0. /\ derive_session_key(secret) # NoKey /\ derive_session_key(CoordinatorSecret) # NoKey
      /\ "client" \in Ends /\ "server" \in Ends /\ NoFrame.type = "INVALID"
  BY DEF derive_session_key, NoKey, Ends, NoFrame
<1>1. /\ UNCHANGED <<secret, role>> /\ DOMAIN key = Ends
  BY DEF LinkMoves, config, KeyInv
<1>2. make_hello_request' = make_hello_request /\ derive_session_key(secret)' = derive_session_key(secret)
  BY <1>1 DEF make_hello_request, compute_client_mac, derive_session_key
<1>3. /\ key["server"] \in {NoKey, derive_session_key(CoordinatorSecret)}
      /\ key["client"] \in {NoKey, derive_session_key(secret)}
      /\ session \in Opened \cup {"keying"} \/ key["server"] # NoKey
          => secret = CoordinatorSecret /\ role = "ENDPOINT"
      /\ session \in Opened => key["server"] # NoKey
      /\ key["client"] # NoKey => session # "hello" /\ secret = CoordinatorSecret
  BY DEF KeyInv
<1>4. /\ DOMAIN key' = Ends
      /\ \/ key'["client"] = key["client"]
         \/ /\ key'["client"] = derive_session_key(secret)
            /\ secret = CoordinatorSecret /\ session' = session /\ session # "hello"
      /\ \/ key'["server"] = key["server"]
         \/ /\ key'["server"] = derive_session_key(CoordinatorSecret)
            /\ session = "keying" /\ session' = "open"
  <2>1. CASE key' = key
    BY <1>1, <2>1
  <2>2. CASE /\ key' = [key EXCEPT !["client"] = derive_session_key(secret)] /\ session' = session
             /\ held["client"].type = "HELLO_ACK" /\ verify_hello_response(held["client"].body)
    BY <1>0, <1>1, <2>2, HeldInTransit, VerifiedHello
  <2>3. CASE /\ key' = [key EXCEPT !["server"] = derive_session_key(CoordinatorSecret)]
             /\ session = "keying" /\ session' = "open"
    BY <1>0, <1>1, <2>3
  <2> QED BY <2>1, <2>2, <2>3 DEF LinkMoves, KeyMoves
<1>5. \/ session' = session
      \/ session = "hello" /\ session' = "keying" /\ secret = CoordinatorSecret /\ role = "ENDPOINT"
      \/ session = "keying" /\ session' = "open" /\ key'["server"] = derive_session_key(CoordinatorSecret)
      \/ session \in Opened /\ session' \in Opened
      \/ session' \in {"leaving", "ended"}
  BY <1>0, <1>1, AcceptedHello DEF LinkMoves, SessionMoves, Got, Opened
<1>6. session # "hello" => session' # "hello"
  BY <1>5 DEF Opened
<1>7. /\ session' \in Opened \cup {"keying"} \/ key'["server"] # NoKey
          => secret = CoordinatorSecret /\ role = "ENDPOINT"
      /\ session' \in Opened => key'["server"] # NoKey
      /\ key'["server"] \in {NoKey, derive_session_key(CoordinatorSecret)}
      /\ key'["client"] \in {NoKey, derive_session_key(secret)}
      /\ key'["client"] # NoKey => session' # "hello" /\ secret = CoordinatorSecret
  BY <1>0, <1>3, <1>4, <1>5, <1>6 DEF Opened
<1>8. ASSUME NEW f \in InTransit("client")', f.type = "HELLO" PROVE f.body = make_hello_request
  BY <1>0, <1>8, OldOrFresh DEF KeyInv, ClientSays
<1>9. ASSUME NEW f \in InTransit("server")', f.type = "HELLO_ACK"
      PROVE  (verify_hello_response(f.body) => secret = CoordinatorSecret) /\ session' # "hello"
  <2>1. CASE f \in InTransit("server")
    BY <1>6, <1>9, <2>1 DEF KeyInv
  <2>2. CASE ServerSays(f)
    BY <1>9, <2>2, AcceptedHello DEF ServerSays
  <2> QED BY <1>0, <1>9, <2>1, <2>2, OldOrFresh
<1>10. \A b : verify_hello_response(b)' = verify_hello_response(b)
  BY <1>1 DEF verify_hello_response, compute_server_mac, compute_client_mac
<1> QED BY Zenon, <1>1, <1>2, <1>4, <1>7, <1>8, <1>9, <1>10 DEF KeyInv

\* The frame the coordinator holds, when it is not of the handshake, carries the
\* endpoint's key.
LEMMA HeldTag ==
    ASSUME TagInv, held["server"].type \notin Handshake, held["server"] # NoFrame
    PROVE  key["client"] # NoKey
<1>1. "client" \in Ends
  BY DEF Ends
<1>2. held["server"].tag # NoKey
  BY <1>1, HeldInTransit DEF TagInv
<1>3. held["server"].tag \in {NoKey, key["client"]}
  BY HeldInTransit DEF TagInv
<1> QED BY <1>2, <1>3

\* The coordinator sends what is tagged only to an endpoint that has the key.
LEMMA SaidToKeyed ==
    ASSUME TagInv, NEW f, ServerSays(f), f.tag # NoKey
    PROVE  f.tag = key["server"] /\ key["client"] # NoKey
<1>0. /\ NoFrame.type = "INVALID"
      /\ \A type \in {"REGISTER", "ANNOUNCE_OBJECT", "TOPOLOGY_REQUEST"} : type \notin Handshake /\ type # "INVALID"
      /\ "HELLO_REJECT" \in Handshake /\ "HELLO_ACK" \in Handshake
  BY DEF NoFrame, Handshake
<1>1. f.tag = key["server"] /\ f.type \notin Handshake
  BY DEF ServerSays, Tagged
<1>2. CASE f.type = "REGISTER_ACK" /\ session = "registering"
  BY <1>1, <1>2 DEF TagInv
<1>3. CASE Got("ANNOUNCE_OBJECT") \/ Got("TOPOLOGY_REQUEST")
  <2>1. held["server"].type \notin Handshake /\ held["server"] # NoFrame
    BY <1>0, <1>3 DEF Got
  <2> QED BY <1>1, <2>1, HeldTag
<1>4. CASE "server" \in erring
  BY <1>1, <1>4 DEF TagInv
<1>5. CASE session \in Listed
  BY <1>1, <1>5 DEF TagInv, Listed
<1>6. CASE f.body \in Movements /\ driver[f.body] = "granted"
  <2>1. \A m \in Movements : driver[m] # "ready" => key["client"] # NoKey
    BY DEF TagInv
  <2> QED BY <1>1, <1>6, <2>1
<1> QED BY <1>0, <1>1, <1>2, <1>3, <1>4, <1>5, <1>6 DEF ServerSays

\* FrameCodec::encode tags a frame with a key its receiver has when it reads it.
LEMMA TagStep ==
    ASSUME KeyInv, TagInv, Traffic, LinkMoves
    PROVE  TagInv'
<1>0. /\ derive_session_key(secret) # NoKey /\ derive_session_key(CoordinatorSecret) # NoKey
      /\ "client" \in Ends /\ "server" \in Ends /\ \A e \in Ends : e = "client" \/ e = "server"
      /\ NoFrame.type = "INVALID" /\ NoFrame.tag = NoKey
      /\ \A type \in {"REGISTER", "ANNOUNCE_OBJECT", "TOPOLOGY_REQUEST"} : type \notin Handshake /\ type # "INVALID"
  BY DEF derive_session_key, NoKey, Ends, NoFrame, Handshake
<1>1. /\ key["client"] # NoKey => key'["client"] = key["client"]
      /\ key["server"] # NoKey => key'["server"] = key["server"]
  BY <1>0 DEF KeyInv, LinkMoves, KeyMoves
<1>2. ASSUME NEW type \in {"REGISTER", "ANNOUNCE_OBJECT", "TOPOLOGY_REQUEST"}, Got(type) PROVE key["client"] # NoKey
  <2>1. held["server"].type \notin Handshake /\ held["server"] # NoFrame
    BY <1>0, <1>2 DEF Got
  <2> QED BY <2>1, HeldTag
<1>3. session \in Listed => key["client"] # NoKey
  BY DEF TagInv, Listed
<1>4. session' \in {"registering", "registered"} => key'["client"] # NoKey
  BY <1>1, <1>2, <1>3 DEF LinkMoves, SessionMoves, Listed
<1>5. "server" \in erring' => key'["client"] # NoKey
  BY <1>1, <1>2, <1>3 DEF LinkMoves, TalkMoves, TagInv
<1>6. \A m \in Movements : driver'[m] # "ready" => key'["client"] # NoKey
  BY <1>1, <1>3 DEF LinkMoves, TalkMoves, TagInv
<1>7. ASSUME NEW f \in InTransit("client")'
      PROVE  /\ f.tag \in {NoKey, key'["client"]}
             /\ f # NoFrame => (f.type \in Handshake <=> f.tag = NoKey)
  <2>1. CASE f \in InTransit("client")
    BY <1>0, <1>1, <2>1 DEF TagInv
  <2>2. CASE ClientSays(f)
    BY <1>1, <2>2 DEF ClientSays, Tagged
  <2> QED BY <1>0, <2>1, <2>2, OldOrFresh
<1>8. ASSUME NEW f \in InTransit("server")'
      PROVE  /\ f.tag # NoKey => f.tag = key'["server"] /\ key'["client"] # NoKey
             /\ f # NoFrame => (f.type \in Handshake <=> f.tag = NoKey)
  <2>1. CASE f \in InTransit("server")
    BY <1>0, <1>1, <2>1 DEF TagInv
  <2>2. CASE ServerSays(f)
    <3>1. f.type \in Handshake <=> f.tag = NoKey
      BY <2>2 DEF ServerSays, Tagged
    <3> QED BY <1>1, <2>2, <3>1, SaidToKeyed
  <2> QED BY <1>0, <2>1, <2>2, OldOrFresh
<1> QED BY <1>0, <1>4, <1>5, <1>6, <1>7, <1>8 DEF TagInv

\* Two keyed ends have one key.
LEMMA OneKey ==
    ASSUME KeyInv
    PROVE  KeyedIsPeer
<1>1. key["client"] # NoKey /\ key["server"] # NoKey => key["client"] = key["server"]
  BY DEF KeyInv
<1>2. key["server"] # NoKey => secret = CoordinatorSecret /\ role = "ENDPOINT"
  BY DEF KeyInv
<1> QED BY <1>1, <1>2 DEF KeyedIsPeer, Ends, Peer

----------------------------------------------------------------------------
(* What is refused                                                           *)

\* An end refuses only what receive() read, the coordinator only where its
\* session_loop blocks.
Refuses(e) ==
    /\ refused' = refused \cup {e} /\ Readable(e) /\ ~Accepts(e) /\ UNCHANGED firstLost
    /\ e = "server" => session \in Reading

\* Only receive() refuses, and only what it has read.
LEMMA RefusalStep ==
    ASSUME [Next]_vars
    PROVE  refused' = refused \/ \E e \in Ends : Refuses(e)
<1>0. "client" \in Ends /\ "server" \in Ends
  BY DEF Ends
<1>1. CASE MainReceiveFails \/ ReaderFails
  BY Zenon, <1>0, <1>1 DEF MainReceiveFails, ReaderFails, Failing, ReceiveFails, Refuses
<1>2. CASE SessionFails
  BY <1>0, <1>2 DEF SessionFails, Failing, ReceiveFails, Refuses
<1>3. ASSUME NEW e, NEW type, NEW b, NEW o,
             \/ Say(e, type, b, o) \/ Answer(e, type, b, o) \/ NoAnswer(e) \/ Shut(e) \/ Receive(e)
             \/ (\E k : set_session_key(e, k)) \/ UNCHANGED streamVars
      PROVE  refused' = refused
  BY <1>3 DEF Say, Answer, NoAnswer, Shut, Receive, set_session_key, streamVars
<1>4. CASE \/ Connecting \/ AnnounceExpires \/ AnnounceErases \/ StopSignals \/ Stop
  BY Zenon, <1>3, <1>4 DEF Connecting, AnnounceExpires, AnnounceErases, StopSignals, Stop, StopShuts, StopDrains,
     StopJoins, SendHello, SendRegister, MainReceives, HandleHelloAck, HandleRegisterAck, Abandon
<1>5. ASSUME NEW g, NEW o, Announce(g, o) PROVE refused' = refused
  BY <1>3, <1>5 DEF Announce, send_control
<1>6. CASE Reader
  <2>1. CASE ReaderReceives \/ ReaderLeaves \/ ReaderFulfils \/ ReaderDrops \/ on_execute
    BY Zenon, <1>3, <2>1 DEF ReaderReceives, ReaderLeaves, ReaderFulfils, ReaderDrops, on_execute
  <2>2. ASSUME NEW o, on_grant(o) \/ ReaderReports(o) PROVE refused' = refused
    BY Zenon, <1>3, <2>2 DEF on_grant, ReaderReports, Reply, send_control
  <2> QED BY <1>6, <2>1, <2>2 DEF Reader
<1>7. ASSUME NEW m, Worker(m) PROVE refused' = refused
  BY Zenon, <1>3, <1>7 DEF Worker, WorkerStarts, WorkerReports, WorkerExpires, WorkerErases, WorkerMoves, send_control
<1>8. CASE Session \/ CoordinatorShuts
  <2>1. CASE SessionReceives \/ KeySession \/ HandleRegister \/ Deliver \/ SessionEnds \/ CoordinatorShuts
    BY ZenonT(40), <1>3, <2>1 DEF SessionReceives, KeySession, HandleRegister, Deliver, SessionEnds, CoordinatorShuts
  <2>2. ASSUME NEW o, \/ AcceptHello(o) \/ AckRegister(o) \/ HandleAnnounce(o) \/ HandleTopology(o)
                      \/ SessionReports(o)
        PROVE  refused' = refused
    <3>1. CASE AcceptHello(o)
      BY Zenon, <1>3, <3>1 DEF AcceptHello
    <3>2. CASE AckRegister(o) \/ HandleAnnounce(o) \/ HandleTopology(o) \/ SessionReports(o)
      BY <1>3, <3>2 DEF AckRegister, HandleAnnounce, HandleTopology, SessionReports, push
    <3> QED BY <2>2, <3>1, <3>2
  <2> QED BY <1>8, <2>1, <2>2 DEF Session
<1>9. ASSUME NEW m, NEW o, DriverGrants(m, o) \/ DriverExecutes(m, o) \/ DriverExpires(m) PROVE refused' = refused
  BY Zenon, <1>3, <1>9 DEF DriverGrants, DriverExecutes, DriverExpires, Tell
<1>10. CASE UNCHANGED vars
  BY <1>10 DEF vars, streamVars
<1> QED BY <1>1, <1>2, <1>4, <1>5, <1>6, <1>7, <1>8, <1>9, <1>10 DEF Next

\* On an unbroken stream the next frame is whole, in its place, and tagged with
\* the key the reader has.
LEMMA WholeIsAccepted ==
    ASSUME StreamInv, WholeFrames, KeyInv, TagInv, NEW e \in Ends, Readable(e), firstLost[Peer(e)] = 0,
           e = "server" => session \in Reading
    PROVE  Accepts(e)
<1>0. Peer(e) \in Ends /\ Peer(Peer(e)) = e /\ e \in {"client", "server"} /\ Peer("client") = "server"
      /\ Peer("server") = "client"
  BY DEF Peer, Ends
<1>7. PICK f : f = Incoming(e)
  OBVIOUS
<1>8. /\ Assembled(e) /\ f.sequence = expected_sequence[e]
      /\ f \in InTransit(Peer(e)) /\ f # NoFrame
  BY <1>7, NextIsWhole
<1>9. f.type \in Handshake <=> f.tag = NoKey
  BY <1>0, <1>8 DEF TagInv
<1>10. ASSUME f.tag # NoKey PROVE key[e] # NoKey /\ f.tag = key[e]
  <2>1. key["client"] # NoKey /\ key["server"] # NoKey => key["client"] = key["server"]
    BY DEF KeyInv
  <2>2. CASE e = "client"
    <3>1. f.tag = key["server"] /\ key["client"] # NoKey
      BY <1>0, <1>8, <1>10, <2>2 DEF TagInv
    <3> QED BY <1>10, <2>1, <2>2, <3>1
  <2>3. CASE e = "server"
    <3>1. f.tag = key["client"]
      BY <1>0, <1>8, <1>10, <2>3 DEF TagInv
    <3>2. key["server"] # NoKey
      BY <1>10, <2>3, <3>1 DEF KeyInv, Reading, Opened
    <3> QED BY <1>10, <2>1, <2>3, <3>1, <3>2
  <2> QED BY <1>0, <2>2, <2>3
<1> QED BY <1>7, <1>8, <1>9, <1>10 DEF Accepts, verify

\* A frame sent whole on an unbroken stream passes verify().
LEMMA RefusalCause ==
    ASSUME StreamInv, WholeFrames, KeyInv, TagInv, RefusalHasCause, [Next]_vars
    PROVE  RefusalHasCause'
<1>1. \A e : Peer(e) \in Ends
  BY DEF Peer, Ends
<1>2. \A e \in Ends : firstLost[e] # 0 => firstLost'[e] # 0
  BY NextIsStreamStep, LossRemembered
<1>3. CASE refused' = refused
  BY <1>1, <1>2, <1>3 DEF RefusalHasCause
<1>4. ASSUME NEW e \in Ends, Refuses(e) PROVE RefusalHasCause'
  <2>1. firstLost[Peer(e)] # 0
    BY <1>4, WholeIsAccepted DEF Refuses
  <2> QED BY <1>1, <1>4, <2>1 DEF Refuses, RefusalHasCause
<1> QED BY <1>3, <1>4, RefusalStep

----------------------------------------------------------------------------
(* What the threads do to each other's state                                 *)


\* A drive that has not asked for its transfer yet.
Early == {"ready", "granting", "granted"}
Granted == {"granted", "executing"}

\* EXECUTE_MOVEMENT starts the thread of a movement, and nothing else does.
Spawns(m) ==
    /\ held["client"].type = "EXECUTE_MOVEMENT" /\ held["client"].body = m
    /\ Done("client") /\ wire' = wire /\ driver' = driver

ThreadMoves ==
    /\ reader' = "none" => reader = "none"
    /\ reader' = "reading" => reader = "none" \/ (reader = "reading" /\ grants \subseteq grants')
    /\ \A m \in Movements : worker[m] = "none" /\ worker'[m] # "none" => Spawns(m)

DriverMoves ==
    \A m \in Movements :
        /\ driver[m] \notin Early => driver'[m] \notin Early
        /\ driver'[m] \in Granted =>
             driver[m] \in Granted \/ (held["server"].type = "GRANT_ACK" /\ held["server"].body = m)

\* The endpoint's threads.
LEMMA EndpointThreadMoves ==
    ASSUME SlotInv,
           \/ Connecting \/ MainReceiveFails \/ AnnounceExpires \/ AnnounceErases
           \/ StopSignals \/ Stop \/ Reader \/ ReaderFails
           \/ \E m \in Movements : Worker(m)
           \/ \E g \in Generations, o \in SendOutcomes : Announce(g, o)
    PROVE  ThreadMoves /\ DriverMoves
<1>0. DOMAIN worker = Movements
  BY DEF SlotInv
<1>1. ASSUME UNCHANGED <<reader, grants, driver>>,
             \A m \in Movements : worker[m] = "none" => worker'[m] = "none"
      PROVE  ThreadMoves /\ DriverMoves
  BY <1>1 DEF ThreadMoves, DriverMoves
<1>2. ASSUME NEW o, SendHello(o) \/ SendRegister(o) PROVE ThreadMoves /\ DriverMoves
  <2>1. UNCHANGED <<reader, grants, driver, worker>>
    BY Zenon, <1>2 DEF SendHello, SendRegister, OnlyMain, threadVars, coordinatorVars
  <2> QED BY <1>1, <2>1
<1>3. CASE MainReceives \/ MainReceiveFails \/ Abandon \/ HandleHelloAck
  <2>1. UNCHANGED <<reader, grants, driver, worker>>
    BY Zenon, <1>3 DEF MainReceives, MainReceiveFails, Abandon, HandleHelloAck, OnlyMain, threadVars, coordinatorVars
  <2> QED BY <1>1, <2>1
<1>4. CASE HandleRegisterAck
  <2>1. UNCHANGED <<grants, driver, worker>> /\ reader = "none" /\ reader' \in {"none", "reading"}
    BY ZenonT(40), <1>4 DEF HandleRegisterAck, coordinatorVars, SlotInv
  <2> QED BY Zenon, <2>1 DEF ThreadMoves, DriverMoves
<1>5. CASE AnnounceExpires \/ AnnounceErases \/ StopSignals \/ StopShuts \/ StopJoins
  <2>1. UNCHANGED <<reader, grants, driver, worker>>
    BY <1>5 DEF AnnounceExpires, AnnounceErases, StopSignals, StopShuts, StopJoins, threadVars, coordinatorVars
  <2> QED BY <1>1, <2>1
<1>6. CASE StopDrains
  <2>1. UNCHANGED <<reader, grants, driver>> /\ \A m \in Movements : worker[m] = "none" => worker'[m] = "none"
    BY ZenonT(40), <1>6 DEF StopDrains, Drain, coordinatorVars
  <2> QED BY <1>1, <2>1
<1>7. ASSUME NEW g, NEW o, Announce(g, o) PROVE ThreadMoves /\ DriverMoves
  <2>1. UNCHANGED <<reader, grants, driver, worker>>
    BY <1>7 DEF Announce, coordinatorVars
  <2> QED BY <1>1, <2>1
<1>8. CASE ReaderReceives
  <2>1. UNCHANGED <<reader, grants, driver, worker>>
    BY <1>8 DEF ReaderReceives, endpointVars, threadVars, coordinatorVars
  <2> QED BY <1>1, <2>1
<1>9. CASE ReaderLeaves \/ ReaderFails
  <2>1. /\ UNCHANGED driver /\ reader' = "ended"
        /\ \A m \in Movements : worker[m] = "none" => worker'[m] = "none"
    BY Zenon, <1>9 DEF ReaderLeaves, ReaderFails, Drain, OnlyReader, coordinatorVars
  <2> QED BY Zenon, <2>1 DEF ThreadMoves, DriverMoves
<1>10. CASE ReaderFulfils \/ ReaderDrops
  <2>1. UNCHANGED <<reader, grants, driver>> /\ \A m \in Movements : worker[m] = "none" => worker'[m] = "none"
    BY Zenon, <1>10 DEF ReaderFulfils, ReaderDrops, OnlyReader, OnlyHandler, coordinatorVars
  <2> QED BY <1>1, <2>1
<1>11. CASE on_execute
  <2>1. UNCHANGED <<reader, grants, driver, wire>> /\ Done("client") /\ held["client"].type = "EXECUTE_MOVEMENT"
    BY Zenon, <1>11 DEF on_execute, OnlyReader, OnlyHandler, NoAnswer, coordinatorVars, Held
  <2>2. \A m \in Movements : worker'[m] # worker[m] => held["client"].body = m
    BY <1>0, <1>11 DEF on_execute
  <2> QED BY ZenonT(40), <2>1, <2>2 DEF ThreadMoves, DriverMoves, Spawns
<1>12. ASSUME NEW o, on_grant(o) PROVE ThreadMoves /\ DriverMoves
  <2>1. UNCHANGED <<reader, driver, worker>> /\ grants \subseteq grants' /\ reader = "reading"
    BY <1>12 DEF on_grant, OnlyReader, OnlyHandler, coordinatorVars, Held
  <2> QED BY <2>1 DEF ThreadMoves, DriverMoves
<1>13. ASSUME NEW o, ReaderReports(o) PROVE ThreadMoves /\ DriverMoves
  <2>1. UNCHANGED <<reader, grants, driver, worker>>
    BY <1>13 DEF ReaderReports, endpointVars, threadVars, coordinatorVars
  <2> QED BY <1>1, <2>1
<1>14. ASSUME NEW m \in Movements, Worker(m) PROVE ThreadMoves /\ DriverMoves
  <2>1. UNCHANGED <<reader, grants, driver>>
    BY Zenon, <1>14 DEF Worker, WorkerStarts, WorkerReports, WorkerExpires, WorkerErases, WorkerMoves, OnlyWorker,
       coordinatorVars
  <2>2. \A n \in Movements : worker[n] = "none" => worker'[n] = "none"
    BY Zenon, <1>0, <1>14 DEF Worker, WorkerStarts, WorkerReports, WorkerExpires, WorkerErases, WorkerMoves
  <2> QED BY <1>1, <2>1, <2>2
<1> QED BY <1>2, <1>3, <1>4, <1>5, <1>6, <1>7, <1>8, <1>9, <1>10, <1>11, <1>12, <1>13, <1>14
        DEF Connecting, Reader, Stop

\* session_loop and the drivers.
LEMMA CoordinatorThreadMoves ==
    ASSUME SlotInv,
           \/ Session \/ SessionFails \/ CoordinatorShuts
           \/ \E m \in Movements, o \in SendOutcomes : DriverGrants(m, o) \/ DriverExecutes(m, o)
           \/ \E m \in Movements : DriverExpires(m)
    PROVE  ThreadMoves /\ DriverMoves /\ UNCHANGED endpointVars
<1>0. DOMAIN driver = Movements
  BY DEF SlotInv
<1>1. UNCHANGED endpointVars
  BY Zenon DEF Session, SessionFails, CoordinatorShuts, SessionReceives, KeySession, HandleRegister, Deliver, SessionEnds,
     AcceptHello, AckRegister, HandleAnnounce, HandleTopology, SessionReports, OnlySession, DriverGrants,
     DriverExecutes, DriverExpires, Tell, OnlyDriver
<1>2. ThreadMoves
  BY <1>1 DEF ThreadMoves, endpointVars, threadVars
<1>3. ASSUME UNCHANGED driver PROVE DriverMoves
  BY Zenon, <1>3 DEF DriverMoves
<1>4. ASSUME Deliver PROVE DriverMoves
  BY Zenon, <1>0, <1>4 DEF Deliver, DriverMoves, Early, Granted, Got
<1>5. ASSUME SessionEnds PROVE DriverMoves
  BY Zenon, <1>5 DEF SessionEnds, DriverMoves, Early, Granted
<1>6. ASSUME NEW m \in Movements, NEW o, DriverGrants(m, o) \/ DriverExecutes(m, o) \/ DriverExpires(m)
      PROVE  DriverMoves
  BY Zenon, <1>0, <1>6 DEF DriverGrants, DriverExecutes, DriverExpires, Tell, DriverMoves, Early, Granted
<1>7. ASSUME SessionReceives \/ SessionFails \/ CoordinatorShuts \/ KeySession \/ HandleRegister
      PROVE  DriverMoves
  <2>1. UNCHANGED driver
    BY Zenon, <1>7 DEF SessionReceives, SessionFails, CoordinatorShuts, KeySession, HandleRegister, coordinatorVars
  <2> QED BY <1>3, <2>1
<1>8. ASSUME NEW o, AcceptHello(o) \/ AckRegister(o) \/ HandleAnnounce(o) \/ HandleTopology(o) \/ SessionReports(o)
      PROVE  DriverMoves
  <2>1. UNCHANGED driver
    BY Zenon, <1>8 DEF AcceptHello, AckRegister, HandleAnnounce, HandleTopology, SessionReports, coordinatorVars
  <2> QED BY <1>3, <2>1
<1>9. DriverMoves
  BY <1>4, <1>5, <1>6, <1>7, <1>8 DEF Session
<1> QED BY <1>1, <1>2, <1>9

\* Every step, of either process.
LEMMA NextThreadMoves ==
    ASSUME SlotInv, [Next]_vars
    PROVE  ThreadMoves /\ DriverMoves
<1>1. CASE UNCHANGED vars
  BY <1>1 DEF vars, endpointVars, threadVars, coordinatorVars, ThreadMoves, DriverMoves
<1>2. CASE Next
  BY <1>2, EndpointThreadMoves, CoordinatorThreadMoves DEF Next
<1> QED BY <1>1, <1>2

----------------------------------------------------------------------------
(* EXECUTE_MOVEMENT is sent once per movement, and starts its thread once.    *)

\* A drive asks for its transfer once, and on_execute starts one thread for it.
LEMMA ExecuteStep ==
    ASSUME StreamInv, InOrder, SlotInv, ExecuteInv, [Next]_vars
    PROVE  ExecuteInv'
<1>0. "client" \in Ends /\ "server" \in Ends /\ Peer("client") = "server" /\ NoFrame.type = "INVALID"
  BY DEF Ends, Peer, NoFrame
<1>1. Traffic /\ ThreadMoves /\ DriverMoves
  BY NextTraffic, NextThreadMoves
<1>2. ASSUME NEW m \in Movements
      PROVE  /\ driver[m] \in Early => worker[m] = "none"
             /\ \A f \in InTransit("server") : f.type = "EXECUTE_MOVEMENT" /\ f.body = m =>
                  /\ worker[m] = "none" /\ driver[m] \notin Early
                  /\ \A g \in InTransit("server") : g.type = "EXECUTE_MOVEMENT" /\ g.body = m => g = f
  BY DEF ExecuteInv, Early
<1>3. ASSUME NEW m \in Movements, worker[m] = "none", worker'[m] # "none"
      PROVE  /\ driver'[m] \notin Early
             /\ \A f \in InTransit("server")' : ~(f.type = "EXECUTE_MOVEMENT" /\ f.body = m)
  <2>1. Spawns(m)
    BY <1>1, <1>3 DEF ThreadMoves
  <2>2. held["client"] \in InTransit("server")
    BY HeldInTransit
  <2>3. driver[m] \notin Early
    BY <1>2, <2>1, <2>2 DEF Spawns
  <2>4. held["client"] \notin InTransit("server")'
    BY <1>0, <2>1, Consumed DEF Spawns, Idle
  <2>5. ASSUME NEW f \in InTransit("server")' PROVE f \in InTransit("server") \/ f.type # "EXECUTE_MOVEMENT"
    <3>1. ~Fresh("server", f)
      <4>1. UNCHANGED wire /\ HeldOrDone
        BY <1>0, <2>1 DEF Spawns, HeldOrDone
      <4> QED BY <1>0, <4>1, NothingSaid
    <3> QED BY <1>0, <3>1 DEF Fresh
  <2>6. ASSUME NEW f \in InTransit("server")', f.type = "EXECUTE_MOVEMENT", f.body = m PROVE FALSE
    <3>1. f = held["client"]
      BY <1>2, <2>1, <2>2, <2>5, <2>6 DEF Spawns
    <3> QED BY <2>4, <3>1
  <2>7. driver' = driver
    BY <2>1 DEF Spawns
  <2> QED BY <2>3, <2>6, <2>7
<1>4. ASSUME NEW m \in Movements PROVE driver'[m] \in Early => worker'[m] = "none"
  <2>1. driver'[m] \in Early => driver[m] \in Early
    BY <1>1 DEF DriverMoves
  <2> QED BY ZenonT(40), <1>2, <1>3, <2>1
<1>5. ASSUME NEW m \in Movements, NEW f \in InTransit("server")', f.type = "EXECUTE_MOVEMENT", f.body = m
      PROVE  /\ worker'[m] = "none" /\ driver'[m] \notin Early
             /\ \A g \in InTransit("server")' : g.type = "EXECUTE_MOVEMENT" /\ g.body = m => g = f
  <2>1. \A g \in InTransit("server")' : g.type = "EXECUTE_MOVEMENT" =>
            g \in InTransit("server") \/ Fresh("server", g)
    BY <1>0 DEF Fresh
  <2>2. ASSUME NEW g, Fresh("server", g), g.type = "EXECUTE_MOVEMENT", g.body = m
        PROVE  driver[m] = "granted" /\ driver'[m] \notin Early
    <3>1. ServerSays(g)
      BY <1>1, <2>2 DEF Traffic
    <3> QED BY <2>2, <3>1 DEF ServerSays, Early
  <2>3. CASE f \in InTransit("server")
    <3>1. worker[m] = "none" /\ driver[m] \notin Early
      BY <1>2, <1>5, <2>3
    <3>2. driver'[m] \notin Early
      BY <1>1, <3>1 DEF DriverMoves
    <3>3. worker'[m] = "none"
      BY <1>3, <1>5, <3>1
    <3>4. ASSUME NEW g \in InTransit("server")', g.type = "EXECUTE_MOVEMENT", g.body = m PROVE g = f
      <4>1. g \in InTransit("server")
        BY <2>1, <2>2, <3>1, <3>4 DEF Early
      <4> QED BY <1>2, <1>5, <2>3, <3>4, <4>1
    <3> QED BY <3>2, <3>3, <3>4
  <2>4. CASE Fresh("server", f)
    <3>1. driver[m] = "granted" /\ driver'[m] \notin Early
      BY <1>5, <2>2, <2>4
    <3>2. worker[m] = "none"
      BY <1>2, <3>1 DEF Early
    <3>3. worker'[m] = "none"
      BY <1>3, <1>5, <3>2
    <3>4. ASSUME NEW g \in InTransit("server")', g.type = "EXECUTE_MOVEMENT", g.body = m PROVE g = f
      <4>1. g \notin InTransit("server")
        BY <1>2, <3>1, <3>4 DEF Early
      <4>2. Fresh("server", g)
        BY <2>1, <3>4, <4>1
      <4> QED BY <1>0, <2>4, <4>2, NextIsStreamStep, OneFrame
    <3> QED BY <3>1, <3>3, <3>4
  <2> QED BY <1>5, <2>1, <2>3, <2>4
<1> QED BY <1>4, <1>5 DEF ExecuteInv, Early

----------------------------------------------------------------------------
(* Grants                                                                    *)

\* on_grant puts a grant in the table before it acknowledges it, and the reader
\* removes none before it has stopped reading.
LEMMA GrantStep ==
    ASSUME StreamInv, InOrder, SlotInv, GrantInv, [Next]_vars
    PROVE  GrantInv'
<1>0. NoFrame.type = "INVALID"
  BY DEF NoFrame
<1>1. Traffic /\ ThreadMoves /\ DriverMoves
  BY NextTraffic, NextThreadMoves
<1>2. reader = "none" =>
        /\ \A f \in InTransit("client") : f.type # "GRANT_ACK"
        /\ \A m \in Movements : driver[m] \notin Granted
  BY DEF GrantInv, Granted
<1>3. reader = "reading" =>
        /\ \A f \in InTransit("client") : f.type = "GRANT_ACK" => f.body \in grants
        /\ \A m \in Movements : driver[m] \in Granted => m \in grants
  BY DEF GrantInv, AckedGrantIsHeld, Granted
<1>4. ASSUME NEW f \in InTransit("client")', f.type = "GRANT_ACK"
      PROVE  f \in InTransit("client") \/ (reader = "reading" /\ f.body \in grants')
  BY <1>0, <1>1, <1>4, OldOrFresh DEF ClientSays
<1>5. ASSUME NEW m \in Movements, driver'[m] \in Granted
      PROVE  \/ driver[m] \in Granted
             \/ \E f \in InTransit("client") : f.type = "GRANT_ACK" /\ f.body = m
  BY <1>1, <1>5, HeldInTransit DEF DriverMoves
<1>6. CASE reader' = "none"
  <2>1. reader = "none"
    BY <1>1, <1>6 DEF ThreadMoves
  <2>2. ASSUME NEW f \in InTransit("client")' PROVE f.type # "GRANT_ACK"
    BY <1>2, <1>4, <2>1
  <2>3. ASSUME NEW m \in Movements PROVE driver'[m] \notin Granted
    BY <1>2, <1>5, <2>1
  <2> QED BY <1>6, <2>2, <2>3 DEF GrantInv, Granted
<1>7. CASE reader' = "reading"
  <2>1. reader = "none" \/ (reader = "reading" /\ grants \subseteq grants')
    BY <1>1, <1>7 DEF ThreadMoves
  <2>2. ASSUME NEW f \in InTransit("client")', f.type = "GRANT_ACK" PROVE f.body \in grants'
    BY <1>2, <1>3, <1>4, <2>1, <2>2
  <2>3. ASSUME NEW m \in Movements, driver'[m] \in Granted PROVE m \in grants'
    BY <1>2, <1>3, <1>5, <2>1, <2>3
  <2> QED BY <1>7, <2>2, <2>3 DEF GrantInv, AckedGrantIsHeld, Granted
<1> QED BY <1>6, <1>7 DEF GrantInv

----------------------------------------------------------------------------
(* The slots of the endpoint's table                                         *)

\* connect_to_coordinator takes no slot, and hands the link to the reader last.
LEMMA ConnectingKeepsSlots ==
    ASSUME SlotInv, Connecting \/ MainReceiveFails
    PROVE  SlotInv'
<1>1. ASSUME UNCHANGED <<threadVars, stopVars, driver>>, main \notin {"ready", "waiting", "expired"},
             main' \notin {"ready", "waiting", "expired"}
      PROVE  SlotInv'
  BY <1>1 DEF SlotInv, SlotHolderWaits, threadVars, stopVars
<1>2. ASSUME NEW o, SendHello(o) \/ SendRegister(o) PROVE SlotInv'
  BY Zenon, <1>1, <1>2 DEF SendHello, SendRegister, OnlyMain, coordinatorVars
<1>3. CASE MainReceives \/ MainReceiveFails \/ HandleHelloAck \/ Abandon
  BY Zenon, <1>1, <1>3 DEF MainReceives, MainReceiveFails, HandleHelloAck, Abandon, OnlyMain, coordinatorVars
<1>4. CASE HandleRegisterAck
  <2>1. /\ UNCHANGED <<pending, grants, worker, stopVars, driver>> /\ main = "await register"
        /\ \/ main' = "ready" /\ reader' = "reading" /\ alive' = TRUE
           \/ main' = "abandon" /\ reader' = reader /\ alive' = FALSE
    BY Zenon, <1>4 DEF HandleRegisterAck, coordinatorVars
  <2>2. reader = "none" /\ stopper = "idle" /\ pending["ANNOUNCE_ACK"] = NoThread
    BY Zenon, <2>1 DEF SlotInv, SlotHolderWaits
  <2> QED BY Zenon, <2>1, <2>2 DEF SlotInv, SlotHolderWaits, stopVars
<1> QED BY <1>2, <1>3, <1>4 DEF Connecting

\* announce() gives its slot back on every path.
LEMMA AnnounceKeepsSlots ==
    ASSUME SlotInv,
           \/ \E g \in Generations, o \in SendOutcomes : Announce(g, o)
           \/ AnnounceExpires \/ AnnounceErases
    PROVE  SlotInv'
<1>1. ASSUME UNCHANGED <<reader, alive, grants, worker, stopVars, driver>>,
             main \in {"ready", "waiting", "expired"}, main' \in {"ready", "waiting", "expired"},
             DOMAIN pending' = Slots, pending'["TOPOLOGY_REPORT"] = pending["TOPOLOGY_REPORT"],
             pending'["ANNOUNCE_ACK"] \in {NoThread, "main"},
             main' = "ready" => pending'["ANNOUNCE_ACK"] = NoThread
      PROVE  SlotInv'
  BY <1>1 DEF SlotInv, SlotHolderWaits, stopVars
<1>2. ASSUME NEW g, NEW o, Announce(g, o) PROVE SlotInv'
  <2>1. /\ UNCHANGED <<reader, alive, grants, worker, stopVars, driver>>
        /\ \/ main' = "ready" /\ pending' = [pending EXCEPT !["ANNOUNCE_ACK"] = NoThread]
           \/ main' = "waiting" /\ pending' = [pending EXCEPT !["ANNOUNCE_ACK"] = "main"]
        /\ main = "ready"
    BY ZenonT(40), <1>2 DEF Announce, coordinatorVars
  <2> QED BY <1>1, <2>1 DEF SlotInv, Slots
<1>3. CASE AnnounceExpires
  BY <1>1, <1>3 DEF AnnounceExpires, threadVars, coordinatorVars, SlotInv
<1>4. CASE AnnounceErases
  BY <1>1, <1>4 DEF AnnounceErases, coordinatorVars, SlotInv, Slots
<1> QED BY <1>2, <1>3, <1>4

\* So does a transfer: its thread takes the slot only when it is free, and a
\* movement's thread is not started again while it holds the slot.
LEMMA WorkerKeepsSlots ==
    ASSUME SlotInv, NEW m \in Movements, Worker(m)
    PROVE  SlotInv'
<1>0. NoThread \notin Movements /\ DOMAIN worker = Movements /\ DOMAIN pending = Slots
  BY LinkAssumption DEF SlotInv
<1>1. UNCHANGED <<main, reader, alive, grants, stopVars, driver>>
  BY Zenon DEF Worker, WorkerStarts, WorkerReports, WorkerExpires, WorkerErases, WorkerMoves, OnlyWorker, mainVars,
     coordinatorVars
<1>2. /\ DOMAIN worker' = Movements /\ \A n \in Movements \ {m} : worker'[n] = worker[n]
      /\ \/ pending' = pending /\ (pending["TOPOLOGY_REPORT"] = m => worker'[m] = "expired")
         \/ pending' = [pending EXCEPT !["TOPOLOGY_REPORT"] = NoThread]
         \/ pending' = [pending EXCEPT !["TOPOLOGY_REPORT"] = m] /\ worker'[m] = "waiting"
  <2>1. ASSUME NEW o, WorkerStarts(m, o)
        PROVE  \/ pending' = pending /\ pending["TOPOLOGY_REPORT"] # m
               \/ pending' = [pending EXCEPT !["TOPOLOGY_REPORT"] = NoThread]
               \/ pending' = [pending EXCEPT !["TOPOLOGY_REPORT"] = m] /\ worker'[m] = "waiting"
    <3>1. worker[m] = "start" /\ pending["TOPOLOGY_REPORT"] # m
      BY Zenon, <2>1 DEF WorkerStarts, SlotInv, SlotHolderWaits
    <3> QED BY Zenon, <1>0, <2>1, <3>1 DEF WorkerStarts
  <2>2. ASSUME NEW o, WorkerReports(m, o) PROVE pending' = pending /\ pending["TOPOLOGY_REPORT"] # m
    BY Zenon, <2>2 DEF WorkerReports, SlotInv, SlotHolderWaits
  <2>3. CASE WorkerExpires(m)
    BY <1>0, <2>3 DEF WorkerExpires
  <2>4. ASSUME WorkerErases(m) PROVE pending' = [pending EXCEPT !["TOPOLOGY_REPORT"] = NoThread]
    BY ZenonT(40), <2>4 DEF WorkerErases
  <2>5. ASSUME NEW r, WorkerMoves(m, r) PROVE pending' = pending /\ pending["TOPOLOGY_REPORT"] # m
    BY <2>5 DEF WorkerMoves, SlotInv, SlotHolderWaits
  <2>6. DOMAIN worker' = Movements /\ \A n \in Movements \ {m} : worker'[n] = worker[n]
    BY ZenonT(40), <1>0 DEF Worker, WorkerStarts, WorkerReports, WorkerExpires, WorkerErases, WorkerMoves
  <2> QED BY Zenon, <2>1, <2>2, <2>3, <2>4, <2>5, <2>6 DEF Worker
<1>3. /\ DOMAIN pending' = Slots /\ pending'["ANNOUNCE_ACK"] = pending["ANNOUNCE_ACK"]
      /\ \/ pending'["TOPOLOGY_REPORT"] = pending["TOPOLOGY_REPORT"]
            /\ (pending["TOPOLOGY_REPORT"] = m => worker'[m] = "expired")
         \/ pending'["TOPOLOGY_REPORT"] = NoThread
         \/ pending'["TOPOLOGY_REPORT"] = m /\ worker'[m] = "waiting"
  BY <1>0, <1>2 DEF Slots
<1> QED BY <1>0, <1>1, <1>2, <1>3 DEF SlotInv, SlotHolderWaits, stopVars

\* Draining the table empties every slot.
LEMMA DrainKeepsSlots ==
    ASSUME SlotInv, Drain, DOMAIN driver' = Movements, reader' \in {"reading", "ended"}, reader # "none",
           stopper' \in {"shut", "joining", "stopped"} => ~alive',
           reader' # "reading" => grants' = {} \/ stopping'
    PROVE  SlotInv'
<1>1. /\ DOMAIN pending' = Slots /\ DOMAIN worker' = Movements
      /\ pending'["ANNOUNCE_ACK"] = NoThread /\ pending'["TOPOLOGY_REPORT"] = NoThread
  BY Zenon DEF Drain, Slots
<1>2. main' \in {"ready", "waiting", "expired"}
  BY ZenonT(40) DEF SlotInv, Drain
<1>3. NoThread \notin Movements
  BY LinkAssumption
<1> QED BY <1>1, <1>2, <1>3 DEF SlotInv, SlotHolderWaits

\* The reader empties the slot of the reply it delivers, starts the thread of a
\* movement that has none, and drops its grants when it stops reading.
LEMMA ReaderKeepsSlots ==
    ASSUME StreamInv, InOrder, SlotInv, ExecuteInv, Reader \/ ReaderFails
    PROVE  SlotInv'
<1>0. /\ NoThread \notin Movements /\ "main" \notin Movements
      /\ DOMAIN worker = Movements /\ DOMAIN pending = Slots /\ DOMAIN driver = Movements
  BY LinkAssumption DEF SlotInv
<1>1. ASSUME UNCHANGED <<main, reader, alive, pending, worker, stopVars, driver>>, reader = "reading"
      PROVE  SlotInv'
  BY <1>1 DEF SlotInv, SlotHolderWaits, stopVars
<1>2. CASE ReaderReceives
  BY <1>1, <1>2 DEF ReaderReceives, endpointVars, mainVars, threadVars, coordinatorVars
<1>3. ASSUME NEW o, on_grant(o) \/ ReaderReports(o) PROVE SlotInv'
  BY <1>1, <1>3 DEF on_grant, ReaderReports, OnlyHandler, OnlyReader, Held, endpointVars, mainVars, threadVars,
     coordinatorVars
<1>4. CASE ReaderDrops
  BY <1>1, <1>4 DEF ReaderDrops, OnlyHandler, OnlyReader, Held, coordinatorVars
<1>5. CASE ReaderLeaves
  <2>1. /\ UNCHANGED <<main, alive, pending, grants, worker, stopVars, driver>>
        /\ reader = "reading" /\ reader' = "ended" /\ stopping
    BY <1>5 DEF ReaderLeaves, mainVars, coordinatorVars
  <2> QED BY <2>1 DEF SlotInv, SlotHolderWaits, stopVars
<1>6. CASE ReaderFails
  <2>1. Drain /\ reader = "reading" /\ reader' = "ended" /\ grants' = {} /\ UNCHANGED <<alive, stopVars, driver>>
    BY <1>6 DEF ReaderFails, OnlyReader, coordinatorVars
  <2>2. stopper' \in {"shut", "joining", "stopped"} => ~alive'
    BY <2>1 DEF SlotInv, stopVars
  <2> QED BY <1>0, <2>1, <2>2, DrainKeepsSlots
<1>7. CASE on_execute
  <2>1. /\ UNCHANGED <<main, reader, alive, pending, grants, stopVars, driver>> /\ reader = "reading"
        /\ held["client"].type = "EXECUTE_MOVEMENT"
        /\ worker' = worker \/ worker' = [worker EXCEPT ![held["client"].body] = "start"]
    BY ZenonT(40), <1>7 DEF on_execute, OnlyHandler, OnlyReader, Held, coordinatorVars
  <2>2. ASSUME NEW m \in Movements, pending["TOPOLOGY_REPORT"] = m
        PROVE  worker'[m] \in {"waiting", "expired"}
    <3>1. worker[m] \in {"waiting", "expired"}
      BY <2>2 DEF SlotInv, SlotHolderWaits
    <3>2. held["client"].body # m
      BY <2>1, <3>1, HeldInTransit DEF ExecuteInv
    <3> QED BY <1>0, <2>1, <3>1, <3>2
  <2>3. DOMAIN worker' = Movements
    BY <1>0, <2>1
  <2> QED BY <2>1, <2>2, <2>3 DEF SlotInv, SlotHolderWaits, stopVars
<1>8. CASE ReaderFulfils
  <2>1. PICK k \in Slots :
          /\ Held(k) /\ pending[k] # NoThread
          /\ pending' = [pending EXCEPT ![k] = NoThread]
          /\ IF k = "ANNOUNCE_ACK" /\ main = "waiting" THEN main' = "ready" ELSE main' = main
          /\ worker' = [m \in Movements |->
                           IF pending[k] = m /\ worker[m] = "waiting" THEN "moving" ELSE worker[m]]
          /\ UNCHANGED <<reader, grants>> /\ OnlyReader
    BY ZenonT(40), <1>8 DEF ReaderFulfils
  <2>2. UNCHANGED <<reader, alive, grants, stopVars, driver>> /\ reader = "reading" /\ DOMAIN worker' = Movements
    BY Zenon, <2>1 DEF OnlyReader, Held, coordinatorVars
  <2>3. CASE k = "ANNOUNCE_ACK"
    <3>1. \A m \in Movements : worker'[m] = worker[m]
      BY <1>0, <2>1, <2>3 DEF SlotInv
    <3>2. /\ DOMAIN pending' = Slots /\ pending'["ANNOUNCE_ACK"] = NoThread
          /\ pending'["TOPOLOGY_REPORT"] = pending["TOPOLOGY_REPORT"]
      BY <1>0, <2>1, <2>3 DEF Slots
    <3>3. main' \in {main, "ready"}
      BY <2>1
    <3> QED BY <2>2, <3>1, <3>2, <3>3 DEF SlotInv, SlotHolderWaits, stopVars
  <2>4. CASE k = "TOPOLOGY_REPORT"
    <3>1. /\ DOMAIN pending' = Slots /\ pending'["TOPOLOGY_REPORT"] = NoThread
          /\ pending'["ANNOUNCE_ACK"] = pending["ANNOUNCE_ACK"] /\ main' = main
      BY <1>0, <2>1, <2>4 DEF Slots
    <3> QED BY <1>0, <2>2, <3>1 DEF SlotInv, SlotHolderWaits, stopVars
  <2> QED BY <2>3, <2>4 DEF Slots
<1> QED BY <1>2, <1>3, <1>4, <1>5, <1>6, <1>7, <1>8 DEF Reader

\* stop() releases whoever waits.
LEMMA StopKeepsSlots ==
    ASSUME SlotInv, StopSignals \/ Stop
    PROVE  SlotInv'
<1>1. CASE StopSignals
  <2>1. /\ UNCHANGED <<main, reader, alive, pending, grants, worker, driver>>
        /\ main \in {"ready", "waiting", "expired"} /\ stopping' = TRUE /\ stopper' = "signalled"
    BY <1>1 DEF StopSignals, mainVars, threadVars, coordinatorVars
  <2> QED BY <2>1 DEF SlotInv, SlotHolderWaits
<1>2. CASE StopShuts
  <2>1. /\ UNCHANGED <<main, reader, pending, grants, worker, stopping, driver>>
        /\ stopper = "signalled" /\ stopper' = "shut" /\ alive' = FALSE
    BY <1>2 DEF StopShuts, mainVars, coordinatorVars
  <2> QED BY <2>1 DEF SlotInv, SlotHolderWaits
<1>3. CASE StopJoins
  <2>1. /\ UNCHANGED <<main, reader, alive, pending, grants, worker, stopping, driver>>
        /\ stopper = "joining" /\ stopper' = "stopped"
    BY <1>3 DEF StopJoins, mainVars, threadVars, coordinatorVars
  <2> QED BY <2>1 DEF SlotInv, SlotHolderWaits
<1>4. CASE StopDrains
  <2>1. Drain /\ UNCHANGED <<reader, alive, grants, stopping, driver>> /\ stopper = "shut"
    BY <1>4 DEF StopDrains, coordinatorVars
  <2>2. /\ reader \in {"reading", "ended"} /\ ~alive /\ DOMAIN driver = Movements
        /\ reader # "reading" => grants = {} \/ stopping
    BY <2>1 DEF SlotInv
  <2> QED BY <2>1, <2>2, DrainKeepsSlots
<1> QED BY <1>1, <1>2, <1>3, <1>4 DEF Stop

\* Nothing at the coordinator reaches the endpoint's table but through a frame.
LEMMA SlotStep ==
    ASSUME StreamInv, InOrder, SlotInv, ExecuteInv, [Next]_vars
    PROVE  SlotInv'
<1>1. ASSUME UNCHANGED endpointVars, DOMAIN driver' = Movements PROVE SlotInv'
  BY <1>1 DEF SlotInv, SlotHolderWaits, endpointVars, mainVars, threadVars, stopVars
<1>2. CASE UNCHANGED vars
  BY <1>1, <1>2 DEF vars, coordinatorVars, SlotInv
<1>3. ASSUME \/ Session \/ SessionFails \/ CoordinatorShuts
             \/ \E m \in Movements, o \in SendOutcomes : DriverGrants(m, o) \/ DriverExecutes(m, o)
             \/ \E m \in Movements : DriverExpires(m)
      PROVE  SlotInv'
  <2>1. UNCHANGED endpointVars
    BY <1>3, CoordinatorThreadMoves
  <2>2. DOMAIN driver = Movements
    BY DEF SlotInv
  <2>3. DOMAIN driver' = Movements
    BY ZenonT(40), <1>3, <2>2
       DEF Session, SessionFails, CoordinatorShuts, SessionReceives, KeySession, HandleRegister, Deliver, SessionEnds,
           AcceptHello, AckRegister, HandleAnnounce, HandleTopology, SessionReports, DriverGrants,
           DriverExecutes, DriverExpires, Tell, coordinatorVars
  <2> QED BY <1>1, <2>1, <2>3
<1>4. CASE Next
  BY <1>3, <1>4, ConnectingKeepsSlots, AnnounceKeepsSlots, WorkerKeepsSlots, ReaderKeepsSlots, StopKeepsSlots DEF Next
<1> QED BY <1>2, <1>4

----------------------------------------------------------------------------
(* Announcements                                                             *)

\* A step may only lose what was still going to be read (send).
LEMMA LiveBefore ==
    ASSUME StreamInv, [Next]_vars, NEW f, Live(f)'
    PROVE  Live(f)
<1>0. "client" \in Ends
  BY DEF Ends
<1>1. StreamStep
  BY NextIsStreamStep
<1>2. firstLost["client"] # 0 => firstLost'["client"] = firstLost["client"]
  <2>1. CASE SilentStep \/ ReceiveStep
    BY <2>1 DEF SilentStep, ReceiveStep, Receive, numbers
  <2>2. CASE SendStep
    <3>1. PICK d \in Ends : \E type, body, outcome : send(d, type, body, outcome)
      BY <2>2 DEF SendStep
    <3>2. PICK type, body, outcome : send(d, type, body, outcome)
      BY <3>1
    <3>3. firstLost \in [Ends -> Nat]
      BY DEF StreamInv, NumbersOK
    <3> QED BY <1>0, <3>2, <3>3 DEF send
  <2> QED BY <1>1, <2>1, <2>2 DEF StreamStep
<1> QED BY <1>2 DEF Live

\* A step that neither announces, nor answers or delivers an announcement.
QuietMoves ==
    /\ UNCHANGED <<inventory, generation, acknowledged>>
    /\ expiries' \in Nat /\ (expiries' = 0 => expiries = 0)
    /\ reader' = "none" => reader = "none"
    /\ main' = "expired" => expiries' # 0
    /\ expiries' = 0 /\ reader' = "reading" =>
         /\ main' = "ready" /\ alive' => reader = "none" \/ (reader = "reading" /\ main = "ready" /\ alive)
         /\ main' = "waiting" => reader = "reading" /\ main = "waiting"

\* The frames of announcements under way are among those that were.
Mute ==
    /\ \A f \in InTransit("client")' : f.type = "ANNOUNCE_OBJECT" => f \in InTransit("client")
    /\ \A f \in InTransit("server")' : f.type = "ANNOUNCE_ACK" => f \in InTransit("server")

\* Such a step leaves the announcement under way where it was, or loses it.
LEMMA QuietStep ==
    ASSUME StreamInv, AnnounceInv, Mute, QuietMoves, [Next]_vars
    PROVE  AnnounceInv'
<1>1. Announced' \subseteq Announced
  BY LiveBefore DEF Announced, Mute
<1>2. Acks' \subseteq Acks
  BY DEF Acks, Mute
<1>3. /\ inventory' \in Nat /\ generation' \in Nat /\ expiries' \in Nat /\ acknowledged' \subseteq Nat
      /\ AckedIsAnnounced' /\ (main' = "expired" => expiries' # 0)
  BY DEF AnnounceInv, QuietMoves, AckedIsAnnounced
<1>4. \A f \in InTransit("client")' : f.type = "ANNOUNCE_OBJECT" => f.body \in Nat
  BY DEF AnnounceInv, Mute
<1>5. reader' = "none" => (\A f \in InTransit("client")' : f.type # "ANNOUNCE_OBJECT") /\ Acks' = {}
  BY <1>2 DEF AnnounceInv, Mute, QuietMoves
<1>6. ASSUME expiries' = 0, reader' = "reading", main' = "ready", alive' PROVE Announced' = {} /\ Acks' = {}
  <2>1. expiries = 0 /\ (reader = "none" \/ (reader = "reading" /\ main = "ready" /\ alive))
    BY <1>6 DEF QuietMoves
  <2>2. Announced = {} /\ Acks = {}
    BY <2>1 DEF AnnounceInv, Announced
  <2> QED BY <1>1, <1>2, <2>2
<1>7. ASSUME expiries' = 0, reader' = "reading", main' = "waiting"
      PROVE  /\ \A f \in Announced' : f.body = generation' /\ Acks' = {}
             /\ \A f, g \in Announced' : f = g
             /\ \A f, g \in Acks' : f = g
             /\ \A f \in Acks' : f.body = OK => generation' <= inventory'
  <2>1. expiries = 0 /\ reader = "reading" /\ main = "waiting" /\ UNCHANGED <<inventory, generation>>
    BY <1>7 DEF QuietMoves
  <2>2. /\ \A f \in Announced : f.body = generation /\ Acks = {}
        /\ \A f, g \in Announced : f = g
        /\ \A f, g \in Acks : f = g
        /\ \A f \in Acks : f.body = OK => generation <= inventory
    BY <2>1 DEF AnnounceInv
  <2> QED BY <1>1, <1>2, <2>1, <2>2
<1> QED BY ZenonT(40), <1>3, <1>4, <1>5, <1>6, <1>7 DEF AnnounceInv

\* announce(): a message that does not get out whole will not be read.
LEMMA AnnounceSent ==
    ASSUME StreamInv, InOrder, SlotInv, AnnounceInv, [Next]_vars,
           NEW g \in Generations, NEW o, Announce(g, o)
    PROVE  AnnounceInv'
<1>0. "client" \in Ends /\ "server" \in Ends /\ "client" # "server" /\ NoFrame.type = "INVALID" /\ g \in Nat
  BY ZenonT(40), LinkAssumption DEF Ends, NoFrame
<1>1. /\ Say("client", "ANNOUNCE_OBJECT", g, o) /\ main = "ready" /\ alive /\ generation' = g
      /\ UNCHANGED <<inventory, expiries, acknowledged, reader, alive>>
      /\ main' = IF SendOk("client", "ANNOUNCE_OBJECT", o) THEN "waiting" ELSE "ready"
  BY DEF Announce, send_control, SentControl, coordinatorVars
<1>2. reader # "none" /\ Say("client", "ANNOUNCE_OBJECT", g, o)
  BY <1>1 DEF SlotInv
<1>3. ASSUME NEW f, Fresh("client", f) PROVE f.body = g /\ f.sequence = calls["client"] + 1
  <2>1. Tagged("client", f) /\ f.body = g
    BY <1>0, <1>2, <1>3, SaidFrame
  <2> QED BY Zenon, <2>1 DEF Tagged
<1>4. ASSUME NEW f PROVE ~Fresh("server", f)
  BY ZenonT(40), <1>0, <1>1, SaidFrame
<1>5. \A f \in InTransit("client")' : f.type = "ANNOUNCE_OBJECT" => f \in InTransit("client") \/ Fresh("client", f)
  BY <1>0 DEF Fresh
<1>6. Acks' \subseteq Acks
  BY <1>0, <1>4 DEF Fresh, Acks
<1>7. \A f \in InTransit("client")' : f.type = "ANNOUNCE_OBJECT" => f.body \in Nat
  BY <1>0, <1>3, <1>5 DEF AnnounceInv
<1>8. ASSUME expiries = 0, reader = "reading" PROVE Announced = {} /\ Acks = {}
  BY <1>1, <1>8 DEF AnnounceInv
<1>9. ASSUME expiries = 0, reader = "reading", NEW f \in Announced' PROVE Fresh("client", f)
  <2>1. f \in InTransit("client")' /\ f.type = "ANNOUNCE_OBJECT" /\ Live(f)'
    BY DEF Announced
  <2>2. Live(f)
    BY <2>1, LiveBefore
  <2> QED BY <1>5, <1>8, <1>9, <2>1, <2>2 DEF Announced
<1>10. ASSUME NEW f, Fresh("client", f), ~SendOk("client", "ANNOUNCE_OBJECT", o) PROVE ~Live(f)'
  <2>1. send("client", "ANNOUNCE_OBJECT", g, o) /\ HeldOrDone
    BY <1>1 DEF Say, HeldOrDone
  <2>2. Encodable("client", "ANNOUNCE_OBJECT") /\ o # "all"
    BY <1>0, <1>10, <2>1, SentFrame DEF SendOk
  <2>3. /\ firstLost \in [Ends -> Nat] /\ calls \in [Ends -> Nat] /\ firstLost["client"] <= calls["client"]
    BY <1>0 DEF StreamInv, NumbersOK, CallsAreNumbered
  <2>4. firstLost'["client"] = IF firstLost["client"] = 0 THEN calls["client"] + 1 ELSE firstLost["client"]
    BY <1>0, <2>1, <2>2, <2>3 DEF send
  <2>5. firstLost'["client"] # 0 /\ ~(calls["client"] + 1 < firstLost'["client"])
    BY <1>0, <2>3, <2>4
  <2> QED BY <1>3, <1>10, <2>5 DEF Live
<1>11. ASSUME expiries = 0, reader = "reading"
       PROVE  /\ main' = "ready" => Announced' = {} /\ Acks' = {}
              /\ Acks' = {} /\ \A f \in Announced' : f.body = g
              /\ \A f, h \in Announced' : f = h
  <2>1. Acks' = {}
    BY <1>6, <1>8, <1>11
  <2>2. main' = "ready" => Announced' = {}
    BY <1>1, <1>9, <1>10, <1>11 DEF Announced
  <2>3. \A f \in Announced' : f.body = g
    BY <1>3, <1>9, <1>11
  <2>4. \A f, h \in Announced' : f = h
    BY <1>0, <1>9, <1>11, NextIsStreamStep, OneFrame
  <2> QED BY <2>1, <2>2, <2>3, <2>4
<1>12. AckedIsAnnounced' /\ main' # "expired"
  BY <1>1 DEF AnnounceInv, AckedIsAnnounced
<1> QED BY Zenon, <1>0, <1>1, <1>2, <1>7, <1>11, <1>12 DEF AnnounceInv

\* The frame session_loop holds was sent whole, before any send that failed.
LEMMA HeldIsLive ==
    ASSUME StreamInv, InOrder
    PROVE  Live(held["server"])
<1>1. "server" \in Ends /\ Peer("server") = "client" /\ "client" \in Ends
  BY DEF Ends, Peer
<1>2. held["server"].sequence \in Nat /\ held["server"].sequence < expected_sequence["server"]
  BY <1>1 DEF InOrder
<1>3. firstLost["client"] # 0 => expected_sequence["server"] <= firstLost["client"]
  BY <1>1 DEF StreamInv, DeliveredPrefix
<1>4. expected_sequence["server"] \in Nat /\ firstLost["client"] \in Nat
  BY <1>1 DEF StreamInv, NumbersOK
<1> QED BY <1>2, <1>3, <1>4 DEF Live

\* ANNOUNCE_OBJECT is answered once, for what the inventory then holds.
LEMMA AnnounceAnswered ==
    ASSUME StreamInv, InOrder, SlotInv, AnnounceInv, [Next]_vars, NEW o, HandleAnnounce(o)
    PROVE  AnnounceInv'
<1>0. /\ "client" \in Ends /\ "server" \in Ends /\ "client" # "server" /\ Peer("server") = "client"
      /\ NoFrame.type = "INVALID" /\ OK # STALE_STATE_GENERATION
  BY DEF Ends, NoFrame, Peer, OK, STALE_STATE_GENERATION
<1>1. PICK h : h = held["server"]
  OBVIOUS
<1>2. PICK b : b = IF inventory > h.body THEN STALE_STATE_GENERATION ELSE OK
  OBVIOUS
<1>3. /\ Answer("server", "ANNOUNCE_ACK", b, o) \/ NoAnswer("server")
      /\ h.type = "ANNOUNCE_OBJECT" /\ UNCHANGED endpointVars
      /\ inventory' = IF inventory > h.body THEN inventory ELSE h.body
  BY <1>1, <1>2 DEF HandleAnnounce, push, Got, OnlySession
<1>4. UNCHANGED <<generation, expiries, acknowledged, main, reader, alive>>
  BY <1>3 DEF endpointVars, mainVars, threadVars
<1>5. h \in InTransit("client") /\ h \in Announced /\ h.body \in Nat /\ inventory \in Nat
  BY ZenonT(40), <1>1, <1>3, HeldInTransit, HeldIsLive DEF Announced, AnnounceInv
<1>6. Done("server") /\ wire'["client"] = wire["client"]
  BY <1>0, <1>3 DEF Answer, NoAnswer, send, StreamInv, NumbersOK
<1>7. h \notin InTransit("client")'
  BY ZenonT(40), <1>0, <1>1, <1>3, <1>6, Consumed DEF Idle
<1>8. \A f : ~Fresh("client", f)
  BY <1>0, <1>3, SaidFrame, Unsaid
<1>9. \A f : Fresh("server", f) => f.body = b
  BY <1>0, <1>3, SaidFrame, Unsaid
<1>10. \A f \in InTransit("client")' : f.type = "ANNOUNCE_OBJECT" => f \in InTransit("client") /\ f # h
  BY <1>0, <1>7, <1>8 DEF Fresh
<1>11. \A f \in Acks' : f \in Acks \/ Fresh("server", f)
  BY <1>0 DEF Acks, Fresh
<1>12. inventory' \in Nat /\ inventory <= inventory' /\ h.body <= inventory' /\ (b = OK => h.body <= inventory')
  BY <1>0, <1>2, <1>3, <1>5
<1>13. reader # "none" /\ ~(expiries = 0 /\ reader = "reading" /\ main = "ready" /\ alive)
  BY <1>3, <1>5 DEF AnnounceInv
<1>14. ASSUME expiries = 0, reader = "reading", main = "waiting"
       PROVE  /\ Announced' = {} /\ \A f, g \in Acks' : f = g
              /\ \A f \in Acks' : f.body = OK => generation <= inventory'
  <2>1. Acks = {} /\ h.body = generation /\ \A f \in Announced : f = h
    BY <1>5, <1>14 DEF AnnounceInv
  <2>2. Announced' = {}
    <3> SUFFICES ASSUME NEW f \in Announced' PROVE FALSE
      OBVIOUS
    <3>1. f \in InTransit("client")' /\ f.type = "ANNOUNCE_OBJECT" /\ Live(f)'
      BY DEF Announced
    <3>2. f \in InTransit("client") /\ f # h /\ Live(f)
      BY <1>10, <3>1, LiveBefore
    <3> QED BY <2>1, <3>1, <3>2 DEF Announced
  <2>3. \A f \in Acks' : Fresh("server", f)
    BY <1>11, <2>1
  <2>4. \A f, g \in Acks' : f = g
    BY <1>0, <2>3, NextIsStreamStep, OneFrame
  <2>5. \A f \in Acks' : f.body = OK => generation <= inventory'
    BY <1>9, <1>12, <2>1, <2>3
  <2> QED BY <2>2, <2>4, <2>5
<1>15. AckedIsAnnounced'
  <2>1. ASSUME expiries = 0, NEW g \in acknowledged PROVE g <= inventory'
    <3>1. g \in Nat /\ g <= inventory
      BY <2>1 DEF AnnounceInv, AckedIsAnnounced
    <3> QED BY <1>5, <1>12, <3>1
  <2> QED BY <1>4, <2>1 DEF AckedIsAnnounced
<1>16. \A f \in InTransit("client")' : f.type = "ANNOUNCE_OBJECT" => f.body \in Nat
  BY <1>10 DEF AnnounceInv
<1>17. main = "expired" => expiries # 0
  BY DEF AnnounceInv
<1>18. generation \in Nat /\ expiries \in Nat /\ acknowledged \subseteq Nat
  BY DEF AnnounceInv
<1> QED BY ZenonT(40), <1>4, <1>12, <1>13, <1>14, <1>15, <1>16, <1>17, <1>18 DEF AnnounceInv

\* The acknowledgement completes the announcement it is about.
LEMMA AnnounceFulfilled ==
    ASSUME StreamInv, InOrder, SlotInv, AnnounceInv, Mute, [Next]_vars, ReaderFulfils
    PROVE  AnnounceInv'
<1>0. "client" \in Ends /\ Peer("client") = "server" /\ "INVALID" \notin Slots
  BY Zenon DEF Ends, Peer, Slots
<1>1. PICK k \in Slots :
        /\ reader = "reading" /\ held["client"].type = k /\ pending[k] # NoThread /\ NoAnswer("client")
        /\ IF k = "ANNOUNCE_ACK" /\ main = "waiting"
           THEN /\ main' = "ready"
                /\ acknowledged' = acknowledged \cup
                        (IF held["client"].body = OK THEN {generation} ELSE {})
           ELSE UNCHANGED <<main, acknowledged>>
        /\ UNCHANGED <<reader, generation, expiries, alive, inventory>>
  BY DEF ReaderFulfils, Held, OnlyReader, coordinatorVars
<1>2. CASE ~(k = "ANNOUNCE_ACK" /\ main = "waiting")
  <2>1. QuietMoves
    BY Zenon, <1>1, <1>2 DEF QuietMoves, AnnounceInv
  <2> QED BY <2>1, QuietStep
<1>3. CASE k = "ANNOUNCE_ACK" /\ main = "waiting"
  <2>1. PICK a : a = held["client"]
    OBVIOUS
  <2>2. a \in Acks
    BY Zenon, <1>1, <1>3, <2>1, HeldInTransit DEF Acks
  <2>3. a \notin InTransit("server")'
    BY <1>0, <1>1, <1>3, <2>1, Consumed DEF NoAnswer, Idle
  <2>4. Announced' \subseteq Announced /\ Acks' \subseteq Acks
    BY LiveBefore DEF Announced, Acks, Mute
  <2>5. ASSUME expiries = 0
        PROVE  Announced' = {} /\ Acks' = {} /\ (a.body = OK => generation <= inventory)
    <3>1. /\ Announced = {} /\ \A f \in Acks : f = a
          /\ a.body = OK => generation <= inventory
      BY <1>1, <1>3, <2>2, <2>5 DEF AnnounceInv
    <3>2. a \notin Acks'
      BY <2>3 DEF Acks
    <3> QED BY Zenon, <2>4, <3>1, <3>2
  <2>6. AckedIsAnnounced'
    BY ZenonT(40), <1>1, <1>3, <2>1, <2>5 DEF AckedIsAnnounced, AnnounceInv
  <2>7. inventory \in Nat /\ generation \in Nat /\ expiries \in Nat /\ acknowledged' \subseteq Nat
    BY Zenon, <1>1, <1>3 DEF AnnounceInv
  <2>8. \A f \in InTransit("client")' : f.type = "ANNOUNCE_OBJECT" => f.body \in Nat
    BY DEF AnnounceInv, Mute
  <2> QED BY Zenon, <1>1, <1>3, <2>5, <2>6, <2>7, <2>8 DEF AnnounceInv
<1> QED BY <1>2, <1>3

\* Every other step of the endpoint.
LEMMA EndpointIsQuiet ==
    ASSUME SlotInv, AnnounceInv,
           \/ Connecting \/ MainReceiveFails \/ AnnounceExpires \/ AnnounceErases \/ StopSignals \/ Stop
           \/ (Reader /\ ~ReaderFulfils) \/ ReaderFails
           \/ \E m \in Movements : Worker(m)
    PROVE  QuietMoves
<1>0. expiries \in Nat /\ (main = "expired" => expiries # 0)
  BY DEF AnnounceInv
<1>1. ASSUME UNCHANGED <<inventory, generation, acknowledged, expiries, main>>,
             alive' => alive, reader' = reader \/ reader' = "ended"
      PROVE  QuietMoves
  BY <1>0, <1>1 DEF QuietMoves
<1>2. ASSUME UNCHANGED <<inventory, generation, acknowledged, expiries, reader>>,
             main' \notin {"ready", "waiting", "expired"}
      PROVE  QuietMoves
  BY <1>0, <1>2 DEF QuietMoves
<1>3. ASSUME NEW o, SendHello(o) \/ SendRegister(o) PROVE QuietMoves
  BY Zenon, <1>2, <1>3 DEF SendHello, SendRegister, OnlyMain, threadVars, coordinatorVars
<1>4. CASE MainReceives \/ MainReceiveFails \/ HandleHelloAck \/ Abandon
  BY Zenon, <1>2, <1>4 DEF MainReceives, MainReceiveFails, HandleHelloAck, Abandon, OnlyMain, threadVars, coordinatorVars
<1>5. CASE HandleRegisterAck
  <2>1. /\ UNCHANGED <<inventory, generation, acknowledged, expiries>> /\ main = "await register"
        /\ \/ main' = "ready" /\ reader' = "reading"
           \/ main' = "abandon" /\ reader' = reader
    BY Zenon, <1>5 DEF HandleRegisterAck, coordinatorVars
  <2>2. reader = "none"
    BY ZenonT(40), <2>1 DEF SlotInv
  <2> QED BY Zenon, <1>0, <2>1, <2>2 DEF QuietMoves
<1>6. CASE AnnounceExpires
  <2>1. UNCHANGED <<inventory, generation, acknowledged, reader>> /\ main' = "expired" /\ expiries' = expiries + 1
    BY <1>6 DEF AnnounceExpires, threadVars, coordinatorVars
  <2>2. expiries' \in Nat /\ expiries' # 0
    BY <1>0, <2>1
  <2> QED BY <2>1, <2>2 DEF QuietMoves
<1>7. CASE AnnounceErases
  <2>1. UNCHANGED <<inventory, generation, acknowledged, reader, expiries>> /\ main = "expired" /\ main' = "ready"
    BY Zenon, <1>7 DEF AnnounceErases, coordinatorVars
  <2> QED BY <1>0, <2>1 DEF QuietMoves
<1>8. CASE StopSignals \/ StopShuts \/ StopJoins
  BY <1>1, <1>8 DEF StopSignals, StopShuts, StopJoins, mainVars, threadVars, coordinatorVars
<1>9. CASE StopDrains
  <2>1. /\ UNCHANGED <<inventory, generation, acknowledged, expiries, reader, alive>> /\ stopper = "shut"
        /\ main' \in {main, "ready"}
    BY ZenonT(40), <1>9 DEF StopDrains, Drain, coordinatorVars
  <2>2. ~alive /\ reader # "none"
    BY <2>1 DEF SlotInv
  <2> QED BY <1>0, <2>1, <2>2 DEF QuietMoves
<1>10. CASE ReaderReceives \/ ReaderLeaves
  BY <1>1, <1>10 DEF ReaderReceives, ReaderLeaves, endpointVars, mainVars, threadVars, coordinatorVars
<1>11. CASE ReaderFails
  <2>1. /\ UNCHANGED <<inventory, generation, acknowledged, expiries>> /\ reader' = "ended"
        /\ main' \in {main, "ready"}
    BY ZenonT(40), <1>11 DEF ReaderFails, Drain, OnlyReader, coordinatorVars
  <2> QED BY <1>0, <2>1 DEF QuietMoves
<1>12. CASE ReaderDrops \/ on_execute
  BY <1>1, <1>12 DEF ReaderDrops, on_execute, OnlyHandler, OnlyReader, coordinatorVars
<1>13. ASSUME NEW o, on_grant(o) PROVE QuietMoves
  BY <1>1, <1>13 DEF on_grant, OnlyHandler, OnlyReader, coordinatorVars
<1>14. ASSUME NEW o, ReaderReports(o) PROVE QuietMoves
  BY <1>1, <1>14 DEF ReaderReports, endpointVars, mainVars, threadVars, coordinatorVars
<1>15. ASSUME NEW m \in Movements, Worker(m) PROVE QuietMoves
  <2>1. UNCHANGED <<inventory, generation, acknowledged, expiries, main, alive, reader>>
    BY ZenonT(40), <1>15 DEF Worker, WorkerStarts, WorkerReports, WorkerExpires, WorkerErases, WorkerMoves, OnlyWorker, mainVars,
       coordinatorVars
  <2> QED BY <1>1, <2>1
<1> QED BY <1>3, <1>4, <1>5, <1>6, <1>7, <1>8, <1>9, <1>10, <1>11, <1>12, <1>13, <1>14, <1>15
        DEF Connecting, Reader, Stop

\* And every other step of the coordinator.
LEMMA CoordinatorIsQuiet ==
    ASSUME SlotInv, AnnounceInv, ~AnswersAnnounce,
           \/ Session \/ SessionFails \/ CoordinatorShuts
           \/ \E m \in Movements, o \in SendOutcomes : DriverGrants(m, o) \/ DriverExecutes(m, o)
           \/ \E m \in Movements : DriverExpires(m)
    PROVE  QuietMoves
<1>1. UNCHANGED endpointVars
  BY CoordinatorThreadMoves
<1>2. \A o : ~HandleAnnounce(o)
  BY DEF AnswersAnnounce
<1>3. UNCHANGED inventory
  BY Zenon, <1>2 DEF Session, SessionFails, CoordinatorShuts, SessionReceives, KeySession, HandleRegister, Deliver, SessionEnds,
     AcceptHello, AckRegister, HandleTopology, SessionReports, DriverGrants, DriverExecutes, DriverExpires, Tell,
     OnlyDriver, coordinatorVars
<1> QED BY <1>1, <1>3 DEF QuietMoves, AnnounceInv, endpointVars, mainVars, threadVars

\* Announcements stay in step with the inventory.
LEMMA AnnounceStep ==
    ASSUME StreamInv, InOrder, SlotInv, AnnounceInv, [Next]_vars
    PROVE  AnnounceInv'
<1>1. ASSUME NEW g \in Generations, NEW o, Announce(g, o) PROVE AnnounceInv'
  BY <1>1, AnnounceSent
<1>2. CASE AnswersAnnounce
  BY <1>2, AnnounceAnswered DEF AnswersAnnounce
<1>3. CASE (\A g \in Generations : ~Announces(g)) /\ ~AnswersAnnounce
  <2>1. Traffic /\ NoFrame.type = "INVALID"
    BY NextTraffic DEF NoFrame
  <2>2. Mute
    BY Zenon, <1>3, <2>1, OldOrFresh DEF Mute, ClientSays, ServerSays
  <2>3. CASE ReaderFulfils
    BY <2>2, <2>3, AnnounceFulfilled
  <2>4. CASE UNCHANGED vars
    <3>1. QuietMoves
      BY <2>4 DEF QuietMoves, AnnounceInv, vars, endpointVars, mainVars, threadVars, coordinatorVars
    <3> QED BY Zenon, <2>2, <3>1, QuietStep
  <2>5. CASE Next /\ ~ReaderFulfils
    <3>1. QuietMoves
      BY <1>3, <2>5, EndpointIsQuiet, CoordinatorIsQuiet DEF Next, Announces
    <3> QED BY <2>2, <3>1, QuietStep
  <2> QED BY <2>3, <2>4, <2>5
<1> QED BY <1>1, <1>2, <1>3 DEF Announces

----------------------------------------------------------------------------
(* The link as a whole                                                       *)

FrameInv == StreamInv /\ InOrder /\ WholeFrames
AgreementInv == KeyInv /\ TagInv /\ RefusalHasCause
ThreadInv == SlotInv /\ ExecuteInv /\ GrantInv /\ AnnounceInv
LinkInv == FrameInv /\ AgreementInv /\ ThreadInv

\* A fresh connection: nothing on its way, no key, no thread.
LEMMA LinkInit ==
    ASSUME Init
    PROVE  LinkInv
<1>0. "client" \in Ends /\ "server" \in Ends /\ Peer("client") = "server" /\ Peer("server") = "client"
  BY DEF Ends, Peer
<1>1. StreamInv
  BY Zenon, InitStream DEF Init
<1>2. /\ \A e \in Ends : Len(wire[e]) = 0 /\ held[e] = NoFrame /\ Peer(e) \in Ends
      /\ DOMAIN held = Ends /\ NoFrame.sequence = 0 /\ NoFrame.type = "INVALID" /\ NoFrame.tag = NoKey
  BY DEF Init, StreamInit, NoFrame, Peer, Ends
<1>3. ASSUME NEW e \in Ends PROVE InTransit(e) = {NoFrame}
  <2>1. 1 .. Len(wire[e]) = {}
    BY <1>2
  <2>2. OnWire(e) = {}
    BY <2>1 DEF OnWire
  <2> QED BY <1>2, <2>2 DEF InTransit
<1>4. InOrder
  <2>1. \A e \in Ends : expected_sequence[e] = 1
    BY Zenon DEF Init, StreamInit
  <2> QED BY <1>2, <2>1 DEF InOrder
<1>5. WholeFrames
  <2>1. ASSUME NEW e \in Ends PROVE Unread(e) = 0
    <3>1. calls[e] = 0 /\ expected_sequence[Peer(e)] = 1
      BY <1>2 DEF Init, StreamInit
    <3> QED BY <3>1 DEF Unread
  <2>2. ASSUME NEW w, Len(w) = 0, NEW x PROVE Whole(w, 0, x)
    BY <2>2 DEF Whole
  <2> QED BY Zenon, <1>2, <2>1, <2>2 DEF WholeFrames
<1>6. KeyInv /\ TagInv
  <2>1. /\ DOMAIN key = Ends /\ key["client"] = NoKey /\ key["server"] = NoKey
        /\ session = "hello" /\ erring = {}
        /\ \A m \in Movements : driver[m] = "ready"
    BY <1>0 DEF Init, StreamInit
  <2>2. InTransit("client") = {NoFrame} /\ InTransit("server") = {NoFrame}
    BY Zenon, <1>0, <1>3
  <2>3. KeyInv
    BY Zenon, <1>2, <2>1, <2>2 DEF KeyInv, Opened
  <2>4. TagInv
    BY <1>2, <1>3, <2>1, <2>2 DEF TagInv
  <2> QED BY <2>3, <2>4
<1>8. RefusalHasCause
  BY ZenonT(40) DEF RefusalHasCause, Init, StreamInit
<1>9. SlotInv
  BY LinkAssumption DEF SlotInv, SlotHolderWaits, Init, Slots
<1>10. ExecuteInv /\ GrantInv
  <2>1. /\ reader = "none" /\ \A m \in Movements : driver[m] = "ready" /\ worker[m] = "none"
    BY DEF Init
  <2>2. \A f \in InTransit("client") \cup InTransit("server") : f.type \notin {"GRANT_ACK", "EXECUTE_MOVEMENT"}
    BY <1>0, <1>2, <1>3
  <2> QED BY ZenonT(40), <2>1, <2>2 DEF ExecuteInv, GrantInv, AckedGrantIsHeld
<1>11. AnnounceInv
  <2>1. /\ inventory = 0 /\ generation = 0 /\ expiries = 0 /\ acknowledged = {}
        /\ reader = "none" /\ main = "connect"
    BY DEF Init
  <2>2. Acks = {} /\ \A f \in InTransit("client") : f.type # "ANNOUNCE_OBJECT"
    BY <1>0, <1>2, <1>3 DEF Acks
  <2> QED BY <2>1, <2>2 DEF AnnounceInv, AckedIsAnnounced
<1> QED BY <1>1, <1>4, <1>5, <1>6, <1>8, <1>9, <1>10, <1>11 DEF LinkInv, FrameInv, AgreementInv, ThreadInv

\* Every step of either process preserves it.
LEMMA LinkStep ==
    ASSUME LinkInv, [Next]_vars
    PROVE  LinkInv'
<1> USE DEF LinkInv, FrameInv, AgreementInv, ThreadInv
<1>1. StreamInv'
  BY NextIsStreamStep, StreamKept
<1>2. InOrder' /\ WholeFrames'
  BY NextIsStreamStep, FramesInOrder
<1>3. Traffic /\ LinkMoves
  BY NextTraffic, NextLinkMoves
<1>4. KeyInv'
  BY <1>3, KeyStep
<1>5. TagInv'
  BY <1>3, TagStep
<1>6. RefusalHasCause'
  BY RefusalCause
<1>7. SlotInv' /\ ExecuteInv' /\ GrantInv' /\ AnnounceInv'
  BY SlotStep, ExecuteStep, GrantStep, AnnounceStep
<1> QED BY <1>1, <1>2, <1>4, <1>5, <1>6, <1>7

\* The invariant of the link.
LEMMA LinkInvariant == Spec => []LinkInv
<1>1. Init => LinkInv
  BY LinkInit
<1>2. LinkInv /\ [Next]_vars => LinkInv'
  BY LinkStep
<1> QED BY <1>1, <1>2, PTL DEF Spec

\* run_transfer is the only way to wait for a topology, and it has its grant.
LEMMA WaitsOnAGrant ==
    ASSUME SlotInv, [Next]_vars, NEW m \in Movements, worker[m] = "start", worker'[m] = "waiting"
    PROVE  m \in grants
<1>0. DOMAIN worker = Movements
  BY DEF SlotInv
<1>1. ASSUME UNCHANGED worker PROVE FALSE
  BY <1>1
<1>2. CASE UNCHANGED vars
  BY <1>1, <1>2 DEF vars, endpointVars, threadVars
<1>3. CASE \/ Session \/ SessionFails \/ CoordinatorShuts
           \/ \E n \in Movements, o \in SendOutcomes : DriverGrants(n, o) \/ DriverExecutes(n, o)
           \/ \E n \in Movements : DriverExpires(n)
  <2>1. UNCHANGED endpointVars
    BY <1>3, CoordinatorThreadMoves
  <2> QED BY Zenon, <1>1, <2>1 DEF endpointVars, threadVars
<1>4. CASE Connecting \/ MainReceiveFails \/ AnnounceExpires \/ AnnounceErases \/ StopSignals
  <2>1. UNCHANGED worker
    BY ZenonT(40), <1>4 DEF Connecting, SendHello, SendRegister, MainReceives, MainReceiveFails, HandleHelloAck, HandleRegisterAck,
       Abandon, AnnounceExpires, AnnounceErases, StopSignals, OnlyMain, threadVars
  <2> QED BY <1>1, <2>1
<1>5. CASE \E g \in Generations, o \in SendOutcomes : Announce(g, o)
  BY <1>1, <1>5 DEF Announce
<1>6. CASE Stop \/ ReaderFails
  BY Zenon, <1>6 DEF Stop, StopShuts, StopDrains, StopJoins, ReaderFails, Drain, threadVars
<1>7. CASE Reader
  BY ZenonT(40), <1>0, <1>7 DEF Reader, ReaderReceives, ReaderLeaves, ReaderFulfils, ReaderDrops, on_execute, on_grant,
     ReaderReports, endpointVars, threadVars
<1>8. ASSUME NEW n \in Movements, Worker(n) PROVE m \in grants
  <2>1. CASE n # m
    BY Zenon, <1>0, <1>8, <2>1 DEF Worker, WorkerStarts, WorkerReports, WorkerExpires, WorkerErases, WorkerMoves
  <2>2. CASE n = m
    BY Zenon, <1>0, <1>8, <2>2 DEF Worker, WorkerStarts, WorkerReports, WorkerExpires, WorkerErases, WorkerMoves
  <2> QED BY <2>1, <2>2
<1> QED BY Zenon, <1>2, <1>3, <1>4, <1>5, <1>6, <1>7, <1>8 DEF Next

\* accept_hello_request and set_session_key: the coordinator keys a session only
\* with an endpoint that holds its secret and offered the listener's role, and
\* two keyed ends have the same key.
THEOREM KeyedEndsArePeers == Spec => []KeyedIsPeer
<1>1. LinkInv => KeyedIsPeer
  BY OneKey DEF LinkInv, AgreementInv
<1> QED BY <1>1, LinkInvariant, PTL

\* verify() in FrameCodec: no order of sends, receives and keying makes an end
\* refuse a frame that was sent whole on an unbroken stream.
THEOREM RefusedAfterALoss == Spec => []RefusalHasCause
<1>1. LinkInv => RefusalHasCause
  BY DEF LinkInv, AgreementInv
<1> QED BY <1>1, LinkInvariant, PTL

\* No path through announce(), run_transfer, the reader or stop() leaves a
\* promise in the endpoint's table that no thread waits for.
THEOREM SlotsAreGivenBack == Spec => []SlotHolderWaits
<1>1. LinkInv => SlotHolderWaits
  BY DEF LinkInv, ThreadInv, SlotInv
<1> QED BY <1>1, LinkInvariant, PTL

\* on_grant: a grant the coordinator has seen acknowledged is in the endpoint's
\* table for as long as the endpoint reads the link.
THEOREM AckedGrantsAreHeld == Spec => []AckedGrantIsHeld
<1>1. LinkInv => AckedGrantIsHeld
  BY DEF LinkInv, ThreadInv, GrantInv, AckedGrantIsHeld
<1> QED BY <1>1, LinkInvariant, PTL

\* announce(): while none has timed out, a generation reported as announced is in
\* the coordinator's inventory or superseded there.
THEOREM AnnouncedIsInInventory == Spec => []AckedIsAnnounced
<1>1. LinkInv => AckedIsAnnounced
  BY DEF LinkInv, ThreadInv, AnnounceInv
<1> QED BY <1>1, LinkInvariant, PTL

\* execute_movement_worker looks its grant up again, and control_reader_loop
\* clears the grants when the link ends: no transfer starts after that.
THEOREM NoTransferOnADeadLink == Spec => NoTransferAfterLinkEnd
<1> DEFINE Starts == \A m \in Movements :
                        worker[m] = "start" /\ worker'[m] = "waiting" => reader = "reading" \/ stopping
<1>1. LinkInv /\ [Next]_vars => [Starts]_vars
  <2> SUFFICES ASSUME LinkInv, [Next]_vars, NEW m \in Movements, worker[m] = "start", worker'[m] = "waiting"
               PROVE  reader = "reading" \/ stopping
    OBVIOUS
  <2>1. SlotInv
    BY DEF LinkInv, ThreadInv
  <2>2. m \in grants
    BY <2>1, WaitsOnAGrant
  <2> QED BY Zenon, <2>1, <2>2 DEF SlotInv
<1> QED BY <1>1, LinkInvariant, PTL DEF Spec, NoTransferAfterLinkEnd
=============================================================================
