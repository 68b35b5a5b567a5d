---------------------------- MODULE FramedStream ----------------------------
(* One TCP connection carrying frames between a client and a server          *)
(* (framing.cpp, and transport.cpp below it): sequence numbers, the session  *)
(* key, and what happens to the byte stream when a send gives up half-way.   *)
(* A frame's bytes are two pieces, the header and the rest; anything that is *)
(* not a header followed by its own rest fails the frame's tag or its        *)
(* decoding.                                                                 *)
EXTENDS Naturals, Sequences

Ends == {"client", "server"}
Peer(e) == IF e = "client" THEN "server" ELSE "client"

NoKey == <<>>
Handshake == {"HELLO", "HELLO_ACK", "HELLO_REJECT"}

VARIABLES
    key,                  \* FrameCodec::key_ of each end
    send_sequence,        \* FrameCodec::send_sequence_
    expected_sequence,    \* FrameCodec::expected_sequence_
    wire,                 \* pieces an end has written and its peer has not read
    held,                 \* the frame receive() returned, until its reader is done with it
    shut,                 \* ends that shut down or closed their socket
    calls,                \* frames each end set out to send
    firstLost,            \* the first of those calls that failed, or 0
    refused,              \* ends that refused what they read
    stalls                \* sends that may yet fail while the peer is still there

streamVars == <<key, send_sequence, expected_sequence, wire, held, shut, calls,
                firstLost, refused, stalls>>

NoFrame == [type |-> "INVALID", sequence |-> 0, tag |-> NoKey, body |-> 0]

Idle(e) == held[e].type = "INVALID"

StreamInit(n) ==
    /\ key = [e \in Ends |-> NoKey]
    /\ send_sequence = [e \in Ends |-> 1]
    /\ expected_sequence = [e \in Ends |-> 1]
    /\ wire = [e \in Ends |-> <<>>]
    /\ held = [e \in Ends |-> NoFrame]
    /\ shut = {}
    /\ calls = [e \in Ends |-> 0]
    /\ firstLost = [e \in Ends |-> 0]
    /\ refused = {}
    /\ stalls = n

----------------------------------------------------------------------------
(* FrameStream::send                                                         *)

\* FrameCodec::encode: the handshake before the session is keyed, everything
\* else after.
Encodable(e, type) == (type \in Handshake) = (key[e] = NoKey)

encode(e, type, body) ==
    [type |-> type, sequence |-> send_sequence[e], tag |-> key[e], body |-> body]

\* What send_all leaves on the connection.  Towards a peer that has closed, the
\* kernel may still take the bytes; an end that shut down writes nothing.
Outcomes(e) ==
    IF e \in shut THEN {"nothing"}
    ELSE IF Peer(e) \in shut THEN {"all", "nothing"}
    ELSE {"all"} \cup (IF stalls > 0 THEN {"nothing", "header"} ELSE {})

Pieces(frame, outcome) ==
    CASE outcome = "all" -> << <<"header", frame>>, <<"rest", frame>> >>
      [] outcome = "header" -> << <<"header", frame>> >>
      [] outcome = "nothing" -> <<>>

NextSequence_AfterBytes(e, outcome) ==
    IF outcome = "all" THEN send_sequence[e] + 1 ELSE send_sequence[e]

NextSequence_Kept(e, outcome) == send_sequence[e]

\* encode() takes the number before send_all writes a byte, so a failed send
\* uses it up.
NextSequence(e, outcome) == send_sequence[e] + 1

\* One call of FrameStream::send, under the link's send mutex where several
\* threads send.
send(e, type, body, outcome) ==
    /\ outcome \in Outcomes(e)
    /\ IF ~Encodable(e, type)
       THEN UNCHANGED <<send_sequence, wire, calls, firstLost, stalls>>
       ELSE /\ send_sequence' = [send_sequence EXCEPT ![e] = NextSequence(e, outcome)]
            /\ wire' = [wire EXCEPT ![e] = @ \o Pieces(encode(e, type, body), outcome)]
            /\ calls' = [calls EXCEPT ![e] = @ + 1]
            /\ firstLost' = [firstLost EXCEPT ![e] =
                                IF outcome # "all" /\ @ = 0 THEN calls[e] + 1 ELSE @]
            /\ stalls' = IF outcome = "all" \/ shut # {} THEN stalls ELSE stalls - 1

\* The Status a caller of send gets.
SendOk(e, type, outcome) == Encodable(e, type) /\ outcome = "all"

----------------------------------------------------------------------------
(* FrameStream::receive                                                      *)

Readable(e) == Len(wire[Peer(e)]) >= 2

\* The header read by e and the bytes that follow it.
Assembled(e) ==
    LET w == wire[Peer(e)]
    IN  /\ w[1][1] = "header"
        /\ w[2][1] = "rest" /\ w[2][2].sequence = w[1][2].sequence

verify(e, frame) ==
    /\ IF frame.type \in Handshake THEN frame.tag = NoKey
       ELSE frame.tag # NoKey /\ key[e] # NoKey /\ frame.tag = key[e]
    /\ frame.sequence = expected_sequence[e]

Incoming(e) == wire[Peer(e)][1][2]
Accepts(e) == Readable(e) /\ Assembled(e) /\ verify(e, Incoming(e))

\* receive() returns a frame ...
Receive(e) ==
    /\ Idle(e) /\ e \notin shut /\ Accepts(e)
    /\ held' = [held EXCEPT ![e] = Incoming(e)]
    /\ expected_sequence' = [expected_sequence EXCEPT ![e] = @ + 1]
    /\ wire' = [wire EXCEPT ![Peer(e)] = SubSeq(@, 3, Len(@))]
    /\ UNCHANGED <<key, send_sequence, shut, calls, firstLost, refused, stalls>>

ReceiveFails_NoTimeout(e) ==
    /\ Idle(e)
    /\ \/ Readable(e) /\ ~Accepts(e) /\ refused' = refused \cup {e}
       \/ shut # {} /\ UNCHANGED refused

\* ... or an error: what arrived is refused, or no whole frame comes because the
\* peer has closed (unread bytes may be lost with it), this end has shut down, or
\* io_budget_millis has passed.
ReceiveFails(e) ==
    /\ Idle(e)
    /\ \/ Readable(e) /\ ~Accepts(e) /\ refused' = refused \cup {e}
       \/ (shut # {} \/ ~Readable(e)) /\ UNCHANGED refused

----------------------------------------------------------------------------
(* Steps of the stream inside the steps of its users                         *)

Done(e) == held' = [held EXCEPT ![e] = NoFrame]

\* A thread sends; a reader finishes with a frame, answering it or not.
Say(e, type, body, outcome) ==
    /\ send(e, type, body, outcome)
    /\ UNCHANGED <<key, expected_sequence, held, shut, refused>>

NoAnswer(e) ==
    /\ Done(e)
    /\ UNCHANGED <<key, send_sequence, expected_sequence, wire, shut, calls, firstLost,
                   refused, stalls>>

Answer(e, type, body, outcome) ==
    /\ send(e, type, body, outcome) /\ Done(e)
    /\ UNCHANGED <<key, expected_sequence, shut, refused>>

set_session_key(e, k) ==
    /\ key' = [key EXCEPT ![e] = k] /\ Done(e)
    /\ UNCHANGED <<send_sequence, expected_sequence, wire, shut, calls, firstLost, refused,
                   stalls>>

\* The FrameStream is destroyed, or shut down: no call of it works any more.
Shut(e) ==
    /\ shut' = shut \cup {e} /\ Done(e)
    /\ UNCHANGED <<key, send_sequence, expected_sequence, wire, calls, firstLost, refused,
                   stalls>>

Failing(e) ==
    /\ ReceiveFails(e)
    /\ UNCHANGED <<key, send_sequence, expected_sequence, wire, held, shut, calls, firstLost,
                   stalls>>

----------------------------------------------------------------------------

\* What an end has accepted is the beginning of what its peer set out to send:
\* nothing is accepted past a send that failed, whatever part of it got out
\* (framing.cpp takes the sequence number before the bytes are written).
DeliveredPrefix ==
    \A e \in Ends :
        firstLost[Peer(e)] # 0 => expected_sequence[e] <= firstLost[Peer(e)]

\* A connection between two ends running this code refuses a frame only after a
\* send on it has failed: no order of sends, receives and keying makes verify()
\* refuse a frame that was sent whole on an unbroken stream.
RefusalHasCause ==
    \A e \in refused : firstLost[Peer(e)] # 0
=============================================================================
