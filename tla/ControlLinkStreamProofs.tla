---------------------- MODULE ControlLinkStreamProofs ----------------------
(* The framed stream under a control link, for any number of movements,      *)
(* generations, announcements, stalls and stops: the order of the frames on  *)
(* it, and who puts which frame there and when.                              *)
EXTENDS ControlLink, Integers, TLAPS

----------------------------------------------------------------------------
(* The steps of a stream                                                     *)

numbers == <<send_sequence, expected_sequence, wire, calls, firstLost>>

\* A reader keeps the frame it holds, or is done with it.
HeldOrDone == held' = held \/ \E e \in Ends : Done(e)

SendStep ==
    \E e \in Ends : \E type, body, outcome :
        send(e, type, body, outcome) /\ UNCHANGED expected_sequence /\ HeldOrDone

ReceiveStep == \E e \in Ends : Receive(e)

SilentStep == UNCHANGED numbers /\ HeldOrDone

StreamStep == SendStep \/ ReceiveStep \/ SilentStep

----------------------------------------------------------------------------
(* The inductive invariant                                                   *)

IsSequence(s) == s \in Seq({s[i] : i \in DOMAIN s})

NumbersOK ==
    /\ send_sequence \in [Ends -> Nat] /\ expected_sequence \in [Ends -> Nat]
    /\ calls \in [Ends -> Nat] /\ firstLost \in [Ends -> Nat]
    /\ DOMAIN wire = Ends
    /\ \A e \in Ends : IsSequence(wire[e])

\* Each call of send takes the next number, whether or not its bytes get out.
CallsAreNumbered ==
    \A e \in Ends : send_sequence[e] = calls[e] + 1 /\ firstLost[e] <= calls[e]

\* The bytes on the connection belong to calls already made, and the first call
\* that failed left no whole frame there.
NoWholeLostFrame ==
    \A e \in Ends : \A i \in 1 .. Len(wire[e]) :
        /\ wire[e][i][2].sequence \in 1 .. calls[e]
        /\ wire[e][i][1] = "rest" => wire[e][i][2].sequence # firstLost[e]

AcceptedWereSent ==
    \A e \in Ends : expected_sequence[e] <= calls[Peer(e)] + 1

StreamInv ==
    NumbersOK /\ CallsAreNumbered /\ NoWholeLostFrame /\ AcceptedWereSent /\ DeliveredPrefix

----------------------------------------------------------------------------

\* A member of any Seq(S) is one of Seq of its own elements.
LEMMA Sequenced ==
    ASSUME NEW S, NEW s \in Seq(S)
    PROVE  IsSequence(s)
<1> DEFINE V == {s[i] : i \in DOMAIN s}
<1>1. Len(s) \in Nat /\ s \in [1 .. Len(s) -> S] /\ DOMAIN s = 1 .. Len(s)
  OBVIOUS
<1>2. s \in [1 .. Len(s) -> V]
  BY <1>1
<1> HIDE DEF V
<1>3. s \in Seq(V)
  BY <1>1, <1>2
<1> QED BY <1>3 DEF IsSequence, V

\* Writing a frame's pieces after what is on the connection (send_all).
LEMMA Concatenation ==
    ASSUME NEW s, NEW t, IsSequence(s), IsSequence(t)
    PROVE  /\ IsSequence(s \o t) /\ Len(s \o t) = Len(s) + Len(t)
           /\ Len(s) \in Nat /\ Len(t) \in Nat
           /\ \A i \in 1 .. Len(s) : (s \o t)[i] = s[i]
           /\ \A i \in 1 .. Len(t) : (s \o t)[Len(s) + i] = t[i]
<1> DEFINE U == {s[i] : i \in DOMAIN s} \cup {t[i] : i \in DOMAIN t}
<1>1. s \in Seq(U) /\ t \in Seq(U)
  BY DEF IsSequence
<1> HIDE DEF U
<1>2. s \o t \in Seq(U)
  BY <1>1
<1>3. IsSequence(s \o t)
  BY Zenon, <1>2, Sequenced
<1> QED BY <1>1, <1>3

\* Reading a frame takes its two pieces off the front (receive_exact, twice).
LEMMA TwoPiecesRead ==
    ASSUME NEW s, IsSequence(s), Len(s) >= 2,
           NEW r, r = SubSeq(s, 3, Len(s))
    PROVE  /\ IsSequence(r) /\ Len(s) \in Nat /\ Len(r) = Len(s) - 2
           /\ \A i \in 1 .. Len(r) : r[i] = s[i + 2]
<1> DEFINE U == {s[i] : i \in DOMAIN s}
<1>1. s \in Seq(U)
  BY DEF IsSequence
<1> HIDE DEF U
<1>2. Len(s) \in Nat /\ \A i \in 3 .. Len(s) : s[i] \in U
  BY <1>1
<1>3. /\ r \in Seq(U) /\ Len(r) = IF 3 <= Len(s) THEN Len(s) - 3 + 1 ELSE 0
      /\ \A i \in 1 .. Len(s) - 3 + 1 : r[i] = s[3 + i - 1]
  BY <1>2
<1>4. IsSequence(r)
  BY Zenon, <1>3, Sequenced
<1>5. Len(r) = Len(s) - 2
  <2>1. \A n \in Nat : n >= 2 => (IF 3 <= n THEN n - 3 + 1 ELSE 0) = n - 2
    OBVIOUS
  <2> QED BY Zenon, <1>2, <1>3, <2>1
<1>6. ASSUME NEW i \in 1 .. Len(r)
      PROVE  r[i] = s[i + 2]
  <2>1. i \in 1 .. Len(s) - 3 + 1 /\ 3 + i - 1 = i + 2
    BY <1>2, <1>5
  <2> QED BY <2>1, <1>3
<1> QED BY <1>2, <1>4, <1>5, <1>6

----------------------------------------------------------------------------
(* The stream's steps keep the invariant                                     *)

\* A send takes the next number; when it fails for the first time, that number
\* is past everything on the connection and everything its peer has accepted.
LEMMA SendKeeps ==
    ASSUME StreamInv, SendStep
    PROVE  StreamInv'
<1>1. PICK e \in Ends : \E type, body, outcome :
          send(e, type, body, outcome) /\ UNCHANGED expected_sequence /\ HeldOrDone
  BY DEF SendStep
<1>2. PICK type, body, outcome :
          send(e, type, body, outcome) /\ UNCHANGED expected_sequence /\ HeldOrDone
  BY <1>1
<1> DEFINE f == encode(e, type, body)
           p == Pieces(f, outcome)
<1>3. CASE ~Encodable(e, type)
  <2>1. UNCHANGED numbers
    BY <1>2, <1>3 DEF send, numbers
  <2> QED BY <2>1 DEF numbers, StreamInv, NumbersOK, CallsAreNumbered, NoWholeLostFrame,
             AcceptedWereSent, DeliveredPrefix
<1>4. CASE Encodable(e, type)
  <2>1. /\ send_sequence' = [send_sequence EXCEPT ![e] = send_sequence[e] + 1]
        /\ wire' = [wire EXCEPT ![e] = wire[e] \o p]
        /\ calls' = [calls EXCEPT ![e] = calls[e] + 1]
        /\ firstLost' = [firstLost EXCEPT ![e] =
                IF outcome # "all" /\ firstLost[e] = 0 THEN calls[e] + 1 ELSE firstLost[e]]
        /\ expected_sequence' = expected_sequence
    BY <1>2, <1>4 DEF send, NextSequence
  <2>2. outcome \in {"all", "header", "nothing"}
    BY <1>2 DEF send, Outcomes
  <2>3. f.sequence = send_sequence[e]
    BY DEF encode
  <2>4. /\ IsSequence(p)
        /\ \A i \in 1 .. Len(p) : /\ p[i][2].sequence = send_sequence[e]
                                  /\ p[i][1] = "rest" => outcome = "all"
    <3> DEFINE P == {<<"header", f>>, <<"rest", f>>}
    <3> HIDE DEF f
    <3>1. CASE outcome = "all"
      <4>1. p = << <<"header", f>>, <<"rest", f>> >>
        BY <3>1 DEF Pieces
      <4>2. p \in Seq(P)
        BY <4>1
      <4> QED BY <2>3, <3>1, <4>1, <4>2, Sequenced
    <3>2. CASE outcome = "header"
      <4>1. p = << <<"header", f>> >>
        BY <3>2 DEF Pieces
      <4>2. p \in Seq(P)
        BY <4>1
      <4> QED BY <2>3, <3>2, <4>1, <4>2, Sequenced
    <3>3. CASE outcome = "nothing"
      <4>1. p = <<>>
        BY <3>3 DEF Pieces
      <4>2. p \in Seq(P)
        BY <4>1
      <4>3. Len(p) = 0 /\ IsSequence(p)
        BY Zenon, <4>1, <4>2, Sequenced
      <4> QED BY <4>3
    <3> QED BY <2>2, <3>1, <3>2, <3>3
  <2> HIDE DEF f, p
  <2>5. /\ IsSequence(wire[e] \o p) /\ Len(wire[e] \o p) = Len(wire[e]) + Len(p)
        /\ Len(wire[e]) \in Nat /\ Len(p) \in Nat
        /\ \A i \in 1 .. Len(wire[e]) : (wire[e] \o p)[i] = wire[e][i]
        /\ \A i \in 1 .. Len(p) : (wire[e] \o p)[Len(wire[e]) + i] = p[i]
    BY <2>4, Concatenation DEF StreamInv, NumbersOK
  <2>6. NumbersOK'
    BY SMTT(30), <2>1, <2>5 DEF StreamInv, NumbersOK
  <2>7. CallsAreNumbered'
    <3> SUFFICES ASSUME NEW d \in Ends PROVE send_sequence'[d] = calls'[d] + 1 /\ firstLost'[d] <= calls'[d]
      BY Zenon DEF CallsAreNumbered
    <3>1. /\ send_sequence[d] = calls[d] + 1 /\ firstLost[d] <= calls[d]
          /\ calls[d] \in Nat /\ firstLost[d] \in Nat
      BY Zenon DEF StreamInv, NumbersOK, CallsAreNumbered
    <3>2. CASE d # e
      <4>1. send_sequence'[d] = send_sequence[d] /\ calls'[d] = calls[d] /\ firstLost'[d] = firstLost[d]
        BY Zenon, <2>1, <3>2 DEF StreamInv, NumbersOK
      <4> QED BY <3>1, <4>1
    <3>3. CASE d = e
      <4>1. /\ send_sequence'[e] = send_sequence[e] + 1 /\ calls'[e] = calls[e] + 1
            /\ firstLost'[e] = firstLost[e] \/ firstLost'[e] = calls[e] + 1
        BY Zenon, <2>1 DEF StreamInv, NumbersOK
      <4> QED BY <3>1, <3>3, <4>1
    <3> QED BY <3>2, <3>3
  <2>8. NoWholeLostFrame'
    <3> SUFFICES ASSUME NEW d \in Ends, NEW i \in 1 .. Len(wire'[d])
                 PROVE  /\ wire'[d][i][2].sequence \in 1 .. calls'[d]
                        /\ wire'[d][i][1] = "rest" =>
                              wire'[d][i][2].sequence # firstLost'[d]
      BY DEF NoWholeLostFrame
    <3>1. CASE d # e
      BY <2>1, <3>1 DEF StreamInv, NumbersOK, NoWholeLostFrame
    <3>2. CASE d = e
      <4>1. wire'[d] = wire[e] \o p
        BY <2>1, <3>2 DEF StreamInv, NumbersOK
      <4>2. /\ calls'[d] = calls[e] + 1 /\ send_sequence[e] = calls[e] + 1
            /\ calls[e] \in Nat /\ firstLost[e] \in Nat /\ firstLost[e] <= calls[e]
            /\ firstLost'[d] = IF outcome # "all" /\ firstLost[e] = 0 THEN calls[e] + 1
                               ELSE firstLost[e]
        BY <2>1, <3>2 DEF StreamInv, NumbersOK, CallsAreNumbered
      <4>3. CASE i <= Len(wire[e])
        <5>1. i \in 1 .. Len(wire[e]) /\ wire'[d][i] = wire[e][i]
          BY <4>1, <4>3, <2>5
        <5>2. /\ wire[e][i][2].sequence \in 1 .. calls[e]
              /\ wire[e][i][1] = "rest" => wire[e][i][2].sequence # firstLost[e]
          BY <5>1 DEF StreamInv, NoWholeLostFrame
        <5> QED BY <5>1, <5>2, <4>2
      <4>4. CASE i > Len(wire[e])
        <5>1. PICK j \in 1 .. Len(p) : i = Len(wire[e]) + j
          <6>1. i - Len(wire[e]) \in 1 .. Len(p) /\ i = Len(wire[e]) + (i - Len(wire[e]))
            BY <4>1, <4>4, <2>5
          <6> QED BY Zenon, <6>1
        <5>2. wire'[d][i] = p[j]
          BY <4>1, <5>1, <2>5
        <5>3. /\ p[j][2].sequence = send_sequence[e]
              /\ p[j][1] = "rest" => outcome = "all"
          BY <2>4
        <5> QED BY <5>2, <5>3, <4>2
      <4>5. i <= Len(wire[e]) \/ i > Len(wire[e])
        BY <2>5
      <4> QED BY <4>3, <4>4, <4>5, Zenon
    <3> QED BY <3>1, <3>2
  <2>9. AcceptedWereSent' /\ DeliveredPrefix'
    BY <2>1 DEF StreamInv, NumbersOK, CallsAreNumbered, AcceptedWereSent, DeliveredPrefix,
       Peer, Ends
  <2> QED BY <2>6, <2>7, <2>8, <2>9 DEF StreamInv
<1> QED BY <1>3, <1>4

\* A frame is accepted under the next number expected, which is not that of the
\* first call that failed: that call left no whole frame to accept.
LEMMA ReceiveKeeps ==
    ASSUME StreamInv, ReceiveStep
    PROVE  StreamInv'
<1>1. PICK e \in Ends : Receive(e)
  BY DEF ReceiveStep
<1> DEFINE d == Peer(e)
           w == wire[d]
<1>2. d \in Ends /\ Peer(d) = e /\ d # e /\ \A x \in Ends : x = e \/ x = d
  BY DEF Peer, Ends
<1> HIDE DEF d
<1>3. /\ send_sequence' = send_sequence /\ calls' = calls /\ firstLost' = firstLost
      /\ expected_sequence' = [expected_sequence EXCEPT ![e] = expected_sequence[e] + 1]
      /\ wire' = [wire EXCEPT ![d] = SubSeq(w, 3, Len(w))]
  BY <1>1 DEF Receive, d
<1>4. /\ Len(w) >= 2
      /\ w[2][1] = "rest" /\ w[2][2].sequence = w[1][2].sequence
      /\ w[1][2].sequence = expected_sequence[e]
  BY <1>1 DEF Receive, Accepts, Readable, Assembled, verify, Incoming, d
<1>5. /\ IsSequence(wire'[d]) /\ Len(w) \in Nat /\ Len(wire'[d]) = Len(w) - 2
      /\ \A i \in 1 .. Len(wire'[d]) : wire'[d][i] = w[i + 2]
  <2>1. wire'[d] = SubSeq(w, 3, Len(w)) /\ IsSequence(w)
    BY <1>2, <1>3 DEF StreamInv, NumbersOK
  <2> QED BY ZenonT(40), <2>1, <1>4, TwoPiecesRead
<1>6. /\ expected_sequence[e] \in 1 .. calls[d]
      /\ expected_sequence[e] # firstLost[d]
  BY <1>2, <1>4, <1>5 DEF StreamInv, NoWholeLostFrame
<1>7. NumbersOK' /\ CallsAreNumbered'
  <2>1. /\ send_sequence' \in [Ends -> Nat] /\ calls' \in [Ends -> Nat]
        /\ firstLost' \in [Ends -> Nat]
    BY <1>3 DEF StreamInv, NumbersOK
  <2>2. expected_sequence' \in [Ends -> Nat]
    BY <1>3 DEF StreamInv, NumbersOK
  <2>3. DOMAIN wire' = Ends /\ wire'[e] = wire[e]
    BY <1>2, <1>3 DEF StreamInv, NumbersOK
  <2>4. \A x \in Ends : IsSequence(wire'[x])
    <3>1. IsSequence(wire[e])
      BY DEF StreamInv, NumbersOK
    <3> QED BY <3>1, <2>3, <1>2, <1>5
  <2>5. CallsAreNumbered'
    BY <1>3 DEF StreamInv, CallsAreNumbered
  <2> QED BY <2>1, <2>2, <2>3, <2>4, <2>5 DEF NumbersOK
<1>8. NoWholeLostFrame'
  <2> SUFFICES ASSUME NEW x \in Ends, NEW i \in 1 .. Len(wire'[x])
               PROVE  /\ wire'[x][i][2].sequence \in 1 .. calls'[x]
                      /\ wire'[x][i][1] = "rest" => wire'[x][i][2].sequence # firstLost'[x]
    BY DEF NoWholeLostFrame
  <2>1. CASE x = e
    BY <2>1, <1>2, <1>3 DEF StreamInv, NumbersOK, NoWholeLostFrame
  <2>2. CASE x = d
    <3>1. i + 2 \in 1 .. Len(w) /\ wire'[x][i] = w[i + 2]
      BY <2>2, <1>5
    <3> QED BY <3>1, <2>2, <1>2, <1>3 DEF StreamInv, NoWholeLostFrame
  <2> QED BY <2>1, <2>2, <1>2
<1>9. AcceptedWereSent' /\ DeliveredPrefix'
  <2>1. Peer(e) = d
    BY DEF d
  <2>2. /\ expected_sequence'[e] = expected_sequence[e] + 1
        /\ expected_sequence'[d] = expected_sequence[d]
        /\ calls[d] \in Nat /\ calls[e] \in Nat /\ firstLost[d] \in Nat
    BY <1>2, <1>3 DEF StreamInv, NumbersOK
  <2>3. /\ expected_sequence'[e] <= calls'[d] + 1
        /\ firstLost'[d] # 0 => expected_sequence'[e] <= firstLost'[d]
    BY <2>1, <2>2, <1>2, <1>3, <1>6 DEF StreamInv, DeliveredPrefix
  <2>4. /\ expected_sequence'[d] <= calls'[e] + 1
        /\ firstLost'[e] # 0 => expected_sequence'[d] <= firstLost'[e]
    BY <2>2, <1>2, <1>3 DEF StreamInv, AcceptedWereSent, DeliveredPrefix
  <2> QED BY <2>1, <2>3, <2>4, <1>2 DEF AcceptedWereSent, DeliveredPrefix
<1> QED BY <1>7, <1>8, <1>9 DEF StreamInv

----------------------------------------------------------------------------

\* A fresh connection (FrameStream's constructor).
LEMMA InitStream ==
    ASSUME NEW n, StreamInit(n)
    PROVE  StreamInv
BY DEF StreamInit, StreamInv, NumbersOK, CallsAreNumbered, NoWholeLostFrame,
   AcceptedWereSent, DeliveredPrefix, IsSequence, Ends, Peer

\* Sends, receives and everything else keep the stream in order.
LEMMA StreamKept ==
    ASSUME StreamInv, StreamStep
    PROVE  StreamInv'
<1>1. CASE SilentStep
  BY <1>1 DEF SilentStep, numbers, StreamInv, NumbersOK, CallsAreNumbered, NoWholeLostFrame,
     AcceptedWereSent, DeliveredPrefix
<1> QED BY <1>1, SendKeeps, ReceiveKeeps DEF StreamStep

\* send() never forgets that a call of it failed.
LEMMA LossRemembered ==
    ASSUME StreamInv, StreamStep, NEW e \in Ends, firstLost[e] # 0
    PROVE  firstLost'[e] # 0
<1>1. CASE SilentStep \/ ReceiveStep
  BY <1>1 DEF SilentStep, ReceiveStep, numbers, Receive
<1>2. CASE SendStep
  BY <1>2 DEF SendStep, send, StreamInv, NumbersOK
<1> QED BY <1>1, <1>2 DEF StreamStep

----------------------------------------------------------------------------
(* The frames on their way                                                   *)

\* What e has sent and its peer has not done with: frames of which a piece is on
\* the connection, and the one its peer's reader holds.
OnWire(e) == {wire[e][i][2] : i \in 1 .. Len(wire[e])}
InTransit(e) == OnWire(e) \cup {held[Peer(e)]}

\* The pieces are in the order of the calls, two of a frame at most, and behind
\* the frame the reader holds.
InOrder ==
    /\ DOMAIN held = Ends
    /\ \A e \in Ends :
         /\ held[e].sequence \in Nat /\ held[e].sequence < expected_sequence[e]
         /\ \A i \in 1 .. Len(wire[Peer(e)]) : held[e].sequence < wire[Peer(e)][i][2].sequence
         /\ \A i, j \in 1 .. Len(wire[e]) :
              i + 1 < j => wire[e][i][2].sequence < wire[e][j][2].sequence

\* n whole frames, numbered from x.
Whole(w, n, x) ==
    /\ Len(w) = 2 * n
    /\ \A k \in 1 .. n : /\ w[2 * k - 1][1] = "header" /\ w[2 * k][1] = "rest"
                         /\ w[2 * k - 1][2] = w[2 * k][2]
                         /\ w[2 * k][2].sequence = x + k - 1

\* As long as no send of e has failed, whole frames are on the connection, the
\* first of them the one its peer expects.
Unread(e) == calls[e] + 1 - expected_sequence[Peer(e)]

WholeFrames ==
    \A e \in Ends : firstLost[e] = 0 => Whole(wire[e], Unread(e), expected_sequence[Peer(e)])

\* The two pieces of a frame, as a sequence.
LEMMA TwoPieces ==
    ASSUME NEW a, NEW b
    PROVE  Len(<<a, b>>) = 2 /\ <<a, b>>[1] = a /\ <<a, b>>[2] = b
OBVIOUS

\* What sending the frame f does to the stream: its pieces go behind the others.
Writes(e, outcome, f) ==
    /\ f.sequence = calls[e] + 1 /\ calls'[e] = calls[e] + 1 /\ calls[e] \in Nat
    /\ firstLost'[e] = IF outcome # "all" /\ firstLost[e] = 0 THEN calls[e] + 1 ELSE firstLost[e]
    /\ \A d \in Ends \ {e} : /\ wire'[d] = wire[d] /\ calls'[d] = calls[d]
                             /\ firstLost'[d] = firstLost[d]
    /\ Len(wire[e]) \in Nat
    /\ Len(wire'[e]) \in Len(wire[e]) .. (Len(wire[e]) + 2)
    /\ \A i \in 1 .. Len(wire[e]) : wire'[e][i] = wire[e][i]
    /\ \A i \in (Len(wire[e]) + 1) .. Len(wire'[e]) : wire'[e][i][2] = f
    /\ outcome = "all" => /\ Len(wire'[e]) = Len(wire[e]) + 2
                          /\ wire'[e][Len(wire[e]) + 1][1] = "header"
                          /\ wire'[e][Len(wire[e]) + 2][1] = "rest"

\* What one call of send writes.
LEMMA SendWrites ==
    ASSUME StreamInv, NEW e \in Ends, NEW type, NEW body, NEW outcome,
           send(e, type, body, outcome), Encodable(e, type),
           NEW f, f = encode(e, type, body)
    PROVE  Writes(e, outcome, f)
<1> USE DEF Writes
<1> DEFINE p == Pieces(f, outcome)
<1>1. /\ wire' = [wire EXCEPT ![e] = wire[e] \o p]
      /\ calls' = [calls EXCEPT ![e] = calls[e] + 1]
      /\ firstLost' = [firstLost EXCEPT ![e] =
              IF outcome # "all" /\ firstLost[e] = 0 THEN calls[e] + 1 ELSE firstLost[e]]
  BY DEF send
<1>2. /\ IsSequence(p) /\ Len(p) \in 0 .. 2 /\ \A i \in 1 .. Len(p) : p[i][2] = f
      /\ outcome = "all" => Len(p) = 2 /\ p[1][1] = "header" /\ p[2][1] = "rest"
  <2> DEFINE P == {<<"header", f>>, <<"rest", f>>}
  <2>1. CASE outcome = "all"
    <3>1. p = << <<"header", f>>, <<"rest", f>> >>
      BY <2>1 DEF Pieces
    <3>2. p \in Seq(P)
      BY <3>1
    <3>0. IsSequence(p)
      BY <3>2, Sequenced
    <3>3. Len(p) = 2 /\ p[1] = <<"header", f>> /\ p[2] = <<"rest", f>>
      <4> HIDE DEF p
      <4> QED BY <3>1, TwoPieces, Zenon
    <3>4. \A i \in 1 .. 2 : i = 1 \/ i = 2
      OBVIOUS
    <3> HIDE DEF p
    <3> QED BY <3>0, <3>3, <3>4
  <2>2. CASE outcome = "header"
    <3>1. p = << <<"header", f>> >>
      BY <2>2 DEF Pieces
    <3>2. p \in Seq(P)
      BY <3>1
    <3> QED BY <2>2, <3>1, <3>2, Sequenced
  <2>3. CASE outcome = "nothing"
    <3>1. p = <<>>
      BY <2>3 DEF Pieces
    <3>2. p \in Seq(P)
      BY <3>1
    <3>3. Len(p) = 0 /\ IsSequence(p)
      BY Zenon, <3>1, <3>2, Sequenced
    <3> QED BY <2>3, <3>3
  <2>4. outcome \in {"all", "header", "nothing"}
    BY DEF send, Outcomes
  <2> QED BY <2>1, <2>2, <2>3, <2>4
<1> HIDE DEF p
<1>3. /\ Len(wire[e] \o p) = Len(wire[e]) + Len(p) /\ Len(wire[e]) \in Nat
      /\ \A i \in 1 .. Len(wire[e]) : (wire[e] \o p)[i] = wire[e][i]
      /\ \A i \in 1 .. Len(p) : (wire[e] \o p)[Len(wire[e]) + i] = p[i]
  <2>1. IsSequence(wire[e]) /\ IsSequence(p)
    BY Zenon, <1>2 DEF StreamInv, NumbersOK
  <2> QED BY <2>1, Concatenation
<1>4. wire'[e] = wire[e] \o p /\ \A d \in Ends \ {e} : wire'[d] = wire[d]
  BY <1>1 DEF StreamInv, NumbersOK
<1>5. /\ f.sequence = calls[e] + 1 /\ calls'[e] = calls[e] + 1 /\ calls[e] \in Nat
      /\ firstLost'[e] = IF outcome # "all" /\ firstLost[e] = 0 THEN calls[e] + 1 ELSE firstLost[e]
      /\ \A d \in Ends \ {e} : calls'[d] = calls[d] /\ firstLost'[d] = firstLost[d]
  BY <1>1 DEF StreamInv, NumbersOK, CallsAreNumbered, encode
<1>6. ASSUME NEW i \in (Len(wire[e]) + 1) .. Len(wire'[e]) PROVE wire'[e][i][2] = f
  <2>1. PICK j \in 1 .. Len(p) : i = Len(wire[e]) + j
    <3>1. i - Len(wire[e]) \in 1 .. Len(p) /\ i = Len(wire[e]) + (i - Len(wire[e]))
      BY <1>2, <1>3, <1>4
    <3> QED BY Zenon, <3>1
  <2> QED BY <1>2, <1>3, <1>4, <2>1
<1>7. outcome = "all" => /\ Len(wire'[e]) = Len(wire[e]) + 2
                         /\ wire'[e][Len(wire[e]) + 1] = p[1] /\ wire'[e][Len(wire[e]) + 2] = p[2]
  <2> SUFFICES ASSUME outcome = "all"
               PROVE  /\ Len(wire'[e]) = Len(wire[e]) + 2
                      /\ wire'[e][Len(wire[e]) + 1] = p[1] /\ wire'[e][Len(wire[e]) + 2] = p[2]
    OBVIOUS
  <2>1. Len(p) = 2
    BY <1>2, Zenon
  <2>2. 1 \in 1 .. Len(p) /\ 2 \in 1 .. Len(p)
    BY <2>1
  <2> QED BY <1>3, <1>4, <2>1, <2>2
<1>8. Len(wire'[e]) \in Len(wire[e]) .. (Len(wire[e]) + 2)
  <2>1. \A n \in Nat, k \in 0 .. 2 : n + k \in n .. (n + 2)
    OBVIOUS
  <2>2. Len(wire[e]) \in Nat /\ Len(p) \in 0 .. 2 /\ Len(wire'[e]) = Len(wire[e]) + Len(p)
    BY <1>2, <1>3, <1>4, Zenon
  <2> QED BY <2>1, <2>2, Zenon
<1> QED BY <1>2, <1>3, <1>4, <1>5, <1>6, <1>7, <1>8

\* A reader that is done holds nothing.
LEMMA HeldKept ==
    ASSUME InOrder, StreamInv, HeldOrDone
    PROVE  /\ DOMAIN held' = Ends
           /\ \A e \in Ends : held'[e] = held[e] \/ held'[e] = NoFrame
           /\ \A e \in Ends : held'[e].sequence \in Nat /\ held'[e].sequence <= held[e].sequence
<1>1. /\ DOMAIN held' = Ends
      /\ \A e \in Ends : held'[e] = held[e] \/ held'[e] = NoFrame
  BY DEF InOrder, HeldOrDone, Done
<1>2. NoFrame.sequence = 0 /\ \A e \in Ends : held[e].sequence \in Nat
  BY DEF NoFrame, InOrder
<1> QED BY <1>1, <1>2

\* ... which leaves the order as it is.
LEMMA HeldOrder ==
    ASSUME StreamInv, InOrder, HeldOrDone, UNCHANGED <<wire, expected_sequence>>
    PROVE  InOrder'
<1>1. /\ DOMAIN held' = Ends
      /\ \A d \in Ends : /\ held'[d].sequence \in Nat /\ held[d].sequence \in Nat
                         /\ held'[d].sequence <= held[d].sequence
  BY HeldKept DEF InOrder
<1>2. /\ expected_sequence \in [Ends -> Nat] /\ \A d \in Ends : Peer(d) \in Ends
      /\ \A d \in Ends : \A i \in 1 .. Len(wire[d]) : wire[d][i][2].sequence \in Nat
  <2>1. \A n \in Nat : 1 .. n \subseteq Nat
    OBVIOUS
  <2>2. \A d \in Ends : calls[d] \in Nat
    BY DEF StreamInv, NumbersOK
  <2>3. ASSUME NEW d \in Ends, NEW i \in 1 .. Len(wire[d]) PROVE wire[d][i][2].sequence \in Nat
    BY <2>1, <2>2, Zenon DEF StreamInv, NoWholeLostFrame
  <2> QED BY Zenon, <2>3 DEF StreamInv, NumbersOK, Peer, Ends
<1>3. ASSUME NEW d \in Ends
      PROVE  /\ held'[d].sequence < expected_sequence[d]
             /\ \A i \in 1 .. Len(wire[Peer(d)]) : held'[d].sequence < wire[Peer(d)][i][2].sequence
  <2>1. held[d].sequence < expected_sequence[d] /\ expected_sequence[d] \in Nat
    BY <1>2 DEF InOrder
  <2>2. ASSUME NEW i \in 1 .. Len(wire[Peer(d)])
        PROVE  held'[d].sequence < wire[Peer(d)][i][2].sequence
    <3>1. held[d].sequence < wire[Peer(d)][i][2].sequence /\ wire[Peer(d)][i][2].sequence \in Nat
      BY <1>2 DEF InOrder
    <3> QED BY <1>1, <3>1
  <2> QED BY <1>1, <2>1, <2>2
<1> QED BY <1>1, <1>3 DEF InOrder

\* A new frame is behind all others.
LEMMA SendOrder ==
    ASSUME StreamInv, InOrder, WholeFrames, SendStep
    PROVE  InOrder' /\ WholeFrames'
<1>1. PICK e \in Ends : \E type, body, outcome :
          send(e, type, body, outcome) /\ UNCHANGED expected_sequence /\ HeldOrDone
  BY DEF SendStep
<1>2. PICK type, body, outcome :
          send(e, type, body, outcome) /\ UNCHANGED expected_sequence /\ HeldOrDone
  BY <1>1
<1>3. /\ DOMAIN held' = Ends
      /\ \A d \in Ends : /\ held'[d].sequence \in Nat /\ held[d].sequence \in Nat
                         /\ held'[d].sequence <= held[d].sequence
  BY <1>2, HeldKept DEF InOrder
<1>4. /\ calls \in [Ends -> Nat] /\ expected_sequence \in [Ends -> Nat]
      /\ \A d \in Ends : Peer(d) \in Ends /\ Peer(Peer(d)) = d /\ Len(wire[d]) \in Nat
      /\ \A d \in Ends : \A i \in 1 .. Len(wire[d]) : wire[d][i][2].sequence \in 1 .. calls[d]
  <2>1. \A d \in Ends : Len(wire[d]) \in Nat
    BY DEF StreamInv, NumbersOK, IsSequence
  <2> QED BY <2>1 DEF StreamInv, NumbersOK, NoWholeLostFrame, Peer, Ends
<1>5. CASE ~Encodable(e, type)
  <2>1. UNCHANGED <<wire, calls, firstLost, expected_sequence>>
    BY <1>2, <1>5 DEF send
  <2>2. WholeFrames'
    BY <2>1 DEF WholeFrames, Unread
  <2>3. InOrder'
    BY <1>2, <2>1, HeldOrder
  <2> QED BY <2>2, <2>3
<1>6. CASE Encodable(e, type)
  <2>1. PICK f : f = encode(e, type, body)
    OBVIOUS
  <2>2. /\ f.sequence = calls[e] + 1 /\ calls'[e] = calls[e] + 1 /\ calls[e] \in Nat
        /\ firstLost'[e] = IF outcome # "all" /\ firstLost[e] = 0 THEN calls[e] + 1 ELSE firstLost[e]
        /\ \A d \in Ends \ {e} : /\ wire'[d] = wire[d] /\ calls'[d] = calls[d]
                                 /\ firstLost'[d] = firstLost[d]
        /\ Len(wire[e]) \in Nat
        /\ Len(wire'[e]) \in Len(wire[e]) .. (Len(wire[e]) + 2)
        /\ \A i \in 1 .. Len(wire[e]) : wire'[e][i] = wire[e][i]
        /\ \A i \in (Len(wire[e]) + 1) .. Len(wire'[e]) : wire'[e][i][2] = f
        /\ outcome = "all" => /\ Len(wire'[e]) = Len(wire[e]) + 2
                              /\ wire'[e][Len(wire[e]) + 1][1] = "header"
                              /\ wire'[e][Len(wire[e]) + 2][1] = "rest"
    <3>1. Writes(e, outcome, f)
      BY Zenon, <1>2, <1>6, <2>1, SendWrites
    <3> QED BY Zenon, <3>1 DEF Writes
  <2>3. \A i \in 1 .. Len(wire'[e]) : \/ i \in 1 .. Len(wire[e]) /\ wire'[e][i] = wire[e][i]
                                      \/ i > Len(wire[e]) /\ wire'[e][i][2] = f
    <3> TAKE i \in 1 .. Len(wire'[e])
    <3>1. Len(wire[e]) \in Nat /\ Len(wire'[e]) \in Len(wire[e]) .. (Len(wire[e]) + 2)
      BY Zenon, <2>2
    <3>2. i \in 1 .. Len(wire[e]) \/ (i > Len(wire[e]) /\ i \in (Len(wire[e]) + 1) .. Len(wire'[e]))
      BY <3>1
    <3> QED BY Zenon, <2>2, <3>2
  <2>4. ASSUME NEW d \in Ends, NEW i \in 1 .. Len(wire'[Peer(d)])
        PROVE  held'[d].sequence < wire'[Peer(d)][i][2].sequence
    <3>1. held[d].sequence < wire'[Peer(d)][i][2].sequence
      <4>1. CASE Peer(d) # e
        <5>1. wire'[Peer(d)] = wire[Peer(d)]
          BY Zenon, <1>4, <2>2, <4>1
        <5>2. i \in 1 .. Len(wire[Peer(d)])
          BY Zenon, <2>4, <5>1
        <5> QED BY Zenon, <5>1, <5>2 DEF InOrder
      <4>2. CASE Peer(d) = e
        <5>1. held[d].sequence < expected_sequence[d] /\ expected_sequence[d] <= calls[e] + 1
          BY <4>2 DEF InOrder, StreamInv, AcceptedWereSent
        <5>2. held[d].sequence < f.sequence
          BY <1>3, <1>4, <2>2, <5>1
        <5> QED BY <2>3, <2>4, <4>2, <5>2 DEF InOrder
      <4> QED BY <4>1, <4>2
    <3>2. wire'[Peer(d)][i][2].sequence \in Nat
      <4>1. \A n \in Nat : 1 .. n \subseteq Nat
        OBVIOUS
      <4>2. \A x \in Ends : \A j \in 1 .. Len(wire[x]) : wire[x][j][2].sequence \in Nat
        BY Zenon, <1>4, <4>1
      <4>3. CASE Peer(d) # e
        BY Zenon, <1>4, <2>2, <2>4, <4>2, <4>3
      <4>4. CASE Peer(d) = e
        <5>1. \/ i \in 1 .. Len(wire[e]) /\ wire'[e][i] = wire[e][i]
              \/ wire'[e][i][2] = f
          BY Zenon, <2>3, <2>4, <4>4
        <5>2. wire'[e][i][2].sequence \in Nat
          <6>1. calls[e] + 1 \in Nat
            BY <2>2
          <6> QED BY Zenon, <2>2, <4>2, <5>1, <6>1
        <5> QED BY Zenon, <4>4, <5>2
      <4> QED BY <4>3, <4>4
    <3> QED BY <1>3, <3>1, <3>2
  <2>5. ASSUME NEW d \in Ends, NEW i \in 1 .. Len(wire'[d]), NEW j \in 1 .. Len(wire'[d]), i + 1 < j
        PROVE  wire'[d][i][2].sequence < wire'[d][j][2].sequence
    <3>1. CASE d # e
      BY ZenonT(40), <2>2, <2>5, <3>1 DEF InOrder
    <3>2. CASE d = e
      <4>1. i \in 1 .. Len(wire[e]) /\ wire'[e][i] = wire[e][i]
        BY <2>2, <2>3, <2>5, <3>2
      <4>2. CASE j \in 1 .. Len(wire[e])
        BY Zenon, <2>2, <2>5, <3>2, <4>1, <4>2 DEF InOrder
      <4>3. CASE j \notin 1 .. Len(wire[e])
        <5>1. wire'[e][j][2] = f
          BY <2>3, <2>5, <3>2, <4>3
        <5>2. wire[e][i][2].sequence \in 1 .. calls[e]
          BY <1>4, <4>1
        <5>3. f.sequence = calls[e] + 1 /\ calls[e] \in Nat
          BY Zenon, <2>2
        <5>4. wire[e][i][2].sequence < f.sequence
          BY <5>2, <5>3
        <5> QED BY Zenon, <3>2, <4>1, <5>1, <5>4
      <4> QED BY <4>2, <4>3
    <3> QED BY <3>1, <3>2
  <2>6. InOrder'
    <3>1. ASSUME NEW d \in Ends PROVE held'[d].sequence < expected_sequence'[d]
      <4>1. /\ held'[d].sequence \in Nat /\ held[d].sequence \in Nat /\ expected_sequence[d] \in Nat
            /\ held'[d].sequence <= held[d].sequence /\ held[d].sequence < expected_sequence[d]
        BY Zenon, <1>3, <1>4 DEF InOrder
      <4>2. expected_sequence'[d] = expected_sequence[d]
        BY Zenon, <1>2
      <4> QED BY <4>1, <4>2
    <3> QED BY <1>3, <2>4, <2>5, <3>1 DEF InOrder
  <2>7. ASSUME NEW d \in Ends, firstLost'[d] = 0
        PROVE  Whole(wire'[d], Unread(d)', expected_sequence'[Peer(d)])
    <3>1. CASE d # e
      <4>1. /\ wire'[d] = wire[d] /\ calls'[d] = calls[d] /\ firstLost[d] = 0
            /\ expected_sequence' = expected_sequence
        BY <1>2, <2>2, <2>7, <3>1
      <4>2. Unread(d)' = Unread(d)
        BY <4>1 DEF Unread
      <4> QED BY <4>1, <4>2 DEF WholeFrames
    <3>2. CASE d = e
      <4>0. PICK x, n : x = expected_sequence[Peer(e)] /\ n = Unread(e)
        OBVIOUS
      <4>1. /\ firstLost[e] = 0 /\ outcome = "all" /\ expected_sequence' = expected_sequence
            /\ x \in Nat /\ n \in Nat /\ Unread(e)' = n + 1 /\ n + x = calls[e] + 1
        <5>1. x <= calls[e] + 1 /\ x \in Nat
          BY <1>4, <4>0 DEF StreamInv, AcceptedWereSent
        <5>2. /\ firstLost[e] = 0 /\ outcome = "all" /\ expected_sequence' = expected_sequence
              /\ calls[e] \in Nat /\ calls'[e] = calls[e] + 1
          <6>1. calls[e] + 1 # 0 /\ calls[e] \in Nat
            BY <2>2
          <6> QED BY <1>2, <2>2, <2>7, <3>2, <6>1
        <5> QED BY <4>0, <5>1, <5>2 DEF Unread
      <4>2. Whole(wire[e], n, x)
        BY <4>0, <4>1 DEF WholeFrames
      <4>3. Len(wire[e]) = 2 * n /\ Len(wire'[e]) = 2 * (n + 1)
        BY <2>2, <4>1, <4>2 DEF Whole
      <4>4. ASSUME NEW k \in 1 .. (n + 1)
            PROVE  /\ wire'[e][2 * k - 1][1] = "header" /\ wire'[e][2 * k][1] = "rest"
                   /\ wire'[e][2 * k - 1][2] = wire'[e][2 * k][2]
                   /\ wire'[e][2 * k][2].sequence = x + k - 1
        <5>1. CASE k <= n
          <6>1. k \in 1 .. n /\ 2 * k \in 1 .. Len(wire[e]) /\ 2 * k - 1 \in 1 .. Len(wire[e])
            <7>1. n \in Nat /\ Len(wire[e]) = 2 * n
              BY Zenon, <4>1, <4>3
            <7> QED BY <5>1, <7>1
          <6>2. wire'[e][2 * k] = wire[e][2 * k] /\ wire'[e][2 * k - 1] = wire[e][2 * k - 1]
            BY <2>2, <6>1
          <6> QED BY <4>2, <6>1, <6>2 DEF Whole
        <5>2. CASE k > n
          <6>1. /\ 2 * k - 1 = Len(wire[e]) + 1 /\ 2 * k = Len(wire[e]) + 2 /\ k = n + 1
                /\ 2 * k \in (Len(wire[e]) + 1) .. Len(wire'[e])
                /\ 2 * k - 1 \in (Len(wire[e]) + 1) .. Len(wire'[e])
            <7>1. k = n + 1 /\ n \in Nat
              BY <4>1, <5>2
            <7>2. 2 * (n + 1) - 1 = 2 * n + 1 /\ 2 * (n + 1) = 2 * n + 2
              BY <7>1
            <7>3. \A a \in Nat : a + 1 \in (a + 1) .. (a + 2) /\ a + 2 \in (a + 1) .. (a + 2)
              OBVIOUS
            <7>4. 2 * n \in Nat
              BY <7>1
            <7> QED BY <4>3, <7>1, <7>2, <7>3, <7>4, Zenon
          <6>2. wire'[e][2 * k][2] = f /\ wire'[e][2 * k - 1][2] = f
            BY Zenon, <2>2, <6>1
          <6>3. wire'[e][2 * k - 1][1] = "header" /\ wire'[e][2 * k][1] = "rest"
            BY ZenonT(40), <2>2, <4>1, <6>1
          <6>4. f.sequence = x + k - 1
            BY <2>2, <4>1, <6>1
          <6> QED BY <6>2, <6>3, <6>4
        <5>3. n \in Nat
          BY Zenon, <4>1
        <5>4. k <= n \/ k > n
          BY <5>3
        <5> QED BY Zenon, <5>1, <5>2, <5>4
      <4>5. Whole(wire'[e], n + 1, x)
        BY <4>3, <4>4 DEF Whole
      <4> QED BY <3>2, <4>0, <4>1, <4>5
    <3> QED BY <3>1, <3>2
  <2>8. WholeFrames'
    BY <2>7 DEF WholeFrames
  <2> QED BY <2>6, <2>8
<1> QED BY <1>5, <1>6

\* A frame that was accepted is held, and what is behind it is from later calls.
LEMMA ReceiveOrder ==
    ASSUME StreamInv, InOrder, WholeFrames, ReceiveStep
    PROVE  InOrder' /\ WholeFrames'
<1>1. PICK e \in Ends : Receive(e)
  BY DEF ReceiveStep
<1> DEFINE d == Peer(e)
           w == wire[d]
           x == expected_sequence[e]
<1>2. d \in Ends /\ Peer(d) = e /\ d # e /\ \A y \in Ends : y = e \/ y = d
  BY DEF Peer, Ends
<1>3. /\ calls' = calls /\ firstLost' = firstLost
      /\ expected_sequence' = [expected_sequence EXCEPT ![e] = x + 1]
      /\ wire' = [wire EXCEPT ![d] = SubSeq(w, 3, Len(w))]
      /\ held' = [held EXCEPT ![e] = w[1][2]]
  BY <1>1 DEF Receive, Incoming
<1>4. Len(w) >= 2 /\ w[1][2].sequence = x /\ w[2][2].sequence = x
  BY <1>1 DEF Receive, Accepts, Readable, Assembled, verify, Incoming
<1>5. /\ Len(w) \in Nat /\ Len(wire'[d]) = Len(w) - 2
      /\ \A i \in 1 .. Len(wire'[d]) : wire'[d][i] = w[i + 2]
  <2>1. wire'[d] = SubSeq(w, 3, Len(w)) /\ IsSequence(w)
    BY <1>2, <1>3 DEF StreamInv, NumbersOK
  <2> QED BY <2>1, <1>4, TwoPiecesRead
<1>6. /\ wire'[e] = wire[e] /\ held'[e] = w[1][2] /\ held'[d] = held[d] /\ DOMAIN held' = Ends
      /\ expected_sequence'[e] = x + 1 /\ expected_sequence'[d] = expected_sequence[d] /\ x \in Nat
  BY <1>2, <1>3 DEF StreamInv, NumbersOK, InOrder
<1>7. ASSUME NEW i \in 1 .. Len(wire'[d])
      PROVE  x < wire'[d][i][2].sequence
  <2>1. wire'[d][i] = w[i + 2] /\ 1 \in 1 .. Len(w) /\ i + 2 \in 1 .. Len(w) /\ 1 + 1 < i + 2
    BY <1>4, <1>5
  <2>2. w[1][2].sequence < w[i + 2][2].sequence
    BY <1>2, <2>1 DEF InOrder
  <2> QED BY <1>4, <2>1, <2>2
<1>8. ASSUME NEW i \in 1 .. Len(wire'[d]), NEW j \in 1 .. Len(wire'[d]), i + 1 < j
      PROVE  wire'[d][i][2].sequence < wire'[d][j][2].sequence
  <2>1. /\ wire'[d][i] = w[i + 2] /\ wire'[d][j] = w[j + 2] /\ (i + 2) + 1 < j + 2
        /\ i + 2 \in 1 .. Len(w) /\ j + 2 \in 1 .. Len(w)
    BY <1>5, <1>8
  <2> QED BY <1>2, <2>1 DEF InOrder
<1>9. InOrder'
  <2>1. /\ held'[e].sequence \in Nat /\ held'[e].sequence < expected_sequence'[e]
        /\ \A i \in 1 .. Len(wire'[Peer(e)]) : held'[e].sequence < wire'[Peer(e)][i][2].sequence
        /\ \A i, j \in 1 .. Len(wire'[e]) :
              i + 1 < j => wire'[e][i][2].sequence < wire'[e][j][2].sequence
    <3>1. \A i, j \in 1 .. Len(wire'[e]) :
              i + 1 < j => wire'[e][i][2].sequence < wire'[e][j][2].sequence
      BY <1>6 DEF InOrder
    <3>2. held'[e].sequence = x /\ x < x + 1
      BY <1>4, <1>6
    <3> QED BY <1>6, <1>7, <3>1, <3>2
  <2>2. /\ held'[d].sequence \in Nat /\ held'[d].sequence < expected_sequence'[d]
        /\ \A i \in 1 .. Len(wire'[Peer(d)]) : held'[d].sequence < wire'[Peer(d)][i][2].sequence
    BY <1>2, <1>6 DEF InOrder
  <2> HIDE DEF d
  <2> QED BY ZenonT(40), <1>2, <1>6, <1>8, <2>1, <2>2 DEF InOrder
<1>10. ASSUME firstLost[d] = 0
       PROVE  Whole(wire'[d], Unread(d)', x + 1)
  <2>0. PICK n : n = Unread(d)
    OBVIOUS
  <2>1. n \in Int /\ Unread(d)' = n - 1
    <3>1. calls[d] \in Nat /\ calls'[d] = calls[d]
      BY Zenon, <1>2, <1>3 DEF StreamInv, NumbersOK
    <3>2. n = calls[d] + 1 - x
      BY Zenon, <1>2, <2>0 DEF Unread
    <3>3. Unread(d)' = calls'[d] + 1 - expected_sequence'[e]
      BY Zenon, <1>2 DEF Unread
    <3>4. Unread(d)' = calls[d] + 1 - (x + 1) /\ x \in Nat
      BY Zenon, <1>6, <3>1, <3>3
    <3> HIDE DEF d, x, w
    <3> QED BY <3>1, <3>2, <3>4
  <2>2. Whole(w, n, x)
    BY <1>2, <1>10, <2>0 DEF WholeFrames
  <2> HIDE DEF w, x, d
  <2>3. Len(w) = 2 * n /\ Len(wire'[d]) = 2 * (n - 1)
    BY <1>5, <2>1, <2>2 DEF Whole
  <2>4. ASSUME NEW k \in 1 .. (n - 1)
        PROVE  /\ wire'[d][2 * k - 1][1] = "header" /\ wire'[d][2 * k][1] = "rest"
               /\ wire'[d][2 * k - 1][2] = wire'[d][2 * k][2]
               /\ wire'[d][2 * k][2].sequence = (x + 1) + k - 1
    <3>1. /\ k + 1 \in 1 .. n /\ 2 * k \in 1 .. Len(wire'[d]) /\ 2 * k - 1 \in 1 .. Len(wire'[d])
          /\ 2 * (k + 1) = 2 * k + 2 /\ 2 * (k + 1) - 1 = (2 * k - 1) + 2
          /\ x + (k + 1) - 1 = (x + 1) + k - 1
      <4>1. \A a \in 1 .. (n - 1) :
               /\ a + 1 \in 1 .. n /\ 2 * a \in 1 .. (2 * (n - 1)) /\ 2 * a - 1 \in 1 .. (2 * (n - 1))
               /\ 2 * (a + 1) = 2 * a + 2 /\ 2 * (a + 1) - 1 = (2 * a - 1) + 2
        BY <2>1
      <4>2. x + (k + 1) - 1 = (x + 1) + k - 1
        BY <1>6
      <4> QED BY <2>3, <4>1, <4>2, Zenon
    <3>2. wire'[d][2 * k] = w[2 * (k + 1)] /\ wire'[d][2 * k - 1] = w[2 * (k + 1) - 1]
      BY ZenonT(40), <1>5, <3>1
    <3> QED BY <2>2, <3>1, <3>2 DEF Whole
  <2> QED BY <2>1, <2>3, <2>4 DEF Whole
<1>11. ASSUME firstLost[e] = 0
       PROVE  Whole(wire'[e], Unread(e)', expected_sequence[d])
  <2>1. Unread(e)' = Unread(e)
    BY <1>2, <1>3, <1>6 DEF Unread
  <2> QED BY <1>6, <1>11, <2>1 DEF WholeFrames
<1>12. WholeFrames'
  <2> SUFFICES ASSUME NEW y \in Ends, firstLost'[y] = 0
               PROVE  Whole(wire'[y], Unread(y)', expected_sequence'[Peer(y)])
    BY DEF WholeFrames
  <2>1. Peer(e) = d /\ Peer(d) = e
    BY <1>2
  <2> HIDE DEF d, x
  <2>2. CASE y = d
    BY <1>3, <1>6, <1>10, <2>1, <2>2
  <2>3. CASE y = e
    BY <1>3, <1>6, <1>11, <2>1, <2>3
  <2> QED BY <1>2, <2>2, <2>3
<1> QED BY <1>9, <1>12

\* Whatever the two processes do, the frames stay in order.
LEMMA FramesInOrder ==
    ASSUME StreamInv, InOrder, WholeFrames, StreamStep
    PROVE  InOrder' /\ WholeFrames'
<1>2. CASE SilentStep
  <2>1. UNCHANGED <<wire, calls, firstLost, expected_sequence>> /\ HeldOrDone
    BY <1>2 DEF SilentStep, numbers
  <2>2. WholeFrames'
    BY <2>1 DEF WholeFrames, Unread
  <2>3. InOrder'
    BY <2>1, HeldOrder
  <2> QED BY <2>2, <2>3
<1> QED BY <1>2, SendOrder, ReceiveOrder DEF StreamStep

----------------------------------------------------------------------------
(* What a step puts on its way                                               *)

\* A frame that a step of e puts on its way.
Fresh(e, f) == f \in InTransit(e)' /\ f \notin InTransit(e) /\ f # NoFrame

\* A step that writes nothing sends no frame.
LEMMA NothingSaid ==
    ASSUME StreamInv, InOrder, HeldOrDone, UNCHANGED wire, NEW e \in Ends, NEW f
    PROVE  ~Fresh(e, f)
<1>1. Peer(e) \in Ends
  BY DEF Peer, Ends
<1>2. held'[Peer(e)] = held[Peer(e)] \/ held'[Peer(e)] = NoFrame
  BY <1>1, HeldKept
<1>3. OnWire(e)' = OnWire(e)
  BY DEF OnWire
<1> QED BY <1>2, <1>3 DEF Fresh, InTransit

\* A frame that is read was on its way before.
LEMMA ReadingSaysNothing ==
    ASSUME StreamInv, InOrder, NEW d \in Ends, Receive(d), NEW e \in Ends, NEW f
    PROVE  ~Fresh(e, f)
<1>1. Peer(d) \in Ends /\ Peer(Peer(d)) = d /\ (e = d \/ e = Peer(d)) /\ Peer(d) # d
  BY DEF Peer, Ends
<1>2. /\ wire' = [wire EXCEPT ![Peer(d)] = SubSeq(wire[Peer(d)], 3, Len(wire[Peer(d)]))]
      /\ held' = [held EXCEPT ![d] = wire[Peer(d)][1][2]] /\ Len(wire[Peer(d)]) >= 2
  BY DEF Receive, Incoming, Accepts, Readable
<1>3. CASE e = d
  <2>1. wire'[e] = wire[e] /\ held'[Peer(e)] = held[Peer(e)]
    BY <1>1, <1>2, <1>3 DEF StreamInv, NumbersOK, InOrder
  <2>2. InTransit(e)' = InTransit(e)
    BY <2>1 DEF InTransit, OnWire
  <2> QED BY <2>2 DEF Fresh
<1>4. CASE e = Peer(d)
  <2>1. /\ wire'[e] = SubSeq(wire[e], 3, Len(wire[e])) /\ held'[Peer(e)] = wire[e][1][2]
        /\ IsSequence(wire[e]) /\ Len(wire[e]) >= 2
    BY <1>1, <1>2, <1>4 DEF StreamInv, NumbersOK, InOrder
  <2>2. /\ Len(wire[e]) \in Nat /\ Len(wire'[e]) = Len(wire[e]) - 2
        /\ \A i \in 1 .. Len(wire'[e]) : wire'[e][i] = wire[e][i + 2]
    BY <2>1, TwoPiecesRead
  <2>3. held'[Peer(e)] \in OnWire(e)
    <3>1. 1 \in 1 .. Len(wire[e])
      BY <2>1, <2>2
    <3> QED BY <2>1, <3>1 DEF OnWire
  <2>4. ASSUME NEW i \in 1 .. Len(wire'[e]) PROVE wire'[e][i][2] \in OnWire(e)
    <3>1. i + 2 \in 1 .. Len(wire[e]) /\ wire'[e][i] = wire[e][i + 2]
      BY <2>2
    <3> QED BY <3>1 DEF OnWire
  <2> QED BY <2>3, <2>4 DEF Fresh, InTransit, OnWire
<1> QED BY <1>1, <1>3, <1>4

\* A send puts at most the frame it encodes on its way, towards its peer.
LEMMA SentFrame ==
    ASSUME StreamInv, InOrder, HeldOrDone,
           NEW d \in Ends, NEW type, NEW body, NEW outcome, send(d, type, body, outcome),
           NEW e \in Ends, NEW f, Fresh(e, f)
    PROVE  e = d /\ Encodable(d, type) /\ f = encode(d, type, body)
<1>1. Encodable(d, type)
  <2> SUFFICES ASSUME ~Encodable(d, type) PROVE FALSE
    OBVIOUS
  <2>1. UNCHANGED wire
    BY DEF send
  <2> QED BY <2>1, NothingSaid
<1>2. PICK g : g = encode(d, type, body)
  OBVIOUS
<1>3. /\ Len(wire[d]) \in Nat /\ Len(wire'[d]) \in Len(wire[d]) .. (Len(wire[d]) + 2)
      /\ \A i \in 1 .. Len(wire[d]) : wire'[d][i] = wire[d][i]
      /\ \A i \in (Len(wire[d]) + 1) .. Len(wire'[d]) : wire'[d][i][2] = g
  <2>1. Writes(d, outcome, g)
    BY Zenon, <1>1, <1>2, SendWrites
  <2> QED BY Zenon, <2>1 DEF Writes
<1>4. Peer(e) \in Ends
  BY DEF Peer, Ends
<1>5. held'[Peer(e)] = held[Peer(e)] \/ held'[Peer(e)] = NoFrame
  BY <1>4, HeldKept
<1>6. PICK i \in 1 .. Len(wire'[e]) : f = wire'[e][i][2]
  BY <1>5 DEF Fresh, InTransit, OnWire
<1>7. f \notin OnWire(e)
  BY DEF Fresh, InTransit
<1>8. e = d
  <2> SUFFICES ASSUME e # d PROVE FALSE
    OBVIOUS
  <2>1. wire' = [wire EXCEPT ![d] = @ \o Pieces(encode(d, type, body), outcome)]
    BY Zenon, <1>1 DEF send
  <2>2. wire'[e] = wire[e]
    BY <2>1 DEF StreamInv, NumbersOK, InOrder
  <2> QED BY <1>6, <1>7, <2>2 DEF OnWire
<1>9. i \notin 1 .. Len(wire[d])
  BY <1>3, <1>6, <1>7, <1>8 DEF OnWire
<1>10. i \in (Len(wire[d]) + 1) .. Len(wire'[d])
  BY <1>3, <1>8, <1>9
<1> QED BY <1>1, <1>2, <1>3, <1>6, <1>8, <1>10

\* A reader that is done with a frame has seen the last of it.
LEMMA Consumed ==
    ASSUME StreamInv, InOrder, NEW e \in Ends, Done(e), ~Idle(e), wire'[Peer(e)] = wire[Peer(e)]
    PROVE  held[e] \in InTransit(Peer(e)) /\ held[e] \notin InTransit(Peer(e))'
<1>1. Peer(Peer(e)) = e
  BY DEF Peer, Ends
<1>2. held[e] # NoFrame /\ held'[e] = NoFrame
  <2>1. held'[e] = NoFrame
    BY Zenon DEF Done, InOrder
  <2>2. NoFrame.type = "INVALID"
    BY DEF NoFrame
  <2> QED BY Zenon, <2>1, <2>2 DEF Idle
<1>3. ASSUME NEW i \in 1 .. Len(wire[Peer(e)]) PROVE held[e] # wire[Peer(e)][i][2]
  <2>1. held[e].sequence \in Nat /\ held[e].sequence < wire[Peer(e)][i][2].sequence
    BY Zenon DEF InOrder
  <2>2. held[e].sequence # wire[Peer(e)][i][2].sequence
    BY <2>1
  <2> QED BY Zenon, <2>2
<1> QED BY <1>1, <1>2, <1>3 DEF InTransit, OnWire

\* What is sent is tagged with the sender's key, and numbered.
Tagged(e, f) ==
    /\ f.tag = key[e] /\ f.sequence = calls[e] + 1
    /\ (f.type \in Handshake) = (key[e] = NoKey)

\* What Say and Answer put on its way.
LEMMA SaidFrame ==
    ASSUME StreamInv, InOrder,
           NEW d \in Ends, NEW type, NEW body, NEW outcome,
           Say(d, type, body, outcome) \/ Answer(d, type, body, outcome),
           NEW e \in Ends, NEW f, Fresh(e, f)
    PROVE  e = d /\ Tagged(d, f) /\ f.type = type /\ f.body = body
<1>1. send(d, type, body, outcome) /\ HeldOrDone
  BY DEF Say, Answer, HeldOrDone
<1>2. e = d /\ Encodable(d, type) /\ f = encode(d, type, body)
  BY <1>1, SentFrame
<1> QED BY <1>2 DEF encode, Encodable, Tagged, StreamInv, CallsAreNumbered

\* The steps that say nothing.
LEMMA Unsaid ==
    ASSUME StreamInv, InOrder, NEW d \in Ends,
           \/ UNCHANGED streamVars \/ NoAnswer(d) \/ Shut(d) \/ Failing(d) \/ Receive(d)
           \/ \E k : set_session_key(d, k)
           \/ UNCHANGED <<wire, held>>,
           NEW e \in Ends, NEW f
    PROVE  ~Fresh(e, f)
<1>1. CASE Receive(d)
  BY <1>1, ReadingSaysNothing
<1>2. CASE ~Receive(d)
  <2>1. UNCHANGED wire /\ HeldOrDone
    BY <1>2 DEF streamVars, NoAnswer, Shut, Failing, set_session_key, HeldOrDone
  <2> QED BY <2>1, NothingSaid
<1> QED BY <1>1, <1>2

\* A step sends one frame at most.
LEMMA OneFrame ==
    ASSUME StreamInv, InOrder, StreamStep, NEW e \in Ends, NEW f, Fresh(e, f), NEW g, Fresh(e, g)
    PROVE  f = g
<1>2. CASE SilentStep
  BY <1>2, NothingSaid DEF SilentStep, numbers
<1>3. CASE ReceiveStep
  BY <1>3, ReadingSaysNothing DEF ReceiveStep
<1>4. CASE SendStep
  <2>1. PICK d \in Ends : \E type, body, outcome : send(d, type, body, outcome) /\ HeldOrDone
    BY <1>4 DEF SendStep
  <2>2. PICK type, body, outcome : send(d, type, body, outcome) /\ HeldOrDone
    BY Zenon, <2>1
  <2>3. f = encode(d, type, body) /\ g = encode(d, type, body)
    BY <2>2, SentFrame
  <2> QED BY <2>3
<1> QED BY <1>2, <1>3, <1>4 DEF StreamStep

\* The frame an end holds is one its peer sent.
LEMMA HeldInTransit ==
    held["server"] \in InTransit("client") /\ held["client"] \in InTransit("server")
BY Zenon DEF InTransit, Peer

\* On an unbroken stream the next frame is whole and in its place.
LEMMA NextIsWhole ==
    ASSUME StreamInv, WholeFrames, NEW e \in Ends, Readable(e), firstLost[Peer(e)] = 0,
           NEW f, f = Incoming(e)
    PROVE  /\ Assembled(e) /\ f.sequence = expected_sequence[e]
           /\ f \in InTransit(Peer(e)) /\ f # NoFrame
<1>0. Peer(e) \in Ends /\ Peer(Peer(e)) = e
  BY DEF Peer, Ends
<1>1. PICK w : w = wire[Peer(e)]
  OBVIOUS
<1>2. PICK n : n = Unread(Peer(e))
  OBVIOUS
<1>3. Whole(w, n, expected_sequence[e]) /\ Len(w) >= 2
  BY <1>0, <1>1, <1>2 DEF WholeFrames, Readable
<1>4. n \in Int /\ expected_sequence[e] \in Nat
  BY <1>0, <1>2 DEF Unread, StreamInv, NumbersOK
<1>5. 1 \in 1 .. n /\ 2 * 1 - 1 = 1 /\ 2 * 1 = 2 /\ expected_sequence[e] + 1 - 1 = expected_sequence[e]
  BY <1>3, <1>4 DEF Whole
<1>6. w[1][1] = "header" /\ w[2][1] = "rest" /\ w[1][2] = w[2][2] /\ w[2][2].sequence = expected_sequence[e]
  BY <1>3, <1>5 DEF Whole
<1>7. f = w[1][2]
  BY <1>1 DEF Incoming
<1>8. f \in InTransit(Peer(e)) /\ f # NoFrame
  <2>1. 1 \in 1 .. Len(w)
    BY <1>3, <1>4 DEF Whole
  <2>2. f \in OnWire(Peer(e))
    BY <1>1, <1>7, <2>1 DEF OnWire
  <2>3. f.sequence \in 1 .. calls[Peer(e)]
    BY <1>0, <1>1, <1>7, <2>1 DEF StreamInv, NoWholeLostFrame
  <2>4. f.sequence # 0
    <3>1. calls[Peer(e)] \in Nat
      BY <1>0 DEF StreamInv, NumbersOK
    <3> QED BY <2>3, <3>1
  <2> QED BY <2>2, <2>4 DEF InTransit, NoFrame
<1> QED BY <1>1, <1>6, <1>7, <1>8 DEF Assembled

----------------------------------------------------------------------------
(* Every action is a step of the stream                                      *)

\* The main thread, the announcements and stop().
LEMMA MainSteps ==
    ASSUME NEW g, NEW o,
           \/ SendHello(o) \/ SendRegister(o) \/ MainReceives \/ MainReceiveFails
           \/ HandleHelloAck \/ HandleRegisterAck \/ Abandon
           \/ Announce(g, o) \/ AnnounceExpires \/ AnnounceErases
           \/ StopSignals \/ Stop
    PROVE  StreamStep
<1> USE DEF StreamStep, SendStep, ReceiveStep, SilentStep, HeldOrDone, numbers, streamVars, Ends
<1>1. CASE SendHello(o) \/ SendRegister(o)
  BY Zenon, <1>1 DEF SendHello, SendRegister, Say
<1>2. CASE MainReceives \/ MainReceiveFails
  BY Zenon, <1>2 DEF MainReceives, MainReceiveFails, Failing
<1>3. CASE HandleHelloAck \/ HandleRegisterAck \/ Abandon
  BY Zenon, <1>3 DEF HandleHelloAck, HandleRegisterAck, Abandon, set_session_key, NoAnswer, Shut
<1>4. CASE Announce(g, o)
  BY <1>4 DEF Announce, send_control, Say
<1>5. CASE AnnounceExpires \/ AnnounceErases \/ StopSignals \/ Stop
  BY Zenon, <1>5 DEF AnnounceExpires, AnnounceErases, StopSignals, Stop, StopShuts, StopDrains,
     StopJoins
<1> QED BY <1>1, <1>2, <1>3, <1>4, <1>5

\* The reader's loop and its handlers, and the transfers they start.
LEMMA ReaderSteps ==
    ASSUME NEW m, Reader \/ ReaderFails \/ Worker(m)
    PROVE  StreamStep
<1> USE DEF StreamStep, SendStep, ReceiveStep, SilentStep, HeldOrDone, numbers, streamVars, Ends
<1>1. CASE ReaderReceives \/ ReaderLeaves \/ ReaderFails
  BY Zenon, <1>1 DEF ReaderReceives, ReaderLeaves, ReaderFails, Failing
<1>2. CASE ReaderFulfils \/ ReaderDrops \/ on_execute
  BY Zenon, <1>2 DEF ReaderFulfils, ReaderDrops, on_execute, NoAnswer
<1>3. ASSUME NEW o \in SendOutcomes, on_grant(o) \/ ReaderReports(o)
      PROVE  StreamStep
  BY <1>3 DEF on_grant, ReaderReports, send_control, Reply, Answer, NoAnswer, Say
<1>4. ASSUME NEW o \in SendOutcomes, WorkerStarts(m, o) \/ WorkerReports(m, o)
      PROVE  StreamStep
  BY Zenon, <1>4 DEF WorkerStarts, WorkerReports, send_control, Say
<1>5. CASE WorkerExpires(m) \/ WorkerErases(m)
  BY Zenon, <1>5 DEF WorkerExpires, WorkerErases
<1>6. ASSUME NEW r, WorkerMoves(m, r)
      PROVE  StreamStep
  BY Zenon, <1>6 DEF WorkerMoves
<1> QED BY Zenon, <1>1, <1>2, <1>3, <1>4, <1>5, <1>6 DEF Reader, Worker

\* The coordinator's session and the drivers that share its link.
LEMMA CoordinatorSteps ==
    ASSUME NEW m, NEW o,
           \/ Session \/ SessionFails \/ CoordinatorShuts
           \/ DriverGrants(m, o) \/ DriverExecutes(m, o) \/ DriverExpires(m)
    PROVE  StreamStep
<1> USE DEF StreamStep, SendStep, ReceiveStep, SilentStep, HeldOrDone, numbers, streamVars, Ends
<1>1. CASE SessionReceives \/ SessionFails \/ CoordinatorShuts \/ SessionEnds
  BY <1>1 DEF SessionReceives, SessionFails, CoordinatorShuts, SessionEnds, Failing, Shut
<1>2. CASE KeySession \/ HandleRegister \/ Deliver
  BY Zenon, <1>2 DEF KeySession, HandleRegister, Deliver, set_session_key, NoAnswer
<1>3. ASSUME NEW x \in SendOutcomes, AcceptHello(x)
      PROVE  StreamStep
  BY Zenon, <1>3 DEF AcceptHello, Say
<1>4. ASSUME NEW x \in SendOutcomes,
             AckRegister(x) \/ HandleAnnounce(x) \/ HandleTopology(x) \/ SessionReports(x)
      PROVE  StreamStep
  BY Zenon, <1>4 DEF AckRegister, HandleAnnounce, HandleTopology, SessionReports, push, Answer,
     NoAnswer
<1>5. CASE DriverGrants(m, o) \/ DriverExecutes(m, o) \/ DriverExpires(m)
  BY Zenon, <1>5 DEF DriverGrants, DriverExecutes, DriverExpires, Tell, Say
<1> QED BY <1>1, <1>2, <1>3, <1>4, <1>5 DEF Session

\* No thread of either process changes the stream in any other way.
LEMMA NextIsStreamStep ==
    ASSUME [Next]_vars
    PROVE  StreamStep
<1>1. CASE UNCHANGED vars
  BY <1>1 DEF vars, streamVars, StreamStep, SilentStep, HeldOrDone, numbers
<1>2. CASE Next
  <2>1. CASE Connecting \/ MainReceiveFails \/ AnnounceExpires \/ AnnounceErases
             \/ StopSignals \/ Stop
    BY <2>1, MainSteps DEF Connecting
  <2>2. CASE \E g \in Generations, o \in SendOutcomes : Announce(g, o)
    BY <2>2, MainSteps
  <2>3. CASE Reader \/ ReaderFails \/ \E m \in Movements : Worker(m)
    BY <2>3, ReaderSteps
  <2>4. CASE \/ Session \/ SessionFails \/ CoordinatorShuts
             \/ \E m \in Movements, o \in SendOutcomes :
                    DriverGrants(m, o) \/ DriverExecutes(m, o)
             \/ \E m \in Movements : DriverExpires(m)
    BY <2>4, CoordinatorSteps
  <2> QED BY <1>2, <2>1, <2>2, <2>3, <2>4 DEF Next
<1> QED BY <1>1, <1>2

----------------------------------------------------------------------------
(* Threads                                                                   *)

\* Which threads there are at each end, and what each of them still has to do.
SlotInv ==
    /\ DOMAIN pending = Slots /\ DOMAIN worker = Movements /\ DOMAIN driver = Movements
    /\ pending["ANNOUNCE_ACK"] \in {NoThread, "main"}
    /\ pending["TOPOLOGY_REPORT"] \in Movements \cup {NoThread}
    /\ reader \in {"none", "reading", "ended"}
    /\ reader # "none" <=> main \in {"ready", "waiting", "expired"}
    /\ reader = "none" => ~alive /\ stopper = "idle"
    /\ stopper \in {"shut", "joining", "stopped"} => ~alive
    /\ reader # "reading" => grants = {} \/ stopping
    /\ SlotHolderWaits

----------------------------------------------------------------------------
(* Who sends what, and when                                                  *)

Announces(g) == \E o : Announce(g, o)
AnswersAnnounce == \E o : HandleAnnounce(o)

ClientSays(f) ==
    /\ Tagged("client", f)
    /\ \/ f.type = "HELLO" /\ main = "connect" /\ f.body = make_hello_request
       \/ f.type = "REGISTER" /\ main = "keyed"
       \/ f.type = "ANNOUNCE_OBJECT" /\ f.body \in Generations /\ Announces(f.body)
       \/ f.type \in {"TOPOLOGY_REQUEST", "ATTEMPT_RESULT"} /\ alive
       \/ f.type = "GRANT_ACK" /\ alive /\ reader = "reading" /\ f.body \in grants'
       \/ f.type = "ERROR" /\ alive

ServerSays(f) ==
    LET hello == held["server"].body
    IN  /\ Tagged("server", f)
        /\ \/ f.type = "HELLO_REJECT"
           \/ /\ f.type = "HELLO_ACK" /\ session = "hello" /\ session' # "hello"
              /\ held["server"].type = "HELLO" /\ accept_hello_request(hello)
              /\ f.body = compute_server_mac(CoordinatorSecret, hello.mac)
           \/ f.type = "REGISTER_ACK" /\ session = "registering"
           \/ f.type = "ANNOUNCE_ACK" /\ Got("ANNOUNCE_OBJECT") /\ AnswersAnnounce
           \/ f.type = "TOPOLOGY_REPORT" /\ Got("TOPOLOGY_REQUEST")
           \/ f.type = "ERROR" /\ "server" \in erring
           \/ f.type = "GRANT_TRANSFER" /\ session \in Listed
           \/ /\ f.type = "EXECUTE_MOVEMENT" /\ f.body \in Movements
              /\ driver[f.body] = "granted" /\ driver'[f.body] \in {"executing", "failed"}

Traffic == \A f : /\ Fresh("client", f) => ClientSays(f)
                  /\ Fresh("server", f) => ServerSays(f)

\* A step that speaks for one end puts only such frames on their way as that end
\* may send.
LEMMA ClientSpeaks ==
    ASSUME StreamInv, InOrder, NEW type, NEW b, NEW o,
           Say("client", type, b, o) \/ Answer("client", type, b, o),
           \A f : Tagged("client", f) /\ f.type = type /\ f.body = b => ClientSays(f)
    PROVE  Traffic
<1>1. "client" \in Ends /\ "server" \in Ends /\ "client" # "server"
  BY DEF Ends
<1>2. ASSUME NEW f, Fresh("client", f) PROVE ClientSays(f)
  <2>1. Tagged("client", f) /\ f.type = type /\ f.body = b
    BY ZenonT(40), <1>1, <1>2, SaidFrame
  <2> QED BY <2>1
<1>3. ASSUME NEW f PROVE ~Fresh("server", f)
  BY ZenonT(40), <1>1, SaidFrame
<1> QED BY Zenon, <1>2, <1>3 DEF Traffic

\* The coordinator's end likewise.
LEMMA ServerSpeaks ==
    ASSUME StreamInv, InOrder, NEW type, NEW b, NEW o,
           Say("server", type, b, o) \/ Answer("server", type, b, o),
           \A f : Tagged("server", f) /\ f.type = type /\ f.body = b => ServerSays(f)
    PROVE  Traffic
<1>1. "client" \in Ends /\ "server" \in Ends /\ "client" # "server"
  BY DEF Ends
<1>2. ASSUME NEW f, Fresh("server", f) PROVE ServerSays(f)
  <2>1. Tagged("server", f) /\ f.type = type /\ f.body = b
    BY ZenonT(40), <1>1, <1>2, SaidFrame
  <2> QED BY <2>1
<1>3. ASSUME NEW f PROVE ~Fresh("client", f)
  BY ZenonT(40), <1>1, SaidFrame
<1> QED BY Zenon, <1>2, <1>3 DEF Traffic

\* A step that writes nothing has nothing to account for.
LEMMA NobodySpeaks ==
    ASSUME StreamInv, InOrder, NEW d \in Ends,
           \/ UNCHANGED streamVars \/ NoAnswer(d) \/ Shut(d) \/ Failing(d) \/ Receive(d)
           \/ \E k : set_session_key(d, k)
           \/ UNCHANGED <<wire, held>>
    PROVE  Traffic
<1>1. "client" \in Ends /\ "server" \in Ends
  BY DEF Ends
<1>2. ASSUME NEW e \in Ends, NEW f PROVE ~Fresh(e, f)
  BY ZenonT(40), Unsaid
<1> QED BY Zenon, <1>1, <1>2 DEF Traffic

\* The main thread, announce() and stop().
LEMMA MainTraffic ==
    ASSUME StreamInv, InOrder, NEW g, NEW o,
           \/ SendHello(o) \/ SendRegister(o) \/ MainReceives \/ MainReceiveFails
           \/ HandleHelloAck \/ HandleRegisterAck \/ Abandon
           \/ g \in Generations /\ Announce(g, o)
           \/ AnnounceExpires \/ AnnounceErases \/ StopSignals \/ Stop
    PROVE  Traffic
<1>0. "client" \in Ends /\ "server" \in Ends /\ "client" # "server"
  BY DEF Ends
<1>1. CASE SendHello(o)
  <2>1. Say("client", "HELLO", make_hello_request, o) /\ main = "connect"
    BY Zenon, <1>1 DEF SendHello
  <2>2. \A f : Tagged("client", f) /\ f.type = "HELLO" /\ f.body = make_hello_request => ClientSays(f)
    BY Zenon, <2>1 DEF ClientSays
  <2> QED BY ZenonT(40), <2>1, <2>2, ClientSpeaks
<1>2. CASE SendRegister(o)
  <2>1. Say("client", "REGISTER", 0, o) /\ main = "keyed"
    BY Zenon, <1>2 DEF SendRegister
  <2>2. \A f : Tagged("client", f) /\ f.type = "REGISTER" /\ f.body = 0 => ClientSays(f)
    BY Zenon, <2>1 DEF ClientSays
  <2> QED BY ZenonT(40), <2>1, <2>2, ClientSpeaks
<1>3. CASE g \in Generations /\ Announce(g, o)
  <2>1. Say("client", "ANNOUNCE_OBJECT", g, o)
    BY <1>3 DEF Announce, send_control
  <2>2. Announces(g)
    BY <1>3 DEF Announces
  <2>3. \A f : Tagged("client", f) /\ f.type = "ANNOUNCE_OBJECT" /\ f.body = g => ClientSays(f)
    BY Zenon, <1>3, <2>2 DEF ClientSays
  <2> QED BY ZenonT(40), <2>1, <2>3, ClientSpeaks
<1>4. CASE MainReceives \/ MainReceiveFails \/ HandleHelloAck \/ HandleRegisterAck \/ Abandon
  <2>1. \/ NoAnswer("client") \/ Shut("client") \/ Failing("client") \/ Receive("client")
        \/ \E k : set_session_key("client", k)
    BY Zenon, <1>4 DEF MainReceives, MainReceiveFails, HandleHelloAck, HandleRegisterAck, Abandon
  <2> QED BY ZenonT(40), <1>0, <2>1, NobodySpeaks
<1>5. CASE AnnounceExpires \/ AnnounceErases \/ StopSignals \/ Stop
  <2>1. UNCHANGED <<wire, held>>
    BY Zenon, <1>5 DEF AnnounceExpires, AnnounceErases, StopSignals, Stop, StopShuts, StopDrains, StopJoins,
       streamVars
  <2> QED BY ZenonT(40), <1>0, <2>1, NobodySpeaks
<1> QED BY <1>1, <1>2, <1>3, <1>4, <1>5

\* The reader and the transfers.
LEMMA ReaderTraffic ==
    ASSUME StreamInv, InOrder, NEW m, Reader \/ ReaderFails \/ Worker(m)
    PROVE  Traffic
<1>0. "client" \in Ends /\ "server" \in Ends /\ "client" # "server"
  BY DEF Ends
<1>1. CASE ReaderReceives \/ ReaderFails \/ ReaderFulfils \/ ReaderDrops \/ on_execute
  <2>1. NoAnswer("client") \/ Failing("client") \/ Receive("client")
    BY <1>1 DEF ReaderReceives, ReaderFails, ReaderFulfils, ReaderDrops, on_execute
  <2> QED BY ZenonT(40), <1>0, <2>1, NobodySpeaks
<1>2. CASE ReaderLeaves \/ WorkerExpires(m) \/ WorkerErases(m) \/ \E r : WorkerMoves(m, r)
  <2>1. UNCHANGED streamVars
    BY Zenon, <1>2 DEF ReaderLeaves, WorkerExpires, WorkerErases, WorkerMoves
  <2> QED BY ZenonT(40), <1>0, <2>1, NobodySpeaks
<1>3. ASSUME NEW o, on_grant(o) PROVE Traffic
  <2>1. PICK b : b = held["client"].body
    OBVIOUS
  <2>2. \/ Answer("client", "GRANT_ACK", b, o) /\ alive /\ reader = "reading" /\ b \in grants'
        \/ NoAnswer("client")
    BY <1>3, <2>1 DEF on_grant, Reply, Held
  <2>3. CASE Answer("client", "GRANT_ACK", b, o) /\ alive /\ reader = "reading" /\ b \in grants'
    <3>1. \A f : Tagged("client", f) /\ f.type = "GRANT_ACK" /\ f.body = b => ClientSays(f)
      BY Zenon, <2>3 DEF ClientSays
    <3> QED BY ZenonT(40), <2>3, <3>1, ClientSpeaks
  <2>4. CASE NoAnswer("client")
    BY ZenonT(40), <1>0, <2>4, NobodySpeaks
  <2> QED BY <2>2, <2>3, <2>4
<1>4. ASSUME NEW o, ReaderReports(o) \/ WorkerStarts(m, o) \/ WorkerReports(m, o) PROVE Traffic
  <2>1. \/ \E type \in {"ERROR", "TOPOLOGY_REQUEST", "ATTEMPT_RESULT"}, b \in {0, m} :
             Say("client", type, b, o) /\ alive
        \/ UNCHANGED streamVars
    BY Zenon, <1>4 DEF ReaderReports, WorkerStarts, WorkerReports, send_control
  <2>2. ASSUME NEW type \in {"ERROR", "TOPOLOGY_REQUEST", "ATTEMPT_RESULT"}, NEW b,
               Say("client", type, b, o), alive
        PROVE  Traffic
    <3>1. \A f : Tagged("client", f) /\ f.type = type /\ f.body = b => ClientSays(f)
      BY <2>2 DEF ClientSays
    <3> QED BY ZenonT(40), <2>2, <3>1, ClientSpeaks
  <2>3. CASE UNCHANGED streamVars
    BY ZenonT(40), <1>0, <2>3, NobodySpeaks
  <2> QED BY <2>1, <2>2, <2>3
<1> QED BY Zenon, <1>1, <1>2, <1>3, <1>4 DEF Reader, Worker

\* session_loop and the drivers.
LEMMA CoordinatorTraffic ==
    ASSUME StreamInv, InOrder, SlotInv, NEW m, NEW o,
           \/ Session \/ SessionFails \/ CoordinatorShuts
           \/ m \in Movements /\ (DriverGrants(m, o) \/ DriverExecutes(m, o) \/ DriverExpires(m))
    PROVE  Traffic
<1>0. "client" \in Ends /\ "server" \in Ends /\ "client" # "server"
  BY DEF Ends
<1>1. CASE \/ SessionReceives \/ SessionFails \/ KeySession \/ HandleRegister \/ Deliver \/ SessionEnds
  <2>1. \/ NoAnswer("server") \/ Failing("server") \/ Receive("server") \/ Shut("server")
        \/ \E k : set_session_key("server", k)
    BY ZenonT(40), <1>1 DEF SessionReceives, SessionFails, KeySession, HandleRegister, Deliver, SessionEnds
  <2> QED BY ZenonT(40), <1>0, <2>1, NobodySpeaks
<1>2. CASE CoordinatorShuts \/ DriverExpires(m)
  <2>1. UNCHANGED <<wire, held>>
    BY <1>2 DEF CoordinatorShuts, DriverExpires, streamVars
  <2> QED BY ZenonT(40), <1>0, <2>1, NobodySpeaks
<1>3. ASSUME NEW x \in SendOutcomes, AcceptHello(x) PROVE Traffic
  <2>1. \/ Say("server", "HELLO_REJECT", 0, x)
        \/ /\ Say("server", "HELLO_ACK", compute_server_mac(CoordinatorSecret, held["server"].body.mac), x)
           /\ session = "hello" /\ session' # "hello" /\ held["server"].type = "HELLO"
           /\ accept_hello_request(held["server"].body)
        \/ UNCHANGED streamVars
    BY Zenon, <1>3 DEF AcceptHello
  <2>2. CASE Say("server", "HELLO_REJECT", 0, x)
    <3>1. \A f : Tagged("server", f) /\ f.type = "HELLO_REJECT" /\ f.body = 0 => ServerSays(f)
      BY Zenon DEF ServerSays
    <3> QED BY ZenonT(40), <2>2, <3>1, ServerSpeaks
  <2>3. CASE /\ Say("server", "HELLO_ACK", compute_server_mac(CoordinatorSecret, held["server"].body.mac), x)
             /\ session = "hello" /\ session' # "hello" /\ held["server"].type = "HELLO"
             /\ accept_hello_request(held["server"].body)
    <3>1. PICK b : b = compute_server_mac(CoordinatorSecret, held["server"].body.mac)
      OBVIOUS
    <3>2. \A f : Tagged("server", f) /\ f.type = "HELLO_ACK" /\ f.body = b => ServerSays(f)
      BY Zenon, <2>3, <3>1 DEF ServerSays
    <3> QED BY ZenonT(40), <2>3, <3>1, <3>2, ServerSpeaks
  <2>4. CASE UNCHANGED streamVars
    BY ZenonT(40), <1>0, <2>4, NobodySpeaks
  <2> QED BY Zenon, <2>1, <2>2, <2>3, <2>4
<1>4. ASSUME NEW x \in SendOutcomes,
             AckRegister(x) \/ HandleAnnounce(x) \/ HandleTopology(x) \/ SessionReports(x)
      PROVE  Traffic
  <2>1. \/ \E type, b : /\ Answer("server", type, b, x)
                        /\ \/ type = "REGISTER_ACK" /\ session = "registering"
                           \/ type = "ANNOUNCE_ACK" /\ Got("ANNOUNCE_OBJECT") /\ AnswersAnnounce
                           \/ type = "TOPOLOGY_REPORT" /\ Got("TOPOLOGY_REQUEST")
                           \/ type = "ERROR" /\ "server" \in erring
        \/ NoAnswer("server")
    <3>1. CASE AckRegister(x)
      BY <3>1 DEF AckRegister, push
    <3>2. CASE HandleAnnounce(x)
      <4>1. AnswersAnnounce
        BY <3>2 DEF AnswersAnnounce
      <4> QED BY <3>2, <4>1 DEF HandleAnnounce, push
    <3>3. CASE HandleTopology(x)
      BY <3>3 DEF HandleTopology, push
    <3>4. CASE SessionReports(x)
      BY <3>4 DEF SessionReports, push
    <3> QED BY <1>4, <3>1, <3>2, <3>3, <3>4
  <2>2. ASSUME NEW type, NEW b, Answer("server", type, b, x),
               \/ type = "REGISTER_ACK" /\ session = "registering"
               \/ type = "ANNOUNCE_ACK" /\ Got("ANNOUNCE_OBJECT") /\ AnswersAnnounce
               \/ type = "TOPOLOGY_REPORT" /\ Got("TOPOLOGY_REQUEST")
               \/ type = "ERROR" /\ "server" \in erring
        PROVE  Traffic
    <3>1. \A f : Tagged("server", f) /\ f.type = type /\ f.body = b => ServerSays(f)
      BY Zenon, <2>2 DEF ServerSays
    <3> QED BY ZenonT(40), <2>2, <3>1, ServerSpeaks
  <2>3. CASE NoAnswer("server")
    BY ZenonT(40), <1>0, <2>3, NobodySpeaks
  <2> QED BY <2>1, <2>2, <2>3
<1>5. CASE DriverGrants(m, o)
  <2>1. (Say("server", "GRANT_TRANSFER", m, o) /\ session \in Listed) \/ UNCHANGED streamVars
    BY <1>5 DEF DriverGrants, Tell
  <2>2. CASE Say("server", "GRANT_TRANSFER", m, o) /\ session \in Listed
    <3>1. \A f : Tagged("server", f) /\ f.type = "GRANT_TRANSFER" /\ f.body = m => ServerSays(f)
      BY Zenon, <2>2 DEF ServerSays
    <3> QED BY ZenonT(40), <2>2, <3>1, ServerSpeaks
  <2>3. CASE UNCHANGED streamVars
    BY ZenonT(40), <1>0, <2>3, NobodySpeaks
  <2> QED BY <2>1, <2>2, <2>3
<1>6. CASE m \in Movements /\ DriverExecutes(m, o)
  <2>1. Say("server", "EXECUTE_MOVEMENT", m, o) \/ UNCHANGED streamVars
    BY <1>6 DEF DriverExecutes, Tell
  <2>2. driver[m] = "granted" /\ driver'[m] \in {"executing", "failed"}
    BY <1>6 DEF DriverExecutes, Tell, SlotInv
  <2>3. CASE Say("server", "EXECUTE_MOVEMENT", m, o)
    <3>1. \A f : Tagged("server", f) /\ f.type = "EXECUTE_MOVEMENT" /\ f.body = m => ServerSays(f)
      BY Zenon, <1>6, <2>2 DEF ServerSays
    <3> QED BY ZenonT(40), <2>3, <3>1, ServerSpeaks
  <2>4. CASE UNCHANGED streamVars
    BY ZenonT(40), <1>0, <2>4, NobodySpeaks
  <2> QED BY <2>1, <2>3, <2>4
<1> QED BY <1>1, <1>2, <1>3, <1>4, <1>5, <1>6 DEF Session

\* Every frame is sent for one of these reasons.
LEMMA NextTraffic ==
    ASSUME StreamInv, InOrder, SlotInv, [Next]_vars
    PROVE  Traffic
<1>1. CASE UNCHANGED vars
  <2>1. "client" \in Ends /\ "server" \in Ends /\ UNCHANGED streamVars
    BY <1>1 DEF Ends, vars
  <2> QED BY ZenonT(40), <2>1, NobodySpeaks
<1>2. CASE Next
  <2>1. CASE Connecting \/ MainReceiveFails \/ AnnounceExpires \/ AnnounceErases
             \/ StopSignals \/ Stop
    BY <2>1, MainTraffic DEF Connecting
  <2>2. CASE \E g \in Generations, o \in SendOutcomes : Announce(g, o)
    BY <2>2, MainTraffic
  <2>3. CASE Reader \/ ReaderFails \/ \E m \in Movements : Worker(m)
    BY <2>3, ReaderTraffic
  <2>4. CASE \/ Session \/ SessionFails \/ CoordinatorShuts
             \/ \E m \in Movements, o \in SendOutcomes :
                    DriverGrants(m, o) \/ DriverExecutes(m, o)
             \/ \E m \in Movements : DriverExpires(m)
    BY <2>4, CoordinatorTraffic
  <2> QED BY <1>2, <2>1, <2>2, <2>3, <2>4 DEF Next
<1> QED BY <1>1, <1>2

----------------------------------------------------------------------------

\* FrameStream, however the threads of the two processes share it: what an end
\* has accepted is the beginning of what its peer set out to send, and nothing
\* is accepted past a send that failed, whatever part of the frame got out.
THEOREM AcceptedIsAPrefix == Spec => []DeliveredPrefix
<1>1. Init => StreamInv
  BY InitStream DEF Init
<1>2. StreamInv /\ [Next]_vars => StreamInv'
  BY NextIsStreamStep, StreamKept
<1>3. StreamInv => DeliveredPrefix
  BY DEF StreamInv
<1> QED BY <1>1, <1>2, <1>3, PTL DEF Spec
=============================================================================
