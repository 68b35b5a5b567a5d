------------------------------ MODULE DataPlane ------------------------------
(* One movement's data sessions: the source serving chunks under a window     *)
(* (serve_data_connection), the destination pulling them into staging         *)
(* (run_transfer, StagingWriter), the staging journal, and attempts that      *)
(* resume what an interrupted one left behind.                                *)
(*                                                                            *)
(* A chunk is "good" when it is the one the granted content digest was        *)
(* computed from.  A chunk digest is computed by the source from what it      *)
(* reads, so it certifies the transport, not the content: a digest is the     *)
(* value it was computed from, and the content digest is matched when every   *)
(* hashed chunk is good.                                                      *)
EXTENDS Integers, Sequences

CONSTANTS
    ChunkCount,    \* object.chunk_count
    Window,        \* max_inflight_chunks
    Journaling,    \* allow_resume, and few enough chunks for the journal
    SyncOptions,   \* the values of ObjectStoreOptions::sync_on_write to consider
    Disturbances,  \* what may happen: "drop", "kill", "io", "cancel", "damage", "rot"
    MaxAttempts,   \* bound: attempts in one behaviour
    MaxDisturbed   \* bound: disturbances in one behaviour

ASSUME DataAssumptions ==
    /\ ChunkCount \in Nat \ {0} /\ Window \in Nat \ {0}
    /\ Journaling \in BOOLEAN /\ SyncOptions \subseteq BOOLEAN
    /\ MaxAttempts \in Nat /\ MaxDisturbed \in Nat

VARIABLES
    sync_on_write,  \* the destination's option, fixed for a behaviour
    content,    \* the object file of the source, per chunk
    src,        \* the thread that serves the connection: [pc, next, sent]
    dst,        \* the transfer thread: [pc, verified, hashed, since_ack, held]
    toDst,      \* frames on their way to the destination
    toSrc,      \* frames on their way to the source
    connected,  \* neither end has closed the data connection
    cancelled,  \* the endpoints whose cancellation flag is set
    staged,     \* durable: data.part, per chunk
    flushed,    \* how many chunks of data.part have left the stdio buffer
    journal,    \* durable: the digests of the verified prefix, <<>> also without a journal
    stored,     \* durable: the promoted object, <<>> when there is none
    outcome,    \* how the last attempt ended
    resumed,    \* history: the chunk the last attempt resumed from
    disturbed,  \* history: something disturbed the last attempt
    attempts, disturbances

vars == <<sync_on_write, content, src, dst, toDst, toSrc, connected, cancelled, staged, flushed, journal, stored,
          outcome, resumed, disturbed, attempts, disturbances>>
diskVars == <<staged, flushed, journal, stored>>
otherVars == <<resumed, disturbed, attempts, disturbances, sync_on_write>>

IdleSrc == [pc |-> "none", next |-> 0, sent |-> 0]
IdleDst == [pc |-> "idle", verified |-> 0, hashed |-> <<>>, since_ack |-> 0, held |-> "good"]
AllGood(chunks) == Len(chunks) = ChunkCount /\ \A i \in DOMAIN chunks : chunks[i] = "good"

Init ==
    /\ sync_on_write \in SyncOptions
    /\ content = [i \in 1 .. ChunkCount |-> "good"]
    /\ src = IdleSrc /\ dst = IdleDst
    /\ toDst = <<>> /\ toSrc = <<>> /\ connected = FALSE /\ cancelled = {}
    /\ staged = <<>> /\ flushed = 0 /\ journal = <<>> /\ stored = <<>>
    /\ outcome = "none" /\ resumed = 0 /\ disturbed = FALSE /\ attempts = 0 /\ disturbances = 0

-----------------------------------------------------------------------------
(* The destination.                                                          *)

(* The attempt is over: the staging file is closed, which flushes it, and so  *)
(* is the connection.                                                         *)
Ends(result) ==
    /\ dst' = IdleDst /\ outcome' = result
    /\ connected' = FALSE /\ toDst' = <<>> /\ toSrc' = <<>>

Journalled == IF Journaling THEN journal ELSE <<>>

(* The staged prefix is re-read and re-hashed against the journal. *)
PrefixIntact ==
    Len(staged) >= Len(Journalled) /\ SubSeq(staged, 1, Len(Journalled)) = Journalled

(* StagingWriter::begin, for an attempt that was just granted (on_execute     *)
(* gives it a fresh cancellation flag).  A journal without verified chunks    *)
(* starts over; a journal the staged bytes do not support is an error, and    *)
(* stays where it is.                                                         *)
begin ==
    /\ dst.pc = "idle" /\ attempts < MaxAttempts /\ attempts' = attempts + 1
    /\ disturbed' = FALSE /\ resumed' = Len(Journalled) /\ cancelled' = cancelled \ {"D"}
    /\ IF Journalled = <<>>
       THEN staged' = <<>> /\ flushed' = 0 /\ journal' = <<>>
       ELSE UNCHANGED <<staged, flushed, journal>>
    /\ IF PrefixIntact
       THEN /\ dst' = [IdleDst EXCEPT !.pc = "connect", !.verified = Len(Journalled),
                                      !.hashed = SubSeq(staged, 1, Len(Journalled))]
            /\ outcome' = "none"
       ELSE outcome' = "failed" /\ UNCHANGED dst
    /\ UNCHANGED <<content, src, toDst, toSrc, connected, stored, disturbances, sync_on_write>>

(* What is left of DataBegin's resume fields after encode and decode: neither *)
(* of them touches the two fields, so the source reads their initial value.   *)
DecodedResume(n) == 0

(* The connection, the handshake and DATA_BEGIN, which names the end of the   *)
(* verified prefix as the resume point.                                       *)
Connect ==
    /\ dst.pc = "connect" /\ src.pc = "none" /\ ~connected
    /\ connected' = TRUE
    /\ toSrc' = <<[type |-> "DATA_BEGIN", n |-> DecodedResume(dst.verified)]>>
    /\ dst' = [dst EXCEPT !.pc = "awaitBegin"]
    /\ UNCHANGED <<content, src, toDst, cancelled, diskVars, outcome, otherVars>>

Arrives(type) == toDst # <<>> /\ Head(toDst).type = type

(* An answer that names another chunk ends the attempt; the journal stays. *)
BeginAcked ==
    /\ dst.pc = "awaitBegin" /\ Arrives("DATA_BEGIN_ACK")
    /\ IF Head(toDst).n = dst.verified
       THEN /\ dst' = [dst EXCEPT !.pc = "top"] /\ toDst' = Tail(toDst)
            /\ UNCHANGED <<toSrc, connected, cancelled, outcome, flushed>>
       ELSE Ends("failed") /\ flushed' = Len(staged) /\ cancelled' = cancelled \ {"D"}
    /\ UNCHANGED <<content, src, staged, journal, stored, otherVars>>

(* The top of the loop looks at the flag before it waits for a frame. *)
Top ==
    /\ dst.pc = "top"
    /\ IF "D" \in cancelled
       THEN Ends("cancelled") /\ flushed' = Len(staged)
       ELSE dst' = [dst EXCEPT !.pc = "pull"] /\ UNCHANGED <<toDst, toSrc, connected, outcome, flushed>>
    /\ UNCHANGED <<content, src, cancelled, staged, journal, stored, otherVars>>

append_JournalsFirst ==   \* mutant: the journal is saved before the bytes are written
    /\ dst.pc = "pull" /\ Arrives("DATA_CHUNK")
    /\ Head(toDst).n = dst.verified
    /\ journal' = IF Journaling THEN Append(journal, Head(toDst).bytes) ELSE journal
    /\ dst' = [dst EXCEPT !.pc = "accepted", !.held = Head(toDst).bytes]
    /\ toDst' = Tail(toDst)
    /\ UNCHANGED <<content, src, toSrc, connected, cancelled, staged, flushed, stored, outcome,
                   otherVars>>

(* StagingWriter::append: the bytes go to data.part at the chunk's offset,    *)
(* ...  The branch for a chunk that is already verified is not modelled: the  *)
(* source starts at the resume point both sides agreed on and counts up.      *)
append ==
    /\ dst.pc = "pull" /\ Arrives("DATA_CHUNK")
    /\ LET c == Head(toDst)
       IN IF c.n = dst.verified
          THEN /\ staged' = SubSeq(staged, 1, c.n) \o <<c.bytes>> \o SubSeq(staged, c.n + 2, Len(staged))
               /\ flushed' = IF sync_on_write THEN Len(staged') ELSE IF flushed > c.n THEN c.n ELSE flushed
               /\ dst' = [dst EXCEPT !.pc = "accepted", !.held = c.bytes]
               /\ toDst' = Tail(toDst)
               /\ UNCHANGED <<toSrc, connected, outcome>>
          ELSE Ends("failed") /\ flushed' = Len(staged) /\ UNCHANGED staged
    /\ UNCHANGED <<content, src, cancelled, journal, stored, otherVars>>

Journal_NoLastAck ==   \* mutant: the window that ends with the object is not answered
    LET since == dst.since_ack + 1
        full == since >= Window
    IN /\ dst.pc = "accepted"
       /\ dst' = [dst EXCEPT !.pc = "top", !.verified = @ + 1, !.hashed = Append(@, dst.held),
                             !.since_ack = IF full THEN 0 ELSE since]
       /\ journal' = IF Journaling THEN Append(dst.hashed, dst.held) ELSE journal
       /\ toSrc' = IF full /\ dst.verified + 1 < ChunkCount
                   THEN Append(toSrc, [type |-> "DATA_CHUNK_ACK", n |-> 0]) ELSE toSrc
       /\ UNCHANGED <<content, src, toDst, connected, cancelled, staged, flushed, stored, outcome,
                      otherVars>>

(* ... then the hash, the counters and the journal; a full window is answered. *)
Journal ==
    LET since == dst.since_ack + 1
    IN /\ dst.pc = "accepted"
       /\ dst' = [dst EXCEPT !.pc = "top", !.verified = @ + 1, !.hashed = Append(@, dst.held),
                             !.since_ack = IF since >= Window THEN 0 ELSE since]
       /\ journal' = IF Journaling THEN Append(dst.hashed, dst.held) ELSE journal
       /\ toSrc' = IF since >= Window THEN Append(toSrc, [type |-> "DATA_CHUNK_ACK", n |-> 0]) ELSE toSrc
       /\ UNCHANGED <<content, src, toDst, connected, cancelled, staged, flushed, stored, outcome,
                      otherVars>>

Aborted ==
    /\ dst.pc = "pull" /\ Arrives("DATA_ABORT")
    /\ Ends("cancelled") /\ flushed' = Len(staged)
    /\ UNCHANGED <<content, src, cancelled, staged, journal, stored, otherVars>>

finish_NoDigest ==   \* mutant: complete bytes are promoted without comparing their digest
    /\ dst.pc = "pull" /\ Arrives("DATA_END")
    /\ IF dst.verified # ChunkCount
       THEN Ends("failed") /\ flushed' = Len(staged) /\ UNCHANGED <<staged, journal, stored>>
       ELSE /\ stored' = staged /\ outcome' = "arrived"
            /\ dst' = IdleDst /\ toDst' = <<>> /\ toSrc' = <<>>
            /\ staged' = <<>> /\ flushed' = 0 /\ journal' = <<>>
            /\ UNCHANGED connected
    /\ UNCHANGED <<content, src, cancelled, otherVars>>

(* finish, the digest check and promote.  Bytes that hash to something else   *)
(* are discarded with their journal; promoted ones leave staging.             *)
finish ==
    /\ dst.pc = "pull" /\ Arrives("DATA_END")
    /\ IF dst.verified # ChunkCount
       THEN Ends("failed") /\ flushed' = Len(staged) /\ UNCHANGED <<staged, journal, stored>>
       ELSE IF ~AllGood(dst.hashed)
       THEN Ends("failed") /\ staged' = <<>> /\ flushed' = 0 /\ journal' = <<>> /\ UNCHANGED stored
       ELSE /\ stored' = staged /\ outcome' = "arrived"
            /\ dst' = IdleDst /\ toDst' = <<>>
            /\ toSrc' = Append(toSrc, [type |-> "DATA_RESULT", n |-> 0])
            /\ staged' = <<>> /\ flushed' = 0 /\ journal' = <<>>
            /\ UNCHANGED connected
    /\ UNCHANGED <<content, src, cancelled, otherVars>>

(* connect() or receive() fails: the prefix stays journalled. *)
ConnectionLost ==
    /\ \/ dst.pc = "connect" /\ disturbed
       \/ dst.pc \in {"awaitBegin", "pull"} /\ ~connected /\ toDst = <<>>
    /\ Ends("failed") /\ flushed' = Len(staged)
    /\ UNCHANGED <<content, src, cancelled, staged, journal, stored, otherVars>>

Destination == begin \/ Connect \/ BeginAcked \/ Top \/ append \/ Journal \/ Aborted \/ finish \/ ConnectionLost

-----------------------------------------------------------------------------
(* The source.                                                               *)

(* The chunk the source starts from.  chunk_offset has no answer for the      *)
(* index one past the last chunk, so a complete prefix is not a resume point. *)
StartChunk(n) == IF n > 0 /\ n < ChunkCount THEN n ELSE 0

SourceBegin ==
    /\ src.pc = "none" /\ toSrc # <<>> /\ Head(toSrc).type = "DATA_BEGIN"
    /\ LET start == StartChunk(Head(toSrc).n)
       IN /\ src' = [pc |-> "serve", next |-> start, sent |-> 0]
          /\ toDst' = Append(toDst, [type |-> "DATA_BEGIN_ACK", n |-> start])
    /\ toSrc' = Tail(toSrc)
    /\ UNCHANGED <<content, dst, connected, cancelled, diskVars, outcome, otherVars>>

SendChunk_NoWindow ==   \* mutant: the source never stops for an acknowledgement
    /\ src.pc = "serve" /\ connected /\ src.next < ChunkCount /\ "S" \notin cancelled
    /\ toDst' = Append(toDst, [type |-> "DATA_CHUNK", n |-> src.next, bytes |-> content[src.next + 1]])
    /\ src' = [src EXCEPT !.next = @ + 1, !.sent = @ + 1]
    /\ UNCHANGED <<content, dst, toSrc, connected, cancelled, diskVars, outcome, otherVars>>

(* One turn of the chunk loop: a full window waits for its acknowledgement. *)
SendChunk ==
    /\ src.pc = "serve" /\ connected /\ src.next < ChunkCount /\ "S" \notin cancelled
    /\ toDst' = Append(toDst, [type |-> "DATA_CHUNK", n |-> src.next, bytes |-> content[src.next + 1]])
    /\ src' = [pc |-> IF (src.sent + 1) % Window = 0 THEN "awaitAck" ELSE "serve",
               next |-> src.next + 1, sent |-> src.sent + 1]
    /\ UNCHANGED <<content, dst, toSrc, connected, cancelled, diskVars, outcome, otherVars>>

SendAbort ==
    /\ src.pc = "serve" /\ connected /\ src.next < ChunkCount /\ "S" \in cancelled
    /\ toDst' = Append(toDst, [type |-> "DATA_ABORT"])
    /\ src' = IdleSrc /\ connected' = FALSE /\ toSrc' = <<>>
    /\ UNCHANGED <<content, dst, cancelled, diskVars, outcome, otherVars>>

ChunkAcked ==
    /\ src.pc = "awaitAck" /\ toSrc # <<>> /\ Head(toSrc).type = "DATA_CHUNK_ACK"
    /\ src' = [src EXCEPT !.pc = "serve"] /\ toSrc' = Tail(toSrc)
    /\ UNCHANGED <<content, dst, toDst, connected, cancelled, diskVars, outcome, otherVars>>

SendEnd_Early ==   \* mutant: the loop over the chunks stops one short
    /\ src.pc = "serve" /\ connected /\ src.next >= ChunkCount - 1
    /\ toDst' = Append(toDst, [type |-> "DATA_END"])
    /\ src' = [src EXCEPT !.pc = "awaitResult"]
    /\ UNCHANGED <<content, dst, toSrc, connected, cancelled, diskVars, outcome, otherVars>>

SendEnd ==
    /\ src.pc = "serve" /\ connected /\ src.next = ChunkCount
    /\ toDst' = Append(toDst, [type |-> "DATA_END"])
    /\ src' = [src EXCEPT !.pc = "awaitResult"]
    /\ UNCHANGED <<content, dst, toSrc, connected, cancelled, diskVars, outcome, otherVars>>

(* The result, or the end of the connection, ends the session, and its        *)
(* connection is closed with it.                                              *)
SourceEnds ==
    /\ src.pc # "none"
    /\ \/ ~connected
       \/ src.pc = "awaitResult" /\ toSrc # <<>>
    /\ src' = IdleSrc /\ connected' = FALSE /\ toSrc' = <<>>
    /\ UNCHANGED <<content, dst, toDst, cancelled, diskVars, outcome, otherVars>>

Source == SourceBegin \/ SendChunk \/ SendAbort \/ ChunkAcked \/ SendEnd \/ SourceEnds

-----------------------------------------------------------------------------
(* What disturbs an attempt.                                                 *)

May(what) ==
    /\ what \in Disturbances /\ disturbances < MaxDisturbed /\ disturbances' = disturbances + 1
    /\ UNCHANGED <<attempts, resumed, sync_on_write>>

(* The connection fails, with any part of what was sent still to be read, or  *)
(* it cannot be established at all.                                           *)
Drop ==
    /\ May("drop") /\ dst.pc # "idle"
    /\ connected \/ dst.pc = "connect"
    /\ connected' = FALSE /\ toSrc' = <<>> /\ disturbed' = TRUE
    /\ \E k \in 0 .. Len(toDst) : toDst' = SubSeq(toDst, 1, k)
    /\ UNCHANGED <<content, src, dst, cancelled, diskVars, outcome>>

(* The destination process is killed, or append returns an error of the       *)
(* write, the sync or save_journal, before or after the bytes reached         *)
(* data.part: what stdio still buffered is lost, and the journal stays.       *)
Kill ==
    /\ dst.pc # "idle" /\ (May("kill") \/ (dst.pc \in {"pull", "accepted"} /\ May("io")))
    /\ Ends("failed") /\ disturbed' = TRUE
    /\ \E k \in flushed .. Len(staged) : staged' = SubSeq(staged, 1, k) /\ flushed' = k
    /\ UNCHANGED <<content, src, cancelled, journal, stored>>

(* on_cancel, at either endpoint. *)
Cancel ==
    /\ May("cancel") /\ dst.pc # "idle"
    /\ \E e \in {"S", "D"} : cancelled' = cancelled \cup {e}
    /\ UNCHANGED <<content, src, dst, toDst, toSrc, connected, diskVars, outcome, disturbed>>

(* The source's object file no longer holds what was announced. *)
DamageSource ==
    /\ May("damage")
    /\ \E i \in 1 .. ChunkCount : content' = [content EXCEPT ![i] = "bad"]
    /\ UNCHANGED <<src, dst, toDst, toSrc, connected, cancelled, diskVars, outcome, disturbed>>

(* Staged bytes change on disk between two attempts. *)
RotStaged ==
    /\ May("rot") /\ dst.pc = "idle"
    /\ \E i \in DOMAIN staged : staged' = [staged EXCEPT ![i] = "bad"]
    /\ UNCHANGED <<content, src, dst, toDst, toSrc, connected, cancelled, flushed, journal, stored,
                   outcome, disturbed>>

(* Every attempt that is allowed has been made. *)
Finished ==
    /\ dst.pc = "idle" /\ attempts = MaxAttempts /\ src.pc = "none"
    /\ UNCHANGED vars

Next == Destination \/ Source \/ Drop \/ Kill \/ Cancel \/ DamageSource \/ RotStaged \/ Finished

Spec == Init /\ [][Next]_vars

(* The transfer thread and the session thread keep running. *)
Fairness == WF_vars(Destination) /\ WF_vars(Source)
FairSpec == Spec /\ Fairness

-----------------------------------------------------------------------------
(* Whatever was promoted, in one attempt or resumed over several, over bytes  *)
(* lost with the process or damaged on either disk in between, is exactly the *)
(* content the grant authorizes (run_transfer promotes only after the digest  *)
(* check).                                                                    *)
ArrivedIsExact == stored # <<>> => AllGood(stored)

(* Any two chunks on their way are less than a window apart: there is never   *)
(* more than a window of them, so what a connection buffers is bounded        *)
(* (serve_data_connection stops for an acknowledgement).                      *)
WindowBounded ==
    \A j, k \in DOMAIN toDst :
        toDst[j].type = "DATA_CHUNK" /\ toDst[k].type = "DATA_CHUNK" => k - j < Window

(* With sync_on_write the journal on disk never claims a chunk the staging    *)
(* file does not hold, even if the process is killed inside append.           *)
JournalWithinBytes == sync_on_write => Len(journal) <= Len(staged)

IntactSource == \A i \in DOMAIN content : content[i] = "good"

(* An attempt nothing disturbed, from a source that still holds the content,  *)
(* arrives when it starts at the first chunk: the chunk loop, the window and  *)
(* the checks of append and finish agree on where the object begins and ends. *)
FreshAttemptArrives == outcome = "failed" /\ ~disturbed /\ IntactSource => resumed > 0

(* The same of an attempt that continues a verified prefix short of the whole *)
(* object, as the comment on DataBegin's resume fields and README.md promise. *)
PartialResumeArrives ==
    outcome = "failed" /\ ~disturbed /\ PrefixIntact /\ IntactSource
        => resumed \notin 1 .. ChunkCount - 1

(* The two threads never wait for each other: every attempt ends, without the *)
(* help of the receive budget.                                                *)
EveryAttemptEnds == dst.pc # "idle" ~> dst.pc = "idle"

=============================================================================
