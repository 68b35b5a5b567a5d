-------------------------------- MODULE Wire --------------------------------
(* Encoding, decoding and validating the structures of WireFormats, and one  *)
(* exchange: a process builds a structure, validates and encodes it, the     *)
(* bytes may be cut short, run on or be damaged in one place, and a reader   *)
(* decodes them, possibly as another structure than the one written.         *)
EXTENDS WireFormats, FiniteSets, SequencesExt

CONSTANTS
    Structs,         \* the structures exchanged in this instance
    Base(_),         \* a well-formed value of each structure
    Variants(_, _),  \* values differing from one in a single place
    MaxChanges(_)    \* how many places of each base value may be changed

VARIABLES
    struct,    \* the structure being exchanged
    value,     \* the value its writer holds
    changes,   \* places in which value differs from Base(struct)
    phase,     \* "build", "sent", "refused" (by validate), "done"
    cells,     \* the encoded bytes on their way
    seal,      \* what the MAC or digest carried by a sealed structure covers
    damage,    \* what happened to the bytes: "none", "cut", "longer", "cell"
    read       \* what the reader got: the structure it expected and the result

vars == <<struct, value, changes, phase, cells, seal, damage, read>>

Codec ==
    [SocketAddress |-> SocketAddress, Incarnation |-> Incarnation,
     EndpointRegistration |-> EndpointRegistration,
     StateObjectDescriptor |-> StateObjectDescriptor, TransferGrant |-> TransferGrant,
     PeerIdentityHint |-> PeerIdentityHint, PeerIdentity |-> PeerIdentity,
     HelloRequest |-> HelloRequest, HelloResponse |-> HelloResponse,
     RegisterRequest |-> RegisterRequest, RegisterAck |-> RegisterAck,
     AnnounceObject |-> AnnounceObject, AnnounceAck |-> AnnounceAck,
     GrantTransfer |-> GrantTransfer, GrantAck |-> GrantAck,
     ExecuteMovement |-> ExecuteMovement, AttemptResult |-> AttemptResult,
     CancelRequest |-> CancelRequest, CancelAck |-> CancelAck,
     CommitRequest |-> CommitRequest, CommitResult |-> CommitResult,
     VerifyRequest |-> VerifyRequest, VerifyResponse |-> VerifyResponse,
     AuthorityQuery |-> AuthorityQuery, AuthorityReport |-> AuthorityReport,
     CleanupRequest |-> CleanupRequest, CleanupResult |-> CleanupResult,
     DataBegin |-> DataBegin, DataBeginAck |-> DataBeginAck, DataChunk |-> DataChunk,
     DataChunkAck |-> DataChunkAck, DataEnd |-> DataEnd, DataResult |-> DataResult,
     DataAbort |-> DataAbort, SubmitMovement |-> SubmitMovement,
     MovementAccepted |-> MovementAccepted, QueryMovement |-> QueryMovement,
     MovementStatus |-> MovementStatus, ListMovements |-> ListMovements,
     MovementSummary |-> MovementSummary, MovementList |-> MovementList,
     CancelMovement |-> CancelMovement, ReconcileMovement |-> ReconcileMovement,
     ProvenanceRequest |-> ProvenanceRequest, ProvenanceReport |-> ProvenanceReport,
     TopologyRequest |-> TopologyRequest, TopologyReport |-> TopologyReport,
     PolicyRequest |-> PolicyRequest, PolicyReport |-> PolicyReport,
     ShutdownRequest |-> ShutdownRequest, ShutdownAck |-> ShutdownAck,
     ErrorMessage |-> ErrorMessage, MovementPolicy |-> MovementPolicy,
     PolicySet |-> PolicySet, ProvenanceEvent |-> ProvenanceEvent,
     ProvenanceChain |-> ProvenanceChain, MovementRecord |-> MovementRecord,
     CommitMarker |-> CommitMarker, StagingJournal |-> StagingJournal,
     ResumeState |-> ResumeState]

\* A kind of field that is a structure of its own.
Struct(kind) == kind \notin DOMAIN Width

\* Fields a structure declares and its codec does not carry; a decoded value
\* has them at their default, zero.
Unsent(s) == IF s = "DataBegin" THEN {"resume_from_chunk", "resume_from_offset"} ELSE {}

Fields(s) == {Codec[s].encode[i][1] : i \in DOMAIN Codec[s].encode} \cup Unsent(s)

\* The readers of these leave validating to the structure around them.
UncheckedByDecode == {"SocketAddress", "Incarnation", "EndpointRegistration", "PeerIdentity"}

----------------------------------------------------------------------------
(* validate()                                                                *)

\* The checks that relate several fields.
CrossChecks(s, v) ==
    CASE s = "StateObjectDescriptor" ->
           /\ v.object_id = derive_state_object_id(v.kind, v.name)
           /\ SegmentationValid(v.total_bytes, v.chunk_bytes, v.chunk_count)
      [] s = "MovementPolicy" -> PolicySizesValid(v)
      [] s = "MovementRecord" -> RecordValid(v)
      [] s = "CommitMarker" -> MarkerMatchesObject(v)
      [] s = "StagingJournal" -> JournalValid(v)
      [] s = "ResumeState" -> ResumeStateValid(v)
      [] OTHER -> TRUE

RECURSIVE Valid(_, _)

HoldsOf(check, v, field) ==
    CASE check[1] = "nonzero" -> field # 0
      [] check[1] = "bounded" -> field # Over
      [] check[1] = "nested" -> Valid(check[3], field)
      [] check[1] = "distinct" -> field # v[check[3]]
      [] check[1] = "equal" -> field = v[check[3]]
      [] check[1] = "names" -> field.endpoint = v[check[3]]
      [] check[1] = "port" -> field.port # 0
      [] check[1] = "role" -> field \in {1, 2}
      [] check[1] = "contract" -> field = PeerContract
      [] check[1] = "payload" -> field <= kMaxWireChunkBytes
      [] check[1] = "needed_by" -> v[check[3]] > 0 => field # 0
      [] check[1] = "address_or_unset" ->
           (field.host = 0 /\ field.port = 0) \/ Valid("SocketAddress", field)
      [] check[1] = "each" ->
           Len(field) <= kMaxEntries /\ \A i \in DOMAIN field : Valid(check[3], field[i])
      [] check[1] = "contiguous" -> \A i \in DOMAIN field : field[i].sequence = i

Holds(check, v) == HoldsOf(check, v, v[check[2]])

Valid(s, v) == (\A check \in Codec[s].validate : Holds(check, v)) /\ CrossChecks(s, v)

----------------------------------------------------------------------------
(* encode()                                                                  *)

RECURSIVE Encode(_, _)

DomainCells(domain) == IF domain = "" THEN <<>> ELSE << <<"domain", domain>> >>

EncodeAs(kind, x) == IF Struct(kind) THEN Encode(kind, x) ELSE << <<Width[kind], x>> >>

EncodeRow(row, x) ==
    IF row[2] # "list" THEN EncodeAs(row[2], x)
    ELSE << <<"u32", Len(x)>> >>
           \o FlattenSeq([i \in DOMAIN x |-> EncodeAs(row[3], x[i])])

EncodeRows(rows, v) == FlattenSeq([i \in DOMAIN rows |-> EncodeRow(rows[i], v[rows[i][1]])])

EncodeFormat(format, v) == DomainCells(format.domain) \o EncodeRows(format.encode, v)

Encode(s, v) == EncodeFormat(Codec[s], v)

----------------------------------------------------------------------------
(* decode(): the value read and the cells not yet consumed                   *)

Refused == [ok |-> FALSE, value |-> <<>>, rest |-> <<>>]
Got(v, rest) == [ok |-> TRUE, value |-> v, rest |-> rest]

RECURSIVE Decode(_, _), DecodeList(_, _, _), DecodeRows(_, _, _)

DecodeAs(kind, input) ==
    IF Struct(kind) THEN Decode(kind, input)
    ELSE IF /\ input # <<>>
            /\ input[1][1] = Width[kind]
            /\ Readable(kind, input[1][2])
         THEN Got(input[1][2], Tail(input))
         ELSE Refused

Before(entry, others) ==
    IF others.ok THEN Got(<<entry.value>> \o others.value, others.rest) ELSE Refused

AfterEntry(kind, entry, more) ==
    IF entry.ok THEN Before(entry, DecodeList(kind, more, entry.rest)) ELSE Refused

DecodeList(kind, count, input) ==
    IF count = 0 THEN Got(<<>>, input)
    ELSE AfterEntry(kind, DecodeAs(kind, input), count - 1)

AfterCount(row, count) ==
    IF count.ok /\ count.value <= row[4] THEN DecodeList(row[3], count.value, count.rest)
    ELSE Refused

DecodeRow(row, input) ==
    IF row[2] = "list" THEN AfterCount(row, DecodeAs("u32", input)) ELSE DecodeAs(row[2], input)

AfterField(rows, v, field) ==
    IF field.ok
    THEN DecodeRows(Tail(rows), [v EXCEPT ![Head(rows)[1]] = field.value], field.rest)
    ELSE Refused

DecodeRows(rows, v, input) ==
    IF rows = <<>> THEN Got(v, input) ELSE AfterField(rows, v, DecodeRow(Head(rows), input))

\* check_domain, and the fields in order ...
DecodeFormat(format, domain, blank, input) ==
    IF IsPrefix(domain, input)
    THEN DecodeRows(format.decode, blank, SubSeq(input, Len(domain) + 1, Len(input)))
    ELSE Refused

\* ... then validate().
AfterFields(s, result) ==
    IF result.ok /\ (s \in UncheckedByDecode \/ Valid(s, result.value)) THEN result ELSE Refused

Decode(s, input) ==
    AfterFields(s, DecodeFormat(Codec[s], DomainCells(Codec[s].domain),
                                [f \in Fields(s) |-> 0], input))

decode_message_TrailingBytes(s, input) == Decode(s, input)

\* decode_message<T>, and the loads of a journal or a marker: the input has to
\* be consumed exactly.
Consumed(result) == IF result.ok /\ result.rest = <<>> THEN result ELSE Refused

decode_message(s, input) == Consumed(Decode(s, input))

----------------------------------------------------------------------------
(* Seals: the digest or MAC a structure carries over its own fields          *)

SealField ==
    [TransferGrant |-> "signature", CommitMarker |-> "marker_digest",
     HelloRequest |-> "client_mac", HelloResponse |-> "server_mac"]

ClientMacRows == One("client_nonce", "id") \o One("identity", "PeerIdentity")
ServerMacRows == R(<<"server_nonce", "session_id">>, "id") \o One("identity", "PeerIdentity")

SealInput_MarkerWithoutSizes(s, v) ==
    CASE s = "TransferGrant" -> << <<"domain", "SMF-TRANSFER-GRANT-v1">> >>
                                  \o EncodeRows(TransferGrantUnsigned, v)
      [] s = "CommitMarker" -> << <<"domain", "SMF-COMMIT-MARKER-v1">> >>
                                  \o EncodeRows(SubSeq(CommitMarkerSealed, 1, 7), v)
      [] s = "HelloRequest" -> << <<"domain", "SMF-HELLO-CLIENT-v1">> >>
                                  \o EncodeRows(ClientMacRows, v)
      [] s = "HelloResponse" -> << <<"domain", "SMF-HELLO-SERVER-v1">> >>
                                  \o EncodeRows(ServerMacRows, v)

\* A hash or MAC is represented by what it is computed over.  The server's
\* also covers the request it answers, which is the same for writer and reader
\* of one exchange.
SealInput(s, v) ==
    CASE s = "TransferGrant" -> << <<"domain", "SMF-TRANSFER-GRANT-v1">> >>
                                  \o EncodeRows(TransferGrantUnsigned, v)
      [] s = "CommitMarker" -> << <<"domain", "SMF-COMMIT-MARKER-v1">> >>
                                  \o EncodeRows(CommitMarkerSealed, v)
      [] s = "HelloRequest" -> << <<"domain", "SMF-HELLO-CLIENT-v1">> >>
                                  \o EncodeRows(ClientMacRows, v)
      [] s = "HelloResponse" -> << <<"domain", "SMF-HELLO-SERVER-v1">>,
                                   <<"id", Base("HelloRequest").client_nonce>>,
                                   <<"digest", Base("HelloRequest").client_mac>> >>
                                  \o EncodeRows(ServerMacRows, v)

Sealed(s) == s \in DOMAIN SealField

\* What is only ever written by code that validates it first: stored and sealed
\* structures, and the requests of the administration client.
Validated ==
    DOMAIN SealField \cup
    {"StagingJournal", "ResumeState", "MovementRecord", "MovementPolicy", "PolicySet",
     "StateObjectDescriptor", "SubmitMovement", "QueryMovement", "ListMovements",
     "CancelMovement", "ReconcileMovement", "ProvenanceRequest", "PolicyRequest"}

\* verify_signature, read_commit_marker, accept_hello_request and
\* verify_hello_response compare the seal with one computed from the fields.
SealVerifies(s, v) == Sealed(s) => seal = SealInput(s, v)

----------------------------------------------------------------------------

Init ==
    /\ struct \in Structs
    /\ value = Base(struct)
    /\ changes = 0
    /\ phase = "build"
    /\ cells = <<>> /\ seal = <<>>
    /\ damage = "none"
    /\ read = [as |-> "none", ok |-> FALSE, value |-> <<>>]

\* The writer fills the structure with something else in one place.
Change ==
    /\ phase = "build" /\ changes < MaxChanges(struct)
    /\ value' \in Variants(struct, value)
    /\ changes' = changes + 1
    /\ UNCHANGED <<struct, phase, cells, seal, damage, read>>

\* StateObjectDescriptor::create for any two sizes of the machine's range; its
\* validate() is the one Send applies.
Create(total, chunk) ==
    /\ phase = "build" /\ changes = 0 /\ struct = "StateObjectDescriptor"
    /\ value' = [value EXCEPT !.total_bytes = total, !.chunk_bytes = chunk,
                              !.chunk_count = CreatedCount(total, chunk)]
    /\ changes' = MaxChanges(struct)
    /\ UNCHANGED <<struct, phase, cells, seal, damage, read>>

Transmit ==
    /\ phase' = "sent"
    /\ cells' = Encode(struct, value)
    /\ seal' = IF Sealed(struct) THEN SealInput(struct, value) ELSE <<>>

\* send_message, save_journal, write_commit_marker, the signing of a grant and
\* the handshake all validate before they encode.
Send ==
    /\ phase = "build"
    /\ IF Valid(struct, value) /\ (struct = "StagingJournal" => Journaling(value.object))
       THEN Transmit
       ELSE phase' = "refused" /\ UNCHANGED <<cells, seal>>
    /\ UNCHANGED <<struct, value, changes, damage, read>>

\* The coordinator and the endpoints hand their messages to the stream as they
\* are: only the reader's decode() validates them.
Push ==
    /\ phase = "build" /\ struct \notin Validated /\ ~Valid(struct, value)
    /\ Transmit
    /\ UNCHANGED <<struct, value, changes, damage, read>>

\* A file or payload that ends early, ...
Cut ==
    /\ phase = "sent" /\ damage = "none" /\ changes = 0
    /\ \E k \in 0 .. Len(cells) - 1 : cells' = SubSeq(cells, 1, k)
    /\ damage' = "cut"
    /\ UNCHANGED <<struct, value, changes, phase, seal, read>>

\* ... that goes on after the structure, ...
Longer ==
    /\ phase = "sent" /\ damage = "none" /\ changes = 0
    /\ cells' = Append(cells, <<"u8", 0>>)
    /\ damage' = "longer"
    /\ UNCHANGED <<struct, value, changes, phase, seal, read>>

\* ... or that holds another value in one field of a sealed structure.  The
\* last cell is the seal itself.
DamageCell ==
    /\ phase = "sent" /\ damage = "none" /\ changes = 0 /\ Sealed(struct)
    /\ \E i \in {k \in DOMAIN cells : cells[k][1] # "domain"}, x \in 0 .. 3 :
         /\ cells[i][2] # x
         /\ cells' = [cells EXCEPT ![i] = <<@[1], x>>]
         /\ seal' = IF i = Len(cells) THEN <<>> ELSE seal
    /\ damage' = "cell"
    /\ UNCHANGED <<struct, value, changes, phase, read>>

Outcome(expected, result) ==
    IF result.ok /\ SealVerifies(expected, result.value)
    THEN [as |-> expected, ok |-> TRUE, value |-> result.value]
    ELSE [as |-> expected, ok |-> FALSE, value |-> <<>>]

\* The reader decodes what arrived as the structure it expects: the right one,
\* or a message of another type when nothing checked the frame's type first.
Read(expected) ==
    /\ phase = "sent"
    /\ expected # struct => /\ damage = "none" /\ changes = 0
                            /\ Codec[expected].domain # ""
    /\ read' = Outcome(expected, decode_message(expected, cells))
    /\ phase' = "done"
    /\ UNCHANGED <<struct, value, changes, cells, seal, damage>>

Next ==
    \/ Change
    \/ \E total \in 0 .. U64 - 1, chunk \in 1 .. U64 - 1 : Create(total, chunk)
    \/ Send
    \/ Push
    \/ Cut
    \/ Longer
    \/ DamageCell
    \/ \E expected \in Structs : Read(expected)

Spec == Init /\ [][Next]_vars

----------------------------------------------------------------------------

\* decode() reads back what was sent, with the value the writer gave to every
\* field the codec carries, exactly when validate() accepts it: no encoder and
\* decoder disagree about order, width, bound or optional value, and a writer
\* that did not validate is found out by its reader.
RoundTrip ==
    phase = "done" /\ damage = "none" /\ read.as = struct =>
        /\ read.ok <=> Valid(struct, value)
        /\ read.ok => \A f \in Fields(struct) \ Unsent(struct) : read.value[f] = value[f]

\* A message cut short, one followed by more bytes and a message of another
\* type are all refused: decode_message() accepts whole encodings of its own
\* structure and nothing else.
OnlyWholeOwnMessages ==
    read.ok => read.as = struct /\ damage \notin {"cut", "longer"}

\* A commit marker, transfer grant or handshake message in which any one field
\* reads differently from what was sealed is refused: the seal is computed over
\* every field the reader goes on to use.
SealCoversEveryField == read.ok => damage # "cell"

\* Every descriptor a process accepts cuts the object into chunks that tile it,
\* also for sizes at the edge of the integer ranges.
DescriptorsTile ==
    read.ok /\ read.as = "StateObjectDescriptor" => Tiles(read.value)

\* A journal or resume state that loads accounts for its prefix against every
\* descriptor check_resume_compatible lets it continue, not only the one it was
\* written for: the writer goes on at the byte where the staged prefix ends.
ResumedPrefixFits ==
    read.ok /\ read.as = "StagingJournal" =>
        \A total \in 0 .. kMaxObjectBytes, chunk \in kMinChunkBytes .. kMaxChunkBytes :
            LET staged == read.value.object
                planned == [staged EXCEPT !.total_bytes = total, !.chunk_bytes = chunk,
                                          !.chunk_count = CreatedCount(total, chunk)]
            IN  Valid("StateObjectDescriptor", planned)
                  /\ check_resume_compatible(planned, staged)
                => /\ PrefixAccounted(planned, read.value.verified_chunks,
                                      read.value.verified_bytes)
                   /\ read.value.verified_chunks < planned.chunk_count
                        => read.value.verified_bytes
                             = chunk_offset(planned, read.value.verified_chunks)
=============================================================================
