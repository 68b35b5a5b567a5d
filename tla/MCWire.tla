------------------------------- MODULE MCWire -------------------------------
(* Instance of Wire: a well-formed value of every structure, and the values  *)
(* that differ from one in a single leaf.                                    *)
EXTENDS Wire

\* Everything exchanged or stored on its own; the rest only occurs inside.
AllStructs == DOMAIN Codec \ (UncheckedByDecode \cup {"ProvenanceChain", "ProvenanceEvent"})

DescriptorBase ==
    [f \in Fields("StateObjectDescriptor") |->
        CASE f = "object_id" -> derive_state_object_id(1, 1)
          [] f = "total_bytes" -> 5 [] f = "chunk_bytes" -> 3 [] f = "chunk_count" -> 2
          [] OTHER -> 1]

RECURSIVE BaseValue(_, _)

BaseField(row, endpoint) ==
    CASE row[2] = "list" -> IF Struct(row[3]) THEN <<BaseValue(row[3], 1)>> ELSE <<1>>
      [] row[1] \in {"destination", "destination_incarnation"} /\ Struct(row[2]) ->
           BaseValue(row[2], 2)
      [] row[2] = "StateObjectDescriptor" -> DescriptorBase
      [] Struct(row[2]) -> BaseValue(row[2], 1)
      [] row[1] = "destination" -> 2
      [] row[1] = "endpoint" -> endpoint
      [] row[1] \in {"verified_bytes", "min_chunk_bytes", "max_chunk_bytes",
                     "max_staging_bytes_per_endpoint", "payload", "chunk_length"} -> 3
      [] row[1] = "stored_bytes" -> 5
      [] row[1] = "stored_chunks" -> 2
      [] OTHER -> 1

RowFor(rows, f) == rows[CHOOSE i \in DOMAIN rows : rows[i][1] = f]

BaseValue(s, endpoint) ==
    IF s = "StateObjectDescriptor" THEN DescriptorBase
    ELSE [f \in Fields(s) |->
            IF f \in Unsent(s) THEN 1 ELSE BaseField(RowFor(Codec[s].encode, f), endpoint)]

MCBase(s) == BaseValue(s, 1)

\* What a field of each kind can hold in the program: enumerations hold their
\* members, endpoint names are parsed, texts and numbers may be out of bounds.
LeafValues(kind) ==
    CASE kind \in {"boolean"} -> {0, 1}
      [] kind \in {"state", "reason", "effect", "kind"} -> {0, 1, 2}
      [] kind \in {"endpoint", "optional_endpoint"} -> {0, 1, 2}
      [] kind \in {"text", "role", "u32", "u64"} -> {0, 1, 2, 3, Over}
      [] kind = "blob" -> 0 .. kMaxWireChunkBytes + 1
      [] OTHER -> {0, 1, 2}

RECURSIVE MCVariants(_, _)

KindVariants(kind, x) ==
    IF Struct(kind) THEN MCVariants(kind, x) ELSE LeafValues(kind) \ {x}

\* An entry added; the sequence numbers of a chain's events stay contiguous.
OneMore(row, xs, entry) ==
    Append(xs, IF row[3] = "ProvenanceEvent" THEN [entry EXCEPT !.sequence = Len(xs) + 1] ELSE entry)

\* Shorter and longer lists, one more than the bound included, and lists with
\* one entry changed.
ListVariants(row, x) ==
    {<<>>, OneMore(row, x, IF Struct(row[3]) THEN MCBase(row[3]) ELSE 1)}
      \cup (IF Len(x) > 0 THEN {[x EXCEPT ![1] = y] : y \in KindVariants(row[3], x[1])} ELSE {})

RowVariants(row, x) ==
    IF row[2] = "list" THEN ListVariants(row, x) ELSE KindVariants(row[2], x)

FieldVariants(s, f, x) ==
    IF f \in Unsent(s) THEN {0, 2} ELSE RowVariants(RowFor(Codec[s].decode, f), x)

\* Structures only built by checked operations hold what those let through: a
\* registration is made from a decoded RegisterRequest, a chain by append(), and
\* the role of an identity is a SessionRole.
Built(s, v) ==
    CASE s = "ProvenanceChain" ->
           /\ Len(v.events) <= kMaxEntries
           /\ \A i \in DOMAIN v.events :
                v.events[i].sequence = i /\ Valid("ProvenanceEvent", v.events[i])
      [] s = "EndpointRegistration" ->
           /\ v.contract # Over /\ v.service_address.host # Over /\ v.data_address.host # Over
      [] s = "PeerIdentity" -> v.role \in {1, 2}
      [] OTHER -> TRUE

MCVariants(s, v) ==
    {w \in UNION {{[v EXCEPT ![f] = y] : y \in FieldVariants(s, f, v[f])} : f \in Fields(s)} :
        Built(s, w)}

\* Two places at once where validate() relates fields to each other.
MCMaxChanges(s) ==
    IF s \in {"StagingJournal", "ResumeState", "CommitMarker", "MovementPolicy", "DataChunk",
              "DataEnd", "DataBeginAck", "ListMovements", "ExecuteMovement", "CommitRequest"}
    THEN 2 ELSE 1
=============================================================================
