----------------------------- MODULE WireFormats -----------------------------
(* The canonical encoding of every structure the processes exchange or keep  *)
(* on disk: validate(), encode() and decode() of wire.cpp, state_object.cpp, *)
(* policy.cpp, provenance.cpp, movement.cpp, session.cpp, object_store.cpp   *)
(* and chunk_plan.cpp, over the primitive readers and writers of codec.cpp.  *)
(*                                                                           *)
(* A structure is a function from its field names to values.  An encoding is *)
(* a sequence of cells <<width, value>>, one for each primitive the encoder  *)
(* appends.  Values are integers: 0 is the zero, unset or empty value, Over  *)
(* stands for anything longer, larger or later than the field's bound.  A    *)
(* payload is represented by its length, a list by the sequence of its       *)
(* entries.                                                                  *)
(*                                                                           *)
(* Each structure is a table: the rows its encode() writes, the rows its     *)
(* decode() reads, in the order of the code and translated separately, and   *)
(* the checks of its validate().  Writers use the primitive they call;       *)
(* readers name what the code demands of the value it has read.              *)
EXTENDS ChunkPlan, Sequences

CONSTANTS
    Over,                     \* beyond the bound of a text, an enumeration or a limit
    kMaxWireChunkBytes,       \* the largest payload of a DataChunk or VerifyResponse
    kMaxEntries,              \* bound of every list but the journal's
    kMaxResumeJournalChunks   \* bound of the journal's chunk digests

ASSUME WireAssumption ==
    /\ {Over, kMaxWireChunkBytes, kMaxEntries, kMaxResumeJournalChunks} \subseteq Nat
    /\ Over > 3

\* MovementState::COMMITTED and kPeerContract among the small values.
Committed == 1
PeerContract == 1

----------------------------------------------------------------------------
(* Rows of a table.  R(names, kind) is one row per name, in order.           *)

R(names, kind) == [i \in DOMAIN names |-> <<names[i], kind>>]
One(name, kind) == << <<name, kind>> >>
List(name, entry, bound) == << <<name, "list", entry, bound>> >>

Nonzero(fields) == {<<"nonzero", f>> : f \in fields}
Bounded(fields) == {<<"bounded", f>> : f \in fields}
Nested(field, struct) == {<<"nested", field, struct>>}
Distinct(f, g) == {<<"distinct", f, g>>}
Equal(f, g) == {<<"equal", f, g>>}
Names(incarnation, endpoint) == {<<"names", incarnation, endpoint>>}
Each(field, struct) == {<<"each", field, struct>>}

\* The width each writer appends and each reader consumes.
Width ==
    [u8 |-> "u8", u16 |-> "u16", u32 |-> "u32", u64 |-> "u64", i64 |-> "u64",
     boolean |-> "u8", id |-> "id", digest |-> "digest", text |-> "text",
     blob |-> "blob", generation |-> "u64", reason |-> "u16", state |-> "u8",
     effect |-> "u8", kind |-> "u8", role |-> "u8", endpoint |-> "text",
     optional_endpoint |-> "text"]

\* What the bounded readers refuse once they have the raw value.
Readable(kind, x) ==
    CASE kind = "boolean" -> x <= 1
      [] kind = "role" -> x \in {1, 2}
      [] kind \in {"reason", "state", "effect", "kind"} -> x < Over
      [] kind \in {"text", "optional_endpoint"} -> x # Over
      [] kind = "endpoint" -> x \notin {0, Over}
      [] kind = "blob" -> x <= kMaxWireChunkBytes
      [] OTHER -> TRUE

----------------------------------------------------------------------------
(* Structures shared by several messages.                                    *)

SocketAddress ==
    [domain |-> "", encode |-> One("host", "text") \o One("port", "u16"),
     decode |-> One("host", "text") \o One("port", "u16"),
     validate |-> Nonzero({"host", "port"}) \cup Bounded({"host"})]

Incarnation ==
    [domain |-> "",
     encode |-> One("endpoint", "text") \o One("boot", "id") \o One("epoch", "u64"),
     decode |-> One("endpoint", "endpoint") \o One("boot", "id") \o One("epoch", "u64"),
     validate |-> Nonzero({"endpoint", "boot", "epoch"})]

EndpointRegistration ==
    [domain |-> "",
     encode |-> One("endpoint", "text") \o One("incarnation", "Incarnation")
          \o R(<<"service_address", "data_address">>, "SocketAddress")
          \o One("contract", "text") \o One("capability_digest", "digest")
          \o One("registered_unix_millis", "i64") \o One("live", "boolean"),
     decode |-> One("endpoint", "endpoint") \o One("incarnation", "Incarnation")
          \o R(<<"service_address", "data_address">>, "SocketAddress")
          \o One("contract", "text") \o One("capability_digest", "digest")
          \o One("registered_unix_millis", "i64") \o One("live", "boolean"),
     validate |-> Nonzero({"endpoint", "contract", "capability_digest"})
          \cup Nested("incarnation", "Incarnation") \cup Names("incarnation", "endpoint")
          \cup {<<"port", "service_address">>, <<"port", "data_address">>}
          \cup Bounded({"contract"})]

StateObjectDescriptor ==
    [domain |-> "",
     encode |-> One("object_id", "digest") \o One("kind", "u8") \o One("name", "text")
          \o One("generation", "u64") \o One("content_digest", "digest")
          \o R(<<"total_bytes", "chunk_bytes">>, "u64") \o One("chunk_count", "u32")
          \o One("created_unix_millis", "i64") \o One("producer", "text")
          \o One("repeatable", "boolean"),
     decode |-> One("object_id", "digest") \o One("kind", "kind") \o One("name", "text")
          \o One("generation", "u64") \o One("content_digest", "digest")
          \o R(<<"total_bytes", "chunk_bytes">>, "u64") \o One("chunk_count", "u32")
          \o One("created_unix_millis", "i64") \o One("producer", "text")
          \o One("repeatable", "boolean"),
     validate |-> Nonzero({"object_id", "name", "generation", "content_digest"})
          \cup Bounded({"name", "producer"})]

\* derive_state_object_id hashes the kind and the name; the identities of
\* different pairs are different.
derive_state_object_id(kind, name) == 1 + 3 * kind + name

TransferGrantUnsigned ==
    One("movement_id", "id") \o One("movement_generation", "u64") \o One("attempt", "id")
      \o One("object", "StateObjectDescriptor")
      \o One("source", "text") \o One("source_incarnation", "Incarnation")
      \o One("destination", "text") \o One("destination_incarnation", "Incarnation")
      \o One("policy_generation", "u64") \o One("grant_nonce", "id")
      \o One("max_bytes", "u64") \o One("max_chunks", "u32")
      \o One("issued_unix_millis", "i64") \o One("effect_class", "u8")

TransferGrant ==
    [domain |-> "",
     encode |-> TransferGrantUnsigned \o One("signature", "digest"),
     decode |-> One("movement_id", "id") \o One("movement_generation", "generation")
          \o One("attempt", "id") \o One("object", "StateObjectDescriptor")
          \o One("source", "endpoint") \o One("source_incarnation", "Incarnation")
          \o One("destination", "endpoint") \o One("destination_incarnation", "Incarnation")
          \o One("policy_generation", "generation") \o One("grant_nonce", "id")
          \o One("max_bytes", "u64") \o One("max_chunks", "u32")
          \o One("issued_unix_millis", "i64") \o One("effect_class", "effect")
          \o One("signature", "digest"),
     validate |-> Nonzero({"movement_id", "movement_generation", "attempt", "source",
                        "destination", "policy_generation", "grant_nonce", "max_bytes",
                        "max_chunks", "issued_unix_millis", "signature"})
          \cup Nested("object", "StateObjectDescriptor") \cup Distinct("source", "destination")
          \cup Nested("source_incarnation", "Incarnation")
          \cup Names("source_incarnation", "source")
          \cup Nested("destination_incarnation", "Incarnation")
          \cup Names("destination_incarnation", "destination")]

PeerIdentityHint ==
    [domain |-> "SMF-MSG-PEER-IDENTITY-HINT-v1",
     encode |-> One("endpoint", "text") \o One("boot", "id") \o One("epoch", "u64")
          \o One("role", "u8") \o One("contract", "text") \o One("capability_digest", "digest"),
     decode |-> One("endpoint", "endpoint") \o One("boot", "id") \o One("epoch", "u64")
          \o One("role", "role") \o One("contract", "text") \o One("capability_digest", "digest"),
     validate |-> Nonzero({"endpoint", "boot", "epoch", "contract", "capability_digest"})
          \cup {<<"role", "role">>} \cup Bounded({"contract"})]

\* The same fields as the hint, under the handshake's seal and without a
\* domain of their own; the contract has to be the one this build speaks.
PeerIdentity ==
    [domain |-> "",
     encode |-> One("endpoint", "text") \o One("boot", "id") \o One("epoch", "u64")
          \o One("role", "u8") \o One("contract", "text") \o One("capability_digest", "digest"),
     decode |-> One("endpoint", "endpoint") \o One("boot", "id") \o One("epoch", "u64")
          \o One("role", "role") \o One("contract", "text") \o One("capability_digest", "digest"),
     validate |-> Nonzero({"endpoint", "boot", "epoch", "capability_digest"})
          \cup {<<"contract", "contract">>}]

HelloRequest ==
    [domain |-> "",
     encode |-> One("client_nonce", "id") \o One("identity", "PeerIdentity")
          \o One("client_mac", "digest"),
     decode |-> One("client_nonce", "id") \o One("identity", "PeerIdentity")
          \o One("client_mac", "digest"),
     validate |-> Nonzero({"client_nonce", "client_mac"}) \cup Nested("identity", "PeerIdentity")]

HelloResponse ==
    [domain |-> "",
     encode |-> R(<<"server_nonce", "session_id">>, "id") \o One("identity", "PeerIdentity")
          \o One("server_mac", "digest"),
     decode |-> R(<<"server_nonce", "session_id">>, "id") \o One("identity", "PeerIdentity")
          \o One("server_mac", "digest"),
     validate |-> Nonzero({"server_nonce", "session_id", "server_mac"})
          \cup Nested("identity", "PeerIdentity")]

----------------------------------------------------------------------------
(* Control messages between the coordinator and an endpoint.                 *)

RegisterRequest ==
    [domain |-> "SMF-MSG-REGISTER-REQUEST-v1",
     encode |-> One("identity", "PeerIdentityHint")
          \o R(<<"service_address", "data_address">>, "SocketAddress")
          \o One("inventory_digest", "digest"),
     decode |-> One("identity", "PeerIdentityHint")
          \o R(<<"service_address", "data_address">>, "SocketAddress")
          \o One("inventory_digest", "digest"),
     validate |-> Nested("identity", "PeerIdentityHint")
          \cup Nested("service_address", "SocketAddress")
          \cup {<<"address_or_unset", "data_address">>} \cup Nonzero({"inventory_digest"})]

RegisterAck ==
    [domain |-> "SMF-MSG-REGISTER-ACK-v1",
     encode |-> R(<<"topology_generation", "policy_generation">>, "generation")
          \o One("coordinator", "Incarnation") \o One("policy_digest", "digest")
          \o One("max_inflight_chunks", "u32")
          \o R(<<"max_chunk_bytes", "max_object_bytes">>, "u64")
          \o R(<<"io_budget_millis", "transfer_budget_millis">>, "u32"),
     decode |-> R(<<"topology_generation", "policy_generation">>, "generation")
          \o One("coordinator", "Incarnation") \o One("policy_digest", "digest")
          \o One("max_inflight_chunks", "u32")
          \o R(<<"max_chunk_bytes", "max_object_bytes">>, "u64")
          \o R(<<"io_budget_millis", "transfer_budget_millis">>, "u32"),
     validate |-> Nonzero({"topology_generation", "policy_generation", "policy_digest",
                        "max_inflight_chunks", "max_chunk_bytes", "max_object_bytes",
                        "io_budget_millis", "transfer_budget_millis"})
          \cup Nested("coordinator", "Incarnation")]

AnnounceObject ==
    [domain |-> "SMF-MSG-ANNOUNCE-OBJECT-v1",
     encode |-> One("descriptor", "StateObjectDescriptor"),
     decode |-> One("descriptor", "StateObjectDescriptor"),
     validate |-> Nested("descriptor", "StateObjectDescriptor")]

AnnounceAck ==
    [domain |-> "SMF-MSG-ANNOUNCE-ACK-v1",
     encode |-> One("code", "reason") \o One("detail", "text"),
     decode |-> One("code", "reason") \o One("detail", "text"),
     validate |-> Bounded({"detail"})]

GrantTransfer ==
    [domain |-> "SMF-MSG-GRANT-TRANSFER-v1",
     encode |-> One("grant", "TransferGrant"),
     decode |-> One("grant", "TransferGrant"),
     validate |-> Nested("grant", "TransferGrant")]

GrantAck ==
    [domain |-> "SMF-MSG-GRANT-ACK-v1",
     encode |-> One("nonce", "digest") \o One("code", "reason") \o One("detail", "text"),
     decode |-> One("nonce", "digest") \o One("code", "reason") \o One("detail", "text"),
     validate |-> Nonzero({"nonce"}) \cup Bounded({"detail"})]

ExecuteMovement ==
    [domain |-> "SMF-MSG-EXECUTE-MOVEMENT-v1",
     encode |-> One("movement_id", "id") \o One("movement_generation", "generation")
          \o One("attempt", "id") \o One("nonce", "digest") \o One("source", "text"),
     decode |-> One("movement_id", "id") \o One("movement_generation", "generation")
          \o One("attempt", "id") \o One("nonce", "digest") \o One("source", "endpoint"),
     validate |-> Nonzero({"movement_id", "movement_generation", "attempt", "nonce", "source"})]

AttemptResult ==
    [domain |-> "SMF-MSG-ATTEMPT-RESULT-v1",
     encode |-> One("movement_id", "id") \o One("movement_generation", "generation")
          \o One("attempt", "id") \o One("state", "u8") \o One("code", "reason")
          \o One("detail", "text") \o One("verified_digest", "digest") \o One("bytes", "u64")
          \o One("chunks", "u32") \o One("marker_digest", "digest"),
     decode |-> One("movement_id", "id") \o One("movement_generation", "generation")
          \o One("attempt", "id") \o One("state", "state") \o One("code", "reason")
          \o One("detail", "text") \o One("verified_digest", "digest") \o One("bytes", "u64")
          \o One("chunks", "u32") \o One("marker_digest", "digest"),
     validate |-> Nonzero({"movement_id", "movement_generation", "attempt"})
          \cup Bounded({"detail"})]

CancelRequest ==
    [domain |-> "SMF-MSG-CANCEL-REQUEST-v1",
     encode |-> One("movement_id", "id") \o One("movement_generation", "generation"),
     decode |-> One("movement_id", "id") \o One("movement_generation", "generation"),
     validate |-> Nonzero({"movement_id", "movement_generation"})]

CancelAck ==
    [domain |-> "SMF-MSG-CANCEL-ACK-v1",
     encode |-> One("movement_id", "id") \o One("movement_generation", "generation")
          \o One("code", "reason") \o One("detail", "text"),
     decode |-> One("movement_id", "id") \o One("movement_generation", "generation")
          \o One("code", "reason") \o One("detail", "text"),
     validate |-> Nonzero({"movement_id", "movement_generation"}) \cup Bounded({"detail"})]

CommitRequest ==
    [domain |-> "SMF-MSG-COMMIT-REQUEST-v1",
     encode |-> One("movement_id", "id") \o One("movement_generation", "generation")
          \o One("attempt", "id") \o One("object", "StateObjectDescriptor")
          \o One("source", "text"),
     decode |-> One("movement_id", "id") \o One("movement_generation", "generation")
          \o One("attempt", "id") \o One("object", "StateObjectDescriptor")
          \o One("source", "optional_endpoint"),
     validate |-> Nonzero({"movement_id", "movement_generation", "attempt"})
          \cup Nested("object", "StateObjectDescriptor")]

CommitResult ==
    [domain |-> "SMF-MSG-COMMIT-RESULT-v1",
     encode |-> One("movement_id", "id") \o One("movement_generation", "generation")
          \o One("code", "reason") \o One("marker_digest", "digest") \o One("detail", "text"),
     decode |-> One("movement_id", "id") \o One("movement_generation", "generation")
          \o One("code", "reason") \o One("marker_digest", "digest") \o One("detail", "text"),
     validate |-> Nonzero({"movement_id", "movement_generation"}) \cup Bounded({"detail"})]

VerifyRequest ==
    [domain |-> "SMF-MSG-VERIFY-REQUEST-v1",
     encode |-> One("movement_id", "id") \o One("movement_generation", "generation")
          \o One("object_id", "id") \o One("object_generation", "generation")
          \o One("full_digest_requested", "boolean") \o One("chunk_index", "u32")
          \o One("chunk_bytes", "u64"),
     decode |-> One("movement_id", "id") \o One("movement_generation", "generation")
          \o One("object_id", "id") \o One("object_generation", "generation")
          \o One("full_digest_requested", "boolean") \o One("chunk_index", "u32")
          \o One("chunk_bytes", "u64"),
     validate |-> Nonzero({"movement_id", "movement_generation", "object_id",
                        "object_generation"})]

VerifyResponse ==
    [domain |-> "SMF-MSG-VERIFY-RESPONSE-v1",
     encode |-> R(<<"movement_id", "object_id">>, "id") \o One("object_generation", "generation")
          \o One("code", "reason") \o One("stored_digest", "digest") \o One("stored_bytes", "u64")
          \o R(<<"stored_chunks", "chunk_index">>, "u32") \o One("chunk_digest", "digest")
          \o One("chunk_payload", "blob"),
     decode |-> R(<<"movement_id", "object_id">>, "id") \o One("object_generation", "generation")
          \o One("code", "reason") \o One("stored_digest", "digest") \o One("stored_bytes", "u64")
          \o R(<<"stored_chunks", "chunk_index">>, "u32") \o One("chunk_digest", "digest")
          \o One("chunk_payload", "blob"),
     validate |-> Nonzero({"movement_id", "object_id", "object_generation"})
          \cup {<<"payload", "chunk_payload">>}]

AuthorityQuery ==
    [domain |-> "SMF-MSG-AUTHORITY-QUERY-v1",
     encode |-> R(<<"movement_id", "object_id">>, "id") \o One("object_generation", "generation"),
     decode |-> R(<<"movement_id", "object_id">>, "id") \o One("object_generation", "generation"),
     validate |-> Nonzero({"movement_id", "object_id", "object_generation"})]

\* A decoder that reads two of the four flags in the other order.
AuthorityReport_SwappedFlags ==
    [domain |-> "SMF-MSG-AUTHORITY-REPORT-v1",
     encode |-> One("movement_id", "id") \o One("code", "reason")
          \o R(<<"bytes_present", "verified", "marker_present", "authoritative">>, "boolean")
          \o One("marker_digest", "digest") \o One("stored_bytes", "u64") \o One("detail", "text"),
     decode |-> One("movement_id", "id") \o One("code", "reason")
          \o R(<<"bytes_present", "marker_present", "verified", "authoritative">>, "boolean")
          \o One("marker_digest", "digest") \o One("stored_bytes", "u64") \o One("detail", "text"),
     validate |-> Nonzero({"movement_id"}) \cup Bounded({"detail"})]

AuthorityReport ==
    [domain |-> "SMF-MSG-AUTHORITY-REPORT-v1",
     encode |-> One("movement_id", "id") \o One("code", "reason")
          \o R(<<"bytes_present", "verified", "marker_present", "authoritative">>, "boolean")
          \o One("marker_digest", "digest") \o One("stored_bytes", "u64") \o One("detail", "text"),
     decode |-> One("movement_id", "id") \o One("code", "reason")
          \o R(<<"bytes_present", "verified", "marker_present", "authoritative">>, "boolean")
          \o One("marker_digest", "digest") \o One("stored_bytes", "u64") \o One("detail", "text"),
     validate |-> Nonzero({"movement_id"}) \cup Bounded({"detail"})]

CleanupRequest ==
    [domain |-> "SMF-MSG-CLEANUP-REQUEST-v1",
     encode |-> One("movement_id", "id") \o One("quarantine", "boolean"),
     decode |-> One("movement_id", "id") \o One("quarantine", "boolean"),
     validate |-> Nonzero({"movement_id"})]

CleanupResult ==
    [domain |-> "SMF-MSG-CLEANUP-RESULT-v1",
     encode |-> One("movement_id", "id") \o One("code", "reason") \o One("bytes_removed", "u64")
          \o One("entries_removed", "u32") \o One("detail", "text"),
     decode |-> One("movement_id", "id") \o One("code", "reason") \o One("bytes_removed", "u64")
          \o One("entries_removed", "u32") \o One("detail", "text"),
     validate |-> Nonzero({"movement_id"}) \cup Bounded({"detail"})]

----------------------------------------------------------------------------
(* Messages of the data plane.                                               *)

\* The structure also declares resume_from_chunk and resume_from_offset
\* (Unsent below); neither function mentions them.
DataBegin ==
    [domain |-> "SMF-MSG-DATA-BEGIN-v1",
     encode |-> One("nonce", "digest") \o One("movement_id", "id")
          \o One("movement_generation", "generation") \o One("attempt", "id")
          \o One("object", "StateObjectDescriptor") \o One("destination", "text")
          \o One("destination_incarnation", "Incarnation"),
     decode |-> One("nonce", "digest") \o One("movement_id", "id")
          \o One("movement_generation", "generation") \o One("attempt", "id")
          \o One("object", "StateObjectDescriptor") \o One("destination", "endpoint")
          \o One("destination_incarnation", "Incarnation"),
     validate |-> Nonzero({"nonce", "movement_id", "movement_generation", "attempt",
                        "destination"})
          \cup Nested("object", "StateObjectDescriptor")
          \cup Nested("destination_incarnation", "Incarnation")
          \cup Names("destination_incarnation", "destination")]

DataBeginAck ==
    [domain |-> "SMF-MSG-DATA-BEGIN-ACK-v1",
     encode |-> One("nonce", "digest") \o One("code", "reason") \o One("resume_from_chunk", "u32")
          \o One("resume_from_offset", "u64") \o One("detail", "text"),
     decode |-> One("nonce", "digest") \o One("code", "reason") \o One("resume_from_chunk", "u32")
          \o One("resume_from_offset", "u64") \o One("detail", "text"),
     validate |-> Nonzero({"nonce"}) \cup Bounded({"detail"})]

DataChunk ==
    [domain |-> "SMF-MSG-DATA-CHUNK-v1",
     encode |-> R(<<"movement_id", "attempt">>, "id") \o One("chunk_index", "u32")
          \o R(<<"chunk_offset", "chunk_length">>, "u64") \o One("chunk_digest", "digest")
          \o One("payload", "blob"),
     decode |-> R(<<"movement_id", "attempt">>, "id") \o One("chunk_index", "u32")
          \o R(<<"chunk_offset", "chunk_length">>, "u64") \o One("chunk_digest", "digest")
          \o One("payload", "blob"),
     validate |-> Nonzero({"movement_id", "attempt"}) \cup {<<"payload", "payload">>}
          \cup Equal("chunk_length", "payload")]

DataChunkAck ==
    [domain |-> "SMF-MSG-DATA-CHUNK-ACK-v1",
     encode |-> R(<<"movement_id", "attempt">>, "id")
          \o R(<<"highest_contiguous_index", "duplicates_ignored">>, "u32"),
     decode |-> R(<<"movement_id", "attempt">>, "id")
          \o R(<<"highest_contiguous_index", "duplicates_ignored">>, "u32"),
     validate |-> Nonzero({"movement_id", "attempt"})]

DataEnd ==
    [domain |-> "SMF-MSG-DATA-END-v1",
     encode |-> R(<<"movement_id", "attempt">>, "id") \o One("total_chunks", "u32")
          \o One("total_bytes", "u64") \o One("content_digest", "digest"),
     decode |-> R(<<"movement_id", "attempt">>, "id") \o One("total_chunks", "u32")
          \o One("total_bytes", "u64") \o One("content_digest", "digest"),
     validate |-> Nonzero({"movement_id", "attempt"})
          \cup {<<"needed_by", "content_digest", "total_bytes">>}]

DataResult ==
    [domain |-> "SMF-MSG-DATA-RESULT-v1",
     encode |-> R(<<"movement_id", "attempt">>, "id") \o One("code", "reason")
          \o One("stored_digest", "digest") \o One("stored_bytes", "u64")
          \o One("stored_chunks", "u32") \o One("marker_digest", "digest") \o One("detail", "text"),
     decode |-> R(<<"movement_id", "attempt">>, "id") \o One("code", "reason")
          \o One("stored_digest", "digest") \o One("stored_bytes", "u64")
          \o One("stored_chunks", "u32") \o One("marker_digest", "digest") \o One("detail", "text"),
     validate |-> Nonzero({"movement_id", "attempt"}) \cup Bounded({"detail"})]

DataAbort ==
    [domain |-> "SMF-MSG-DATA-ABORT-v1",
     encode |-> R(<<"movement_id", "attempt">>, "id") \o One("code", "reason")
          \o One("detail", "text"),
     decode |-> R(<<"movement_id", "attempt">>, "id") \o One("code", "reason")
          \o One("detail", "text"),
     validate |-> Nonzero({"movement_id", "attempt"}) \cup Bounded({"detail"})]

----------------------------------------------------------------------------
(* Administrative messages.                                                  *)

SubmitMovement ==
    [domain |-> "SMF-MSG-SUBMIT-MOVEMENT-v1",
     encode |-> One("object_id", "id") \o One("object_generation", "generation")
          \o R(<<"source", "destination">>, "text"),
     decode |-> One("object_id", "id") \o One("object_generation", "generation")
          \o R(<<"source", "destination">>, "endpoint"),
     validate |-> Nonzero({"object_id", "object_generation", "source", "destination"})
          \cup Distinct("source", "destination")]

MovementAccepted ==
    [domain |-> "SMF-MSG-MOVEMENT-ACCEPTED-v1",
     encode |-> One("movement_id", "id") \o One("state", "u8") \o One("code", "reason")
          \o One("detail", "text"),
     decode |-> One("movement_id", "id") \o One("state", "state") \o One("code", "reason")
          \o One("detail", "text"),
     validate |-> Nonzero({"movement_id"}) \cup Bounded({"detail"})]

QueryMovement ==
    [domain |-> "SMF-MSG-QUERY-MOVEMENT-v1",
     encode |-> One("movement_id", "id"), decode |-> One("movement_id", "id"),
     validate |-> Nonzero({"movement_id"})]

MovementStatus ==
    [domain |-> "SMF-MSG-MOVEMENT-STATUS-v1",
     encode |-> One("record", "MovementRecord"), decode |-> One("record", "MovementRecord"),
     validate |-> Nested("record", "MovementRecord")]

ListMovements ==
    [domain |-> "SMF-MSG-LIST-MOVEMENTS-v1",
     encode |-> R(<<"limit", "offset">>, "u32"), decode |-> R(<<"limit", "offset">>, "u32"),
     validate |-> Nonzero({"limit"}) \cup Bounded({"limit"})]

MovementSummary ==
    [domain |-> "SMF-MSG-MOVEMENT-SUMMARY-v1",
     encode |-> One("movement_id", "id") \o One("state", "u8") \o One("object_id", "id")
          \o One("object_generation", "generation") \o R(<<"source", "destination">>, "text")
          \o One("last_reason", "reason") \o One("attempt_count", "u32")
          \o One("bytes_transferred", "u64"),
     decode |-> One("movement_id", "id") \o One("state", "state") \o One("object_id", "id")
          \o One("object_generation", "generation") \o R(<<"source", "destination">>, "endpoint")
          \o One("last_reason", "reason") \o One("attempt_count", "u32")
          \o One("bytes_transferred", "u64"),
     validate |-> Nonzero({"movement_id", "object_id", "object_generation", "source",
                        "destination"})
          \cup Distinct("source", "destination")]

MovementList ==
    [domain |-> "SMF-MSG-MOVEMENT-LIST-v1",
     encode |-> List("movements", "MovementSummary", kMaxEntries),
     decode |-> List("movements", "MovementSummary", kMaxEntries),
     validate |-> Each("movements", "MovementSummary")]

CancelMovement ==
    [domain |-> "SMF-MSG-CANCEL-MOVEMENT-v1",
     encode |-> One("movement_id", "id"), decode |-> One("movement_id", "id"),
     validate |-> Nonzero({"movement_id"})]

ReconcileMovement ==
    [domain |-> "SMF-MSG-RECONCILE-MOVEMENT-v1",
     encode |-> One("movement_id", "id"), decode |-> One("movement_id", "id"),
     validate |-> Nonzero({"movement_id"})]

ProvenanceRequest ==
    [domain |-> "SMF-MSG-PROVENANCE-REQUEST-v1",
     encode |-> One("movement_id", "id"), decode |-> One("movement_id", "id"),
     validate |-> Nonzero({"movement_id"})]

ProvenanceReport ==
    [domain |-> "SMF-MSG-PROVENANCE-REPORT-v1",
     encode |-> One("movement_id", "id") \o One("code", "reason")
          \o List("events", "ProvenanceEvent", kMaxEntries),
     decode |-> One("movement_id", "id") \o One("code", "reason")
          \o List("events", "ProvenanceEvent", kMaxEntries),
     validate |-> Nonzero({"movement_id"}) \cup Each("events", "ProvenanceEvent")
          \cup {<<"contiguous", "events">>}]

TopologyRequest ==
    [domain |-> "SMF-MSG-TOPOLOGY-REQUEST-v1", encode |-> <<>>, decode |-> <<>>,
     validate |-> {}]

TopologyReport ==
    [domain |-> "SMF-MSG-TOPOLOGY-REPORT-v1",
     encode |-> One("topology_generation", "generation") \o One("coordinator", "Incarnation")
          \o List("endpoints", "EndpointRegistration", kMaxEntries),
     decode |-> One("topology_generation", "generation") \o One("coordinator", "Incarnation")
          \o List("endpoints", "EndpointRegistration", kMaxEntries),
     validate |-> Nonzero({"topology_generation"}) \cup Nested("coordinator", "Incarnation")
          \cup Each("endpoints", "EndpointRegistration")]

PolicyRequest ==
    [domain |-> "SMF-MSG-POLICY-REQUEST-v1", encode |-> <<>>, decode |-> <<>>,
     validate |-> {}]

PolicyReport ==
    [domain |-> "SMF-MSG-POLICY-REPORT-v1",
     encode |-> One("policy", "PolicySet") \o One("policy_digest", "digest"),
     decode |-> One("policy", "PolicySet") \o One("policy_digest", "digest"),
     validate |-> Nested("policy", "PolicySet") \cup Nonzero({"policy_digest"})]

ShutdownRequest ==
    [domain |-> "SMF-MSG-SHUTDOWN-REQUEST-v1", encode |-> <<>>, decode |-> <<>>,
     validate |-> {}]

ShutdownAck ==
    [domain |-> "SMF-MSG-SHUTDOWN-ACK-v1",
     encode |-> One("code", "reason") \o One("detail", "text"),
     decode |-> One("code", "reason") \o One("detail", "text"),
     validate |-> Bounded({"detail"})]

ErrorMessage ==
    [domain |-> "SMF-MSG-ERROR-MESSAGE-v1",
     encode |-> One("code", "reason") \o One("detail", "text"),
     decode |-> One("code", "reason") \o One("detail", "text"),
     validate |-> Bounded({"detail"})]

----------------------------------------------------------------------------
(* Structures carried by messages and kept in the stores.                    *)

PolicyLimits ==
    <<"max_endpoints", "max_sessions", "max_movements_in_flight", "max_provenance_events",
      "max_history_records">>

MovementPolicy ==
    [domain |-> "",
     encode |-> R(<<"max_attempts", "max_inflight_chunks">>, "u32")
          \o R(<<"min_chunk_bytes", "max_chunk_bytes", "max_object_bytes",
                 "max_movement_bytes">>, "u64")
          \o R(PolicyLimits, "u32")
          \o R(<<"max_store_bytes", "max_staging_bytes_per_endpoint">>, "u64")
          \o R(<<"allow_resume", "require_compatibility_evidence", "allow_unknown_kind",
                 "verify_sample_chunks">>, "boolean")
          \o R(<<"verify_sample_chunks_count", "io_budget_millis",
                 "transfer_budget_millis">>, "u32"),
     decode |-> R(<<"max_attempts", "max_inflight_chunks">>, "u32")
          \o R(<<"min_chunk_bytes", "max_chunk_bytes", "max_object_bytes",
                 "max_movement_bytes">>, "u64")
          \o R(PolicyLimits, "u32")
          \o R(<<"max_store_bytes", "max_staging_bytes_per_endpoint">>, "u64")
          \o R(<<"allow_resume", "require_compatibility_evidence", "allow_unknown_kind",
                 "verify_sample_chunks">>, "boolean")
          \o R(<<"verify_sample_chunks_count", "io_budget_millis",
                 "transfer_budget_millis">>, "u32"),
     validate |->
          LET limits == {"max_attempts", "max_inflight_chunks", "verify_sample_chunks_count",
                         "io_budget_millis", "transfer_budget_millis"}
                          \cup {PolicyLimits[i] : i \in DOMAIN PolicyLimits}
          IN  Nonzero(limits \cup {"max_object_bytes", "max_movement_bytes", "max_store_bytes"})
                \cup Bounded(limits)]

\* The checks of MovementPolicy::validate that relate two values.
PolicySizesValid(p) ==
    /\ p.min_chunk_bytes >= kMinChunkBytes /\ p.min_chunk_bytes <= kMaxChunkBytes
    /\ p.max_chunk_bytes >= p.min_chunk_bytes /\ p.max_chunk_bytes <= kMaxChunkBytes
    /\ p.max_object_bytes <= kMaxObjectBytes
    /\ p.max_movement_bytes <= kMaxObjectBytes
    /\ p.max_staging_bytes_per_endpoint >= p.max_chunk_bytes

PolicySet ==
    [domain |-> "",
     encode |-> One("generation", "u64") \o One("policy", "MovementPolicy"),
     decode |-> One("generation", "u64") \o One("policy", "MovementPolicy"),
     validate |-> Nonzero({"generation"}) \cup Nested("policy", "MovementPolicy")]

ProvenanceEvent ==
    [domain |-> "",
     encode |-> One("sequence", "u64") \o One("unix_millis", "i64") \o R(<<"kind", "state">>, "u8")
          \o One("movement_generation", "u64") \o One("reason", "u16") \o One("actor", "text")
          \o One("actor_boot", "id") \o One("actor_epoch", "u64") \o One("attempt", "id")
          \o One("evidence", "digest") \o One("detail", "text"),
     decode |-> One("sequence", "u64") \o One("unix_millis", "i64") \o One("kind", "kind")
          \o One("state", "state") \o One("movement_generation", "u64") \o One("reason", "u16")
          \o One("actor", "optional_endpoint") \o One("actor_boot", "id")
          \o One("actor_epoch", "u64") \o One("attempt", "id") \o One("evidence", "digest")
          \o One("detail", "text"),
     validate |-> Nonzero({"sequence", "unix_millis", "movement_generation"})
          \cup Bounded({"detail"})]

\* The chain is a counted list; its decoder demands the sequence 1, 2, ...
ProvenanceChain ==
    [domain |-> "",
     encode |-> List("events", "ProvenanceEvent", kMaxEntries),
     decode |-> List("events", "ProvenanceEvent", kMaxEntries),
     validate |-> {<<"contiguous", "events">>}]

\* Incarnations inside a record are rebuilt with Incarnation::make, which
\* refuses the same unset parts the record's validate() refuses.
MovementRecord ==
    [domain |-> "",
     encode |-> One("id", "id") \o One("generation", "u64")
          \o One("object", "StateObjectDescriptor") \o R(<<"source", "destination">>, "text")
          \o R(<<"source_incarnation", "destination_incarnation">>, "Incarnation")
          \o One("compatibility_generation", "u64") \o One("compatibility_evidence", "digest")
          \o R(<<"topology_generation", "policy_generation">>, "u64")
          \o One("state", "u8") \o One("last_reason", "u16") \o One("last_detail", "text")
          \o One("attempt", "id") \o One("attempt_count", "u32") \o One("bytes_transferred", "u64")
          \o One("chunks_verified", "u32")
          \o R(<<"source_verified_digest", "destination_verified_digest",
                 "commit_marker_digest">>, "digest")
          \o R(<<"created_unix_millis", "updated_unix_millis">>, "i64")
          \o R(<<"repeatable", "cancel_requested">>, "boolean")
          \o One("provenance", "ProvenanceChain"),
     decode |-> One("id", "id") \o One("generation", "u64")
          \o One("object", "StateObjectDescriptor") \o R(<<"source", "destination">>, "endpoint")
          \o R(<<"source_incarnation", "destination_incarnation">>, "Incarnation")
          \o One("compatibility_generation", "u64") \o One("compatibility_evidence", "digest")
          \o R(<<"topology_generation", "policy_generation">>, "u64")
          \o One("state", "state") \o One("last_reason", "u16") \o One("last_detail", "text")
          \o One("attempt", "id") \o One("attempt_count", "u32") \o One("bytes_transferred", "u64")
          \o One("chunks_verified", "u32")
          \o R(<<"source_verified_digest", "destination_verified_digest",
                 "commit_marker_digest">>, "digest")
          \o R(<<"created_unix_millis", "updated_unix_millis">>, "i64")
          \o R(<<"repeatable", "cancel_requested">>, "boolean")
          \o One("provenance", "ProvenanceChain"),
     validate |-> Nonzero({"id", "generation", "source", "destination", "topology_generation",
                        "policy_generation"})
          \cup Nested("object", "StateObjectDescriptor") \cup Distinct("source", "destination")
          \cup Nested("source_incarnation", "Incarnation")
          \cup Nested("destination_incarnation", "Incarnation")
          \cup Names("source_incarnation", "source")
          \cup Names("destination_incarnation", "destination")
          \cup Bounded({"attempt_count", "last_detail"})]

\* The checks of MovementRecord::validate that relate two values.
RecordValid(r) ==
    /\ r.chunks_verified <= r.object.chunk_count
    /\ r.state = Committed => r.commit_marker_digest # 0

\* The fields compute_digest() covers, in its own order.
CommitMarkerSealed ==
    One("movement_id", "id") \o One("movement_generation", "u64")
      \o One("object", "StateObjectDescriptor") \o R(<<"source", "destination">>, "text")
      \o One("destination_incarnation", "Incarnation") \o One("content_digest", "digest")
      \o One("stored_bytes", "u64") \o One("stored_chunks", "u32")
      \o One("committed_unix_millis", "i64")

CommitMarker ==
    [domain |-> "SMF-COMMIT-MARKER-v1",
     encode |-> One("movement_id", "id") \o One("movement_generation", "u64")
          \o One("object", "StateObjectDescriptor") \o R(<<"source", "destination">>, "text")
          \o One("destination_incarnation", "Incarnation") \o One("content_digest", "digest")
          \o One("stored_bytes", "u64") \o One("stored_chunks", "u32")
          \o One("committed_unix_millis", "i64") \o One("marker_digest", "digest"),
     decode |-> One("movement_id", "id") \o One("movement_generation", "u64")
          \o One("object", "StateObjectDescriptor") \o R(<<"source", "destination">>, "endpoint")
          \o One("destination_incarnation", "Incarnation") \o One("content_digest", "digest")
          \o One("stored_bytes", "u64") \o One("stored_chunks", "u32")
          \o One("committed_unix_millis", "i64") \o One("marker_digest", "digest"),
     validate |-> Nonzero({"movement_id", "movement_generation", "source", "destination",
                        "content_digest", "committed_unix_millis", "marker_digest"})
          \cup Nested("object", "StateObjectDescriptor") \cup Distinct("source", "destination")
          \cup Nested("destination_incarnation", "Incarnation")
          \cup Names("destination_incarnation", "destination")]

\* A marker repeats what its descriptor says of the bytes.
MarkerMatchesObject(m) ==
    /\ m.content_digest = m.object.content_digest
    /\ m.stored_bytes = m.object.total_bytes
    /\ m.stored_chunks = m.object.chunk_count

StagingJournal ==
    [domain |-> "SMF-STAGING-JOURNAL-v1",
     encode |-> One("movement_id", "id") \o One("movement_generation", "u64")
          \o One("attempt", "id") \o One("object", "StateObjectDescriptor")
          \o One("verified_chunks", "u32") \o One("verified_bytes", "u64")
          \o List("chunk_digests", "digest", kMaxResumeJournalChunks),
     decode |-> One("movement_id", "id") \o One("movement_generation", "u64")
          \o One("attempt", "id") \o One("object", "StateObjectDescriptor")
          \o One("verified_chunks", "u32") \o One("verified_bytes", "u64")
          \o List("chunk_digests", "digest", kMaxResumeJournalChunks),
     validate |-> Nonzero({"movement_id", "movement_generation"})
          \cup Nested("object", "StateObjectDescriptor")]

JournalValid(j) ==
    /\ Len(j.chunk_digests) = j.verified_chunks
    /\ PrefixAccounted(j.object, j.verified_chunks, j.verified_bytes)

ResumeState ==
    [domain |-> "",
     encode |-> One("descriptor", "StateObjectDescriptor") \o One("verified_chunks", "u32")
          \o One("verified_bytes", "u64") \o One("rolling_digest", "digest"),
     decode |-> One("descriptor", "StateObjectDescriptor") \o One("verified_chunks", "u32")
          \o One("verified_bytes", "u64") \o One("rolling_digest", "digest"),
     validate |-> Nested("descriptor", "StateObjectDescriptor")]

ResumeStateValid(s) == PrefixAccounted(s.descriptor, s.verified_chunks, s.verified_bytes)

\* A journal is kept only when resuming is allowed and the object has few
\* enough chunks for it.
Journaling(object) == object.chunk_count <= kMaxResumeJournalChunks
=============================================================================
