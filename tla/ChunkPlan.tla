----------------------------- MODULE ChunkPlan -----------------------------
(* How a state object is cut into chunks: the segmentation part of           *)
(* StateObjectDescriptor (state_object.cpp) and the chunk plan built on it   *)
(* (chunk_plan.cpp).  Sizes are unsigned machine integers, so the additions  *)
(* and the narrowing the code performs are taken modulo U64 and U32.         *)
EXTENDS Integers

CONSTANTS
    U64,                  \* 2^64, the modulus of std::uint64_t
    U32,                  \* 2^32, the modulus of std::uint32_t
    kMinChunkBytes, kMaxChunkBytes, kMaxObjectBytes, kMaxChunksPerObject

\* limits.hpp keeps an object and a chunk far below the integer ranges.
ASSUME LimitsAssumption ==
    /\ U64 \in Nat /\ U32 \in Nat
    /\ kMinChunkBytes \in Nat \ {0} /\ kMaxChunkBytes \in Nat
    /\ kMaxObjectBytes \in Nat /\ kMaxChunksPerObject \in Nat
    /\ kMaxObjectBytes + kMaxChunkBytes <= U64
    /\ kMaxChunksPerObject < U32

\* What chunk_offset and chunk_length answer for an index outside the object.
OutOfRange == -1

ceil_div_Floor(numerator, denominator) == numerator \div denominator

ceil_div(numerator, denominator) ==
    ((numerator + denominator - 1) % U64) \div denominator

ExpectedChunks(total, chunk) == IF total = 0 THEN 0 ELSE ceil_div(total, chunk)

\* The count create() stores: the quotient narrowed to 32 bits.
CreatedCount(total, chunk) == ExpectedChunks(total, chunk) % U32

SegmentationValid_NoObjectBound(total, chunk, count) ==
    /\ chunk >= kMinChunkBytes
    /\ chunk <= kMaxChunkBytes
    /\ ExpectedChunks(total, chunk) <= kMaxChunksPerObject
    /\ ExpectedChunks(total, chunk) = count

\* The size checks of StateObjectDescriptor::validate.
SegmentationValid(total, chunk, count) ==
    /\ total <= kMaxObjectBytes
    /\ chunk >= kMinChunkBytes
    /\ chunk <= kMaxChunkBytes
    /\ ExpectedChunks(total, chunk) <= kMaxChunksPerObject
    /\ ExpectedChunks(total, chunk) = count

\* chunk_offset: refused beyond the count, on overflow, and beyond the bytes.
chunk_offset(d, index) ==
    IF \/ index >= d.chunk_count
       \/ index * d.chunk_bytes >= U64
       \/ index * d.chunk_bytes >= d.total_bytes
    THEN OutOfRange
    ELSE index * d.chunk_bytes

chunk_length(d, index) ==
    LET offset == chunk_offset(d, index)
        remaining == d.total_bytes - offset
    IN  IF offset = OutOfRange THEN OutOfRange
        ELSE IF remaining < d.chunk_bytes THEN remaining ELSE d.chunk_bytes

\* The loop ResumeState::decode and StagingJournal::validate share: the bytes
\* of the first n chunks.
PrefixBytes(d, n) ==
    LET sum[k \in 0 .. n] ==
            IF k = 0 THEN 0 ELSE sum[k - 1] + chunk_length(d, k - 1)
    IN  sum[n]

PrefixAccounted_OneShort(d, chunks, bytes) ==
    /\ chunks <= d.chunk_count
    /\ bytes = PrefixBytes(d, IF chunks = 0 THEN 0 ELSE chunks - 1)

PrefixAccounted(d, chunks, bytes) ==
    /\ chunks <= d.chunk_count
    /\ bytes = PrefixBytes(d, chunks)

check_resume_compatible_AnyChunkSize(planned, staged) ==
    /\ planned.object_id = staged.object_id
    /\ planned.generation = staged.generation
    /\ planned.content_digest = staged.content_digest
    /\ planned.chunk_count = staged.chunk_count
    /\ planned.total_bytes = staged.total_bytes

check_resume_compatible(planned, staged) ==
    /\ planned.object_id = staged.object_id
    /\ planned.generation = staged.generation
    /\ planned.content_digest = staged.content_digest
    /\ planned.chunk_bytes = staged.chunk_bytes
    /\ planned.chunk_count = staged.chunk_count
    /\ planned.total_bytes = staged.total_bytes

----------------------------------------------------------------------------

(* The chunks of a descriptor tile its bytes: the first starts at zero, each *)
(* ends where the next one starts, the last ends with the object, and none   *)
(* is empty or longer than the chunk size.                                   *)
Tiles(d) ==
    /\ d.chunk_count = 0 <=> d.total_bytes = 0
    /\ \A i \in 0 .. d.chunk_count - 1 :
         /\ chunk_offset(d, i) = i * d.chunk_bytes
         /\ chunk_length(d, i) \in 1 .. d.chunk_bytes
         /\ chunk_offset(d, i) + chunk_length(d, i)
              = IF i = d.chunk_count - 1 THEN d.total_bytes ELSE chunk_offset(d, i + 1)
============================================================================
