-------------------------- MODULE DataPlaneProofs --------------------------
(* Theorems about the data path.  How an object is cut into chunks            *)
(* (ChunkPlan), for every pair of sizes and every value of the limits; what a *)
(* transfer leaves in staging and in the store, and how the two threads of a  *)
(* session keep to each other (DataPlane), for any chunk count, window,       *)
(* number of attempts and disturbances, with and without a journal.           *)
EXTENDS DataPlane, ChunkPlan, TLAPS

----------------------------------------------------------------------------
(* Chunks of an object                                                       *)
(*                                                                           *)
(* A descriptor that passes the size checks of StateObjectDescriptor::       *)
(* validate is cut into chunks that tile the object.  ceil_div does not wrap *)
(* because the object and chunk limits leave room for their sum, and the     *)
(* quotient it returns is the least number of chunks that covers the object. *)

(* Integer division as the hardware does it: the quotient and the remainder   *)
(* that ceil_div computes with.                                               *)
LEMMA Euclid ==
    ASSUME NEW n \in Nat, NEW c \in Nat, c > 0
    PROVE  /\ n \div c \in Nat
           /\ c * (n \div c) <= n
           /\ n < c * (n \div c) + c
  BY Z3

(* ceil_div returns the least number of chunks that covers the bytes, for     *)
(* sizes within the limits limits.hpp sets.                                   *)
LEMMA CeilDiv ==
    ASSUME NEW t \in Nat, NEW c \in Nat, c > 0, t > 0, t + c <= U64
    PROVE  /\ ceil_div(t, c) \in Nat \ {0}
           /\ t <= c * ceil_div(t, c)
           /\ c * ceil_div(t, c) < t + c
<1> DEFINE n == t + c - 1
<1>1. n \in Nat /\ n % U64 = n
  BY LimitsAssumption
<1>2. ceil_div(t, c) = n \div c
  BY <1>1 DEF ceil_div
<1> HIDE DEF n
<1>3. n \div c \in Nat /\ c * (n \div c) <= n /\ n < c * (n \div c) + c
  BY <1>1, Euclid
<1>4. n = t + c - 1
  BY DEF n
<1>5. n \div c # 0
  BY <1>3, <1>4
<1> QED BY <1>2, <1>3, <1>4, <1>5

(* Products of naturals the offset arithmetic needs: a smaller index starts a  *)
(* whole chunk earlier.                                                       *)
LEMMA Earlier ==
    ASSUME NEW c \in Nat, NEW i \in Nat, NEW n \in Nat, i < n
    PROVE  i * c \in Nat /\ i * c + c <= n * c /\ (i + 1) * c = i * c + c
<1>1. PICK k \in Nat : n = i + 1 + k
  BY n - i - 1 \in Nat
<1>2. n * c = i * c + c + k * c /\ k * c \in Nat /\ i * c \in Nat
  BY <1>1
<1> QED BY <1>2

(* Every index below the chunk count has an offset and a length, the chunk    *)
(* lies within the object, and only the last may be short.                    *)
LEMMA ChunkBounds ==
    ASSUME NEW d, d.total_bytes \in Nat, d.chunk_bytes \in Nat, d.chunk_count \in Nat,
           SegmentationValid(d.total_bytes, d.chunk_bytes, d.chunk_count),
           NEW i \in 0 .. d.chunk_count - 1
    PROVE  /\ chunk_offset(d, i) = i * d.chunk_bytes
           /\ i * d.chunk_bytes \in Nat
           /\ chunk_length(d, i) = IF i = d.chunk_count - 1
                                   THEN d.total_bytes - i * d.chunk_bytes ELSE d.chunk_bytes
           /\ chunk_length(d, i) \in 1 .. d.chunk_bytes
<1> DEFINE t == d.total_bytes
           c == d.chunk_bytes
           n == d.chunk_count
<1>1. t \in Nat /\ c \in Nat /\ n \in Nat /\ i \in Nat /\ i < n
  OBVIOUS
<1>2. c > 0 /\ t + c <= U64 /\ t < U64 /\ ExpectedChunks(t, c) = n
  BY LimitsAssumption DEF SegmentationValid
<1>3. t > 0 /\ n = ceil_div(t, c)
  BY <1>1, <1>2 DEF ExpectedChunks
<1> HIDE DEF t, c, n
<1>4. t <= c * n /\ c * n < t + c
  BY <1>1, <1>2, <1>3, CeilDiv
<1>5. i * c \in Nat /\ i * c + c <= n * c /\ n * c = c * n
  BY <1>1, Earlier
<1>6. i * c < t
  BY <1>1, <1>4, <1>5
<1>7. chunk_offset(d, i) = i * c
  <2>1. ~ (i >= n) /\ ~ (i * c >= U64) /\ ~ (i * c >= t)
    BY <1>1, <1>2, <1>5, <1>6, LimitsAssumption
  <2> QED BY <2>1 DEF chunk_offset, t, c, n
<1>8. chunk_length(d, i) = IF t - i * c < c THEN t - i * c ELSE c
  <2>1. i * c # OutOfRange
    BY <1>5 DEF OutOfRange
  <2> QED BY <1>7, <2>1 DEF chunk_length, t, c
<1>9. i = n - 1 => t - i * c <= c
  <2> SUFFICES ASSUME i = n - 1 PROVE t - i * c <= c
    OBVIOUS
  <2>1. n * c = i * c + c
    BY <1>1, Earlier
  <2> QED BY <2>1, <1>1, <1>4, <1>5
<1>10. i # n - 1 => c <= t - i * c
  <2> SUFFICES ASSUME i # n - 1 PROVE c <= t - i * c
    OBVIOUS
  <2>1. i + 1 \in Nat /\ i + 1 < n
    BY <1>1
  <2>2. (i + 1) * c = i * c + c /\ (i + 1) * c + c <= n * c
    BY <1>1, <2>1, Earlier
  <2> QED BY <2>2, <1>1, <1>4, <1>5
<1>11. chunk_length(d, i) = IF i = n - 1 THEN t - i * c ELSE c
  BY <1>1, <1>5, <1>8, <1>9, <1>10
<1>12. chunk_length(d, i) \in 1 .. c
  BY <1>1, <1>2, <1>5, <1>6, <1>8
<1> QED BY <1>5, <1>7, <1>11, <1>12 DEF t, c, n

(* A descriptor that StateObjectDescriptor::validate accepts is tiled by the  *)
(* chunks chunk_offset and chunk_length describe: no gap, no overlap, no      *)
(* empty chunk and no byte past the end, whatever the sizes and the limits.   *)
THEOREM ValidDescriptorsTile ==
    ASSUME NEW d, d.total_bytes \in Nat, d.chunk_bytes \in Nat, d.chunk_count \in Nat,
           SegmentationValid(d.total_bytes, d.chunk_bytes, d.chunk_count)
    PROVE  Tiles(d)
<1> DEFINE t == d.total_bytes
           c == d.chunk_bytes
           n == d.chunk_count
<1>1. n = 0 <=> t = 0
  <2>1. c > 0 /\ t + c <= U64 /\ ExpectedChunks(t, c) = n
    BY LimitsAssumption DEF SegmentationValid
  <2>2. CASE t = 0
    BY <2>1, <2>2 DEF ExpectedChunks
  <2>3. CASE t # 0
    <3>1. n = ceil_div(t, c)
      BY <2>1, <2>3 DEF ExpectedChunks
    <3> QED BY <2>1, <2>3, <3>1, CeilDiv
  <2> QED BY <2>2, <2>3
<1>2. ASSUME NEW i \in 0 .. n - 1
      PROVE  /\ chunk_offset(d, i) = i * c
             /\ chunk_length(d, i) \in 1 .. c
             /\ chunk_offset(d, i) + chunk_length(d, i)
                  = IF i = n - 1 THEN t ELSE chunk_offset(d, i + 1)
  <2>1. /\ chunk_offset(d, i) = i * c
        /\ i * c \in Nat
        /\ chunk_length(d, i) = IF i = n - 1 THEN t - i * c ELSE c
        /\ chunk_length(d, i) \in 1 .. c
    BY ChunkBounds
  <2>2. CASE i = n - 1
    <3>1. i * c + (t - i * c) = t
      BY <2>1
    <3> QED BY <2>1, <2>2, <3>1
  <2>3. CASE i # n - 1
    <3>1. i + 1 \in 0 .. n - 1 /\ i \in Nat /\ i < n
      BY <2>3
    <3>2. chunk_offset(d, i + 1) = (i + 1) * c
      BY <3>1, ChunkBounds
    <3>3. (i + 1) * c = i * c + c
      BY Zenon, <3>1, Earlier
    <3> QED BY <2>1, <2>3, <3>2, <3>3
  <2> QED BY <2>1, <2>2, <2>3
<1> QED BY <1>1, <1>2 DEF Tiles

----------------------------------------------------------------------------
(* Files, queues and journals are sequences of chunks or frames.             *)

\* A sequence has its entries at 1 to its length.
LEMMA Entries ==
    ASSUME NEW T, NEW q \in Seq(T)
    PROVE  /\ Len(q) \in Nat /\ DOMAIN q = 1 .. Len(q) /\ q \in [1 .. Len(q) -> T]
           /\ \A k \in 1 .. Len(q) : q[k] \in T
OBVIOUS

\* A closed connection's queue, or a file just opened for writing, is empty.
LEMMA NothingThere ==
    ASSUME NEW T
    PROVE  <<>> \in Seq(T) /\ Len(<<>>) = 0 /\ \A q \in Seq(T) : q # <<>> => Len(q) \in Nat \ {0}
OBVIOUS

\* One more frame is sent, or one more chunk is journalled.
LEMMA OneMore ==
    ASSUME NEW T, NEW q \in Seq(T), NEW x \in T
    PROVE  /\ Append(q, x) \in Seq(T) /\ Append(q, x) # <<>> /\ Len(Append(q, x)) = Len(q) + 1
           /\ Append(q, x)[Len(q) + 1] = x
           /\ \A k \in 1 .. Len(q) : Append(q, x)[k] = q[k]
OBVIOUS

\* The first frame is received.
LEMMA FirstAndRest ==
    ASSUME NEW T, NEW q \in Seq(T), q # <<>>
    PROVE  /\ Head(q) \in T /\ Tail(q) \in Seq(T) /\ Len(Tail(q)) = Len(q) - 1
           /\ \A k \in 1 .. Len(Tail(q)) : Tail(q)[k] = q[k + 1]
OBVIOUS

\* Bytes are written after others.
LEMMA Joined ==
    ASSUME NEW T, NEW q \in Seq(T), NEW r \in Seq(T)
    PROVE  /\ q \o r \in Seq(T) /\ Len(q \o r) = Len(q) + Len(r)
           /\ \A k \in 1 .. Len(q) + Len(r) :
                (q \o r)[k] = IF k <= Len(q) THEN q[k] ELSE r[k - Len(q)]
OBVIOUS

\* Part of a file is read or survives.
LEMMA Cut ==
    ASSUME NEW T, NEW q, NEW a \in Int, NEW b \in Int, \A k \in a .. b : q[k] \in T
    PROVE  /\ SubSeq(q, a, b) \in Seq(T)
           /\ Len(SubSeq(q, a, b)) = IF a <= b THEN b - a + 1 ELSE 0
           /\ \A k \in 1 .. b - a + 1 : SubSeq(q, a, b)[k] = q[a + k - 1]
OBVIOUS

\* One chunk of a file changes.
LEMMA Changed ==
    ASSUME NEW T, NEW q \in Seq(T), NEW k \in 1 .. Len(q), NEW x \in T
    PROVE  /\ [q EXCEPT ![k] = x] \in Seq(T) /\ Len([q EXCEPT ![k] = x]) = Len(q)
           /\ \A j \in 1 .. Len(q) : [q EXCEPT ![k] = x][j] = IF j = k THEN x ELSE q[j]
OBVIOUS

----------------------------------------------------------------------------
(* The data path: the inductive invariant                                    *)

Chunk == {"good", "bad"}

ToDst ==
    [type : {"DATA_BEGIN_ACK"}, n : 0 .. ChunkCount]
        \cup [type : {"DATA_CHUNK"}, n : 0 .. ChunkCount - 1, bytes : Chunk]
        \cup [type : {"DATA_ABORT", "DATA_END"}]

ToSrc == [type : {"DATA_BEGIN", "DATA_CHUNK_ACK", "DATA_RESULT"}, n : {0}]

\* The source serves chunks of the object, and the frames carry them.
SourceOK ==
    /\ content \in [1 .. ChunkCount -> Chunk]
    /\ src \in [pc : {"none", "serve", "awaitAck", "awaitResult"}, next : 0 .. ChunkCount, sent : Nat]
    /\ toDst \in Seq(ToDst) /\ toSrc \in Seq(ToSrc)

ThreadOK ==
    /\ dst \in [pc : {"idle", "connect", "awaitBegin", "top", "pull", "accepted"}, verified : Nat,
                hashed : Seq(Chunk), since_ack : Nat, held : Chunk]
    /\ dst.pc = "idle" => dst.verified = 0

DiskOK ==
    /\ staged \in Seq(Chunk) /\ Len(staged) <= ChunkCount
    /\ flushed \in Nat /\ flushed <= Len(staged)
    /\ journal \in Seq(Chunk) /\ stored \in Seq(Chunk)

\* The running digest is that of the staged prefix, and the chunk being accepted
\* is staged behind it.
HashedIsStaged ==
    /\ Len(dst.hashed) = dst.verified /\ dst.verified <= Len(staged)
    /\ \A i \in 1 .. dst.verified : staged[i] = dst.hashed[i]
    /\ dst.pc = "accepted" => dst.verified < Len(staged) /\ staged[dst.verified + 1] = dst.held

\* With sync_on_write nothing staged is left in a buffer.
SyncedIsFlushed == sync_on_write => flushed = Len(staged) /\ Len(journal) <= Len(staged)

DestinationInv ==
    ThreadOK /\ DiskOK /\ HashedIsStaged /\ SyncedIsFlushed /\ ArrivedIsExact

DataInv == SourceOK /\ DestinationInv

destinationVars == <<dst, staged, flushed, journal, stored, sync_on_write>>

----------------------------------------------------------------------------
(* Sequences                                                                 *)

\* t is a, then the one entry of q, then b.
IsSplice(t, S, a, q, b) ==
    /\ t \in Seq(S) /\ Len(t) = Len(a) + 1 + Len(b)
    /\ \A i \in 1 .. Len(a) : t[i] = a[i]
    /\ \A i : i = Len(a) + 1 => t[i] = q[1]

\* A chunk between what is before it and what is behind it.
LEMMA Spliced ==
    ASSUME NEW S, NEW a \in Seq(S), NEW b \in Seq(S), NEW q \in Seq(S), Len(q) = 1
    PROVE  IsSplice((a \o q) \o b, S, a, q, b)
<1> DEFINE p == a \o q
           t == p \o b
<1>1. Len(a) \in Nat /\ Len(b) \in Nat
  BY Entries
<1>2. Len(q) = 1
  OBVIOUS
<1>4. /\ p \in Seq(S) /\ Len(p) = Len(a) + Len(q)
      /\ \A i \in 1 .. Len(a) + Len(q) : p[i] = IF i <= Len(a) THEN a[i] ELSE q[i - Len(a)]
  BY Zenon, Joined
<1> HIDE DEF p
<1>5. /\ t \in Seq(S) /\ Len(t) = Len(p) + Len(b)
      /\ \A i \in 1 .. Len(p) + Len(b) : t[i] = IF i <= Len(p) THEN p[i] ELSE b[i - Len(p)]
  <2>1. p \in Seq(S)
    BY <1>4
  <2> QED BY Zenon, <2>1, Joined
<1> HIDE DEF t
<1>6. Len(t) = Len(a) + 1 + Len(b)
  BY <1>1, <1>2, <1>4, <1>5
<1>7. ASSUME NEW i \in 1 .. Len(a)
      PROVE  t[i] = a[i]
  <2>1. i \in 1 .. Len(p) + Len(b) /\ i <= Len(p) /\ i \in 1 .. Len(a) + Len(q) /\ i <= Len(a)
    BY <1>1, <1>2, <1>4
  <2> QED BY <1>4, <1>5, <2>1
<1>8. t[Len(a) + 1] = q[1]
  <2> DEFINE k == Len(a) + 1
  <2>1. /\ k \in 1 .. Len(p) + Len(b) /\ k <= Len(p) /\ k \in 1 .. Len(a) + Len(q)
        /\ ~(k <= Len(a)) /\ k - Len(a) = 1
    BY <1>1, <1>2, <1>4
  <2> HIDE DEF k
  <2>2. t[k] = p[k]
    BY <1>5, <2>1
  <2>3. p[k] = q[1]
    BY <1>4, <2>1
  <2> QED BY <2>2, <2>3 DEF k
<1>9. IsSplice(t, S, a, q, b)
  BY Zenon, <1>5, <1>6, <1>7, <1>8 DEF IsSplice
<1> QED BY Zenon, <1>9 DEF t, p

\* The chunk itself.
LEMMA SplicedAt ==
    ASSUME NEW S, NEW a \in Seq(S), NEW b \in Seq(S), NEW q \in Seq(S), Len(q) = 1
    PROVE  ((a \o q) \o b)[Len(a) + 1] = q[1]
<1> DEFINE t == (a \o q) \o b
<1>1. \A i : i = Len(a) + 1 => t[i] = q[1]
  <2>1. IsSplice(t, S, a, q, b)
    BY Zenon, Spliced
  <2> HIDE DEF t
  <2> QED BY Zenon, <2>1 DEF IsSplice
<1> HIDE DEF t
<1>2. t[Len(a) + 1] = q[1]
  BY <1>1, Zenon
<1> QED BY <1>2 DEF t

Overwritten(s, n, c) == SubSeq(s, 1, n) \o <<c>> \o SubSeq(s, n + 2, Len(s))

\* Overwriting the chunk behind the first n of s, or appending it.
LEMMA Overwrite ==
    ASSUME NEW S, NEW s \in Seq(S), NEW n \in 0 .. Len(s), NEW c \in S
    PROVE  LET t == Overwritten(s, n, c)
           IN
           /\ t \in Seq(S) /\ Len(t) = IF n = Len(s) THEN n + 1 ELSE Len(s)
           /\ \A i \in 1 .. n : t[i] = s[i]
           /\ t[n + 1] = c
<1> DEFINE t == Overwritten(s, n, c)
           a == SubSeq(s, 1, n)
           b == SubSeq(s, n + 2, Len(s))
<1>1. Len(s) \in Nat /\ n \in Nat /\ n <= Len(s) /\ \A i \in 1 .. Len(s) : s[i] \in S
  BY Entries
<1>2. a \in Seq(S) /\ Len(a) = n /\ \A i \in 1 .. n : a[i] = s[i]
  <2>1. \A i \in 1 .. n : s[i] \in S
    BY <1>1
  <2>2. /\ a \in Seq(S) /\ Len(a) = IF 1 <= n THEN n - 1 + 1 ELSE 0
        /\ \A i \in 1 .. n - 1 + 1 : a[i] = s[1 + i - 1]
    BY <1>1, <2>1, Cut
  <2> HIDE DEF a
  <2>3. Len(a) = n
    BY <1>1, <2>2
  <2>4. ASSUME NEW i \in 1 .. n PROVE a[i] = s[i]
    <3>1. i \in 1 .. n - 1 + 1 /\ 1 + i - 1 = i
      BY <1>1
    <3> QED BY <2>2, <3>1
  <2> QED BY <2>2, <2>3, <2>4
<1>3. b \in Seq(S) /\ Len(b) = IF n = Len(s) THEN 0 ELSE Len(s) - n - 1
  <2>1. \A i \in n + 2 .. Len(s) : s[i] \in S
    BY <1>1
  <2>2. b \in Seq(S) /\ Len(b) = IF n + 2 <= Len(s) THEN Len(s) - (n + 2) + 1 ELSE 0
    BY <1>1, <2>1, Cut
  <2> HIDE DEF b
  <2> QED BY <1>1, <2>2
<1>4. /\ t \in Seq(S) /\ Len(t) = Len(a) + 1 + Len(b)
      /\ \A i \in 1 .. Len(a) : t[i] = a[i]
      /\ t[Len(a) + 1] = c
  <2> DEFINE q == <<c>>
  <2>1. t = (a \o q) \o b /\ q \in Seq(S) /\ Len(q) = 1 /\ q[1] = c
    BY DEF Overwritten
  <2>2. a \in Seq(S) /\ b \in Seq(S)
    BY <1>2, <1>3
  <2> HIDE DEF a, b, q, t
  <2>7. IsSplice(t, S, a, q, b)
    BY Zenon, <2>1, <2>2, Spliced
  <2>3. t \in Seq(S)
    BY Zenon, <2>7 DEF IsSplice
  <2>4. Len(t) = Len(a) + 1 + Len(b)
    BY Zenon, <2>7 DEF IsSplice
  <2>5. \A i \in 1 .. Len(a) : t[i] = a[i]
    BY Zenon, <2>7 DEF IsSplice
  <2>6. t[Len(a) + 1] = c
    <3>1. q \in Seq(S) /\ Len(q) = 1
      BY <2>1
    <3>2. ((a \o q) \o b)[Len(a) + 1] = q[1]
      BY <2>2, <3>1, SplicedAt, Zenon
    <3>3. t = (a \o q) \o b /\ q[1] = c
      BY <2>1
    <3> QED BY <3>2, <3>3, Zenon
  <2> QED BY <2>3, <2>4, <2>5, <2>6
<1> HIDE DEF a, b, t
<1>5. Len(t) = IF n = Len(s) THEN n + 1 ELSE Len(s)
  <2>1. Len(t) = n + 1 + Len(b)
    BY <1>2, <1>4
  <2>2. CASE n = Len(s)
    <3>1. Len(b) = 0
      BY <1>3, <2>2
    <3> QED BY <1>1, <2>1, <2>2, <3>1
  <2>3. CASE n # Len(s)
    <3>1. Len(b) = Len(s) - n - 1
      BY <1>3, <2>3
    <3> QED BY <1>1, <2>1, <2>3, <3>1
  <2> QED BY <2>2, <2>3
<1> QED BY Zenon, <1>2, <1>4, <1>5 DEF t

\* What is taken from and added to a queue of frames.
LEMMA QueueSteps ==
    ASSUME NEW S, NEW s \in Seq(S)
    PROVE  /\ <<>> \in Seq(S)
           /\ s # <<>> => Head(s) \in S /\ Tail(s) \in Seq(S)
           /\ \A x \in S : Append(s, x) \in Seq(S)
           /\ \A k \in 0 .. Len(s) : SubSeq(s, 1, k) \in Seq(S)
<1>1. <<>> \in Seq(S)
  BY NothingThere
<1>2. s # <<>> => Head(s) \in S /\ Tail(s) \in Seq(S)
  BY FirstAndRest
<1>3. \A x \in S : Append(s, x) \in Seq(S)
  BY OneMore
<1>4. ASSUME NEW k \in 0 .. Len(s) PROVE SubSeq(s, 1, k) \in Seq(S)
  <2>1. Len(s) \in Nat /\ \A i \in 1 .. Len(s) : s[i] \in S
    BY Entries
  <2>2. k \in Int /\ \A i \in 1 .. k : s[i] \in S
    BY <2>1
  <2> QED BY <2>2, Cut
<1> QED BY <1>1, <1>2, <1>3, <1>4

----------------------------------------------------------------------------
(* The source and the frames                                                 *)

\* The frames the source sends, and what a DATA_CHUNK frame carries.
LEMMA FramesToDestination ==
    /\ \A k \in 0 .. ChunkCount : [type |-> "DATA_BEGIN_ACK", n |-> k] \in ToDst
    /\ \A k \in 0 .. ChunkCount - 1 : \A c \in Chunk :
         [type |-> "DATA_CHUNK", n |-> k, bytes |-> c] \in ToDst
    /\ [type |-> "DATA_ABORT"] \in ToDst /\ [type |-> "DATA_END"] \in ToDst
    /\ \A f \in ToDst : f.type = "DATA_CHUNK" => f.n \in 0 .. ChunkCount - 1 /\ f.bytes \in Chunk
BY DEF ToDst

\* The frames the destination sends; no resume point is left in DATA_BEGIN.
LEMMA FramesToSource ==
    /\ \A k : [type |-> "DATA_BEGIN", n |-> DecodedResume(k)] \in ToSrc
    /\ [type |-> "DATA_CHUNK_ACK", n |-> 0] \in ToSrc /\ [type |-> "DATA_RESULT", n |-> 0] \in ToSrc
    /\ \A f \in ToSrc : f.n = 0
BY DEF ToSrc, DecodedResume

QueuesOK == toDst \in Seq(ToDst) /\ toSrc \in Seq(ToSrc)

\* What is sent on the connection is a frame of one of the kinds above.
LEMMA QueuesKept ==
    ASSUME SourceOK, DestinationInv, Next
    PROVE  QueuesOK'
<1> USE FramesToDestination, FramesToSource DEF QueuesOK
<1>1. toDst \in Seq(ToDst) /\ toSrc \in Seq(ToSrc)
  BY DEF SourceOK
<1>2. /\ <<>> \in Seq(ToDst) /\ (toDst # <<>> => Tail(toDst) \in Seq(ToDst))
      /\ \A x \in ToDst : Append(toDst, x) \in Seq(ToDst)
      /\ \A k \in 0 .. Len(toDst) : SubSeq(toDst, 1, k) \in Seq(ToDst)
  BY <1>1, QueueSteps
<1>3. /\ <<>> \in Seq(ToSrc) /\ (toSrc # <<>> => Head(toSrc) \in ToSrc /\ Tail(toSrc) \in Seq(ToSrc))
      /\ \A x \in ToSrc : Append(toSrc, x) \in Seq(ToSrc)
  BY <1>1, QueueSteps
<1>4. CASE Destination
  <2>1. CASE begin
    BY <1>1, <2>1 DEF begin
  <2>2. CASE Connect
    <3>1. toSrc' = <<[type |-> "DATA_BEGIN", n |-> DecodedResume(dst.verified)]>> /\ toDst' = toDst
      BY <2>2 DEF Connect
    <3>2. [type |-> "DATA_BEGIN", n |-> DecodedResume(dst.verified)] \in ToSrc
      OBVIOUS
    <3>3. \A x \in ToSrc : <<x>> \in Seq(ToSrc)
      OBVIOUS
    <3> QED BY <1>1, <3>1, <3>2, <3>3
  <2>3. CASE BeginAcked
    BY Zenon, <1>1, <1>2, <1>3, <2>3 DEF BeginAcked, Arrives, Ends
  <2>4. CASE Top
    BY Zenon, <1>1, <1>2, <1>3, <2>4 DEF Top, Ends
  <2>5. CASE append
    BY Zenon, <1>1, <1>2, <1>3, <2>5 DEF append, Arrives, Ends
  <2>6. CASE Journal
    BY <1>1, <1>3, <2>6 DEF Journal
  <2>7. CASE Aborted
    BY <1>2, <1>3, <2>7 DEF Aborted, Ends
  <2>8. CASE finish
    BY ZenonT(40), <1>2, <1>3, <2>8 DEF finish, Ends
  <2>9. CASE ConnectionLost
    BY <1>2, <1>3, <2>9 DEF ConnectionLost, Ends
  <2> QED BY <1>4, <2>1, <2>2, <2>3, <2>4, <2>5, <2>6, <2>7, <2>8, <2>9 DEF Destination
<1>5. CASE Source
  <2>1. CASE SourceBegin
    <3>1. StartChunk(Head(toSrc).n) \in 0 .. ChunkCount
      BY <1>3, <2>1, DataAssumptions DEF SourceBegin, StartChunk
    <3> QED BY <1>2, <1>3, <2>1, <3>1 DEF SourceBegin
  <2>2. CASE SendChunk
    <3>1. src.next \in 0 .. ChunkCount - 1 /\ content[src.next + 1] \in Chunk
      BY <2>2, DataAssumptions DEF SendChunk, SourceOK
    <3> QED BY <1>1, <1>2, <2>2, <3>1 DEF SendChunk
  <2>3. CASE SendAbort
    BY <1>2, <1>3, <2>3 DEF SendAbort
  <2>4. CASE ChunkAcked
    BY <1>1, <1>3, <2>4 DEF ChunkAcked
  <2>5. CASE SendEnd
    BY <1>1, <1>2, <2>5 DEF SendEnd
  <2>6. CASE SourceEnds
    BY <1>1, <1>3, <2>6 DEF SourceEnds
  <2> QED BY <1>5, <2>1, <2>2, <2>3, <2>4, <2>5, <2>6 DEF Source
<1>6. CASE Drop
  BY <1>2, <1>3, <1>6 DEF Drop
<1>7. CASE Kill
  BY <1>2, <1>3, <1>7 DEF Kill, Ends
<1>8. CASE Cancel
  BY <1>1, <1>8 DEF Cancel
<1>9. CASE DamageSource
  BY <1>1, <1>9 DEF DamageSource
<1>10. CASE RotStaged
  BY <1>1, <1>10 DEF RotStaged
<1>11. CASE Finished
  BY <1>1, <1>11 DEF Finished, vars
<1> QED BY <1>4, <1>5, <1>6, <1>7, <1>8, <1>9, <1>10, <1>11 DEF Next

\* The source reads chunks of its object, whatever they hold by then.
LEMMA SourceKept ==
    ASSUME SourceOK, DestinationInv, Next
    PROVE  SourceOK'
<1>1. QueuesOK'
  BY QueuesKept
<1>2. content' \in [1 .. ChunkCount -> Chunk]
  <2>1. CASE DamageSource
    BY <2>1 DEF DamageSource, SourceOK, Chunk
  <2>2. CASE ~DamageSource
    <3>1. content' = content
      BY Zenon, <2>2 DEF Next, Destination, Source, begin, Connect, BeginAcked, Top, append, Journal,
                  Aborted, finish, ConnectionLost, SourceBegin, SendChunk, SendAbort, ChunkAcked,
                  SendEnd, SourceEnds, Drop, Kill, Cancel, RotStaged, Finished, vars
    <3> QED BY <3>1 DEF SourceOK
  <2> QED BY <2>1, <2>2
<1> DEFINE Threads == [pc : {"none", "serve", "awaitAck", "awaitResult"}, next : 0 .. ChunkCount, sent : Nat]
<1>3. src \in Threads /\ IdleSrc \in Threads
  BY DataAssumptions DEF SourceOK, IdleSrc
<1>4. src' \in Threads
  <2>1. CASE SourceBegin
    <3>1. Head(toSrc).n = 0
      BY <2>1, QueueSteps, FramesToSource DEF SourceBegin, SourceOK
    <3> QED BY <2>1, <3>1, DataAssumptions DEF SourceBegin, StartChunk
  <2>2. CASE SendChunk
    <3>1. src.next + 1 \in 0 .. ChunkCount /\ src.sent + 1 \in Nat
      <4>1. src.next \in 0 .. ChunkCount /\ src.sent \in Nat
        BY Zenon, <1>3
      <4>2. src.next < ChunkCount /\ ChunkCount \in Nat
        BY <2>2, DataAssumptions DEF SendChunk
      <4> QED BY <4>1, <4>2
    <3> QED BY <2>2, <3>1 DEF SendChunk
  <2>3. CASE SendAbort \/ SourceEnds
    BY <1>3, <2>3 DEF SendAbort, SourceEnds
  <2>4. CASE ChunkAcked \/ SendEnd
    BY <1>3, <2>4 DEF ChunkAcked, SendEnd
  <2>5. CASE ~Source
    <3>1. src' = src
      BY Zenon, <2>5 DEF Next, Destination, begin, Connect, BeginAcked, Top, append, Journal, Aborted, finish,
                  ConnectionLost, Drop, Kill, Cancel, DamageSource, RotStaged, Finished, vars
    <3> QED BY <1>3, <3>1
  <2> QED BY <2>1, <2>2, <2>3, <2>4, <2>5 DEF Source
<1> QED BY <1>1, <1>2, <1>4 DEF SourceOK, QueuesOK

----------------------------------------------------------------------------
(* The destination                                                           *)

Kinds == {"idle", "connect", "awaitBegin", "top", "pull", "accepted"}
DstThreads == [pc : Kinds, verified : Nat, hashed : Seq(Chunk), since_ack : Nat, held : Chunk]

\* The record of a thread that has ended.
LEMMA IdleThread ==
    /\ IdleDst \in DstThreads /\ IdleDst.pc = "idle" /\ IdleDst.verified = 0
    /\ IdleDst.hashed = <<>> /\ Len(IdleDst.hashed) = 0
BY NothingThere DEF IdleDst, DstThreads, Kinds, Chunk

\* An attempt that ends closes the staging file, which flushes it, and leaves
\* the journal; a thread that has ended relates to no staged byte.
LEMMA EndKeeps ==
    ASSUME DestinationInv, dst' = IdleDst, flushed' = Len(staged),
           UNCHANGED <<staged, journal, stored, sync_on_write>>
    PROVE  DestinationInv'
<1>1. Len(staged) \in Nat
  BY Entries DEF DestinationInv, DiskOK
<1>2. ThreadOK'
  BY IdleThread DEF ThreadOK, DstThreads, Kinds
<1>3. DiskOK'
  BY <1>1 DEF DestinationInv, DiskOK
<1>4. HashedIsStaged'
  BY <1>1, IdleThread DEF HashedIsStaged
<1>5. SyncedIsFlushed' /\ ArrivedIsExact'
  BY DEF DestinationInv, SyncedIsFlushed, ArrivedIsExact, AllGood
<1> QED BY <1>2, <1>3, <1>4, <1>5 DEF DestinationInv

\* Staging is emptied with its journal, and what is stored is exact.
LEMMA ClearKeeps ==
    ASSUME DestinationInv, dst' = IdleDst, staged' = <<>>, flushed' = 0, journal' = <<>>,
           stored' \in Seq(Chunk), stored' # <<>> => AllGood(stored')
    PROVE  DestinationInv'
<1>1. <<>> \in Seq(Chunk) /\ Len(<<>>) = 0
  BY NothingThere
<1>2. ThreadOK'
  BY IdleThread DEF ThreadOK, DstThreads, Kinds
<1>3. DiskOK'
  BY <1>1, DataAssumptions DEF DiskOK
<1>4. HashedIsStaged'
  BY <1>1, IdleThread DEF HashedIsStaged
<1>5. SyncedIsFlushed' /\ ArrivedIsExact'
  BY <1>1 DEF SyncedIsFlushed, ArrivedIsExact, AllGood
<1> QED BY <1>2, <1>3, <1>4, <1>5 DEF DestinationInv

\* The thread goes on to another step and the disk is as it was.
LEMMA StepKeeps ==
    ASSUME DestinationInv, NEW p \in Kinds \ {"idle", "accepted"},
           dst' = [dst EXCEPT !.pc = p],
           UNCHANGED <<staged, flushed, journal, stored, sync_on_write>>
    PROVE  DestinationInv'
<1>1. dst \in DstThreads
  BY DEF DestinationInv, ThreadOK, DstThreads, Kinds
<1>2. dst' \in DstThreads /\ dst'.pc = p /\ dst'.verified = dst.verified /\ dst'.hashed = dst.hashed
  BY <1>1 DEF DstThreads
<1>3. ThreadOK'
  BY <1>2 DEF ThreadOK, DstThreads, Kinds
<1>4. DiskOK'
  BY DEF DestinationInv, DiskOK
<1>5. HashedIsStaged'
  BY <1>2 DEF DestinationInv, HashedIsStaged
<1>6. SyncedIsFlushed' /\ ArrivedIsExact'
  BY DEF DestinationInv, SyncedIsFlushed, ArrivedIsExact, AllGood
<1> QED BY <1>3, <1>4, <1>5, <1>6 DEF DestinationInv

\* StagingWriter::begin hashes the journalled prefix of what is staged.
LEMMA BeginKeeps ==
    ASSUME DestinationInv, begin
    PROVE  DestinationInv'
<1>1. /\ dst \in DstThreads /\ dst.pc = "idle" /\ dst.verified = 0 /\ sync_on_write' = sync_on_write
      /\ stored' = stored
  BY DEF DestinationInv, ThreadOK, DstThreads, Kinds, begin
<1>2. /\ staged \in Seq(Chunk) /\ journal \in Seq(Chunk) /\ stored \in Seq(Chunk)
      /\ Len(staged) \in Nat /\ Len(staged) <= ChunkCount /\ Len(journal) \in Nat
      /\ <<>> \in Seq(Chunk) /\ Len(<<>>) = 0 /\ flushed \in Nat /\ flushed <= Len(staged)
  BY Entries, NothingThere DEF DestinationInv, DiskOK
<1>3. ArrivedIsExact'
  BY <1>1 DEF DestinationInv, ArrivedIsExact, AllGood
<1>4. DiskOK'
  <2>1. CASE Journalled = <<>>
    BY <1>1, <1>2, <2>1, DataAssumptions DEF begin, DiskOK
  <2>2. CASE Journalled # <<>>
    BY <1>1, <2>2 DEF begin, DiskOK, DestinationInv
  <2> QED BY <2>1, <2>2
<1>5. SyncedIsFlushed'
  <2>1. CASE Journalled = <<>>
    BY <1>2, <2>1 DEF begin, SyncedIsFlushed
  <2>2. CASE Journalled # <<>>
    BY <1>1, <2>2 DEF begin, SyncedIsFlushed, DestinationInv
  <2> QED BY <2>1, <2>2
<1>6. CASE ~PrefixIntact
  <2>1. dst' = dst
    BY <1>6 DEF begin
  <2>2. ThreadOK'
    BY <1>1, <2>1 DEF DestinationInv, ThreadOK
  <2>3. HashedIsStaged'
    <3>1. Len(staged') \in Nat
      BY <1>4, Entries DEF DiskOK
    <3> QED BY <1>1, <2>1, <3>1 DEF DestinationInv, HashedIsStaged
  <2> QED BY <1>3, <1>4, <1>5, <2>2, <2>3 DEF DestinationInv
<1>7. CASE PrefixIntact
  <2> DEFINE n == Len(Journalled)
             h == SubSeq(staged, 1, n)
  <2>1. n \in Nat /\ n <= Len(staged) /\ (Journalled = <<>> => n = 0)
    BY <1>2, <1>7 DEF PrefixIntact, Journalled
  <2>2. dst' = [IdleDst EXCEPT !.pc = "connect", !.verified = n, !.hashed = h]
    BY <1>7 DEF begin
  <2>3. Journalled # <<>> => staged' = staged
    BY DEF begin
  <2> HIDE DEF n
  <2>4. h \in Seq(Chunk) /\ Len(h) = n /\ \A i \in 1 .. n : h[i] = staged[i]
    <3>1. \A i \in 1 .. n : staged[i] \in Chunk
      BY <1>2, <2>1, Entries
    <3>2. /\ h \in Seq(Chunk) /\ Len(h) = IF 1 <= n THEN n - 1 + 1 ELSE 0
          /\ \A i \in 1 .. n - 1 + 1 : h[i] = staged[1 + i - 1]
      BY <2>1, <3>1, Cut
    <3> HIDE DEF h
    <3>3. Len(h) = n
      BY <2>1, <3>2
    <3>4. ASSUME NEW i \in 1 .. n PROVE h[i] = staged[i]
      <4>1. i \in 1 .. n - 1 + 1 /\ 1 + i - 1 = i
        BY <2>1
      <4> QED BY <3>2, <4>1
    <3> QED BY <3>2, <3>3, <3>4
  <2> HIDE DEF h
  <2>5. dst' \in DstThreads /\ dst'.pc = "connect" /\ dst'.verified = n /\ dst'.hashed = h
    BY Zenon, <2>1, <2>2, <2>4 DEF IdleDst, DstThreads, Kinds, Chunk
  <2>6. ThreadOK'
    BY <2>5 DEF ThreadOK, DstThreads, Kinds
  <2>7. HashedIsStaged'
    <3>1. n <= Len(staged')
      <4>1. CASE Journalled = <<>>
        BY <1>4, <2>1, <4>1, Entries DEF DiskOK
      <4>2. CASE Journalled # <<>>
        BY <2>1, <2>3, <4>2
      <4> QED BY <4>1, <4>2
    <3>2. \A i \in 1 .. n : staged'[i] = h[i]
      BY <2>1, <2>3, <2>4
    <3> QED BY <2>4, <2>5, <3>1, <3>2 DEF HashedIsStaged
  <2> QED BY <1>3, <1>4, <1>5, <2>6, <2>7 DEF DestinationInv
<1> QED BY <1>6, <1>7

\* StagingWriter::append puts the chunk behind the hashed prefix.
LEMMA AppendKeeps ==
    ASSUME SourceOK, DestinationInv, append
    PROVE  DestinationInv'
<1> DEFINE c == Head(toDst)
<1>1. c \in ToDst /\ c.type = "DATA_CHUNK"
  BY QueueSteps DEF append, Arrives, SourceOK
<1>2. c.n \in 0 .. ChunkCount - 1 /\ c.bytes \in Chunk
  BY <1>1, FramesToDestination
<1>3. sync_on_write' = sync_on_write /\ journal' = journal /\ stored' = stored
  BY DEF append, otherVars
<1>4. CASE c.n # dst.verified
  <2>1. dst' = IdleDst /\ flushed' = Len(staged) /\ staged' = staged
    BY <1>4 DEF append, Ends
  <2> QED BY <1>3, <2>1, EndKeeps
<1>5. CASE c.n = dst.verified
  <2> DEFINE n == dst.verified
             t == Overwritten(staged, n, c.bytes)
  <2>1. /\ dst' = [dst EXCEPT !.pc = "accepted", !.held = c.bytes]
        /\ staged' = t
        /\ flushed' = IF sync_on_write THEN Len(staged') ELSE IF flushed > n THEN n ELSE flushed
    BY Zenon, <1>5 DEF append, Overwritten
  <2>2. /\ dst \in DstThreads /\ n \in Nat /\ n <= Len(staged) /\ Len(dst.hashed) = n
        /\ \A i \in 1 .. n : staged[i] = dst.hashed[i]
    BY DEF DestinationInv, ThreadOK, HashedIsStaged, DstThreads, Kinds
  <2>3. /\ staged \in Seq(Chunk) /\ Len(staged) \in Nat /\ Len(staged) <= ChunkCount
        /\ flushed \in Nat /\ flushed <= Len(staged)
        /\ journal \in Seq(Chunk) /\ stored \in Seq(Chunk) /\ Len(journal) \in Nat
    BY Entries DEF DestinationInv, DiskOK
  <2>4. n \in 0 .. Len(staged)
    BY <2>2, <2>3
  <2>5. /\ t \in Seq(Chunk) /\ Len(t) = IF n = Len(staged) THEN n + 1 ELSE Len(staged)
        /\ \A i \in 1 .. n : t[i] = staged[i]
        /\ t[n + 1] = c.bytes
    <3> DEFINE x == c.bytes
    <3>1. x \in Chunk /\ staged \in Seq(Chunk) /\ n \in 0 .. Len(staged)
      BY <1>2, <2>3, <2>4
    <3> HIDE DEF n, x
    <3>2. LET u == Overwritten(staged, n, x)
          IN  /\ u \in Seq(Chunk) /\ Len(u) = IF n = Len(staged) THEN n + 1 ELSE Len(staged)
              /\ \A i \in 1 .. n : u[i] = staged[i]
              /\ u[n + 1] = x
      BY <3>1, Overwrite
    <3> QED BY <3>2 DEF x
  <2>6. /\ dst' \in DstThreads /\ dst'.pc = "accepted" /\ dst'.verified = n
        /\ dst'.hashed = dst.hashed /\ dst'.held = c.bytes
    BY Zenon, <1>2, <2>1, <2>2 DEF DstThreads, Kinds
  <2>7. n < ChunkCount
    BY <1>2, <1>5, DataAssumptions
  <2> HIDE DEF t, n, c
  <2>8. Len(t) \in Nat /\ n < Len(t) /\ Len(t) <= ChunkCount /\ Len(staged) <= Len(t)
    BY <2>2, <2>3, <2>5, <2>7, DataAssumptions
  <2>9. ThreadOK'
    BY <2>6 DEF ThreadOK, DstThreads, Kinds
  <2>10. DiskOK'
    BY <1>3, <2>1, <2>2, <2>3, <2>5, <2>8 DEF DiskOK
  <2>11. HashedIsStaged'
    BY <2>1, <2>2, <2>5, <2>6, <2>8 DEF HashedIsStaged
  <2>12. SyncedIsFlushed'
    <3>1. sync_on_write => Len(journal) <= Len(staged)
      BY DEF DestinationInv, SyncedIsFlushed
    <3> QED BY <1>3, <2>1, <2>3, <2>8, <3>1 DEF SyncedIsFlushed
  <2>13. ArrivedIsExact'
    BY <1>3 DEF DestinationInv, ArrivedIsExact, AllGood
  <2> QED BY <2>9, <2>10, <2>11, <2>12, <2>13 DEF DestinationInv
<1> QED BY <1>4, <1>5

\* The chunk that was accepted joins the digest and the journal.
LEMMA JournalKeeps ==
    ASSUME DestinationInv, Journal
    PROVE  DestinationInv'
<1> DEFINE h == Append(dst.hashed, dst.held)
           n == dst.verified
<1>1. /\ dst \in DstThreads /\ dst.pc = "accepted" /\ n \in Nat /\ Len(dst.hashed) = n
      /\ dst.hashed \in Seq(Chunk) /\ dst.held \in Chunk
      /\ n < Len(staged) /\ staged[n + 1] = dst.held
      /\ \A i \in 1 .. n : staged[i] = dst.hashed[i]
  BY DEF DestinationInv, ThreadOK, HashedIsStaged, DstThreads, Kinds, Journal
<1>2. /\ h \in Seq(Chunk) /\ Len(h) = n + 1 /\ h[n + 1] = dst.held
      /\ \A i \in 1 .. n : h[i] = dst.hashed[i]
  BY <1>1, OneMore
<1>3. /\ dst' \in DstThreads /\ dst'.pc = "top" /\ dst'.verified = n + 1 /\ dst'.hashed = h
  <2> DEFINE ack == IF dst.since_ack + 1 >= Window THEN 0 ELSE dst.since_ack + 1
  <2>1. ack \in Nat
    BY <1>1, DataAssumptions DEF DstThreads
  <2>2. dst' = [dst EXCEPT !.pc = "top", !.verified = n + 1, !.hashed = h, !.since_ack = ack]
    BY <1>1 DEF Journal, DstThreads
  <2>3. n + 1 \in Nat
    BY <1>1
  <2> HIDE DEF ack, h, n
  <2> QED BY Zenon, <1>1, <1>2, <2>1, <2>2, <2>3 DEF DstThreads, Kinds
<1>4. /\ journal' = IF Journaling THEN h ELSE journal
      /\ UNCHANGED <<staged, flushed, stored, sync_on_write>>
  BY DEF Journal, otherVars
<1> HIDE DEF h, n
<1>5. Len(staged) \in Nat /\ n + 1 <= Len(staged)
  BY <1>1, Entries DEF DestinationInv, DiskOK
<1>6. ThreadOK'
  BY <1>3 DEF ThreadOK, DstThreads, Kinds
<1>7. DiskOK'
  BY <1>2, <1>4 DEF DestinationInv, DiskOK
<1>8. HashedIsStaged'
  <2>1. \A i \in 1 .. n + 1 : staged[i] = h[i]
    <3>1. ASSUME NEW i \in 1 .. n + 1 PROVE i \in 1 .. n \/ i = n + 1
      BY <1>1 DEF n
    <3> QED BY <1>1, <1>2, <3>1
  <2> QED BY <1>2, <1>3, <1>4, <1>5, <2>1 DEF HashedIsStaged
<1>9. SyncedIsFlushed'
  BY <1>2, <1>4, <1>5 DEF DestinationInv, SyncedIsFlushed
<1>10. ArrivedIsExact'
  BY <1>4 DEF DestinationInv, ArrivedIsExact, AllGood
<1> QED BY <1>6, <1>7, <1>8, <1>9, <1>10 DEF DestinationInv

\* Only bytes whose digest was the granted one are promoted, and the digest was
\* that of the staged bytes: nothing is staged behind the last chunk.
LEMMA FinishKeeps ==
    ASSUME DestinationInv, finish
    PROVE  DestinationInv'
<1>1. sync_on_write' = sync_on_write
  BY DEF finish, otherVars
<1>2. CASE dst.verified # ChunkCount
  <2>1. dst' = IdleDst /\ flushed' = Len(staged) /\ UNCHANGED <<staged, journal, stored>>
    BY <1>2 DEF finish, Ends
  <2> QED BY <1>1, <2>1, EndKeeps
<1>3. CASE dst.verified = ChunkCount /\ ~AllGood(dst.hashed)
  <2>1. /\ dst' = IdleDst /\ staged' = <<>> /\ flushed' = 0 /\ journal' = <<>> /\ stored' = stored
    BY <1>3 DEF finish, Ends
  <2>2. stored' \in Seq(Chunk) /\ (stored' # <<>> => AllGood(stored'))
    BY <2>1 DEF DestinationInv, DiskOK, ArrivedIsExact
  <2> QED BY <2>1, <2>2, ClearKeeps
<1>4. CASE dst.verified = ChunkCount /\ AllGood(dst.hashed)
  <2>1. /\ dst' = IdleDst /\ staged' = <<>> /\ flushed' = 0 /\ journal' = <<>> /\ stored' = staged
    BY <1>4 DEF finish
  <2>2. /\ staged \in Seq(Chunk) /\ Len(staged) = ChunkCount
        /\ \A i \in 1 .. ChunkCount : staged[i] = dst.hashed[i]
    BY <1>4, DataAssumptions, Entries DEF DestinationInv, DiskOK, HashedIsStaged
  <2>3. \A i \in 1 .. ChunkCount : dst.hashed[i] = "good"
    <3>1. dst.hashed \in Seq(Chunk) /\ Len(dst.hashed) = ChunkCount
      BY <1>4 DEF DestinationInv, ThreadOK, HashedIsStaged
    <3>2. DOMAIN dst.hashed = 1 .. ChunkCount
      BY <3>1, Entries
    <3> QED BY <1>4, <3>2 DEF AllGood
  <2>4. AllGood(staged)
    <3>1. DOMAIN staged = 1 .. ChunkCount
      BY <2>2, Entries
    <3> QED BY <2>2, <2>3, <3>1 DEF AllGood
  <2>5. stored' \in Seq(Chunk) /\ (stored' # <<>> => AllGood(stored'))
    BY <2>1, <2>2, <2>4
  <2> QED BY <2>1, <2>5, ClearKeeps
<1> QED BY <1>2, <1>3, <1>4

\* A killed process loses what stdio buffered, which is nothing when every
\* write is synchronised.
LEMMA KillKeeps ==
    ASSUME DestinationInv, Kill
    PROVE  DestinationInv'
<1>1. PICK k \in flushed .. Len(staged) : staged' = SubSeq(staged, 1, k) /\ flushed' = k
  BY DEF Kill
<1>2. dst' = IdleDst /\ UNCHANGED <<journal, stored, sync_on_write>>
  BY DEF Kill, Ends, May
<1>3. /\ staged \in Seq(Chunk) /\ Len(staged) \in Nat /\ Len(staged) <= ChunkCount
      /\ flushed \in Nat /\ k \in Nat /\ k <= Len(staged)
  BY <1>1, Entries DEF DestinationInv, DiskOK
<1>4. staged' \in Seq(Chunk) /\ Len(staged') = k
  <2>1. \A i \in 1 .. k : staged[i] \in Chunk
    BY <1>3, Entries
  <2>2. SubSeq(staged, 1, k) \in Seq(Chunk) /\ Len(SubSeq(staged, 1, k)) = IF 1 <= k THEN k - 1 + 1 ELSE 0
    BY <1>3, <2>1, Cut
  <2>3. k = IF 1 <= k THEN k - 1 + 1 ELSE 0
    BY <1>3
  <2> QED BY <1>1, <2>2, <2>3
<1>5. ThreadOK'
  BY <1>2, IdleThread DEF ThreadOK, DstThreads, Kinds
<1>6. DiskOK'
  BY <1>1, <1>2, <1>3, <1>4, DataAssumptions DEF DestinationInv, DiskOK
<1>7. HashedIsStaged'
  BY <1>2, <1>3, <1>4, IdleThread DEF HashedIsStaged
<1>8. SyncedIsFlushed'
  <2>1. sync_on_write => k = Len(staged) /\ Len(journal) <= Len(staged)
    BY <1>1, <1>3 DEF DestinationInv, SyncedIsFlushed
  <2> QED BY <1>1, <1>2, <1>4, <2>1 DEF SyncedIsFlushed
<1>9. ArrivedIsExact'
  BY <1>2 DEF DestinationInv, ArrivedIsExact, AllGood
<1> QED BY <1>5, <1>6, <1>7, <1>8, <1>9 DEF DestinationInv

\* Staged bytes that change between two attempts are hashed again by the next.
LEMMA RotKeeps ==
    ASSUME DestinationInv, RotStaged
    PROVE  DestinationInv'
<1>1. PICK i \in DOMAIN staged : staged' = [staged EXCEPT ![i] = "bad"]
  BY Zenon DEF RotStaged
<1>2. dst.pc = "idle" /\ UNCHANGED <<dst, flushed, journal, stored, sync_on_write>>
  BY DEF RotStaged, May
<1>3. staged \in Seq(Chunk) /\ Len(staged) \in Nat /\ i \in 1 .. Len(staged) /\ "bad" \in Chunk
  BY <1>1, Entries DEF DestinationInv, DiskOK, Chunk
<1>4. staged' \in Seq(Chunk) /\ Len(staged') = Len(staged)
  BY <1>1, <1>3, Changed
<1>5. ThreadOK' /\ dst.verified = 0
  BY <1>2 DEF DestinationInv, ThreadOK
<1>6. DiskOK'
  BY <1>2, <1>4 DEF DestinationInv, DiskOK
<1>7. HashedIsStaged'
  BY <1>2, <1>3, <1>4, <1>5 DEF DestinationInv, HashedIsStaged
<1>8. SyncedIsFlushed' /\ ArrivedIsExact'
  BY <1>2, <1>4 DEF DestinationInv, SyncedIsFlushed, ArrivedIsExact, AllGood
<1> QED BY <1>5, <1>6, <1>7, <1>8 DEF DestinationInv

\* A step that leaves the transfer thread and the disk alone.
LEMMA OthersKeep ==
    ASSUME DestinationInv, UNCHANGED destinationVars
    PROVE  DestinationInv'
BY DEF destinationVars, DestinationInv, ThreadOK, DiskOK, HashedIsStaged, SyncedIsFlushed,
       ArrivedIsExact, AllGood

LEMMA DestinationKept ==
    ASSUME SourceOK, DestinationInv, Next
    PROVE  DestinationInv'
<1>1. CASE Destination
  <2>1. CASE begin
    BY <2>1, BeginKeeps
  <2>2. CASE Connect
    BY <2>2, StepKeeps DEF Connect, diskVars, otherVars, Kinds
  <2>3. CASE BeginAcked
    <3>1. UNCHANGED <<staged, journal, stored, sync_on_write>>
      BY <2>3 DEF BeginAcked, otherVars
    <3>2. CASE Head(toDst).n = dst.verified
      <4>1. dst' = [dst EXCEPT !.pc = "top"] /\ flushed' = flushed
        BY <2>3, <3>2 DEF BeginAcked
      <4> QED BY <3>1, <4>1, StepKeeps DEF Kinds
    <3>3. CASE Head(toDst).n # dst.verified
      <4>1. dst' = IdleDst /\ flushed' = Len(staged)
        BY <2>3, <3>3 DEF BeginAcked, Ends
      <4> QED BY <3>1, <4>1, EndKeeps
    <3> QED BY <3>2, <3>3
  <2>4. CASE Top
    <3>1. UNCHANGED <<staged, journal, stored, sync_on_write>>
      BY <2>4 DEF Top, otherVars
    <3>2. CASE "D" \notin cancelled
      <4>1. dst' = [dst EXCEPT !.pc = "pull"] /\ flushed' = flushed
        BY <2>4, <3>2 DEF Top
      <4> QED BY <3>1, <4>1, StepKeeps DEF Kinds
    <3>3. CASE "D" \in cancelled
      <4>1. dst' = IdleDst /\ flushed' = Len(staged)
        BY <2>4, <3>3 DEF Top, Ends
      <4> QED BY <3>1, <4>1, EndKeeps
    <3> QED BY <3>2, <3>3
  <2>5. CASE append
    BY <2>5, AppendKeeps
  <2>6. CASE Journal
    BY <2>6, JournalKeeps
  <2>7. CASE Aborted
    BY <2>7, EndKeeps DEF Aborted, Ends, otherVars
  <2>8. CASE finish
    BY <2>8, FinishKeeps
  <2>9. CASE ConnectionLost
    BY <2>9, EndKeeps DEF ConnectionLost, Ends, otherVars
  <2> QED BY <1>1, <2>1, <2>2, <2>3, <2>4, <2>5, <2>6, <2>7, <2>8, <2>9 DEF Destination
<1>2. CASE Source
  BY <1>2, OthersKeep DEF Source, SourceBegin, SendChunk, SendAbort, ChunkAcked, SendEnd, SourceEnds,
                          diskVars, otherVars, destinationVars
<1>3. CASE Kill
  BY <1>3, KillKeeps
<1>4. CASE RotStaged
  BY <1>4, RotKeeps
<1>5. CASE Drop \/ Cancel \/ DamageSource
  BY <1>5, OthersKeep DEF Drop, Cancel, DamageSource, May, diskVars, destinationVars
<1>6. CASE Finished
  BY <1>6, OthersKeep DEF Finished, vars, destinationVars
<1> QED BY <1>1, <1>2, <1>3, <1>4, <1>5, <1>6 DEF Next

----------------------------------------------------------------------------

LEMMA InitEstablishes == Init => DataInv
<1> SUFFICES ASSUME Init PROVE DataInv
  OBVIOUS
<1>1. \A S : <<>> \in Seq(S) /\ Len(<<>>) = 0
  BY NothingThere
<1>2. SourceOK
  <2>1. src \in [pc : {"none", "serve", "awaitAck", "awaitResult"}, next : 0 .. ChunkCount, sent : Nat]
    BY DataAssumptions DEF Init, IdleSrc
  <2>2. content \in [1 .. ChunkCount -> Chunk]
    BY DEF Init, Chunk
  <2> QED BY <1>1, <2>1, <2>2 DEF SourceOK, Init
<1>3. dst = IdleDst /\ staged = <<>> /\ flushed = 0 /\ journal = <<>> /\ stored = <<>>
  BY DEF Init
<1>4. ThreadOK
  BY <1>3, IdleThread DEF ThreadOK, DstThreads, Kinds
<1>5. DiskOK
  BY <1>1, <1>3, DataAssumptions DEF DiskOK
<1>6. HashedIsStaged
  BY <1>1, <1>3, IdleThread DEF HashedIsStaged
<1>7. SyncedIsFlushed /\ ArrivedIsExact
  BY <1>1, <1>3 DEF SyncedIsFlushed, ArrivedIsExact
<1> QED BY <1>2, <1>4, <1>5, <1>6, <1>7 DEF DataInv, DestinationInv

LEMMA StepPreserves == DataInv /\ [Next]_vars => DataInv'
<1>1. ASSUME DataInv, Next PROVE DataInv'
  BY <1>1, SourceKept, DestinationKept DEF DataInv
<1>2. ASSUME DataInv, UNCHANGED vars PROVE DataInv'
  <2>1. DestinationInv'
    BY <1>2, OthersKeep DEF DataInv, vars, destinationVars
  <2>2. SourceOK'
    BY <1>2 DEF DataInv, SourceOK, vars
  <2> QED BY <2>1, <2>2 DEF DataInv
<1> QED BY <1>1, <1>2

\* DataInv holds in every state.
LEMMA DataInvariant == Spec => []DataInv
BY InitEstablishes, StepPreserves, PTL DEF Spec

\* Whatever run_transfer promoted is exactly the content the grant authorizes:
\* for objects of any number of chunks, over any number of attempts, lost
\* connections, kills, cancellations and damaged disks, with and without a
\* journal and synchronised writes.
THEOREM PromotedIsExact == Spec => []ArrivedIsExact
<1>1. DataInv => ArrivedIsExact
  BY DEF DataInv, DestinationInv
<1> QED BY <1>1, DataInvariant, PTL

\* With sync_on_write the journal StagingWriter::append saves never claims a
\* chunk that is not in the staging file, wherever the process is killed.
THEOREM JournalIsBacked == Spec => []JournalWithinBytes
<1>1. DataInv => JournalWithinBytes
  BY DEF DataInv, DestinationInv, SyncedIsFlushed, JournalWithinBytes
<1> QED BY <1>1, DataInvariant, PTL

----------------------------------------------------------------------------
(* The data path: the two threads of a session                               *)

\* The transfer thread has a connection of its own.
InSession == dst.pc \in {"awaitBegin", "top", "pull", "accepted"}

\* How many chunks of this session are journalled, and the number of the chunk
\* the k-th frame under way has to carry; the first of all frames is the answer
\* to DATA_BEGIN.
Taken == IF dst.pc = "awaitBegin" THEN 0 ELSE dst.verified
Due(k) ==
    IF dst.pc = "awaitBegin" THEN k - 2
    ELSE IF dst.pc = "accepted" THEN dst.verified + k ELSE dst.verified + k - 1

InTurn(f, k) ==
    \/ f.type = "DATA_BEGIN_ACK" /\ Due(k) = -1 /\ f.n = 0
    \/ /\ f.type = "DATA_CHUNK" /\ Due(k) >= 0 /\ f.n = Due(k) /\ Due(k) < Taken + Window
       /\ IntactSource => f.bytes = "good"
    \/ f.type = "DATA_END" /\ Due(k) = ChunkCount /\ k = Len(toDst)
    \/ f.type = "DATA_ABORT" /\ Due(k) >= 0 /\ k = Len(toDst) /\ ~connected

\* The frames arrive in the order of the chunks, none is missing, and what ends
\* them is the last one.
FramesInTurn == \A k \in 1 .. Len(toDst) : InTurn(toDst[k], k)

\* Without a session nothing is under way, and an open connection is the last
\* session's, whose source thread has yet to read the result.
NothingUnderWay == ~InSession => toDst = <<>> /\ (connected => src.pc = "awaitResult")

\* Only a source that has not answered yet finds a DATA_BEGIN.
BeginIsFirst ==
    \A k \in 1 .. Len(toSrc) :
        toSrc[k].type = "DATA_BEGIN" => connected /\ dst.pc = "awaitBegin" /\ src.pc = "none" /\ toDst = <<>>

BeginFrame == [type |-> "DATA_BEGIN", n |-> 0]
AckFrame == [type |-> "DATA_CHUNK_ACK", n |-> 0]

Greeting == dst.pc = "awaitBegin" /\ src.pc = "none" /\ toDst = <<>> /\ toSrc = <<BeginFrame>>

\* The source has sent what the destination took and what is under way, and both
\* count the same window.
Serving ==
    /\ src.pc # "none" /\ src.sent = src.next
    /\ src.pc # "awaitResult" => Due(Len(toDst) + 1) = src.next
    /\ src.pc = "awaitResult" => src.next = ChunkCount /\ Due(Len(toDst) + 1) = ChunkCount + 1
    /\ src.pc # "awaitAck" => toSrc = <<>> /\ dst.since_ack = Taken - (src.next - (src.next % Window))
    /\ src.pc = "awaitAck" =>
         /\ src.next % Window = 0
         /\ \/ toSrc = <<>> /\ dst.since_ack = Taken - (src.next - Window) /\ Taken < src.next
            \/ toSrc = <<AckFrame>> /\ dst.since_ack = 0 /\ Taken = src.next

ThreadsAgree == connected /\ InSession => Greeting \/ Serving

\* An attempt goes on past the handshake only from the first chunk, and takes
\* good chunks from an intact source.
FromTheStart ==
    /\ dst.pc \in {"connect", "awaitBegin"} => dst.verified = resumed /\ dst.since_ack = 0
    /\ dst.pc \in {"top", "pull", "accepted"} => resumed = 0
    /\ IntactSource /\ resumed = 0 /\ dst.pc # "idle" =>
         /\ \A i \in 1 .. dst.verified : dst.hashed[i] = "good"
         /\ dst.pc = "accepted" => dst.held = "good"

\* A connection nothing disturbed is closed under the destination only by a
\* source that was told to cancel, after it said so.
ClosedWithAbort ==
    ~connected /\ InSession /\ ~disturbed => toDst # <<>> /\ toDst[Len(toDst)].type = "DATA_ABORT"

SessionInv ==
    /\ FramesInTurn /\ NothingUnderWay /\ BeginIsFirst /\ ThreadsAgree
    /\ FromTheStart /\ ClosedWithAbort /\ FreshAttemptArrives

\* The counters and queues of the two threads.
LEMMA SessionTypes ==
    ASSUME DataInv
    PROVE  /\ dst \in DstThreads /\ dst.verified \in Nat /\ dst.since_ack \in Nat
           /\ dst.verified <= ChunkCount /\ (dst.pc = "accepted" => dst.verified < ChunkCount)
           /\ Len(dst.hashed) = dst.verified
           /\ src.next \in 0 .. ChunkCount /\ src.sent \in Nat
           /\ toDst \in Seq(ToDst) /\ toSrc \in Seq(ToSrc)
           /\ Len(toDst) \in Nat /\ Len(toSrc) \in Nat
           /\ ChunkCount \in Nat \ {0} /\ Window \in Nat \ {0}
<1>1. dst \in DstThreads /\ dst.verified \in Nat /\ dst.since_ack \in Nat
  BY DEF DataInv, DestinationInv, ThreadOK, DstThreads, Kinds
<1>2. toDst \in Seq(ToDst) /\ toSrc \in Seq(ToSrc) /\ staged \in Seq(Chunk)
  BY Zenon DEF DataInv, SourceOK, DestinationInv, DiskOK
<1>3. Len(toDst) \in Nat /\ Len(toSrc) \in Nat /\ Len(staged) \in Nat
  BY <1>2, Entries
<1>4. dst.verified <= ChunkCount /\ (dst.pc = "accepted" => dst.verified < ChunkCount)
  BY <1>1, <1>3, DataAssumptions DEF DataInv, DestinationInv, HashedIsStaged, DiskOK
<1>5. Len(dst.hashed) = dst.verified
  BY Zenon DEF DataInv, DestinationInv, HashedIsStaged
<1>6. src.next \in 0 .. ChunkCount /\ src.sent \in Nat
  BY DEF DataInv, SourceOK
<1> QED BY <1>1, <1>2, <1>3, <1>4, <1>5, <1>6, DataAssumptions

\* A number and its remainder.
LEMMA Remainder ==
    \A w \in Nat \ {0} : \A q \in Nat : \A r \in 0 .. w - 1 : (w * q + r) % w = r
BY Z3

\* The window's remainder as the chunk loop counts.
LEMMA WindowStep ==
    ASSUME NEW n \in Nat, Window \in Nat \ {0}
    PROVE  /\ n % Window \in 0 .. Window - 1 /\ 0 % Window = 0
           /\ (n + 1) % Window = IF (n % Window) + 1 = Window THEN 0 ELSE (n % Window) + 1
<1> DEFINE q == n \div Window
           r == n % Window
<1>1. r \in 0 .. Window - 1 /\ 0 % Window = 0
  BY Z3
<1>2. q \in Nat /\ n = Window * q + r
  BY Z3
<1> HIDE DEF q, r
<1>3. CASE r + 1 # Window
  <2>1. r + 1 \in 0 .. Window - 1
    BY <1>1, <1>3
  <2>2. (Window * q + (r + 1)) % Window = r + 1
    BY Zenon, <1>2, <2>1, Remainder
  <2>3. n + 1 = Window * q + (r + 1)
    BY Z3, <1>1, <1>2
  <2> QED BY <1>1, <1>3, <2>2, <2>3 DEF r
<1>4. CASE r + 1 = Window
  <2>1. q + 1 \in Nat /\ 0 \in 0 .. Window - 1
    BY <1>2
  <2>2. (Window * (q + 1) + 0) % Window = 0
    BY Zenon, <2>1, Remainder
  <2>3. n + 1 = Window * (q + 1) + 0
    BY Z3, <1>1, <1>2, <1>4
  <2> QED BY <1>1, <1>4, <2>2, <2>3 DEF r
<1> QED BY <1>3, <1>4

\* An attempt that has ended, for whatever reason.
LEMMA SessionOver ==
    ASSUME dst' = IdleDst, connected' = FALSE, toDst' = <<>>, toSrc' = <<>>, FreshAttemptArrives'
    PROVE  SessionInv'
<1>1. ~InSession' /\ dst'.pc = "idle" /\ Len(toDst') = 0 /\ Len(toSrc') = 0
  BY DEF InSession, IdleDst
<1>2. FramesInTurn' /\ NothingUnderWay' /\ BeginIsFirst'
  BY <1>1 DEF FramesInTurn, NothingUnderWay, BeginIsFirst
<1>3. ThreadsAgree' /\ ClosedWithAbort'
  BY Zenon, <1>1 DEF ThreadsAgree, ClosedWithAbort
<1>4. FromTheStart'
  BY Zenon, <1>1 DEF FromTheStart
<1> QED BY <1>2, <1>3, <1>4 DEF SessionInv

\* The first frame under way is the one that is due.
LEMMA FirstFrame ==
    ASSUME DataInv, SessionInv, toDst # <<>>
    PROVE  /\ InTurn(Head(toDst), 1) /\ Len(toDst) \in Nat \ {0} /\ Len(Tail(toDst)) = Len(toDst) - 1
           /\ Head(toDst) = toDst[1] /\ \A k \in 1 .. Len(Tail(toDst)) : Tail(toDst)[k] = toDst[k + 1]
<1>1. toDst \in Seq(ToDst)
  BY SessionTypes
<1>2. Len(toDst) \in Nat \ {0}
  BY <1>1, NothingThere
<1>3. Head(toDst) = toDst[1] /\ 1 \in 1 .. Len(toDst)
  BY <1>2
<1>4. /\ Len(Tail(toDst)) = Len(toDst) - 1
      /\ \A k \in 1 .. Len(Tail(toDst)) : Tail(toDst)[k] = toDst[k + 1]
  BY <1>1, FirstAndRest
<1>5. InTurn(toDst[1], 1)
  BY Zenon, <1>3 DEF SessionInv, FramesInTurn
<1> QED BY <1>2, <1>3, <1>4, <1>5

\* Reading a frame makes the next one due.
LEMMA FrameRead ==
    ASSUME DataInv, SessionInv, toDst # <<>>, toDst' = Tail(toDst), Taken \in Nat, Taken' = Taken,
           UNCHANGED <<connected, content>>, \A k \in Nat : Due(k)' = Due(k + 1)
    PROVE  FramesInTurn'
<1>1. /\ Len(toDst) \in Nat \ {0} /\ Len(toDst') = Len(toDst) - 1
      /\ \A k \in 1 .. Len(toDst') : toDst'[k] = toDst[k + 1]
  BY FirstFrame
<1>2. IntactSource' = IntactSource
  BY DEF IntactSource
<1> SUFFICES ASSUME NEW k \in 1 .. Len(toDst') PROVE InTurn(toDst[k], k)'
  BY DEF FramesInTurn
<1>3. k + 1 \in 1 .. Len(toDst) /\ k \in Nat /\ toDst'[k] = toDst[k + 1] /\ (k = Len(toDst') <=> k + 1 = Len(toDst))
  BY <1>1
<1>4. InTurn(toDst[k + 1], k + 1)
  BY <1>3 DEF SessionInv, FramesInTurn
<1> QED BY <1>2, <1>3, <1>4 DEF InTurn

\* ... and leaves a DATA_ABORT where it is.
LEMMA AbortIsLast ==
    ASSUME DataInv, SessionInv, InSession, toDst # <<>>, Head(toDst).type # "DATA_ABORT",
           toDst' = Tail(toDst), UNCHANGED <<connected, disturbed>>
    PROVE  ClosedWithAbort'
<1> SUFFICES ASSUME ~connected, ~disturbed
             PROVE  toDst' # <<>> /\ toDst'[Len(toDst')].type = "DATA_ABORT"
  BY DEF ClosedWithAbort
<1>1. /\ Len(toDst) \in Nat \ {0} /\ Len(toDst') = Len(toDst) - 1 /\ toDst[1].type # "DATA_ABORT"
      /\ \A k \in 1 .. Len(toDst') : toDst'[k] = toDst[k + 1]
  BY FirstFrame
<1>2. toDst[Len(toDst)].type = "DATA_ABORT"
  BY Zenon DEF SessionInv, ClosedWithAbort
<1>3. Len(toDst) # 1
  BY Zenon, <1>1, <1>2
<1> QED BY <1>1, <1>2, <1>3

\* DATA_BEGIN_ACK: an attempt that starts at the first chunk goes on, and only
\* an attempt with a prefix to continue fails.
LEMMA BeginAckedSession ==
    ASSUME DataInv, SessionInv, BeginAcked
    PROVE  SessionInv'
<1>1. /\ dst.pc = "awaitBegin" /\ toDst # <<>> /\ Head(toDst).type = "DATA_BEGIN_ACK"
      /\ UNCHANGED <<content, src, resumed, disturbed>>
  BY Zenon DEF BeginAcked, Arrives, otherVars
<1>2. Head(toDst).n = 0 /\ dst.verified = resumed /\ dst.since_ack = 0 /\ dst.verified \in Nat
  BY <1>1, FirstFrame, SessionTypes DEF InTurn, SessionInv, FromTheStart
<1>3. CASE Head(toDst).n # dst.verified
  <2>1. Ends("failed")
    BY Zenon, <1>3 DEF BeginAcked
  <2>2. FreshAttemptArrives'
    BY <1>1, <1>2, <1>3 DEF FreshAttemptArrives
  <2> QED BY Zenon, <2>1, <2>2, SessionOver DEF Ends
<1>4. CASE Head(toDst).n = dst.verified
  <2>1. /\ dst' = [dst EXCEPT !.pc = "top"] /\ toDst' = Tail(toDst)
        /\ UNCHANGED <<toSrc, connected, outcome>>
    BY Zenon, <1>4 DEF BeginAcked
  <2>2. /\ dst'.pc = "top" /\ dst'.verified = 0 /\ dst.verified = 0 /\ resumed = 0 /\ dst'.since_ack = 0
        /\ dst'.hashed = dst.hashed
    BY <1>2, <1>4, <2>1, SessionTypes DEF DstThreads
  <2>3. Taken = 0 /\ Taken' = 0 /\ \A k \in Nat : Due(k)' = Due(k + 1)
    BY <1>1, <2>2 DEF Taken, Due
  <2>4. FramesInTurn'
    BY <1>1, <2>1, <2>3, FrameRead
  <2>5. /\ Len(toDst) \in Nat \ {0} /\ Len(toDst') = Len(toDst) - 1
        /\ \A k \in 1 .. Len(toDst') : toDst'[k] = toDst[k + 1]
        /\ toDst[1].type = "DATA_BEGIN_ACK"
    BY <1>1, <2>1, FirstFrame
  <2>6. NothingUnderWay' /\ BeginIsFirst'
    BY <1>1, <2>1, <2>2 DEF SessionInv, NothingUnderWay, BeginIsFirst, InSession
  <2>7. ThreadsAgree'
    BY <1>1, <1>2, <2>1, <2>2, <2>3, <2>5 DEF SessionInv, ThreadsAgree, InSession, Greeting, Serving, Due
  <2>8. FromTheStart' /\ FreshAttemptArrives'
    BY <1>1, <2>1, <2>2 DEF SessionInv, FromTheStart, FreshAttemptArrives, IntactSource
  <2>9. ClosedWithAbort'
    BY <1>1, <2>1, AbortIsLast DEF InSession
  <2> QED BY <2>4, <2>6, <2>7, <2>8, <2>9 DEF SessionInv
<1> QED BY <1>3, <1>4

\* A chunk is the one that is due, so StagingWriter::append takes it.
LEMMA AppendSession ==
    ASSUME DataInv, SessionInv, append
    PROVE  SessionInv'
<1>1. /\ dst.pc = "pull" /\ toDst # <<>> /\ Head(toDst).type = "DATA_CHUNK"
      /\ UNCHANGED <<content, src, resumed, disturbed>>
  BY Zenon DEF append, Arrives, otherVars
<1>2. /\ Head(toDst).n = dst.verified /\ (IntactSource => Head(toDst).bytes = "good")
      /\ dst.verified \in Nat /\ resumed = 0
  <2>1. InTurn(Head(toDst), 1)
    BY Zenon, <1>1, FirstFrame
  <2>2. dst.verified \in Nat
    BY Zenon, SessionTypes
  <2>3. Due(1) = dst.verified + 1 - 1
    BY Zenon, <1>1 DEF Due
  <2>4. Due(1) = dst.verified
    BY <2>2, <2>3
  <2>5. Head(toDst).n = Due(1) /\ (IntactSource => Head(toDst).bytes = "good")
    BY Zenon, <1>1, <2>1 DEF InTurn
  <2>6. resumed = 0
    BY Zenon, <1>1 DEF SessionInv, FromTheStart
  <2> QED BY Zenon, <2>2, <2>4, <2>5, <2>6
<1>3. /\ dst' = [dst EXCEPT !.pc = "accepted", !.held = Head(toDst).bytes] /\ toDst' = Tail(toDst)
      /\ UNCHANGED <<toSrc, connected, outcome>>
  BY Zenon, <1>2 DEF append
<1>4. /\ dst'.pc = "accepted" /\ dst'.verified = dst.verified /\ dst'.since_ack = dst.since_ack
      /\ dst'.hashed = dst.hashed /\ dst'.held = Head(toDst).bytes
  BY <1>3, SessionTypes DEF DstThreads
<1>5. Taken = dst.verified /\ Taken' = Taken /\ \A k \in Nat : Due(k)' = Due(k + 1)
  BY <1>1, <1>2, <1>4 DEF Taken, Due
<1>6. FramesInTurn'
  BY <1>1, <1>2, <1>3, <1>5, FrameRead
<1>7. Len(toDst) \in Nat \ {0} /\ Len(toDst') = Len(toDst) - 1
  BY <1>1, <1>3, FirstFrame
<1>8. NothingUnderWay' /\ BeginIsFirst'
  BY <1>1, <1>3, <1>4 DEF SessionInv, NothingUnderWay, BeginIsFirst, InSession
<1>9. ThreadsAgree'
  <2>1. Due(Len(toDst) + 1)' = Due(Len(toDst) + 1)
    BY <1>1, <1>2, <1>4, <1>7 DEF Due
  <2> QED BY <1>1, <1>3, <1>4, <1>5, <2>1 DEF SessionInv, ThreadsAgree, InSession, Greeting, Serving
<1>10. FromTheStart' /\ FreshAttemptArrives'
  BY <1>1, <1>2, <1>3, <1>4 DEF SessionInv, FromTheStart, FreshAttemptArrives, IntactSource
<1>11. ClosedWithAbort'
  BY <1>1, <1>3, AbortIsLast DEF InSession
<1> QED BY <1>6, <1>8, <1>9, <1>10, <1>11 DEF SessionInv

\* The chunk is journalled and, when it fills a window, acknowledged.
LEMMA JournalSession ==
    ASSUME DataInv, SessionInv, Journal
    PROVE  SessionInv'
<1>1. dst.pc = "accepted" /\ UNCHANGED <<content, src, toDst, connected, outcome, resumed, disturbed>>
  BY Zenon DEF Journal, otherVars
<1>2. /\ dst'.pc = "top" /\ dst'.verified = dst.verified + 1
      /\ dst'.since_ack = (IF dst.since_ack + 1 >= Window THEN 0 ELSE dst.since_ack + 1)
  BY SessionTypes DEF Journal, DstThreads
<1>10. dst'.hashed = Append(dst.hashed, dst.held)
  BY SessionTypes DEF Journal, DstThreads
<1>11. toSrc' = IF dst.since_ack + 1 >= Window THEN Append(toSrc, AckFrame) ELSE toSrc
  BY DEF Journal, AckFrame
<1>3. /\ dst.verified \in Nat /\ dst.since_ack \in Nat /\ Len(dst.hashed) = dst.verified
      /\ dst.hashed \in Seq(Chunk) /\ dst.held \in Chunk /\ Len(toDst) \in Nat
      /\ src.next \in Nat /\ Window \in Nat \ {0} /\ dst.verified < ChunkCount /\ ChunkCount \in Nat
  BY <1>1, SessionTypes DEF DstThreads
<1>12. /\ dst.verified \in Nat /\ dst.since_ack \in Nat /\ Len(toDst) \in Nat /\ src.next \in Nat
       /\ Window \in Nat \ {0}
  BY Zenon, <1>3
<1>4. Taken = dst.verified /\ Taken' = dst.verified + 1
  BY <1>1, <1>2, <1>3 DEF Taken
<1>5. FramesInTurn'
  <2> SUFFICES ASSUME NEW k \in 1 .. Len(toDst) PROVE InTurn(toDst[k], k)'
    BY <1>1 DEF FramesInTurn
  <2>1. InTurn(toDst[k], k) /\ k \in Nat
    BY <1>3 DEF SessionInv, FramesInTurn
  <2>2. Due(k)' = Due(k) /\ Due(k) \in Int
    BY <1>1, <1>2, <1>3, <2>1 DEF Due
  <2>4. Due(k) < Taken + Window => Due(k) < Taken' + Window
    BY <1>3, <1>4, <2>2
  <2>3. IntactSource' = IntactSource
    BY <1>1 DEF IntactSource
  <2> QED BY <1>1, <2>1, <2>2, <2>3, <2>4 DEF InTurn
<1>6. NothingUnderWay' /\ ClosedWithAbort'
  BY <1>1, <1>2 DEF SessionInv, NothingUnderWay, ClosedWithAbort, InSession
<1>7. BeginIsFirst'
  <2>1. \A k \in 1 .. Len(toSrc) : toSrc[k].type # "DATA_BEGIN"
    BY Zenon, <1>1 DEF SessionInv, BeginIsFirst
  <2>2. toSrc \in Seq(ToSrc) /\ AckFrame \in ToSrc /\ AckFrame.type # "DATA_BEGIN"
    BY SessionTypes, FramesToSource DEF AckFrame
  <2>3. \A k \in 1 .. Len(toSrc') : toSrc'[k].type # "DATA_BEGIN"
    BY <1>11, <2>1, <2>2, OneMore
  <2> QED BY Zenon, <2>3 DEF BeginIsFirst
<1>8. ThreadsAgree'
  <2> SUFFICES ASSUME connected PROVE Serving'
    BY Zenon, <1>1 DEF ThreadsAgree
  <2>1. Serving
    BY Zenon, <1>1 DEF SessionInv, ThreadsAgree, InSession, Greeting
  <2>2. Due(Len(toDst) + 1) = dst.verified + Len(toDst) + 1
    <3>1. Due(Len(toDst) + 1) = dst.verified + (Len(toDst) + 1)
      BY Zenon, <1>1 DEF Due
    <3> QED BY <3>1, <1>12
  <2>6. Due(Len(toDst) + 1)' = dst.verified + Len(toDst) + 1
    BY <1>1, <1>2, <1>12 DEF Due
  <2>3. dst.verified + 1 <= src.next
    <3>1. CASE src.pc = "awaitResult"
      <4>1. src.next = ChunkCount
        BY Zenon, <2>1, <3>1 DEF Serving
      <4>2. dst.verified < ChunkCount /\ ChunkCount \in Nat
        BY Zenon, <1>3
      <4> QED BY <1>12, <4>1, <4>2
    <3>2. CASE src.pc # "awaitResult"
      <4>1. Due(Len(toDst) + 1) = src.next
        BY Zenon, <2>1, <3>2 DEF Serving
      <4> QED BY <1>12, <2>2, <4>1
    <3> QED BY Zenon, <3>1, <3>2
  <2>4. CASE src.pc # "awaitAck"
    <3>1. src.next % Window \in 0 .. Window - 1
      BY <1>12, WindowStep
    <3>2. toSrc = <<>> /\ dst.since_ack = dst.verified - (src.next - (src.next % Window))
      BY <1>4, <2>1, <2>4 DEF Serving
    <3>3. dst.since_ack + 1 < Window
      <4> DEFINE r == src.next % Window
      <4>1. r \in 0 .. Window - 1 /\ dst.since_ack = dst.verified - (src.next - r)
        BY Zenon, <3>1, <3>2
      <4> HIDE DEF r
      <4> QED BY <1>12, <2>3, <4>1
    <3>4. /\ toSrc' = <<>> /\ dst'.since_ack = dst.since_ack + 1
      BY <1>2, <1>12, <1>11, <3>2, <3>3
    <3>5. dst'.since_ack = (dst.verified + 1) - (src.next - (src.next % Window))
      <4> DEFINE r == src.next % Window
      <4>1. r \in Int /\ src.next \in Int /\ dst.verified \in Int
        BY <1>12, <3>1
      <4> HIDE DEF r
      <4>3. dst'.since_ack = dst.verified - (src.next - r) + 1
        BY Zenon, <3>2, <3>4 DEF r
      <4>2. dst'.since_ack = (dst.verified + 1) - (src.next - r)
        BY <4>1, <4>3
      <4> QED BY <4>2 DEF r
    <3> QED BY <1>1, <1>4, <2>1, <2>2, <2>4, <2>6, <3>4, <3>5 DEF Serving
  <2>5. CASE src.pc = "awaitAck"
    <3>1. src.next = dst.verified + Len(toDst) + 1 /\ src.next % Window = 0 /\ src.sent = src.next
      BY <2>1, <2>2, <2>5 DEF Serving
    <3>2. toSrc = <<>> /\ dst.since_ack = dst.verified - (src.next - Window)
      BY <1>12, <1>4, <2>1, <2>3, <2>5 DEF Serving
    <3>3. CASE dst.verified + 1 = src.next
      <4>1. dst.since_ack + 1 = Window
        BY <1>12, <3>2, <3>3
      <4>2. toSrc' = <<AckFrame>> /\ dst'.since_ack = 0
        BY <1>2, <1>12, <1>11, <3>2, <4>1
      <4> QED BY <1>1, <1>4, <2>5, <2>6, <3>1, <3>3, <4>2 DEF Serving
    <3>4. CASE dst.verified + 1 < src.next
      <4>1. dst.since_ack + 1 < Window
        BY <1>12, <3>2, <3>4
      <4>2. toSrc' = <<>> /\ dst'.since_ack = dst.verified + 1 - (src.next - Window)
        BY <1>2, <1>12, <1>11, <3>2, <4>1
      <4>3. src'.pc = "awaitAck" /\ src'.next = src.next /\ src'.sent = src.next
        BY <1>1, <2>5, <3>1
      <4>4. src'.next % Window = 0 /\ src'.sent = src'.next /\ Due(Len(toDst) + 1)' = src'.next
        BY Zenon, <2>6, <3>1, <4>3
      <4>5. dst'.since_ack = Taken' - (src'.next - Window)
        BY <1>4, <1>12, <4>2, <4>3
      <4>6. Taken' < src'.next
        BY Zenon, <1>4, <3>4, <4>3
      <4> QED BY Zenon, <4>2, <4>3, <4>4, <4>5, <4>6 DEF Serving
    <3> QED BY <1>12, <2>3, <3>3, <3>4
  <2> QED BY <2>4, <2>5
<1>9. FromTheStart' /\ FreshAttemptArrives'
  <2>1. /\ \A i \in 1 .. dst.verified : dst'.hashed[i] = dst.hashed[i]
        /\ dst'.hashed[dst.verified + 1] = dst.held
    BY <1>3, <1>10, OneMore
  <2>2. resumed' = 0 /\ resumed = 0
    BY <1>1 DEF SessionInv, FromTheStart
  <2>3. IntactSource' = IntactSource /\ FreshAttemptArrives'
    BY <1>1 DEF SessionInv, FreshAttemptArrives, IntactSource
  <2>4. IntactSource => \A i \in 1 .. dst'.verified : dst'.hashed[i] = "good"
    <3>1. IntactSource => dst.held = "good" /\ \A i \in 1 .. dst.verified : dst.hashed[i] = "good"
      BY <1>1, <2>2 DEF SessionInv, FromTheStart
    <3>2. \A i \in 1 .. dst'.verified : i \in 1 .. dst.verified \/ i = dst.verified + 1
      BY <1>2, <1>3
    <3> QED BY Zenon, <2>1, <3>1, <3>2
  <2> QED BY <1>2, <2>2, <2>3, <2>4 DEF FromTheStart
<1> QED BY <1>5, <1>6, <1>7, <1>8, <1>9 DEF SessionInv

\* The top of the chunk loop goes on or, cancelled, ends the attempt.
LEMMA TopSession ==
    ASSUME DataInv, SessionInv, Top
    PROVE  SessionInv'
<1>1. dst.pc = "top" /\ UNCHANGED <<content, src, resumed, disturbed>>
  BY Zenon DEF Top, otherVars
<1>2. CASE "D" \in cancelled
  <2>1. Ends("cancelled")
    BY Zenon, <1>2 DEF Top
  <2>2. FreshAttemptArrives'
    BY <2>1 DEF Ends, FreshAttemptArrives
  <2> QED BY Zenon, <2>1, <2>2, SessionOver DEF Ends
<1>3. CASE "D" \notin cancelled
  <2>1. dst' = [dst EXCEPT !.pc = "pull"] /\ UNCHANGED <<toDst, toSrc, connected, outcome>>
    BY Zenon, <1>3 DEF Top
  <2>2. /\ dst'.pc = "pull" /\ dst'.verified = dst.verified /\ dst'.since_ack = dst.since_ack
        /\ dst'.hashed = dst.hashed
    BY <2>1, SessionTypes DEF DstThreads
  <2>3. FramesInTurn'
    BY <1>1, <2>1, <2>2 DEF SessionInv, FramesInTurn, InTurn, Due, Taken, IntactSource
  <2>4. NothingUnderWay' /\ BeginIsFirst' /\ ClosedWithAbort'
    BY <1>1, <2>1, <2>2 DEF SessionInv, NothingUnderWay, BeginIsFirst, ClosedWithAbort, InSession
  <2>5. ThreadsAgree'
    BY <1>1, <2>1, <2>2 DEF SessionInv, ThreadsAgree, InSession, Greeting, Serving, Due, Taken
  <2>6. FromTheStart' /\ FreshAttemptArrives'
    BY <1>1, <2>1, <2>2 DEF SessionInv, FromTheStart, FreshAttemptArrives, IntactSource
  <2> QED BY <2>3, <2>4, <2>5, <2>6 DEF SessionInv
<1> QED BY <1>2, <1>3

\* A DATA_ABORT cancels the attempt; a connection is lost only when disturbed.
LEMMA EndedSession ==
    ASSUME DataInv, SessionInv, Aborted \/ ConnectionLost
    PROVE  SessionInv'
<1>1. CASE Aborted
  <2>1. Ends("cancelled")
    BY Zenon, <1>1 DEF Aborted
  <2>2. FreshAttemptArrives'
    BY <2>1 DEF Ends, FreshAttemptArrives
  <2> QED BY Zenon, <2>1, <2>2, SessionOver DEF Ends
<1>2. CASE ConnectionLost
  <2>1. Ends("failed") /\ UNCHANGED disturbed
    BY Zenon, <1>2 DEF ConnectionLost, otherVars
  <2>2. disturbed
    BY Zenon, <1>2 DEF ConnectionLost, SessionInv, ClosedWithAbort, InSession
  <2>3. FreshAttemptArrives'
    BY Zenon, <2>1, <2>2 DEF FreshAttemptArrives
  <2> QED BY Zenon, <2>1, <2>3, SessionOver DEF Ends
<1> QED BY <1>1, <1>2

\* DATA_END: it stands behind all the chunks, and what an intact source sent has
\* the granted digest.
LEMMA FinishSession ==
    ASSUME DataInv, SessionInv, finish
    PROVE  SessionInv'
<1>1. /\ dst.pc = "pull" /\ toDst # <<>> /\ Head(toDst).type = "DATA_END"
      /\ UNCHANGED <<content, src, resumed, disturbed>>
  BY Zenon DEF finish, Arrives, otherVars
<1>2. InTurn(Head(toDst), 1) /\ Len(toDst) \in Nat
  BY <1>1, FirstFrame
<1>3. dst.verified = ChunkCount /\ Len(toDst) = 1 /\ resumed = 0 /\ Due(2) = ChunkCount + 1
  <2>1. Due(1) = ChunkCount /\ Len(toDst) = 1
    BY Zenon, <1>1, <1>2 DEF InTurn
  <2>2. Due(1) = dst.verified + 1 - 1 /\ Due(2) = dst.verified + 2 - 1
    BY Zenon, <1>1 DEF Due
  <2>3. dst.verified \in Nat
    BY Zenon, SessionTypes
  <2>4. resumed = 0
    BY Zenon, <1>1 DEF SessionInv, FromTheStart
  <2> QED BY <2>1, <2>2, <2>3, <2>4
<1>4. IntactSource' = IntactSource
  BY <1>1 DEF IntactSource
<1>5. CASE ~AllGood(dst.hashed)
  <2>1. Ends("failed")
    BY Zenon, <1>3, <1>5 DEF finish
  <2>2. /\ dst.hashed \in Seq(Chunk) /\ Len(dst.hashed) = ChunkCount
    BY <1>3, SessionTypes DEF DstThreads
  <2>3. ~IntactSource
    <3>1. DOMAIN dst.hashed = 1 .. dst.verified
      BY <1>3, <2>2
    <3> QED BY Zenon, <1>1, <1>3, <1>5, <2>2, <3>1 DEF AllGood, SessionInv, FromTheStart
  <2>4. FreshAttemptArrives'
    BY Zenon, <1>4, <2>3 DEF FreshAttemptArrives
  <2> QED BY Zenon, <2>1, <2>4, SessionOver DEF Ends
<1>6. CASE AllGood(dst.hashed)
  <2>1. /\ outcome' = "arrived" /\ dst' = IdleDst /\ toDst' = <<>> /\ UNCHANGED connected
        /\ toSrc' = Append(toSrc, [type |-> "DATA_RESULT", n |-> 0])
    BY Zenon, <1>3, <1>6 DEF finish
  <2>2. dst'.pc = "idle" /\ Len(toDst') = 0 /\ ~InSession'
    BY <2>1 DEF IdleDst, InSession
  <2>3. FramesInTurn' /\ ThreadsAgree' /\ ClosedWithAbort'
    BY <2>2 DEF FramesInTurn, ThreadsAgree, ClosedWithAbort
  <2>4. NothingUnderWay'
    <3>1. connected => Serving
      BY Zenon, <1>1 DEF SessionInv, ThreadsAgree, InSession, Greeting
    <3>2. Due(Len(toDst) + 1) = ChunkCount + 1
      BY <1>3
    <3>3. connected => src.pc = "awaitResult"
      BY <3>1, <3>2, SessionTypes DEF Serving
    <3> QED BY Zenon, <1>1, <2>1, <3>3 DEF NothingUnderWay
  <2>5. BeginIsFirst'
    <3>1. \A k \in 1 .. Len(toSrc) : toSrc[k].type # "DATA_BEGIN"
      BY Zenon, <1>1 DEF SessionInv, BeginIsFirst
    <3>2. toSrc \in Seq(ToSrc) /\ [type |-> "DATA_RESULT", n |-> 0] \in ToSrc
      BY SessionTypes, FramesToSource
    <3>3. \A k \in 1 .. Len(toSrc') : toSrc'[k].type # "DATA_BEGIN"
      BY <2>1, <3>1, <3>2, OneMore
    <3> QED BY Zenon, <3>3 DEF BeginIsFirst
  <2>6. FromTheStart' /\ FreshAttemptArrives'
    BY <2>1, <2>2 DEF FromTheStart, FreshAttemptArrives
  <2> QED BY <2>3, <2>4, <2>5, <2>6 DEF SessionInv
<1> QED BY <1>5, <1>6

\* An attempt that does not get to a connection has a prefix to continue.
LEMMA BeginSession ==
    ASSUME DataInv, SessionInv, begin
    PROVE  SessionInv'
<1>1. /\ dst.pc = "idle" /\ resumed' = Len(Journalled)
      /\ UNCHANGED <<content, src, toDst, toSrc, connected>>
  BY Zenon DEF begin
<1>2. toDst = <<>> /\ (connected => src.pc = "awaitResult")
  BY Zenon, <1>1 DEF SessionInv, NothingUnderWay, InSession
<1>3. \A k \in 1 .. Len(toSrc) : toSrc[k].type # "DATA_BEGIN"
  BY Zenon, <1>1 DEF SessionInv, BeginIsFirst
<1>4. staged \in Seq(Chunk) /\ Journalled \in Seq(Chunk)
  BY DEF DataInv, DestinationInv, DiskOK, Journalled
<1>5. Len(Journalled) \in Nat /\ (Len(Journalled) = 0 => PrefixIntact)
  <2>1. Len(Journalled) \in Nat /\ Len(staged) \in Nat /\ SubSeq(staged, 1, 0) = <<>>
    BY <1>4
  <2>2. ASSUME Len(Journalled) = 0 PROVE PrefixIntact
    <3>1. Journalled = <<>> /\ Len(staged) >= Len(Journalled)
      BY <1>4, <2>1, <2>2
    <3> QED BY Zenon, <2>1, <2>2, <3>1 DEF PrefixIntact
  <2> QED BY <2>1, <2>2
<1>6. CASE PrefixIntact
  <2>1. outcome' = "none"
        /\ dst' = [IdleDst EXCEPT !.pc = "connect", !.verified = Len(Journalled),
                                  !.hashed = SubSeq(staged, 1, Len(Journalled))]
    BY Zenon, <1>6 DEF begin
  <2>2. dst'.pc = "connect" /\ dst'.verified = Len(Journalled) /\ dst'.since_ack = 0
    BY <2>1 DEF IdleDst
  <2>3. ~InSession' /\ Len(toDst') = 0
    BY <1>1, <1>2, <2>2 DEF InSession
  <2>4. FramesInTurn' /\ ThreadsAgree' /\ ClosedWithAbort'
    BY <2>3 DEF FramesInTurn, ThreadsAgree, ClosedWithAbort
  <2>5. NothingUnderWay' /\ BeginIsFirst'
    BY Zenon, <1>1, <1>2, <1>3 DEF NothingUnderWay, BeginIsFirst
  <2>6. FromTheStart' /\ FreshAttemptArrives'
    BY <1>1, <1>5, <2>1, <2>2 DEF FromTheStart, FreshAttemptArrives
  <2> QED BY <2>4, <2>5, <2>6 DEF SessionInv
<1>7. CASE ~PrefixIntact
  <2>1. UNCHANGED dst /\ resumed' > 0
    BY <1>1, <1>5, <1>7 DEF begin
  <2>2. ~InSession' /\ Len(toDst') = 0 /\ dst'.pc = "idle"
    BY <1>1, <1>2, <2>1 DEF InSession
  <2>3. FramesInTurn' /\ ThreadsAgree' /\ ClosedWithAbort'
    BY <2>2 DEF FramesInTurn, ThreadsAgree, ClosedWithAbort
  <2>4. NothingUnderWay' /\ BeginIsFirst'
    BY Zenon, <1>1, <1>2, <1>3 DEF NothingUnderWay, BeginIsFirst
  <2>5. FromTheStart' /\ FreshAttemptArrives'
    BY <2>1, <2>2 DEF FromTheStart, FreshAttemptArrives
  <2> QED BY <2>3, <2>4, <2>5 DEF SessionInv
<1> QED BY <1>6, <1>7

\* A new connection, with DATA_BEGIN on its way.
LEMMA ConnectSession ==
    ASSUME DataInv, SessionInv, Connect
    PROVE  SessionInv'
<1>1. /\ dst.pc = "connect" /\ src.pc = "none" /\ connected'
      /\ UNCHANGED <<content, src, toDst, outcome, resumed, disturbed>>
  BY Zenon DEF Connect, otherVars
<1>2. toSrc' = <<BeginFrame>> /\ BeginFrame.type = "DATA_BEGIN"
  BY DEF Connect, BeginFrame, DecodedResume
<1>3. toDst = <<>> /\ Len(toDst') = 0
  BY <1>1 DEF SessionInv, NothingUnderWay, InSession
<1>4. /\ dst'.pc = "awaitBegin" /\ dst'.verified = dst.verified /\ dst'.since_ack = dst.since_ack
      /\ dst'.hashed = dst.hashed
  BY SessionTypes DEF Connect, DstThreads
<1>5. InSession' /\ Greeting'
  BY <1>1, <1>2, <1>3, <1>4 DEF InSession, Greeting, BeginFrame
<1>6. FramesInTurn' /\ NothingUnderWay' /\ ThreadsAgree' /\ ClosedWithAbort'
  BY <1>1, <1>3, <1>5 DEF FramesInTurn, NothingUnderWay, ThreadsAgree, ClosedWithAbort
<1>7. BeginIsFirst'
  BY <1>1, <1>3, <1>4 DEF BeginIsFirst
<1>8. FromTheStart' /\ FreshAttemptArrives'
  BY <1>1, <1>4 DEF SessionInv, FromTheStart, FreshAttemptArrives, IntactSource
<1> QED BY <1>6, <1>7, <1>8 DEF SessionInv

\* The source answers DATA_BEGIN from the first chunk on.
LEMMA SourceBeginSession ==
    ASSUME DataInv, SessionInv, SourceBegin
    PROVE  SessionInv'
<1>1. /\ src.pc = "none" /\ toSrc # <<>> /\ Head(toSrc).type = "DATA_BEGIN" /\ toSrc' = Tail(toSrc)
      /\ UNCHANGED <<content, dst, connected, outcome, resumed, disturbed>>
  BY Zenon DEF SourceBegin, otherVars
<1>2. connected /\ dst.pc = "awaitBegin" /\ toDst = <<>>
  <2>1. 1 \in 1 .. Len(toSrc) /\ Head(toSrc) = toSrc[1]
    BY <1>1, SessionTypes, NothingThere
  <2> QED BY Zenon, <1>1, <2>1 DEF SessionInv, BeginIsFirst
<1>3. toSrc = <<BeginFrame>>
  BY Zenon, <1>1, <1>2 DEF SessionInv, ThreadsAgree, InSession, Greeting, Serving
<1>4. toSrc' = <<>> /\ Head(toSrc).n = 0
  BY <1>1, <1>3 DEF BeginFrame
<1>5. /\ src' = [pc |-> "serve", next |-> 0, sent |-> 0]
      /\ toDst' = <<[type |-> "DATA_BEGIN_ACK", n |-> 0]>>
  <2>1. StartChunk(Head(toSrc).n) = 0
    BY <1>4 DEF StartChunk
  <2>2. /\ src' = [pc |-> "serve", next |-> 0, sent |-> 0]
        /\ toDst' = Append(toDst, [type |-> "DATA_BEGIN_ACK", n |-> 0])
    BY Zenon, <2>1 DEF SourceBegin
  <2>3. ASSUME NEW x PROVE Append(<<>>, x) = <<x>>
    OBVIOUS
  <2> QED BY Zenon, <1>2, <2>2, <2>3
<1>6. /\ Len(toDst') = 1 /\ toDst'[1].type = "DATA_BEGIN_ACK" /\ toDst'[1].n = 0
      /\ src'.pc = "serve" /\ src'.next = 0 /\ src'.sent = 0
  BY <1>5
<1>7. FramesInTurn'
  <2>1. Due(1)' = -1
    BY <1>1, <1>2 DEF Due
  <2>2. InTurn(toDst[1], 1)'
    BY Zenon, <1>6, <2>1 DEF InTurn
  <2>3. \A k \in 1 .. Len(toDst') : k = 1
    BY <1>6
  <2> QED BY Zenon, <2>2, <2>3 DEF FramesInTurn
<1>8. NothingUnderWay' /\ BeginIsFirst' /\ ClosedWithAbort'
  <2>1. InSession' /\ connected' /\ Len(toSrc') = 0
    BY <1>1, <1>2, <1>4 DEF InSession
  <2> QED BY <2>1 DEF NothingUnderWay, BeginIsFirst, ClosedWithAbort
<1>9. ThreadsAgree'
  <2>1. Due(Len(toDst) + 1)' = 0 /\ Taken' = 0 /\ dst'.since_ack = 0
    BY <1>1, <1>2, <1>6 DEF Due, Taken, SessionInv, FromTheStart
  <2>2. 0 % Window = 0
    BY WindowStep, SessionTypes
  <2> QED BY <1>4, <1>6, <2>1, <2>2 DEF ThreadsAgree, Serving
<1>10. FromTheStart' /\ FreshAttemptArrives'
  BY <1>1 DEF SessionInv, FromTheStart, FreshAttemptArrives, IntactSource
<1> QED BY <1>7, <1>8, <1>9, <1>10 DEF SessionInv

\* A frame is sent behind the others.
LEMMA FrameSent ==
    ASSUME DataInv, SessionInv, NEW f \in ToDst, toDst' = Append(toDst, f), UNCHANGED <<content, dst>>,
           connected, \A k \in 1 .. Len(toDst) : toDst[k].type \notin {"DATA_END", "DATA_ABORT"},
           InTurn(toDst[Len(toDst)], Len(toDst))'
    PROVE  FramesInTurn'
<1>1. Len(toDst) \in Nat /\ toDst \in Seq(ToDst)
  BY SessionTypes
<1>2. Len(toDst') = Len(toDst) + 1 /\ \A k \in 1 .. Len(toDst) : toDst'[k] = toDst[k]
  BY <1>1, OneMore
<1> SUFFICES ASSUME NEW k \in 1 .. Len(toDst') PROVE InTurn(toDst[k], k)'
  BY DEF FramesInTurn
<1>3. CASE k = Len(toDst')
  BY <1>3
<1>4. CASE k # Len(toDst')
  <2>1. k \in 1 .. Len(toDst)
    BY <1>1, <1>2, <1>4
  <2>2. InTurn(toDst[k], k) /\ toDst'[k] = toDst[k] /\ toDst[k].type \notin {"DATA_END", "DATA_ABORT"}
    BY Zenon, <1>2, <2>1 DEF SessionInv, FramesInTurn
  <2>3. Due(k)' = Due(k) /\ Taken' = Taken /\ IntactSource' = IntactSource
    BY Zenon DEF Due, Taken, IntactSource
  <2> QED BY <2>2, <2>3 DEF InTurn
<1> QED BY <1>3, <1>4

\* While the source serves, it is in a session, and no frame under way ends it.
LEMMA StillServing ==
    ASSUME DataInv, SessionInv, connected, src.pc \in {"serve", "awaitAck"}
    PROVE  /\ InSession /\ Serving /\ Due(Len(toDst) + 1) = src.next
           /\ \A k \in 1 .. Len(toDst) : toDst[k].type \notin {"DATA_END", "DATA_ABORT"}
<1>1. InSession
  BY DEF SessionInv, NothingUnderWay
<1>2. Serving
  BY Zenon, <1>1 DEF SessionInv, ThreadsAgree, Greeting
<1>3. Due(Len(toDst) + 1) = src.next
  BY Zenon, <1>2 DEF Serving
<1>4. \A k \in 1 .. Len(toDst) : toDst[k].type \notin {"DATA_END", "DATA_ABORT"}
  <2> SUFFICES ASSUME NEW k \in 1 .. Len(toDst), toDst[k].type \in {"DATA_END", "DATA_ABORT"} PROVE FALSE
    OBVIOUS
  <2>1. InTurn(toDst[k], k)
    BY Zenon DEF SessionInv, FramesInTurn
  <2>2. Due(k) = ChunkCount /\ k = Len(toDst)
    BY Zenon, <2>1 DEF InTurn
  <2>3. Due(k + 1) = Due(k) + 1
    BY SessionTypes DEF Due
  <2> QED BY <1>3, <2>2, <2>3, SessionTypes
<1> QED BY <1>1, <1>2, <1>3, <1>4

\* The source's steps leave the transfer thread alone.
LEMMA TransferAlone ==
    ASSUME SessionInv, UNCHANGED <<content, dst, outcome, resumed, disturbed>>
    PROVE  /\ FromTheStart' /\ FreshAttemptArrives' /\ InSession' = InSession /\ Taken' = Taken
           /\ \A k \in Int : Due(k)' = Due(k)
BY Zenon DEF SessionInv, FromTheStart, FreshAttemptArrives, IntactSource, InSession, Taken, Due

\* A chunk of the open window.
LEMMA SendChunkSession ==
    ASSUME DataInv, SessionInv, SendChunk
    PROVE  SessionInv'
<1> DEFINE f == [type |-> "DATA_CHUNK", n |-> src.next, bytes |-> content[src.next + 1]]
           r == src.next % Window
<1>1. /\ src.pc = "serve" /\ connected /\ connected' /\ src.next < ChunkCount /\ toDst' = Append(toDst, f)
      /\ UNCHANGED <<content, dst, toSrc, connected, outcome, resumed, disturbed>>
  BY Zenon DEF SendChunk, otherVars
<1>2. /\ src'.next = src.next + 1 /\ src'.sent = src.sent + 1
      /\ src'.pc = IF (src.sent + 1) % Window = 0 THEN "awaitAck" ELSE "serve"
  BY DEF SendChunk
<1>3. /\ InSession /\ Serving /\ Due(Len(toDst) + 1) = src.next
      /\ \A k \in 1 .. Len(toDst) : toDst[k].type \notin {"DATA_END", "DATA_ABORT"}
  BY <1>1, StillServing
<1>4. /\ src.next \in Nat /\ ChunkCount \in Nat /\ Window \in Nat \ {0} /\ Len(toDst) \in Nat
      /\ toDst \in Seq(ToDst) /\ dst.verified \in Nat /\ dst.since_ack \in Nat
  BY SessionTypes
<1>5. /\ f \in ToDst /\ f.type = "DATA_CHUNK" /\ f.n = src.next
      /\ IntactSource => f.bytes = "good"
  <2>1. src.next \in 0 .. ChunkCount - 1 /\ src.next + 1 \in 1 .. ChunkCount
    BY <1>1, <1>4
  <2>2. DOMAIN content = 1 .. ChunkCount /\ content[src.next + 1] \in Chunk
    BY <2>1 DEF DataInv, SourceOK
  <2> QED BY Zenon, <2>1, <2>2, FramesToDestination DEF IntactSource
<1>6. toSrc = <<>> /\ src.sent = src.next /\ dst.since_ack = Taken - (src.next - r)
  BY Zenon, <1>1, <1>3 DEF Serving
<1>7. r \in 0 .. Window - 1 /\ (src.next + 1) % Window = IF r + 1 = Window THEN 0 ELSE r + 1
  BY <1>4, WindowStep
<1> HIDE DEF r, f
<1>8. Taken \in Nat /\ Taken <= src.next /\ src.next < Taken + Window
  <2>1. Taken \in Nat /\ Taken <= src.next
    BY <1>3, <1>4 DEF Taken, Due
  <2> QED BY <1>4, <1>6, <1>7, <2>1
<1>9. FromTheStart' /\ FreshAttemptArrives' /\ InSession' /\ Taken' = Taken /\ \A k \in Int : Due(k)' = Due(k)
  BY Zenon, <1>1, <1>3, TransferAlone
<1>10. Len(toDst') = Len(toDst) + 1 /\ toDst'[Len(toDst) + 1] = f
  <2>1. toDst \in Seq(ToDst) /\ f \in ToDst /\ toDst' = Append(toDst, f)
    BY Zenon, <1>1, <1>4, <1>5
  <2> QED BY <2>1
<1>11. FramesInTurn'
  <2>1. Due(Len(toDst))' = src.next
    BY <1>1, <1>3, <1>10 DEF Due
  <2>2. IntactSource' = IntactSource
    BY Zenon, <1>1 DEF IntactSource
  <2>3. InTurn(toDst[Len(toDst)], Len(toDst))'
    <3>1. src.next >= 0 /\ src.next < Taken' + Window
      <4>1. Taken' = Taken
        BY Zenon, <1>9
      <4>2. src.next \in Nat /\ Window \in Nat
        BY <1>4
      <4> QED BY <1>8, <4>1, <4>2
    <3>2. toDst'[Len(toDst')] = f
      BY Zenon, <1>10
    <3> QED BY Zenon, <1>5, <2>1, <2>2, <3>1, <3>2 DEF InTurn
  <2> QED BY Zenon, <1>1, <1>3, <1>5, <2>3, FrameSent
<1>12. NothingUnderWay' /\ BeginIsFirst' /\ ClosedWithAbort'
  <2>1. 1 .. Len(toSrc') = {}
    <3>1. toSrc' = <<>>
      BY Zenon, <1>1, <1>6
    <3> QED BY <3>1
  <2>2. BeginIsFirst'
    BY Zenon, <2>1 DEF BeginIsFirst
  <2> QED BY Zenon, <1>1, <1>9, <2>2 DEF NothingUnderWay, ClosedWithAbort
<1>13. ThreadsAgree'
  <2>1. Due(Len(toDst) + 1)' = src.next + 1
    <3>1. Due(Len(toDst) + 1)' = Due(Len(toDst) + 2)
      BY <1>1, <1>4, <1>10 DEF Due
    <3>2. Due(Len(toDst) + 2) = Due(Len(toDst) + 1) + 1
      BY <1>4 DEF Due
    <3> QED BY <1>3, <3>1, <3>2
  <2>2. toSrc' = <<>> /\ dst'.since_ack = Taken' - (src.next - r) /\ src'.sent = src'.next
    BY Zenon, <1>1, <1>2, <1>6, <1>9
  <2>5. src.next \in Nat /\ Window \in Nat /\ r \in Int /\ Taken' \in Nat /\ Taken' <= src.next
    <3>1. Taken' = Taken
      BY Zenon, <1>9
    <3>2. r \in Int /\ Window \in Nat
      BY <1>4, <1>7
    <3> QED BY Zenon, <1>4, <1>8, <3>1, <3>2
  <2>3. CASE r + 1 = Window
    <3>1. (src.next + 1) % Window = 0 /\ src'.pc = "awaitAck"
      BY <1>2, <1>6, <1>7, <2>3
    <3>2. dst'.since_ack = Taken' - ((src.next + 1) - Window) /\ Taken' < src.next + 1
      BY <2>2, <2>3, <2>5
    <3> QED BY Zenon, <1>2, <2>1, <2>2, <3>1, <3>2 DEF ThreadsAgree, Serving
  <2>4. CASE r + 1 # Window
    <3>1. (src.next + 1) % Window = r + 1 /\ src'.pc = "serve"
      BY <1>2, <1>6, <1>7, <2>4
    <3>2. dst'.since_ack = Taken' - ((src.next + 1) - (r + 1))
      BY <2>2, <2>5
    <3> QED BY Zenon, <1>2, <2>1, <2>2, <3>1, <3>2 DEF ThreadsAgree, Serving
  <2> QED BY <2>3, <2>4
<1> QED BY <1>9, <1>11, <1>12, <1>13 DEF SessionInv

\* A cancelled source says so before it closes the connection.
LEMMA SendAbortSession ==
    ASSUME DataInv, SessionInv, SendAbort
    PROVE  SessionInv'
<1> DEFINE f == [type |-> "DATA_ABORT"]
<1>1. /\ src.pc = "serve" /\ connected /\ ~connected' /\ toDst' = Append(toDst, f) /\ toSrc' = <<>>
      /\ UNCHANGED <<content, dst, outcome, resumed, disturbed>>
  BY Zenon DEF SendAbort, otherVars
<1>2. /\ InSession /\ Due(Len(toDst) + 1) = src.next
      /\ \A k \in 1 .. Len(toDst) : toDst[k].type \notin {"DATA_END", "DATA_ABORT"}
  BY <1>1, StillServing
<1>3. src.next \in Nat /\ Len(toDst) \in Nat /\ toDst \in Seq(ToDst) /\ f \in ToDst
  <2>1. src.next \in 0 .. ChunkCount /\ Len(toDst) \in Nat /\ toDst \in Seq(ToDst)
    BY Zenon, SessionTypes
  <2>2. f \in ToDst
    BY Zenon, FramesToDestination
  <2>3. src.next \in Nat
    BY <2>1, DataAssumptions
  <2> QED BY Zenon, <2>1, <2>2, <2>3
<1>4. FromTheStart' /\ FreshAttemptArrives' /\ InSession'
  BY Zenon, <1>1, <1>2, TransferAlone
<1>5. Len(toDst') = Len(toDst) + 1 /\ toDst'[Len(toDst) + 1] = f /\ toDst' # <<>>
  BY <1>1, <1>3, OneMore
<1>6. FramesInTurn'
  <2>1. Due(Len(toDst))' = src.next
    BY <1>1, <1>2, <1>5 DEF Due
  <2>2. InTurn(toDst[Len(toDst)], Len(toDst))'
    <3>1. src.next >= 0
      BY <1>3
    <3>2. toDst'[Len(toDst')] = f /\ f.type = "DATA_ABORT"
      BY Zenon, <1>5
    <3> QED BY Zenon, <1>1, <2>1, <3>1, <3>2 DEF InTurn
  <2> QED BY Zenon, <1>1, <1>2, <1>3, <2>2, FrameSent
<1>7. NothingUnderWay' /\ ThreadsAgree'
  BY Zenon, <1>1, <1>4 DEF NothingUnderWay, ThreadsAgree
<1>8. BeginIsFirst'
  BY <1>1 DEF BeginIsFirst
<1>9. ClosedWithAbort'
  BY <1>5 DEF ClosedWithAbort
<1> QED BY <1>4, <1>6, <1>7, <1>8, <1>9 DEF SessionInv

\* DATA_END, behind the last chunk.
LEMMA SendEndSession ==
    ASSUME DataInv, SessionInv, SendEnd
    PROVE  SessionInv'
<1> DEFINE f == [type |-> "DATA_END"]
<1>1. /\ src.pc = "serve" /\ connected /\ connected' /\ src.next = ChunkCount /\ toDst' = Append(toDst, f)
      /\ UNCHANGED <<content, dst, toSrc, connected, outcome, resumed, disturbed>>
  BY Zenon DEF SendEnd, otherVars
<1>2. src'.pc = "awaitResult" /\ src'.next = src.next /\ src'.sent = src.sent
  BY Zenon DEF SendEnd, DataInv, SourceOK
<1>3. /\ InSession /\ Serving /\ Due(Len(toDst) + 1) = src.next
      /\ \A k \in 1 .. Len(toDst) : toDst[k].type \notin {"DATA_END", "DATA_ABORT"}
  BY <1>1, StillServing
<1>4. Len(toDst) \in Nat /\ toDst \in Seq(ToDst) /\ f \in ToDst /\ dst.verified \in Nat
  BY SessionTypes, FramesToDestination
<1>5. toSrc = <<>> /\ src.sent = src.next /\ dst.since_ack = Taken - (src.next - (src.next % Window))
  BY Zenon, <1>1, <1>3 DEF Serving
<1>6. FromTheStart' /\ FreshAttemptArrives' /\ InSession' /\ Taken' = Taken
  BY Zenon, <1>1, <1>3, TransferAlone
<1>7. Len(toDst') = Len(toDst) + 1 /\ toDst'[Len(toDst) + 1] = f
  BY <1>1, <1>4, OneMore
<1>8. FramesInTurn'
  <2>1. Due(Len(toDst))' = ChunkCount
    BY Zenon, <1>1, <1>3, <1>7 DEF Due
  <2>2. InTurn(toDst[Len(toDst)], Len(toDst))'
    BY <1>7, <2>1 DEF InTurn
  <2> QED BY Zenon, <1>1, <1>3, <1>4, <2>2, FrameSent
<1>9. NothingUnderWay' /\ BeginIsFirst' /\ ClosedWithAbort'
  <2>1. Len(toSrc') = 0
    BY <1>1, <1>5
  <2> QED BY <1>1, <1>6, <2>1 DEF NothingUnderWay, BeginIsFirst, ClosedWithAbort
<1>10. ThreadsAgree'
  <2>1. Due(Len(toDst) + 1)' = Due(Len(toDst) + 2)
    BY <1>1, <1>4, <1>7 DEF Due
  <2>2. Due(Len(toDst) + 2) = Due(Len(toDst) + 1) + 1
    BY <1>4 DEF Due
  <2>3. Due(Len(toDst) + 1)' = ChunkCount + 1
    BY <1>1, <1>3, <2>1, <2>2
  <2> QED BY Zenon, <1>1, <1>2, <1>5, <1>6, <2>3 DEF ThreadsAgree, Serving
<1> QED BY <1>6, <1>8, <1>9, <1>10 DEF SessionInv

\* Frames under way that nothing touches stay in turn.
LEMMA FramesAlone ==
    ASSUME SessionInv, UNCHANGED <<content, dst, toDst>>, connected' => connected
    PROVE  FramesInTurn'
<1> SUFFICES ASSUME NEW k \in 1 .. Len(toDst) PROVE InTurn(toDst[k], k)'
  BY Zenon DEF FramesInTurn
<1>1. InTurn(toDst[k], k)
  BY Zenon DEF SessionInv, FramesInTurn
<1>2. Due(k)' = Due(k) /\ Taken' = Taken /\ IntactSource' = IntactSource
  BY Zenon DEF Due, Taken, IntactSource
<1> QED BY Zenon, <1>1, <1>2 DEF InTurn

\* A full window has been acknowledged.
LEMMA ChunkAckedSession ==
    ASSUME DataInv, SessionInv, ChunkAcked
    PROVE  SessionInv'
<1>1. /\ src.pc = "awaitAck" /\ toSrc # <<>> /\ toSrc' = Tail(toSrc)
      /\ UNCHANGED <<content, dst, toDst, connected, outcome, resumed, disturbed>>
  BY Zenon DEF ChunkAcked, otherVars
<1>2. src'.pc = "serve" /\ src'.next = src.next /\ src'.sent = src.sent
  BY DEF ChunkAcked, DataInv, SourceOK
<1>3. FromTheStart' /\ FreshAttemptArrives' /\ InSession' = InSession /\ Taken' = Taken
  BY Zenon, <1>1, TransferAlone
<1>4. FramesInTurn'
  BY Zenon, <1>1, FramesAlone
<1>5. NothingUnderWay' /\ ClosedWithAbort'
  BY Zenon, <1>1, <1>3 DEF SessionInv, NothingUnderWay, ClosedWithAbort
<1>6. BeginIsFirst'
  <2>1. \A k \in 1 .. Len(toSrc) : toSrc[k].type # "DATA_BEGIN"
    BY Zenon, <1>1 DEF SessionInv, BeginIsFirst
  <2>2. Len(toSrc) \in Nat /\ Len(toSrc') = Len(toSrc) - 1 /\ \A k \in 1 .. Len(toSrc') : toSrc'[k] = toSrc[k + 1]
    BY <1>1, SessionTypes, FirstAndRest
  <2>3. \A k \in 1 .. Len(toSrc') : k + 1 \in 1 .. Len(toSrc)
    BY <2>2
  <2> QED BY Zenon, <2>1, <2>2, <2>3 DEF BeginIsFirst
<1>7. ThreadsAgree'
  <2> SUFFICES ASSUME connected PROVE Serving'
    BY Zenon, <1>1 DEF ThreadsAgree
  <2>1. Serving /\ Due(Len(toDst) + 1) = src.next
    BY <1>1, StillServing
  <2>2. src.sent = src.next /\ src.next % Window = 0 /\ toSrc = <<AckFrame>> /\ dst.since_ack = 0 /\ Taken = src.next
    BY Zenon, <1>1, <2>1 DEF Serving
  <2>3. toSrc' = <<>>
    BY <1>1, <2>2
  <2>4. Due(Len(toDst) + 1)' = src.next
    BY Zenon, <1>1, <2>1 DEF Due
  <2>5. 0 = src.next - (src.next - 0)
    BY SessionTypes
  <2> QED BY Zenon, <1>1, <1>2, <1>3, <2>2, <2>3, <2>4, <2>5 DEF Serving
<1> QED BY <1>3, <1>4, <1>5, <1>6, <1>7 DEF SessionInv

\* The session thread ends with its connection; an open one it closes only when
\* the transfer thread has sent the result.
LEMMA SourceEndsSession ==
    ASSUME DataInv, SessionInv, SourceEnds
    PROVE  SessionInv'
<1>1. /\ src.pc # "none" /\ ~connected' /\ toSrc' = <<>> /\ Len(toSrc') = 0
      /\ UNCHANGED <<content, dst, toDst, outcome, resumed, disturbed>>
  BY DEF SourceEnds, otherVars
<1>2. FromTheStart' /\ FreshAttemptArrives' /\ InSession' = InSession
  BY Zenon, <1>1, TransferAlone
<1>3. NothingUnderWay' /\ ThreadsAgree'
  BY Zenon, <1>1, <1>2 DEF SessionInv, NothingUnderWay, ThreadsAgree
<1>4. BeginIsFirst'
  BY <1>1 DEF BeginIsFirst
<1>5. FramesInTurn' /\ ClosedWithAbort'
  <2>1. CASE connected
    <3>1. src.pc = "awaitResult" /\ toSrc # <<>>
      BY Zenon, <2>1 DEF SourceEnds
    <3>2. ~InSession
      BY Zenon, <2>1, <3>1 DEF SessionInv, ThreadsAgree, Greeting, Serving
    <3>3. Len(toDst') = 0
      BY <1>1, <3>2 DEF SessionInv, NothingUnderWay
    <3> QED BY <1>2, <3>2, <3>3 DEF FramesInTurn, ClosedWithAbort
  <2>2. CASE ~connected
    <3>1. FramesInTurn'
      BY Zenon, <1>1, FramesAlone
    <3> QED BY Zenon, <1>1, <1>2, <2>2, <3>1 DEF SessionInv, ClosedWithAbort
  <2> QED BY <2>1, <2>2
<1> QED BY <1>2, <1>3, <1>4, <1>5 DEF SessionInv

\* A dropped connection: the frames that still arrive are the first ones.
LEMMA DropSession ==
    ASSUME DataInv, SessionInv, Drop
    PROVE  SessionInv'
<1>1. /\ ~connected' /\ toSrc' = <<>> /\ Len(toSrc') = 0 /\ disturbed' = TRUE
      /\ UNCHANGED <<content, dst, outcome, resumed>>
  BY DEF Drop, May
<1>2. PICK n \in 0 .. Len(toDst) : toDst' = SubSeq(toDst, 1, n)
  BY Zenon DEF Drop
<1>3. Len(toDst') = n /\ n \in Nat /\ Len(toDst) \in Nat /\ \A k \in 1 .. n : toDst'[k] = toDst[k]
  BY <1>2, SessionTypes
<1>4. FramesInTurn'
  <2> SUFFICES ASSUME NEW k \in 1 .. n PROVE InTurn(toDst[k], k)'
    BY Zenon, <1>3 DEF FramesInTurn
  <2>1. k \in 1 .. Len(toDst) /\ toDst'[k] = toDst[k] /\ (k = Len(toDst) => k = Len(toDst'))
    BY <1>2, <1>3
  <2>2. InTurn(toDst[k], k)
    BY Zenon, <2>1 DEF SessionInv, FramesInTurn
  <2>3. Due(k)' = Due(k) /\ Taken' = Taken
    BY <1>1 DEF Due, Taken
  <2>4. IntactSource' = IntactSource
    BY Zenon, <1>1 DEF IntactSource
  <2> QED BY Zenon, <1>1, <2>1, <2>2, <2>3, <2>4 DEF InTurn
<1>5. NothingUnderWay'
  <2> SUFFICES ASSUME ~InSession PROVE toDst' = <<>>
    BY Zenon, <1>1 DEF NothingUnderWay, InSession
  <2>1. toDst = <<>>
    BY Zenon DEF SessionInv, NothingUnderWay
  <2> QED BY <1>2, <2>1
<1>6. ThreadsAgree' /\ ClosedWithAbort' /\ FreshAttemptArrives'
  BY Zenon, <1>1 DEF ThreadsAgree, ClosedWithAbort, FreshAttemptArrives
<1>7. BeginIsFirst'
  BY <1>1 DEF BeginIsFirst
<1>8. FromTheStart'
  BY Zenon, <1>1 DEF SessionInv, FromTheStart, IntactSource
<1> QED BY <1>4, <1>5, <1>6, <1>7, <1>8 DEF SessionInv

\* What does not touch the session, and what damages the source's object.
LEMMA SessionAlone ==
    ASSUME SessionInv, UNCHANGED <<src, dst, toDst, toSrc, connected, outcome, resumed, disturbed>>,
           UNCHANGED content \/ ~IntactSource'
    PROVE  SessionInv'
<1>1. IntactSource' => IntactSource
  BY Zenon DEF IntactSource
<1>2. FramesInTurn'
  <2> SUFFICES ASSUME NEW k \in 1 .. Len(toDst) PROVE InTurn(toDst[k], k)'
    BY Zenon DEF FramesInTurn
  <2>1. InTurn(toDst[k], k)
    BY Zenon DEF SessionInv, FramesInTurn
  <2>2. Due(k)' = Due(k) /\ Taken' = Taken
    BY Zenon DEF Due, Taken
  <2> QED BY Zenon, <1>1, <2>1, <2>2 DEF InTurn
<1>3. NothingUnderWay' /\ BeginIsFirst' /\ ClosedWithAbort'
  BY Zenon DEF SessionInv, NothingUnderWay, BeginIsFirst, ClosedWithAbort, InSession
<1>4. ThreadsAgree'
  BY Zenon DEF SessionInv, ThreadsAgree, InSession, Greeting, Serving, Due, Taken
<1>5. FromTheStart'
  BY Zenon, <1>1 DEF SessionInv, FromTheStart
<1>6. FreshAttemptArrives'
  BY Zenon, <1>1 DEF SessionInv, FreshAttemptArrives
<1> QED BY <1>2, <1>3, <1>4, <1>5, <1>6 DEF SessionInv

\* Nothing is under way before the first attempt.
LEMMA InitSession ==
    ASSUME Init
    PROVE  SessionInv
<1>1. /\ dst.pc = "idle" /\ toDst = <<>> /\ toSrc = <<>> /\ Len(toDst) = 0 /\ Len(toSrc) = 0
      /\ connected = FALSE /\ outcome = "none"
  BY DEF Init, IdleDst
<1>2. ~InSession
  BY <1>1 DEF InSession
<1>3. FramesInTurn /\ BeginIsFirst
  BY <1>1 DEF FramesInTurn, BeginIsFirst
<1>4. NothingUnderWay /\ ThreadsAgree /\ ClosedWithAbort
  BY Zenon, <1>1, <1>2 DEF NothingUnderWay, ThreadsAgree, ClosedWithAbort
<1>5. FromTheStart /\ FreshAttemptArrives
  BY <1>1 DEF FromTheStart, FreshAttemptArrives
<1> QED BY <1>3, <1>4, <1>5 DEF SessionInv

\* Every step of the two threads and every disturbance keeps SessionInv.
LEMMA NextSession ==
    ASSUME DataInv, SessionInv, [Next]_vars
    PROVE  SessionInv'
<1>1. CASE Destination
  BY Zenon, <1>1, BeginSession, ConnectSession, BeginAckedSession, TopSession, AppendSession, JournalSession,
     EndedSession, FinishSession DEF Destination
<1>2. CASE Source
  BY Zenon, <1>2, SourceBeginSession, SendChunkSession, SendAbortSession, ChunkAckedSession, SendEndSession,
     SourceEndsSession DEF Source
<1>3. CASE Drop
  BY Zenon, <1>3, DropSession
<1>4. CASE Kill
  <2>1. Ends("failed") /\ disturbed' = TRUE
    BY Zenon, <1>4 DEF Kill
  <2>2. FreshAttemptArrives'
    BY Zenon, <2>1 DEF FreshAttemptArrives
  <2> QED BY Zenon, <2>1, <2>2, SessionOver DEF Ends
<1>5. CASE DamageSource
  <2>1. UNCHANGED <<src, dst, toDst, toSrc, connected, outcome, resumed, disturbed>>
    BY Zenon, <1>5 DEF DamageSource, May
  <2>2. ~IntactSource'
    <3>1. PICK i \in 1 .. ChunkCount : content' = [content EXCEPT ![i] = "bad"]
      BY Zenon, <1>5 DEF DamageSource
    <3>2. DOMAIN content = 1 .. ChunkCount
      BY Zenon DEF DataInv, SourceOK
    <3>3. i \in DOMAIN content' /\ content'[i] = "bad"
      BY <3>1, <3>2
    <3>4. content'[i] # "good"
      BY <3>3
    <3> QED BY Zenon, <3>3, <3>4 DEF IntactSource
  <2> QED BY Zenon, <2>1, <2>2, SessionAlone
<1>6. CASE Cancel \/ RotStaged \/ Finished \/ UNCHANGED vars
  <2>1. UNCHANGED <<content, src, dst, toDst, toSrc, connected, outcome, resumed, disturbed>>
    BY Zenon, <1>6 DEF Cancel, RotStaged, Finished, May, vars
  <2> QED BY Zenon, <2>1, SessionAlone
<1> QED BY Zenon, <1>1, <1>2, <1>3, <1>4, <1>5, <1>6 DEF Next

\* Chunks under way carry consecutive numbers of one window.
LEMMA ChunksOfAWindow ==
    ASSUME DataInv, SessionInv
    PROVE  WindowBounded
<1> SUFFICES ASSUME NEW j \in DOMAIN toDst, NEW k \in DOMAIN toDst,
                    toDst[j].type = "DATA_CHUNK", toDst[k].type = "DATA_CHUNK"
             PROVE  k - j < Window
  BY DEF WindowBounded
<1>1. j \in 1 .. Len(toDst) /\ k \in 1 .. Len(toDst) /\ Len(toDst) \in Nat
  BY SessionTypes
<1>2. InTurn(toDst[j], j) /\ InTurn(toDst[k], k)
  BY Zenon, <1>1 DEF SessionInv, FramesInTurn
<1>3. Due(j) >= 0 /\ Due(k) < Taken + Window
  BY <1>2 DEF InTurn
<1>4. Due(j) >= Taken /\ Due(k) - Due(j) = k - j /\ Due(j) \in Int /\ Due(k) \in Int /\ Taken \in Nat
  <2>1. dst.verified \in Nat /\ j \in Nat \ {0} /\ k \in Nat \ {0}
    BY <1>1, SessionTypes
  <2>2. CASE dst.pc = "awaitBegin"
    <3>1. Due(j) = j - 2 /\ Due(k) = k - 2 /\ Taken = 0
      BY Zenon, <2>2 DEF Due, Taken
    <3> QED BY <1>3, <2>1, <3>1
  <2>3. CASE dst.pc # "awaitBegin"
    BY <2>1, <2>3 DEF Due, Taken
  <2> QED BY <2>2, <2>3
<1>5. Window \in Nat
  BY SessionTypes
<1> QED BY <1>1, <1>3, <1>4, <1>5

\* SessionInv holds in every state.
LEMMA SessionInvariant == Spec => []SessionInv
<1>1. Init => SessionInv
  BY InitSession
<1>2. DataInv /\ SessionInv /\ [Next]_vars => SessionInv'
  BY NextSession
<1> QED BY <1>1, <1>2, DataInvariant, PTL DEF Spec

\* An attempt nothing disturbed, from an intact source, that starts at the first
\* chunk does not fail, for any number of chunks and any window.
THEOREM FreshAttempts == Spec => []FreshAttemptArrives
<1>1. SessionInv => FreshAttemptArrives
  BY DEF SessionInv
<1> QED BY <1>1, SessionInvariant, PTL

\* The chunks under way are less than a window apart (serve_data_connection).
THEOREM WindowHolds == Spec => []WindowBounded
<1>1. DataInv /\ SessionInv => WindowBounded
  BY ChunksOfAWindow
<1> QED BY <1>1, DataInvariant, SessionInvariant, PTL

=============================================================================
