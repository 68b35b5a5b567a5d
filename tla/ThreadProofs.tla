---------------------------- MODULE ThreadProofs ----------------------------
(* Theorems about the parts whose threads share state: an endpoint's object   *)
(* store, whose files no lock guards (ObjectStore), for any number of         *)
(* movements, contents, attempts, publications, queries and faults; the       *)
(* coordinator's registry of endpoints (Membership), for any endpoints,       *)
(* objects and bounds; and the coordinator's threads (CoordinatorThreads),    *)
(* for any number of workers, connections and submissions and any session     *)
(* limit.                                                                     *)
EXTENDS ObjectStore, Membership, CoordinatorThreads, FiniteSetTheorems, TLAPS

-----------------------------------------------------------------------------
(* The authors of the marker are a sequence.                                  *)

\* One more author is recorded.
LEMMA OneMore ==
    ASSUME NEW T, NEW q \in Seq(T), NEW x \in T
    PROVE  /\ Append(q, x) \in Seq(T) /\ Append(q, x) # <<>> /\ Len(Append(q, x)) = Len(q) + 1
           /\ Append(q, x)[Len(q) + 1] = x
           /\ \A k \in 1 .. Len(q) : Append(q, x)[k] = q[k]
OBVIOUS

----------------------------------------------------------------------------
(* The object store: the inductive invariant                                 *)

\* The files, and each thread, by themselves.
FilesOK ==
    /\ authorized \in [Movers -> Movable]
    /\ data \in Maybe(Contents) /\ import \in Maybe(Contents) /\ marker \in Maybe(Markers)
    /\ staging \in [Movers -> Maybe(Contents)] /\ quarantine \subseteq Movers

TransferOK ==
    transfer \in [Movers -> [pc : {"ready", "staged", "cleared", "arrived", "failed"},
                              attempts : 0 .. MaxStagings]]

PublisherOK ==
    publisher \in [pc : {"idle", "hashed", "imported", "cleared", "placed", "checked"},
                    described : Maybe(Contents)]

ReaderOK ==
    reader \in [pc : {"idle", "hashed", "checked", "looked", "read", "unread"},
                movement : Maybe(Movers), present : BOOLEAN, marker : Maybe(Markers)]

RestOK ==
    /\ report \in {"none", "VERSION_NOT_FOUND", "UNREADABLE", "NOT_FOUND", "BYTE_COUNT_MISMATCH",
                   "AUTHORITATIVE"}
    /\ requested \subseteq Movers /\ touched \subseteq {"reader", "publisher"} /\ cut \in BOOLEAN

\* What a thread carries from one file step to the next.
CarriedOK ==
    /\ publisher.pc # "idle" => publisher.described \in Contents
    /\ publisher.pc \in {"imported", "cleared"} => import \in Contents
    /\ reader.pc \in {"hashed", "checked"} => reader.movement \in Movers
    /\ reader.pc = "read" => reader.marker \in Markers /\ marker # Absent

ReaderCommits == reader.pc \in {"hashed", "checked"}
PublisherMarks == publisher.pc \in {"placed", "checked"}

\* The bytes are missed as soon as somebody is about to write a marker for them.
MissingHasCause ==
    data = Absent /\ (marker # Absent \/ ReaderCommits \/ PublisherMarks) => InWindow \/ cut

\* A writer that has looked for a marker has seen none it could read, and only
\* the other writer can have come before it since.
WritersTakeTurns ==
    /\ authors \in Seq(Movers \cup {Absent})
    /\ marker = Absent => authors = <<>>
    /\ publisher.pc = "checked" =>
          authors = <<>> \/ (Len(authors) = 1 /\ authors[1] # Absent)
    /\ reader.pc = "checked" =>
          authors = <<>> \/ (Len(authors) = 1 /\ authors[1] = Absent)

\* Bytes that were hashed are still in place, or whoever hashed them is said to
\* have been overtaken.
HashedIsPlaced ==
    /\ ReaderCommits => data = authorized[reader.movement] \/ "reader" \in touched
    /\ PublisherMarks => data = publisher.described \/ "publisher" \in touched

Shapes == FilesOK /\ TransferOK /\ PublisherOK /\ ReaderOK /\ RestOK /\ CarriedOK

----------------------------------------------------------------------------
(* The shape of the files and threads                                        *)

\* promote_staging keeps the shape of the files.
LEMMA TransferShapes ==
    ASSUME Shapes, NEW m \in Movers, Transfer(m)
    PROVE  Shapes'
<1> USE DEF Shapes
<1>1. PublisherOK' /\ ReaderOK'
  BY ZenonT(40) DEF Transfer, Stage, PromoteAbsent, PromoteClear, PromoteRename, PromoteFails,
     transferFrame, PublisherOK, ReaderOK
<1>2. TransferOK'
  <2>1. CASE Stage(m)
    BY <2>1, ObjectAssumption DEF Stage, TransferOK
  <2>2. ASSUME NEW from, NEW to \in {"cleared", "arrived", "failed"}, At(m, from, to)
        PROVE  TransferOK'
    BY <2>2 DEF At, TransferOK
  <2> QED BY <2>1, <2>2 DEF Transfer, PromoteAbsent, PromoteClear, PromoteRename, PromoteFails
<1>3. /\ data' \in Maybe(Contents) /\ staging' \in [Movers -> Maybe(Contents)]
      /\ touched' \subseteq {"reader", "publisher"} /\ cut' \in BOOLEAN
  <2> USE DEF FilesOK, RestOK, Maybe, Placed, Cleared
  <2>1. CASE Stage(m)
    BY <2>1 DEF Stage, Movable
  <2>2. CASE PromoteAbsent(m)
    BY <2>2 DEF PromoteAbsent
  <2>3. CASE PromoteClear(m)
    BY Zenon, <2>3 DEF PromoteClear
  <2>4. CASE PromoteRename(m)
    BY Zenon, <2>4 DEF PromoteRename
  <2>5. CASE PromoteFails(m)
    BY <2>5 DEF PromoteFails
  <2> QED BY <2>1, <2>2, <2>3, <2>4, <2>5 DEF Transfer
<1>4. UNCHANGED <<authorized, import, marker, quarantine, publisher, reader, requested, report>>
  BY ZenonT(40) DEF Transfer, Stage, PromoteAbsent, PromoteClear, PromoteRename, PromoteFails,
     transferFrame
<1>5. FilesOK' /\ RestOK'
  BY <1>3, <1>4 DEF FilesOK, RestOK, Movable
<1>6. CarriedOK'
  BY Zenon, <1>4 DEF CarriedOK, Markers
<1> QED BY <1>1, <1>2, <1>5, <1>6

\* So do publish_bytes, publish_file and finalize_publication.
LEMMA PublisherShapes ==
    ASSUME Shapes, Publisher
    PROVE  Shapes'
<1> USE DEF Shapes
<1>1. UNCHANGED <<authorized, staging, quarantine, transfer, reader, requested, report>>
  BY Zenon DEF Publisher, PublishBytes, PublishFile, CopyFile, FinalizeClear, FinalizeRename,
     FinalizeFails, FinalizeCheck, FinalizeMark, publisherFrame
<1>2. TransferOK' /\ ReaderOK'
  BY <1>1 DEF TransferOK, ReaderOK
<1>3. PublisherOK' /\ (publisher.pc # "idle" => publisher.described \in Contents)'
  <2> USE DEF PublisherOK, CarriedOK, Maybe, IdlePublisher
  <2>1. ASSUME NEW c \in Contents, PublishBytes(c) \/ PublishFile(c)
        PROVE  PublisherOK' /\ (publisher.pc # "idle" => publisher.described \in Contents)'
    BY <2>1 DEF PublishBytes, PublishFile
  <2>2. ASSUME NEW from, NEW to \in {"idle", "imported", "cleared", "placed", "checked"},
               from # "idle", Publishes(from, to)
        PROVE  PublisherOK' /\ (publisher.pc # "idle" => publisher.described \in Contents)'
    BY <2>2 DEF Publishes
  <2> QED BY <2>1, <2>2 DEF Publisher, CopyFile, FinalizeClear, FinalizeRename, FinalizeFails,
             FinalizeCheck, FinalizeMark
<1> DEFINE FilesStay ==
        /\ data' \in Maybe(Contents) /\ import' \in Maybe(Contents)
        /\ marker' \in Maybe(Markers) /\ (marker # Absent => marker' # Absent)
        /\ touched' \subseteq {"reader", "publisher"} /\ cut' \in BOOLEAN
        /\ (publisher.pc \in {"imported", "cleared"} => import \in Contents)'
<1>4. FilesStay
  <2> USE DEF FilesOK, RestOK, CarriedOK, PublisherOK, Maybe, Cleared, Publishes, historyVars
  <2>1. ASSUME NEW c \in Contents, PublishBytes(c) \/ PublishFile(c) \/ CopyFile(c)
        PROVE  FilesStay
    BY <2>1 DEF PublishBytes, PublishFile, CopyFile
  <2>2. CASE FinalizeClear
    BY <2>2 DEF FinalizeClear
  <2>3. CASE FinalizeRename
    BY Zenon, <2>3 DEF FinalizeRename
  <2>4. CASE FinalizeFails \/ FinalizeCheck
    BY ZenonT(40), <2>4 DEF FinalizeFails, FinalizeCheck
  <2>5. CASE FinalizeMark
    BY <2>5, ObjectAssumption DEF FinalizeMark, WriteMarker, Markers
  <2> QED BY <2>1, <2>2, <2>3, <2>4, <2>5 DEF Publisher
<1>5. FilesOK' /\ RestOK'
  BY <1>1, <1>4 DEF FilesOK, RestOK, Movable
<1>6. CarriedOK'
  BY <1>1, <1>3, <1>4 DEF CarriedOK, Markers
<1> QED BY <1>2, <1>3, <1>5, <1>6

\* So do the control reader's handlers.
LEMMA ReaderShapes ==
    ASSUME Shapes, Reader
    PROVE  Shapes'
<1> USE DEF Shapes
<1>1. UNCHANGED <<authorized, data, import, cut, transfer, publisher>>
  BY Zenon DEF Reader, CommitHash, on_cleanup_request, CommitCheck, CommitMark, AuthorityPresent,
     AuthorityMarker, AuthorityAbsent, AuthoritySize, readerFrame
<1>2. TransferOK' /\ PublisherOK'
  BY <1>1 DEF TransferOK, PublisherOK
<1> DEFINE ReaderStays ==
        /\ ReaderOK'
        /\ marker' \in Maybe(Markers) /\ (marker # Absent => marker' # Absent)
        /\ (reader.pc \in {"hashed", "checked"} => reader.movement \in Movers)'
        /\ (reader.pc = "read" => reader.marker \in Markers /\ marker # Absent)'
        /\ staging' \in [Movers -> Maybe(Contents)] /\ quarantine' \subseteq Movers
        /\ requested' \subseteq Movers /\ touched' \subseteq {"reader", "publisher"}
        /\ report' \in {"none", "VERSION_NOT_FOUND", "UNREADABLE", "NOT_FOUND",
                        "BYTE_COUNT_MISMATCH", "AUTHORITATIVE"}
<1>3. ReaderStays
  <2> USE DEF FilesOK, RestOK, CarriedOK, ReaderOK, Maybe, IdleReader
  <2>1. ASSUME NEW m \in Movers, CommitHash(m)
        PROVE  ReaderStays
    BY Zenon, <2>1 DEF CommitHash
  <2>2. ASSUME NEW m \in Movers, NEW move \in BOOLEAN, on_cleanup_request(m, move)
        PROVE  ReaderStays
    BY Zenon, <2>2 DEF on_cleanup_request, cleanup
  <2>3. CASE CommitCheck
    <3>1. /\ UNCHANGED <<marker, staging, quarantine, requested, report, touched>>
          /\ reader.pc = "hashed"
          /\ reader' = IdleReader \/ reader' = [reader EXCEPT !.pc = "checked"]
      BY Zenon, <2>3 DEF CommitCheck
    <3>2. /\ ReaderOK' /\ reader'.pc \in {"idle", "checked"}
          /\ reader'.pc = "checked" => reader'.movement = reader.movement
      <4>1. CASE reader' = IdleReader
        BY <4>1
      <4>2. CASE reader' = [reader EXCEPT !.pc = "checked"]
        BY <4>2
      <4> QED BY <3>1, <4>1, <4>2
    <3> QED BY Zenon, <3>1, <3>2
  <2>4. CASE CommitMark
    <3>1. authorized[reader.movement] \in Contents
      BY Zenon, <2>4 DEF CommitMark, Movable
    <3>2. /\ marker' = [by |-> reader.movement, content |-> authorized[reader.movement]]
          /\ reader.pc = "checked" /\ reader' = IdleReader
          /\ UNCHANGED <<staging, quarantine, requested, report, touched>> /\ readerFrame
      BY Zenon, <2>4 DEF CommitMark, WriteMarker
    <3>3. reader.movement \in Movers
      BY Zenon, <3>2
    <3>4. marker' \in Markers /\ marker' # Absent
      BY <3>1, <3>2, <3>3, ObjectAssumption DEF Markers
    <3> QED BY <3>2, <3>4
  <2>5. CASE AuthorityPresent
    BY ZenonT(40), <2>5 DEF AuthorityPresent, object_present
  <2>6. CASE AuthorityMarker
    <3>1. UNCHANGED <<marker, staging, quarantine, requested, report, touched>>
      BY Zenon, <2>6 DEF AuthorityMarker
    <3>2. CASE reader' = [reader EXCEPT !.pc = "unread"]
      <4>1. ReaderOK' /\ reader'.pc = "unread"
        BY <3>2
      <4> QED BY <3>1, <4>1
    <3>3. CASE marker # Absent /\ reader' = [reader EXCEPT !.pc = "read", !.marker = marker]
      <4>1. marker \in Markers
        BY <3>3
      <4> QED BY ZenonT(40), <3>1, <3>3, <4>1
    <3> QED BY Zenon, <2>6, <3>2, <3>3 DEF AuthorityMarker, read_commit_marker
  <2>7. CASE AuthorityAbsent
    <3>1. /\ reader' = IdleReader /\ report' \in {"VERSION_NOT_FOUND", "UNREADABLE"}
          /\ UNCHANGED <<marker, staging, quarantine, requested, touched>>
      BY Zenon, <2>7 DEF AuthorityAbsent
    <3>2. ReaderOK' /\ reader'.pc = "idle"
      BY <3>1
    <3> QED BY <3>1, <3>2
  <2>8. CASE AuthoritySize
    BY Zenon, <2>8 DEF AuthoritySize, Verdict
  <2> QED BY Zenon, <2>1, <2>2, <2>3, <2>4, <2>5, <2>6, <2>7, <2>8 DEF Reader
<1>4. FilesOK' /\ RestOK'
  BY <1>1, <1>3 DEF FilesOK, RestOK, Movable
<1>5. CarriedOK'
  BY <1>1, <1>3 DEF CarriedOK, Markers
<1> QED BY <1>2, <1>3, <1>4, <1>5

\* And so does the restart of the process.
LEMMA RestartShapes ==
    ASSUME Shapes, NodeRestart
    PROVE  Shapes'
<1>1. TransferOK'
  <2> SUFFICES ASSUME NEW m \in Movers
               PROVE  transfer'[m] \in [pc : {"ready", "staged", "cleared", "arrived", "failed"},
                                        attempts : 0 .. MaxStagings]
    BY DEF NodeRestart, TransferOK
  <2> QED BY DEF Shapes, NodeRestart, TransferOK
<1>2. FilesOK' /\ RestOK'
  BY DEF Shapes, NodeRestart, FilesOK, RestOK, fileVars, Movable
<1>3. PublisherOK' /\ ReaderOK' /\ CarriedOK'
  BY DEF NodeRestart, PublisherOK, ReaderOK, CarriedOK, IdlePublisher, IdleReader, Maybe
<1> QED BY <1>1, <1>2, <1>3 DEF Shapes

\* authority() goes on to the size or looks again; it writes nothing.
LEMMA AfterTheMarker ==
    ASSUME Shapes, AuthorityPresent \/ AuthorityMarker \/ AuthorityAbsent \/ AuthoritySize
    PROVE  /\ reader'.pc \in {"looked", "read", "unread", "idle"}
           /\ UNCHANGED <<data, cut, marker, authors, transfer, publisher, authorized>>
           /\ UNCHANGED touched
<1>1. /\ UNCHANGED <<data, cut, marker, authors, transfer, publisher, authorized>>
      /\ UNCHANGED touched
  BY Zenon DEF AuthorityPresent, AuthorityMarker, AuthorityAbsent, AuthoritySize, readerFrame
<1>2. \/ reader' = IdleReader
      \/ reader' = [reader EXCEPT !.pc = "unread"]
      \/ reader' = [reader EXCEPT !.pc = "read", !.marker = read_commit_marker]
      \/ reader' = [IdleReader EXCEPT !.pc = "looked", !.present = object_present]
  BY Zenon DEF AuthorityPresent, AuthorityMarker, AuthorityAbsent, AuthoritySize
<1>3. reader \in [pc : {"idle", "hashed", "checked", "looked", "read", "unread"},
                  movement : Maybe(Movers), present : BOOLEAN, marker : Maybe(Markers)]
  BY Zenon DEF Shapes, ReaderOK
<1>4. reader'.pc \in {"looked", "read", "unread", "idle"}
  <2>1. CASE reader' = IdleReader
    BY <2>1 DEF IdleReader
  <2>2. CASE reader' = [reader EXCEPT !.pc = "unread"]
    BY <1>3, <2>2
  <2>3. CASE reader' = [reader EXCEPT !.pc = "read", !.marker = read_commit_marker]
    BY <1>3, <2>3
  <2>4. CASE reader' = [IdleReader EXCEPT !.pc = "looked", !.present = object_present]
    BY <2>4 DEF IdleReader
  <2> QED BY <1>2, <2>1, <2>2, <2>3, <2>4
<1> QED BY <1>1, <1>4

----------------------------------------------------------------------------
(* Missing bytes                                                             *)

\* A replacement opens its window before the bytes go; leaving the window puts
\* bytes in place or is recorded as cut short.
LEMMA MissingKeeps ==
    ASSUME Shapes, MissingHasCause, StoreNext
    PROVE  MissingHasCause'
<1> USE ObjectAssumption
    DEF MissingHasCause, InWindow, ReaderCommits, PublisherMarks
<1>1. ASSUME NEW m \in Movers, Transfer(m)
      PROVE  MissingHasCause'
  <2> USE DEF transferFrame, At
  <2>1. CASE Stage(m) \/ PromoteAbsent(m)
    BY <1>1, <2>1 DEF Stage, PromoteAbsent, Shapes, TransferOK
  <2>2. CASE PromoteClear(m)
    BY <2>2 DEF PromoteClear, Shapes, TransferOK
  <2>3. CASE PromoteRename(m)
    BY <2>3 DEF PromoteRename, Placed
  <2>4. CASE PromoteFails(m)
    BY Zenon, <2>4 DEF PromoteFails
  <2> QED BY Zenon, <1>1, <2>1, <2>2, <2>3, <2>4 DEF Transfer
<1>2. CASE Publisher
  <2> USE DEF publisherFrame, Publishes, historyVars, Shapes, PublisherOK
  <2>1. ASSUME NEW c \in Contents, PublishBytes(c) \/ PublishFile(c) \/ CopyFile(c)
        PROVE  MissingHasCause'
    BY <2>1 DEF PublishBytes, PublishFile, CopyFile
  <2>2. CASE FinalizeClear
    BY <2>2 DEF FinalizeClear
  <2>3. CASE FinalizeRename
    BY <2>3 DEF FinalizeRename, CarriedOK
  <2>4. CASE FinalizeFails
    BY Zenon, <2>4 DEF FinalizeFails
  <2>5. CASE FinalizeCheck \/ FinalizeMark
    BY <2>5 DEF FinalizeCheck, FinalizeMark, WriteMarker
  <2> QED BY Zenon, <1>2, <2>1, <2>2, <2>3, <2>4, <2>5 DEF Publisher
<1>3. CASE Reader
  <2> USE DEF readerFrame, Shapes, ReaderOK, IdleReader
  <2>1. ASSUME NEW m \in Movers, CommitHash(m)
        PROVE  MissingHasCause'
    BY <2>1 DEF CommitHash, digest_object, FilesOK, Movable
  <2>2. ASSUME NEW m \in Movers, NEW move \in BOOLEAN, on_cleanup_request(m, move)
        PROVE  MissingHasCause'
    BY <2>2 DEF on_cleanup_request
  <2>3. CASE CommitCheck \/ CommitMark
    BY <2>3 DEF CommitCheck, CommitMark, WriteMarker
  <2>4. CASE AuthorityPresent \/ AuthorityMarker \/ AuthorityAbsent \/ AuthoritySize
    <3>1. /\ UNCHANGED <<data, cut, marker, transfer, publisher>>
          /\ reader'.pc \notin {"hashed", "checked"}
      BY <2>4, AfterTheMarker
    <3> QED BY ZenonT(40), <3>1
  <2> QED BY ZenonT(40), <1>3, <2>1, <2>2, <2>3, <2>4 DEF Reader
<1>4. CASE NodeRestart
  BY ZenonT(40), <1>4 DEF NodeRestart, IdlePublisher, IdleReader, fileVars
<1> QED BY <1>1, <1>2, <1>3, <1>4 DEF StoreNext

----------------------------------------------------------------------------
(* Who writes the marker                                                     *)

Authorship == WritersTakeTurns /\ MarkerRewrittenOnce

\* A writer goes on to write if it finds no marker, or one that it cannot read.
WritersStay ==
    /\ UNCHANGED authors \/ authors' = <<>>
    /\ publisher'.pc = "checked" => publisher.pc = "checked" \/ marker = Absent \/ authors' = <<>>
    /\ reader'.pc = "checked" => reader.pc = "checked" \/ marker = Absent \/ authors' = <<>>

\* Only these two steps write a marker.
LEMMA Writers ==
    ASSUME Shapes, StoreNext
    PROVE  \/ FinalizeMark \/ CommitMark
           \/ UNCHANGED marker /\ WritersStay
<1> DEFINE Stays == UNCHANGED marker /\ WritersStay
<1> USE DEF WritersStay
<1>1. ASSUME NEW m \in Movers, Transfer(m)
      PROVE  Stays
  BY Zenon, <1>1 DEF Transfer, Stage, PromoteAbsent, PromoteClear, PromoteRename, PromoteFails,
     transferFrame
<1>2. CASE Publisher
  <2> USE DEF Shapes, PublisherOK, publisherFrame, Publishes, historyVars
  <2>1. ASSUME NEW c \in Contents, PublishBytes(c) \/ PublishFile(c) \/ CopyFile(c)
        PROVE  Stays
    BY <2>1 DEF PublishBytes, PublishFile, CopyFile
  <2>2. CASE FinalizeClear \/ FinalizeRename \/ FinalizeFails
    BY <2>2 DEF FinalizeClear, FinalizeRename, FinalizeFails
  <2>3. CASE FinalizeCheck
    BY <2>3 DEF FinalizeCheck, MayWrite, Overlooked
  <2> QED BY <1>2, <2>1, <2>2, <2>3 DEF Publisher
<1>3. CASE Reader
  <2> USE DEF Shapes, ReaderOK, readerFrame, IdleReader
  <2>1. ASSUME NEW m \in Movers, CommitHash(m)
        PROVE  Stays
    BY <2>1 DEF CommitHash
  <2>2. ASSUME NEW m \in Movers, NEW move \in BOOLEAN, on_cleanup_request(m, move)
        PROVE  Stays
    BY <2>2 DEF on_cleanup_request
  <2>3. CASE CommitCheck
    BY <2>3 DEF CommitCheck, MayWrite, Overlooked
  <2>4. CASE AuthorityPresent \/ AuthorityMarker \/ AuthorityAbsent \/ AuthoritySize
    BY <2>4, AfterTheMarker
  <2> QED BY <1>3, <2>1, <2>2, <2>3, <2>4 DEF Reader
<1>4. CASE NodeRestart
  BY <1>4 DEF NodeRestart, fileVars, IdleReader, IdlePublisher
<1> QED BY <1>1, <1>2, <1>3, <1>4 DEF StoreNext

\* The author appended is the first, or the second after the other writer.
LEMMA AuthorshipKeeps ==
    ASSUME Shapes, Authorship, StoreNext
    PROVE  Authorship'
<1> USE ObjectAssumption DEF Authorship, WritersTakeTurns, MarkerRewrittenOnce
<1>1. CASE UNCHANGED marker /\ WritersStay
  <2>1. CASE UNCHANGED authors
    BY ZenonT(40), <1>1, <2>1 DEF WritersStay
  <2>2. CASE authors' = <<>>
    <3>1. Len(authors') = 0 /\ authors' \in Seq(Movers \cup {Absent})
      BY <2>2
    <3> QED BY <1>1, <2>2, <3>1
  <2> QED BY <1>1, <2>1, <2>2 DEF WritersStay
<1>2. CASE FinalizeMark
  <2>1. /\ authors' = Append(authors, Absent) /\ marker' # Absent
        /\ publisher.pc = "checked" /\ publisher'.pc = "idle" /\ reader' = reader
    BY <1>2 DEF FinalizeMark, WriteMarker, Publishes, publisherFrame, Shapes, PublisherOK,
       CarriedOK
  <2>2. CASE authors = <<>>
    <3>1. authors' = <<Absent>>
      BY <2>1, <2>2
    <3> QED BY <2>1, <3>1
  <2>3. CASE Len(authors) = 1 /\ authors[1] # Absent
    <3>1. /\ authors' \in Seq(Movers \cup {Absent}) /\ Len(authors') = 2
          /\ authors'[1] = authors[1] /\ authors'[2] = Absent
      <4> DEFINE S == Movers \cup {Absent}
      <4>1. authors \in Seq(S) /\ Absent \in S
        BY <2>1
      <4> HIDE DEF S
      <4>2. /\ authors' \in Seq(S) /\ Len(authors') = Len(authors) + 1
            /\ \A i \in 1 .. Len(authors) : authors'[i] = authors[i]
            /\ authors'[Len(authors) + 1] = Absent
        BY <2>1, <4>1, OneMore
      <4> QED BY <2>3, <4>2 DEF S
    <3>2. reader'.pc # "checked"
      BY <2>1, <2>3
    <3> QED BY <2>1, <2>3, <3>1, <3>2
  <2> QED BY <2>1, <2>2, <2>3
<1>3. CASE CommitMark
  <2>1. /\ authors' = Append(authors, reader.movement) /\ marker' # Absent
        /\ reader.movement \in Movers
        /\ reader.pc = "checked" /\ reader'.pc = "idle" /\ publisher' = publisher
    <3>1. /\ marker' = [by |-> reader.movement, content |-> authorized[reader.movement]]
          /\ authors' = Append(authors, reader.movement)
          /\ reader.pc = "checked" /\ reader' = IdleReader /\ publisher' = publisher
      BY Zenon, <1>3 DEF CommitMark, WriteMarker, readerFrame
    <3>2. reader.movement \in Movers /\ authorized[reader.movement] \in Contents
      BY Zenon, <3>1 DEF Shapes, CarriedOK, FilesOK, Movable
    <3>3. marker' # Absent
      BY <3>1, <3>2, ObjectAssumption
    <3> QED BY <3>1, <3>2, <3>3 DEF IdleReader
  <2>2. CASE authors = <<>>
    <3>1. authors' = <<reader.movement>>
      BY <2>1, <2>2
    <3> QED BY <2>1, <3>1
  <2>3. CASE Len(authors) = 1 /\ authors[1] = Absent
    <3>1. /\ authors' \in Seq(Movers \cup {Absent}) /\ Len(authors') = 2
          /\ authors'[1] = Absent /\ authors'[2] = reader.movement
      <4> DEFINE S == Movers \cup {Absent}
      <4>1. authors \in Seq(S) /\ reader.movement \in S
        BY <2>1
      <4> HIDE DEF S
      <4>2. /\ authors' \in Seq(S) /\ Len(authors') = Len(authors) + 1
            /\ \A i \in 1 .. Len(authors) : authors'[i] = authors[i]
            /\ authors'[Len(authors) + 1] = reader.movement
        BY <2>1, <4>1, OneMore
      <4> QED BY <2>3, <4>2 DEF S
    <3>2. publisher'.pc # "checked"
      BY <2>1, <2>3
    <3> QED BY <2>1, <2>3, <3>1, <3>2
  <2> QED BY <2>1, <2>2, <2>3
<1> QED BY Zenon, <1>1, <1>2, <1>3, Writers

----------------------------------------------------------------------------
(* What the writers hashed                                                   *)

\* Whoever removes or replaces the file overtakes both writers; hashing it anew
\* or placing it is what makes a writer current again.
LEMMA HashedKeeps ==
    ASSUME Shapes, HashedIsPlaced, StoreNext
    PROVE  HashedIsPlaced'
<1> USE DEF HashedIsPlaced, ReaderCommits, PublisherMarks
<1>1. ASSUME NEW m \in Movers, Transfer(m)
      PROVE  HashedIsPlaced'
  <2> USE DEF transferFrame, Placed, Cleared
  <2>1. CASE Stage(m) \/ PromoteAbsent(m) \/ PromoteFails(m)
    BY Zenon, <2>1 DEF Stage, PromoteAbsent, PromoteFails
  <2>2. CASE PromoteClear(m)
    BY Zenon, <2>2 DEF PromoteClear
  <2>3. CASE PromoteRename(m)
    BY ZenonT(40), <2>3 DEF PromoteRename
  <2> QED BY <1>1, <2>1, <2>2, <2>3 DEF Transfer
<1>2. CASE Publisher
  <2> USE DEF publisherFrame, Publishes, historyVars, Shapes, PublisherOK, Cleared
  <2>1. ASSUME NEW c \in Contents, PublishBytes(c) \/ PublishFile(c) \/ CopyFile(c)
        PROVE  HashedIsPlaced'
    BY <2>1 DEF PublishBytes, PublishFile, CopyFile
  <2>2. CASE FinalizeClear
    BY <2>2 DEF FinalizeClear
  <2>3. CASE FinalizeRename
    BY <2>3 DEF FinalizeRename
  <2>4. CASE FinalizeFails
    BY <2>4 DEF FinalizeFails
  <2>5. CASE FinalizeCheck \/ FinalizeMark
    BY <2>5 DEF FinalizeCheck, FinalizeMark
  <2> QED BY <1>2, <2>1, <2>2, <2>3, <2>4, <2>5 DEF Publisher
<1>3. CASE Reader
  <2> USE DEF readerFrame, Shapes, ReaderOK, IdleReader
  <2>1. ASSUME NEW m \in Movers, CommitHash(m)
        PROVE  HashedIsPlaced'
    BY <2>1 DEF CommitHash, digest_object
  <2>2. ASSUME NEW m \in Movers, NEW move \in BOOLEAN, on_cleanup_request(m, move)
        PROVE  HashedIsPlaced'
    BY Zenon, <2>2 DEF on_cleanup_request
  <2>3. CASE CommitCheck \/ CommitMark
    BY <2>3 DEF CommitCheck, CommitMark
  <2>4. CASE AuthorityPresent \/ AuthorityMarker \/ AuthorityAbsent \/ AuthoritySize
    <3>1. /\ UNCHANGED <<data, publisher, authorized, touched>>
          /\ reader'.pc \notin {"hashed", "checked"}
      BY <2>4, AfterTheMarker
    <3> QED BY ZenonT(40), <3>1
  <2> QED BY Zenon, <1>3, <2>1, <2>2, <2>3, <2>4 DEF Reader
<1>4. CASE NodeRestart
  BY <1>4 DEF NodeRestart, IdlePublisher, IdleReader, fileVars
<1> QED BY <1>1, <1>2, <1>3, <1>4 DEF StoreNext

----------------------------------------------------------------------------

ObjectInv == Shapes /\ MissingHasCause /\ Authorship /\ HashedIsPlaced

\* The invariant of the store's files and the threads that change them.
LEMMA ObjectInvariant == StoreSpec => []ObjectInv
<1>1. StoreInit => ObjectInv
  <2> SUFFICES ASSUME StoreInit PROVE ObjectInv
    OBVIOUS
  <2>1. Shapes
    <3>1. FilesOK
      BY DEF StoreInit, FilesOK, Maybe
    <3>2. TransferOK
      BY ObjectAssumption DEF StoreInit, TransferOK
    <3>3. PublisherOK /\ ReaderOK /\ RestOK
      BY ZenonT(40) DEF StoreInit, PublisherOK, ReaderOK, RestOK, Maybe, IdlePublisher, IdleReader
    <3>4. CarriedOK
      BY DEF StoreInit, CarriedOK, IdlePublisher, IdleReader
    <3> QED BY <3>1, <3>2, <3>3, <3>4 DEF Shapes
  <2>2. MissingHasCause /\ HashedIsPlaced
    BY DEF StoreInit, MissingHasCause, HashedIsPlaced, ReaderCommits, PublisherMarks,
       IdlePublisher, IdleReader
  <2>3. Authorship
    BY DEF StoreInit, Authorship, WritersTakeTurns, MarkerRewrittenOnce, IdlePublisher, IdleReader
  <2> QED BY <2>1, <2>2, <2>3 DEF ObjectInv
<1>2. ObjectInv /\ [StoreNext]_storeVars => ObjectInv'
  <2> SUFFICES ASSUME ObjectInv, [StoreNext]_storeVars PROVE ObjectInv'
    OBVIOUS
  <2>1. CASE UNCHANGED storeVars
    <3>1. Shapes'
      <4>1. Shapes
        BY DEF ObjectInv
      <4>2. FilesOK' /\ TransferOK'
        BY <2>1, <4>1 DEF storeVars, Shapes, FilesOK, TransferOK, Maybe
      <4>3. PublisherOK' /\ ReaderOK'
        BY <2>1, <4>1 DEF storeVars, Shapes, PublisherOK, ReaderOK, Maybe
      <4>4. RestOK' /\ CarriedOK'
        BY Zenon, <2>1, <4>1 DEF storeVars, Shapes, RestOK, CarriedOK
      <4> QED BY <4>2, <4>3, <4>4 DEF Shapes
    <3>2. MissingHasCause' /\ HashedIsPlaced'
      BY Zenon, <2>1 DEF storeVars, ObjectInv, MissingHasCause, HashedIsPlaced, ReaderCommits,
         PublisherMarks, InWindow
    <3>3. Authorship'
      BY <2>1 DEF storeVars, ObjectInv, Authorship, WritersTakeTurns, MarkerRewrittenOnce
    <3> QED BY <3>1, <3>2, <3>3 DEF ObjectInv
  <2>2. CASE StoreNext
    <3>1. Shapes'
      <4>1. Shapes
        BY DEF ObjectInv
      <4>2. CASE \E m \in Movers : Transfer(m)
        BY <4>1, <4>2, TransferShapes
      <4> QED BY <2>2, <4>1, <4>2, PublisherShapes, ReaderShapes, RestartShapes DEF StoreNext
    <3>2. MissingHasCause' /\ Authorship' /\ HashedIsPlaced'
      BY <2>2, MissingKeeps, AuthorshipKeeps, HashedKeeps DEF ObjectInv
    <3> QED BY <3>1, <3>2 DEF ObjectInv
  <2> QED BY <2>1, <2>2
<1> QED BY <1>1, <1>2, PTL DEF StoreSpec

\* A committed version lacks its bytes only inside a replacement's window or
\* after a replacement was cut short (promote_staging, finalize_publication).
THEOREM MissingBytesHaveACause == StoreSpec => []BytesMissingHasCause
<1>1. ObjectInv => BytesMissingHasCause
  BY DEF ObjectInv, MissingHasCause, BytesMissingHasCause
<1> QED BY <1>1, ObjectInvariant, PTL

\* Without a lock, at most one publication and one commit write a version's
\* marker, in either order, between two times a writer finds one it cannot read
\* (write_commit_marker).
THEOREM MarkerWrittenAtMostTwice == StoreSpec => []MarkerRewrittenOnce
<1>1. ObjectInv => MarkerRewrittenOnce
  BY DEF ObjectInv, Authorship
<1> QED BY <1>1, ObjectInvariant, PTL

\* A marker is written over the bytes it describes, unless its writer was
\* overtaken since it hashed or placed them.
THEOREM MarkersAreExact == StoreSpec => MarkerIsExact
<1>1. ObjectInv /\ [StoreNext]_storeVars
        => [marker' # marker
               => \/ data = marker'.content
                  \/ (IF marker'.by = Absent THEN "publisher" ELSE "reader") \in touched]_storeVars
  <2> SUFFICES ASSUME ObjectInv, StoreNext, marker' # marker
               PROVE  \/ data = marker'.content
                      \/ (IF marker'.by = Absent THEN "publisher" ELSE "reader") \in touched
    BY DEF storeVars
  <2>1. CASE FinalizeMark
    <3>1. /\ marker' = [by |-> Absent, content |-> publisher.described]
          /\ publisher.pc = "checked"
      BY <2>1 DEF FinalizeMark, WriteMarker, Publishes
    <3> QED BY <3>1 DEF ObjectInv, HashedIsPlaced, PublisherMarks
  <2>2. CASE CommitMark
    <3>1. /\ marker' = [by |-> reader.movement, content |-> authorized[reader.movement]]
          /\ reader.pc = "checked"
      BY <2>2 DEF CommitMark, WriteMarker
    <3>2. marker'.by # Absent
      BY <3>1, ObjectAssumption DEF ObjectInv, Shapes, CarriedOK
    <3> QED BY <3>1, <3>2 DEF ObjectInv, HashedIsPlaced, ReaderCommits
  <2> QED BY <2>1, <2>2, Writers DEF ObjectInv
<1> QED BY <1>1, ObjectInvariant, PTL DEF StoreSpec, MarkerIsExact

\* authority() vouches for a version only while its marker and bytes of its size
\* are both in the store, the empty object excepted.
THEOREM AuthorityIsTrue == StoreSpec => AuthorityIsHeld
<1>1. ObjectInv /\ [StoreNext]_storeVars
        => [AuthoritySize /\ report' = "AUTHORITATIVE"
               => /\ marker # Absent /\ object_size = Size[reader.marker.content]
                  /\ data # Absent \/ Size[reader.marker.content] = 0]_storeVars
  BY Zenon DEF ObjectInv, Shapes, CarriedOK, AuthoritySize, Verdict, object_size
<1> QED BY <1>1, ObjectInvariant, PTL DEF StoreSpec, AuthorityIsHeld

-----------------------------------------------------------------------------
(* The topology view, the links and the inventory.                           *)

SessionStates == {"none", "open", "registering", "refused", "serving", "over"}

(* The shape of the view, of the sessions and of the processes. *)
MembersTypeOK ==
    /\ process \in [Endpoints -> 0 .. MaxEpoch] /\ started \in [Endpoints -> 0 .. MaxEpoch]
    /\ session \in [Processes -> SessionStates]
    /\ registered \in [Endpoints -> Nat] /\ links \in [Endpoints -> Nat]
    /\ inventory \in [Objects -> Nat] /\ starts \in Nat

(* A process that runs is the newest one of its endpoint, and no session and  *)
(* no registration is of a process that was not started yet.                  *)
EpochsAreStarted ==
    /\ \A e \in Endpoints : process[e] \in {0, started[e]} /\ registered[e] <= started[e]
    /\ \A p \in Processes : session[p] # "none" => p[2] <= started[p[1]]

(* A session that registered its process is of the recorded incarnation or of *)
(* an older one.                                                              *)
RegisteredIsNewest ==
    \A p \in Processes : session[p] \in {"registering", "serving"} => p[2] <= registered[p[1]]

(* Unless overtaken, the session of the recorded incarnation has marked its   *)
(* endpoint live, and once it serves the link leads to it.                    *)
RecordedIsServed ==
    \A p \in Processes :
        p[1] \notin overtaken /\ p[2] = registered[p[1]] =>
            /\ session[p] \in {"registering", "serving"} => p[1] \in live
            /\ session[p] = "serving" => links[p[1]] = p[2]

(* The inductive strengthening of ServedUnlessOvertaken. *)
MembersInv == MembersTypeOK /\ EpochsAreStarted /\ RegisteredIsNewest /\ RecordedIsServed

-----------------------------------------------------------------------------

(* A process is an endpoint and one of its epochs. *)
LEMMA ProcessParts ==
    ASSUME NEW p \in Processes
    PROVE  p[1] \in Endpoints /\ p[2] \in 1 .. MaxEpoch /\ p = <<p[1], p[2]>>
BY DEF Processes

(* A coordinator that has just started, and no endpoint started yet. *)
LEMMA InitMembers == Init => MembersInv
<1> SUFFICES ASSUME Init PROVE MembersInv
    OBVIOUS
<1> USE MembershipAssumptions DEF Init
<1>1. MembersTypeOK
    BY DEF MembersTypeOK, None, NoInventory, SessionStates
<1>2. EpochsAreStarted /\ RegisteredIsNewest /\ RecordedIsServed
    BY ProcessParts DEF EpochsAreStarted, RegisteredIsNewest, RecordedIsServed, None
<1> QED
    BY <1>1, <1>2 DEF MembersInv

(* The start of an endpoint process opens the session of a new epoch, which   *)
(* no registration names yet.                                                 *)
LEMMA EndpointStartKeeps ==
    ASSUME MembersInv, NEW e \in Endpoints, EndpointStart(e)
    PROVE  MembersInv'
<1> USE MembershipAssumptions DEF EndpointStart, viewVars
<1> DEFINE q == <<e, started[e] + 1>>
<1>1. MembersTypeOK /\ EpochsAreStarted /\ RegisteredIsNewest /\ RecordedIsServed
    BY DEF MembersInv
<1>2. q \in Processes /\ started[e] + 1 \in 1 .. MaxEpoch
    BY <1>1 DEF MembersTypeOK, Processes
<1>3. MembersTypeOK'
    BY <1>1, <1>2 DEF MembersTypeOK, SessionStates
<1>4. session'[q] = "open" /\ \A p \in Processes : p # q => session'[p] = session[p]
    BY <1>1, <1>2 DEF MembersTypeOK
<1>5. \A x \in Endpoints : started[x] <= started'[x] /\ started[x] \in Nat /\ started'[x] \in Nat
    BY <1>1 DEF MembersTypeOK
<1>6. started'[e] = started[e] + 1 /\ process'[e] = started[e] + 1
    BY <1>1 DEF MembersTypeOK
<1>7. EpochsAreStarted'
    <2>1. ASSUME NEW x \in Endpoints
          PROVE  process'[x] \in {0, started'[x]} /\ registered[x] <= started'[x]
        BY <1>1, <1>5, <1>6, <2>1 DEF MembersTypeOK, EpochsAreStarted
    <2>2. ASSUME NEW p \in Processes, session'[p] # "none"
          PROVE  p[2] <= started'[p[1]]
        <3>1. CASE p = q
            BY <1>2, <1>5, <1>6, <3>1
        <3>2. CASE p # q
            BY <1>1, <1>4, <1>5, <2>2, <3>2, ProcessParts DEF EpochsAreStarted
        <3> QED
            BY <3>1, <3>2
    <2> QED
        BY <2>1, <2>2 DEF EpochsAreStarted
<1>8. RegisteredIsNewest'
    BY <1>1, <1>4 DEF RegisteredIsNewest
<1>9. RecordedIsServed'
    BY <1>1, <1>4 DEF RecordedIsServed
<1> QED
    BY <1>3, <1>7, <1>8, <1>9 DEF MembersInv

(* The death of a process changes nothing the coordinator knows. *)
LEMMA EndpointDiesKeeps ==
    ASSUME MembersInv, NEW e \in Endpoints, EndpointDies(e)
    PROVE  MembersInv'
<1> USE DEF EndpointDies, viewVars
<1>1. MembersTypeOK /\ EpochsAreStarted /\ RegisteredIsNewest /\ RecordedIsServed
    BY DEF MembersInv
<1>2. MembersTypeOK'
    BY <1>1, MembershipAssumptions DEF MembersTypeOK
<1>3. EpochsAreStarted'
    BY <1>1 DEF MembersTypeOK, EpochsAreStarted
<1>4. RegisteredIsNewest' /\ RecordedIsServed'
    BY <1>1 DEF RegisteredIsNewest, RecordedIsServed
<1> QED
    BY <1>2, <1>3, <1>4 DEF MembersInv

(* put() records the registering process and brings its endpoint to life; an  *)
(* older incarnation cannot get there any more.                               *)
LEMMA RegisterKeeps ==
    ASSUME MembersInv, NEW p \in Processes, Register(p)
    PROVE  MembersInv'
<1> USE DEF Register, Session, put, endpointVars
<1>1. MembersTypeOK /\ EpochsAreStarted /\ RegisteredIsNewest /\ RecordedIsServed
    BY DEF MembersInv
<1>2. p[1] \in Endpoints /\ p[2] \in 1 .. MaxEpoch /\ p = <<p[1], p[2]>>
    BY ProcessParts
<1>3. MembersTypeOK'
    BY <1>1, <1>2, MembershipAssumptions DEF MembersTypeOK, SessionStates
<1>4. session'[p] = "registering" /\ \A q \in Processes : q # p => session'[q] = session[q]
    BY <1>1 DEF MembersTypeOK
<1>5. /\ registered'[p[1]] = p[2] /\ registered[p[1]] <= p[2]
      /\ \A e \in Endpoints : e # p[1] => registered'[e] = registered[e]
      /\ \A e \in Endpoints : registered[e] \in Nat
    BY <1>1, <1>2 DEF MembersTypeOK
<1>6. EpochsAreStarted'
    <2>1. p[2] <= started[p[1]]
        BY <1>1 DEF EpochsAreStarted
    <2> QED
        BY <1>1, <1>2, <1>4, <1>5, <2>1 DEF EpochsAreStarted
<1>7. RegisteredIsNewest'
    <2> SUFFICES ASSUME NEW q \in Processes, session'[q] \in {"registering", "serving"}
                 PROVE  q[2] <= registered'[q[1]]
        BY DEF RegisteredIsNewest
    <2>1. CASE q = p
        BY <1>2, <1>5, <2>1
    <2>2. CASE q # p
        <3>1. q[2] <= registered[q[1]] /\ q[1] \in Endpoints /\ q[2] \in Nat
            BY <1>1, <1>4, <2>2, ProcessParts DEF RegisteredIsNewest
        <3> QED
            BY <1>2, <1>5, <3>1
    <2> QED
        BY <2>1, <2>2
<1>8. RecordedIsServed'
    <2> SUFFICES ASSUME NEW q \in Processes, q[1] \notin overtaken', q[2] = registered'[q[1]]
                 PROVE  /\ session'[q] \in {"registering", "serving"} => q[1] \in live'
                        /\ session'[q] = "serving" => links'[q[1]] = q[2]
        BY DEF RecordedIsServed
    <2>0. q[1] \in Endpoints /\ q = <<q[1], q[2]>>
        BY ProcessParts
    <2>1. CASE q[1] = p[1]
        BY <1>2, <1>4, <1>5, <2>0, <2>1
    <2>2. CASE q[1] # p[1]
        BY Zenon, <1>1, <1>4, <1>5, <2>0, <2>2 DEF RecordedIsServed
    <2> QED
        BY <2>1, <2>2
<1> QED
    BY <1>3, <1>6, <1>7, <1>8 DEF MembersInv

(* A refused registration leaves the view alone, and an announcement has      *)
(* nothing to do with it.                                                     *)
LEMMA RefusedAndAnnounceKeep ==
    ASSUME MembersInv, NEW p \in Processes, RegisterRefused(p) \/ Announce(p)
    PROVE  MembersInv'
<1> USE DEF RegisterRefused, Announce, Session, endpointVars, viewVars
<1>1. MembersTypeOK /\ EpochsAreStarted /\ RegisteredIsNewest /\ RecordedIsServed
    BY DEF MembersInv
<1>2. MembersTypeOK'
    BY <1>1 DEF MembersTypeOK, SessionStates
<1>3. session'[p] # "none" => session[p] # "none"
    BY <1>1 DEF MembersTypeOK
<1>4. session'[p] \in {"registering", "serving"} => session'[p] = session[p]
    BY <1>1 DEF MembersTypeOK
<1>5. \A q \in Processes : q # p => session'[q] = session[q]
    BY <1>1 DEF MembersTypeOK
<1>6. EpochsAreStarted'
    BY <1>1, <1>3, <1>5 DEF EpochsAreStarted
<1>7. RegisteredIsNewest'
    BY <1>1, <1>4, <1>5 DEF RegisteredIsNewest
<1>8. RecordedIsServed'
    BY <1>1, <1>4, <1>5 DEF RecordedIsServed
<1> QED
    BY <1>2, <1>6, <1>7, <1>8 DEF MembersInv

(* The link leads to the process that entered it; when that is not the        *)
(* recorded incarnation, the endpoint is overtaken.                           *)
LEMMA LinkKeeps ==
    ASSUME MembersInv, NEW p \in Processes, Link(p)
    PROVE  MembersInv'
<1> USE DEF Link, Session, endpointVars
<1>1. MembersTypeOK /\ EpochsAreStarted /\ RegisteredIsNewest /\ RecordedIsServed
    BY DEF MembersInv
<1>2. p[1] \in Endpoints /\ p[2] \in 1 .. MaxEpoch /\ p = <<p[1], p[2]>>
    BY ProcessParts
<1>3. MembersTypeOK'
    BY <1>1, <1>2, MembershipAssumptions DEF MembersTypeOK, SessionStates
<1>4. session'[p] = "serving" /\ \A q \in Processes : q # p => session'[q] = session[q]
    BY <1>1 DEF MembersTypeOK
<1>5. links'[p[1]] = p[2] /\ \A e \in Endpoints : e # p[1] => links'[e] = links[e]
    BY <1>1, <1>2 DEF MembersTypeOK
<1>6. EpochsAreStarted' /\ RegisteredIsNewest'
    BY <1>1, <1>4 DEF EpochsAreStarted, RegisteredIsNewest
<1>7. RecordedIsServed'
    <2> SUFFICES ASSUME NEW q \in Processes, q[1] \notin overtaken', q[2] = registered[q[1]]
                 PROVE  /\ session'[q] \in {"registering", "serving"} => q[1] \in live
                        /\ session'[q] = "serving" => links'[q[1]] = q[2]
        BY DEF RecordedIsServed
    <2>0. q[1] \in Endpoints /\ q = <<q[1], q[2]>>
        BY ProcessParts
    <2>1. q[1] \notin overtaken
        BY DEF Overtakes
    <2>2. CASE q[1] = p[1]
        <3>1. q = p
            BY <1>2, <2>0, <2>2 DEF Overtakes
        <3> QED
            BY <1>1, <1>2, <1>5, <2>1, <3>1 DEF RecordedIsServed
    <2>3. CASE q[1] # p[1]
        BY <1>1, <1>4, <1>5, <2>0, <2>1, <2>3 DEF RecordedIsServed
    <2> QED
        BY <2>2, <2>3
<1> QED
    BY <1>3, <1>6, <1>7 DEF MembersInv

(* The end of a session removes only its own link. *)
LEMMA SessionOverKeeps ==
    ASSUME MembersInv, NEW p \in Processes, SessionOver(p)
    PROVE  MembersInv'
<1> USE DEF SessionOver, Session, endpointVars, viewVars
<1>1. MembersTypeOK /\ EpochsAreStarted /\ RegisteredIsNewest /\ RecordedIsServed
    BY DEF MembersInv
<1>2. p[1] \in Endpoints /\ p[2] \in 1 .. MaxEpoch /\ p = <<p[1], p[2]>>
    BY ProcessParts
<1>3. MembersTypeOK'
    BY <1>1, <1>2 DEF MembersTypeOK, SessionStates
<1>4. /\ session'[p] = "over" /\ session[p] # "none"
      /\ \A q \in Processes : q # p => session'[q] = session[q]
    BY <1>1 DEF MembersTypeOK
<1>5. \A e \in Endpoints : e # p[1] \/ links[e] # p[2] => links'[e] = links[e]
    BY <1>1, <1>2 DEF MembersTypeOK
<1>6. EpochsAreStarted' /\ RegisteredIsNewest'
    BY <1>1, <1>4 DEF EpochsAreStarted, RegisteredIsNewest
<1>7. RecordedIsServed'
    <2> SUFFICES ASSUME NEW q \in Processes, q[1] \notin overtaken, q[2] = registered[q[1]]
                 PROVE  /\ session'[q] \in {"registering", "serving"} => q[1] \in live
                        /\ session'[q] = "serving" => links'[q[1]] = q[2]
        BY DEF RecordedIsServed
    <2>1. CASE q = p
        BY <1>4, <2>1
    <2>2. CASE q # p
        <3>1. q[1] \in Endpoints /\ (q[1] # p[1] \/ q[2] # p[2])
            BY <1>2, <2>2, ProcessParts
        <3>2. /\ session[q] \in {"registering", "serving"} => q[1] \in live
              /\ session[q] = "serving" => links[q[1]] = q[2]
            BY Zenon, <1>1 DEF RecordedIsServed
        <3> QED
            BY <1>4, <1>5, <2>2, <3>1, <3>2
    <2> QED
        BY <2>1, <2>2
<1> QED
    BY <1>3, <1>6, <1>7 DEF MembersInv

(* mark_dead() by the recorded incarnation's own session is the truth; by any *)
(* other session it overtakes the recorded one.                               *)
LEMMA MarkDeadKeeps ==
    ASSUME MembersInv, NEW p \in Processes, MarkDead(p)
    PROVE  MembersInv'
<1> USE DEF MarkDead, Session, endpointVars
<1>1. MembersTypeOK /\ EpochsAreStarted /\ RegisteredIsNewest /\ RecordedIsServed
    BY DEF MembersInv
<1>2. p[1] \in Endpoints /\ p[2] \in 1 .. MaxEpoch /\ p = <<p[1], p[2]>>
    BY ProcessParts
<1>3. MembersTypeOK'
    BY <1>1 DEF MembersTypeOK, SessionStates
<1>4. session'[p] = "none" /\ \A q \in Processes : q # p => session'[q] = session[q]
    BY <1>1 DEF MembersTypeOK
<1>5. EpochsAreStarted' /\ RegisteredIsNewest'
    BY <1>1, <1>4 DEF EpochsAreStarted, RegisteredIsNewest
<1>6. RecordedIsServed'
    <2> SUFFICES ASSUME NEW q \in Processes, q[1] \notin overtaken', q[2] = registered[q[1]]
                 PROVE  /\ session'[q] \in {"registering", "serving"} => q[1] \in live'
                        /\ session'[q] = "serving" => links[q[1]] = q[2]
        BY DEF RecordedIsServed
    <2>0. q[1] \in Endpoints /\ q = <<q[1], q[2]>>
        BY ProcessParts
    <2>1. CASE q[1] = p[1]
        <3>1. q = p
            BY <1>2, <2>0, <2>1 DEF Overtakes
        <3> QED
            BY <1>4, <3>1
    <2>2. CASE q[1] # p[1]
        <3>1. q[1] \notin overtaken
            BY DEF Overtakes
        <3> QED
            BY <1>1, <1>4, <2>0, <2>2, <3>1 DEF RecordedIsServed
    <2> QED
        BY <2>1, <2>2
<1> QED
    BY <1>3, <1>5, <1>6 DEF MembersInv

(* A coordinator that starts again knows nobody. *)
LEMMA RestartKeeps ==
    ASSUME MembersInv, Restart
    PROVE  MembersInv'
<1> USE DEF Restart, endpointVars
<1>1. MembersTypeOK /\ EpochsAreStarted
    BY DEF MembersInv
<1>2. MembersTypeOK'
    BY <1>1 DEF MembersTypeOK, SessionStates, None, NoInventory
<1>3. EpochsAreStarted'
    BY <1>1, MembershipAssumptions DEF MembersTypeOK, EpochsAreStarted, None
<1>4. RegisteredIsNewest' /\ RecordedIsServed'
    BY DEF RegisteredIsNewest, RecordedIsServed
<1> QED
    BY <1>2, <1>3, <1>4 DEF MembersInv

(* The inductive invariant holds in every reachable state. *)
THEOREM MembersInvariant == Spec => []MembersInv
<1>1. Init => MembersInv
    BY InitMembers
<1>2. MembersInv /\ [Next]_vars => MembersInv'
    <2> SUFFICES ASSUME MembersInv, [Next]_vars PROVE MembersInv'
        OBVIOUS
    <2>1. ASSUME NEW e \in Endpoints, EndpointStart(e) \/ EndpointDies(e) PROVE MembersInv'
        BY <2>1, EndpointStartKeeps, EndpointDiesKeeps
    <2>2. ASSUME NEW p \in Processes, Thread(p) PROVE MembersInv'
        BY <2>2, RegisterKeeps, RefusedAndAnnounceKeep, LinkKeeps, MarkDeadKeeps DEF Thread
    <2>3. ASSUME NEW p \in Processes, Announce(p) \/ SessionOver(p) PROVE MembersInv'
        BY <2>3, RefusedAndAnnounceKeep, SessionOverKeeps
    <2>4. CASE Restart
        BY <2>4, RestartKeeps
    <2>5. CASE UNCHANGED vars
        BY Zenon, <2>5 DEF vars, MembersInv, MembersTypeOK, EpochsAreStarted, RegisteredIsNewest,
                    RecordedIsServed
    <2> QED
        BY <2>1, <2>2, <2>3, <2>4, <2>5 DEF Next
<1> QED
    BY <1>1, <1>2, PTL DEF Spec

(* A running process that is served is marked live and its link leads to it,  *)
(* unless an older session of its endpoint overtook it: in whatever order the *)
(* session threads of session_loop and handle_endpoint_message interleave, for *)
(* any number of endpoints, incarnations and coordinator restarts.            *)
THEOREM ServedIsReachable == Spec => []ServedUnlessOvertaken
<1>1. MembersInv => ServedUnlessOvertaken
    <2> SUFFICES ASSUME MembersInv, NEW e \in Endpoints \ overtaken,
                        process[e] # 0, session[<<e, process[e]>>] = "serving"
                 PROVE  e \in live /\ links[e] = process[e]
        BY DEF ServedUnlessOvertaken
    <2> DEFINE p == <<e, process[e]>>
    <2>1. MembersTypeOK /\ EpochsAreStarted /\ RegisteredIsNewest /\ RecordedIsServed
        BY DEF MembersInv
    <2>2. p \in Processes
        BY <2>1 DEF MembersTypeOK, Processes
    <2>3. process[e] <= registered[e]
        BY <2>1, <2>2 DEF RegisteredIsNewest
    <2>4. process[e] = registered[e]
        BY <2>1, <2>3 DEF MembersTypeOK, EpochsAreStarted
    <2> QED
        BY Zenon, <2>1, <2>2, <2>4 DEF RecordedIsServed
<1> QED
    BY <1>1, MembersInvariant, PTL

(* LinkHasSession, with the process a link leads to. *)
LinksLead ==
    \A e \in Endpoints : links[e] # 0 =>
        <<e, links[e]>> \in Processes /\ session[<<e, links[e]>>] = "serving"

(* A step that leaves the links alone and no serving session keeps them. *)
LEMMA ServingKeepsLinks ==
    ASSUME LinksLead, links' = links,
           \A p \in Processes : session[p] = "serving" => session'[p] = "serving"
    PROVE  LinksLead'
BY Zenon DEF LinksLead, Processes

(* A session enters its link when it begins to serve, and erases it in the    *)
(* step in which it is over; the sessions of other processes keep theirs.     *)
LEMMA LinksKeep ==
    ASSUME MembersInv, LinksLead, [Next]_vars
    PROVE  LinksLead'
<1> USE DEF endpointVars, viewVars
<1>1. session \in [Processes -> SessionStates] /\ links \in [Endpoints -> Nat]
    BY DEF MembersInv, MembersTypeOK
<1>2. ASSUME NEW e \in Endpoints, EndpointStart(e) PROVE LinksLead'
    <2> DEFINE q == <<e, started[e] + 1>>
    <2>1. links' = links /\ session' = [session EXCEPT ![q] = "open"]
        BY Zenon, <1>2 DEF EndpointStart
    <2>2. ASSUME q \in Processes PROVE session[q] # "serving"
        <3>1. session[q] # "none" => q[2] <= started[q[1]]
            BY Zenon, <2>2 DEF MembersInv, EpochsAreStarted
        <3>2. q[1] = e /\ q[2] = started[e] + 1 /\ started[e] \in Nat
            BY MembershipAssumptions DEF MembersInv, MembersTypeOK
        <3> HIDE DEF q
        <3>3. session[q] # "none" => FALSE
            BY <3>1, <3>2
        <3> QED BY <3>3
    <2> HIDE DEF q
    <2>3. \A p \in Processes : session[p] = "serving" => session'[p] = "serving"
        BY Zenon, <1>1, <2>1, <2>2
    <2> QED BY <2>1, <2>3, ServingKeepsLinks
<1>3. ASSUME NEW e \in Endpoints, EndpointDies(e) PROVE LinksLead'
    BY Zenon, <1>3 DEF EndpointDies, LinksLead
<1>4. ASSUME NEW p \in Processes, NEW from \in SessionStates \ {"serving"}, NEW to,
             links' = links, Session(p, from, to)
      PROVE  LinksLead'
    <2>1. \A q \in Processes : session[q] = "serving" => session'[q] = "serving"
        BY Zenon, <1>1, <1>4 DEF Session
    <2> QED BY <1>4, <2>1, ServingKeepsLinks
<1>5. ASSUME NEW p \in Processes, Register(p) \/ RegisterRefused(p) \/ MarkDead(p) PROVE LinksLead'
    <2>1. links' = links
        BY Zenon, <1>5 DEF Register, RegisterRefused, MarkDead
    <2>2. \E from \in {"open", "over"}, to \in SessionStates : Session(p, from, to)
        BY Zenon, <1>5 DEF Register, RegisterRefused, MarkDead, SessionStates
    <2>3. {"open", "over"} \subseteq SessionStates \ {"serving"}
        BY DEF SessionStates
    <2> QED BY Zenon, <1>4, <2>1, <2>2, <2>3
<1>6. ASSUME NEW p \in Processes, Link(p) PROVE LinksLead'
    <2>1. /\ session' = [session EXCEPT ![p] = "serving"]
          /\ links' = [links EXCEPT ![p[1]] = p[2]]
        BY Zenon, <1>6 DEF Link, Session
    <2>2. p[1] \in Endpoints /\ p = <<p[1], p[2]>>
        BY ProcessParts
    <2> SUFFICES ASSUME NEW e \in Endpoints, links'[e] # 0
                 PROVE  <<e, links'[e]>> \in Processes /\ session'[<<e, links'[e]>>] = "serving"
        BY Zenon DEF LinksLead
    <2>3. CASE e = p[1]
        BY Zenon, <1>1, <2>1, <2>2, <2>3
    <2>4. CASE e # p[1]
        <3>1. links'[e] = links[e]
            BY Zenon, <1>1, <2>1, <2>2, <2>4
        <3>2. <<e, links[e]>> # p
            BY <2>2, <2>4
        <3>3. <<e, links[e]>> \in Processes /\ session[<<e, links[e]>>] = "serving"
            BY Zenon, <3>1 DEF LinksLead
        <3> QED BY Zenon, <1>1, <2>1, <3>1, <3>2, <3>3
    <2> QED BY <2>3, <2>4
<1>7. ASSUME NEW p \in Processes, SessionOver(p) PROVE LinksLead'
    <2>1. /\ session' = [session EXCEPT ![p] = "over"]
          /\ links' = IF links[p[1]] = p[2] THEN [links EXCEPT ![p[1]] = 0] ELSE links
        BY Zenon, <1>7 DEF SessionOver, Session
    <2>2. p[1] \in Endpoints /\ p = <<p[1], p[2]>>
        BY ProcessParts
    <2> SUFFICES ASSUME NEW e \in Endpoints, links'[e] # 0
                 PROVE  <<e, links'[e]>> \in Processes /\ session'[<<e, links'[e]>>] = "serving"
        BY Zenon DEF LinksLead
    <2>3. links'[e] = links[e] /\ (e # p[1] \/ links[e] # p[2])
        BY Zenon, <1>1, <2>1, <2>2
    <2>4. <<e, links[e]>> \in Processes /\ session[<<e, links[e]>>] = "serving"
        BY Zenon, <2>3 DEF LinksLead
    <2>5. <<e, links[e]>> # p
        <3>1. CASE e # p[1]
            BY <2>2, <3>1
        <3>2. CASE links[e] # p[2]
            BY <2>2, <3>2
        <3> QED BY <2>3, <3>1, <3>2
    <2> QED BY Zenon, <1>1, <2>1, <2>3, <2>4, <2>5
<1>8. ASSUME NEW p \in Processes, Announce(p) PROVE LinksLead'
    BY Zenon, <1>8 DEF Announce, LinksLead
<1>9. CASE Restart
    BY <1>9 DEF Restart, None, LinksLead
<1>10. CASE UNCHANGED vars
    BY Zenon, <1>10 DEF vars, LinksLead
<1> QED
    BY Zenon, <1>2, <1>3, <1>5, <1>6, <1>7, <1>8, <1>9, <1>10 DEF Next, Thread

(* No link outlives its session, whichever of an endpoint's sessions entered  *)
(* it last: the thread that still reads from it will erase it (session_loop,  *)
(* handle_endpoint_message).                                                  *)
THEOREM LinksHaveSessions == Spec => []LinkHasSession
<1>1. Init => LinksLead
    BY DEF Init, None, LinksLead
<1>2. LinksLead => LinkHasSession
    BY Zenon DEF LinksLead, LinkHasSession
<1> QED
    BY <1>1, <1>2, LinksKeep, MembersInvariant, PTL DEF Spec

-----------------------------------------------------------------------------
(* The accept loops, the sessions, the workers and stop().                   *)

ConnStates == {"offered", "accepted", "serving", "enqueue", "notify", "ended"}
Served == {"serving", "enqueue", "notify"}
WorkerStates == {"evaluate", "deciding", "blocked", "popped", "drive", "notify", "exited"}
StopPhases == {"running", "signalled", "closed", "joining", "accepted", "drained", "stopped"}

ThreadsTypeOK ==
    /\ worker \in [Workers -> WorkerStates]
    /\ accepting \in [Acceptors -> {"poll", "admit", "exited"}]
    /\ conn \in [Conns -> ConnStates]
    /\ active \in Int /\ stopper \in StopPhases /\ store_ \in BOOLEAN

(* stop() joins in order: past each join the joined threads have returned,    *)
(* and the store goes with the last phase only.  One connection at most is    *)
(* between accept and admission, and only while its accept loop is.           *)
JoinedInOrder ==
    /\ store_ = (stopper # "stopped")
    /\ stopper \in {"accepted", "drained", "stopped"} => \A a \in Acceptors : accepting[a] = "exited"
    /\ stopper \in {"drained", "stopped"} => \A w \in Workers : worker[w] = "exited"
    /\ stopper = "stopped" => \A c \in Conns : conn[c] \notin Served
    /\ \A a \in Acceptors : \A c \in Offered(a) : conn[c] = "accepted" =>
         accepting[a] = "admit" /\ \A d \in Offered(a) : conn[d] = "accepted" => d = c

(* The accept loops that have decided to admit and not counted yet. *)
Admitting(a) == IF accepting[a] = "admit" THEN 1 ELSE 0

(* The count is exact, and an accept loop admits only below the limit: with   *)
(* the decisions not yet counted, active_sessions_ passes it by at most one.  *)
SessionsCounted ==
    /\ active = Cardinality(Serving)
    /\ active + Admitting("endpoint") + Admitting("admin") <= max_sessions + 1

(* No worker that has returned runs again. *)
ReturnedStay == \A w \in Workers : worker[w] = "exited" => worker'[w] = "exited"

(* The inductive strengthening of StoreReleasedLast and SessionsAlmostBounded. *)
ThreadsInv == ThreadsTypeOK /\ JoinedInOrder /\ SessionsCounted

-----------------------------------------------------------------------------

(* The connections being served are finitely many. *)
LEMMA ServingIsFinite == IsFiniteSet(Serving) /\ Cardinality(Serving) \in Nat
<1>1. Serving \subseteq Conns /\ IsFiniteSet(Conns)
    BY ThreadsAssumptions DEF Serving
<1> QED
    BY <1>1, FS_Subset, FS_CardinalityType

(* A session that starts is one more, ... *)
LEMMA OneMoreServed ==
    ASSUME NEW c \in Conns, conn[c] \notin Served, conn'[c] \in Served,
           \A d \in Conns \ {c} : conn'[d] = conn[d]
    PROVE  Cardinality(Serving') = Cardinality(Serving) + 1
<1>1. Serving' = Serving \cup {c} /\ c \notin Serving
    BY DEF Serving, Served
<1> QED
    BY Zenon, <1>1, ServingIsFinite, FS_AddElement

(* ... one that ends is one less, ... *)
LEMMA OneLessServed ==
    ASSUME NEW c \in Conns, conn[c] \in Served, conn'[c] \notin Served,
           \A d \in Conns \ {c} : conn'[d] = conn[d]
    PROVE  Cardinality(Serving') = Cardinality(Serving) - 1
<1>1. Serving' = Serving \ {c} /\ c \in Serving
    BY DEF Serving, Served
<1> QED
    BY Zenon, <1>1, ServingIsFinite, FS_RemoveElement

(* ... and one that only goes on is still the same. *)
LEMMA SameServed ==
    ASSUME \A d \in Conns : (conn'[d] \in Served) = (conn[d] \in Served)
    PROVE  Serving' = Serving
BY DEF Serving, Served

(* Every connection is offered to one of the two listeners. *)
LEMMA OfferedConns ==
    /\ \A a \in Acceptors : Offered(a) \subseteq Conns
    /\ \A c \in Conns : \E a \in Acceptors : c \in Offered(a)
    /\ \A a, b \in Acceptors : a # b => Offered(a) \cap Offered(b) = {}
BY ThreadsAssumptions DEF Acceptors, Offered, Conns

-----------------------------------------------------------------------------

(* The process has just started its threads. *)
LEMMA InitThreads == ThreadsInit => ThreadsInv
<1> SUFFICES ASSUME ThreadsInit PROVE ThreadsInv
    OBVIOUS
<1> USE DEF ThreadsInit
<1>1. ThreadsTypeOK
    BY DEF ThreadsTypeOK, WorkerStates, ConnStates, StopPhases
<1>2. JoinedInOrder
    BY Zenon, OfferedConns DEF JoinedInOrder
<1>3. Serving = {}
    BY DEF Serving
<1>4. Cardinality(Serving) = 0
    BY <1>3, FS_EmptySet
<1>5. SessionsCounted
    BY <1>4, ThreadsAssumptions DEF SessionsCounted, Admitting, Acceptors
<1> QED
    BY <1>1, <1>2, <1>5 DEF ThreadsInv

(* What the pool does, under the mutex or not, leaves the sessions alone, and *)
(* no worker that has returned starts again.                                  *)
LEMMA PoolKeeps ==
    ASSUME ThreadsInv, (\E w \in Workers : Worker(w)) \/ SpuriousWakeup \/ WaitForIdle
    PROVE  ThreadsInv'
<1> USE DEF ThreadsInv, sessionVars, stopVars
<1>0. UNCHANGED <<accepting, conn, active, stopper, store_>>
    BY DEF Worker, Evaluate, Block, StartDrive, EndDrive, NotifyIdle, SpuriousWakeup, WaitForIdle
<1>1. worker' \in [Workers -> WorkerStates] /\ ReturnedStay
    <2> USE DEF ReturnedStay, WorkerStates
    <2>1. ASSUME NEW w \in Workers, Worker(w)
          PROVE  worker' \in [Workers -> WorkerStates] /\ ReturnedStay
        BY Zenon, <2>1 DEF Worker, Evaluate, Block, StartDrive, EndDrive, NotifyIdle, ThreadsTypeOK
    <2>2. CASE SpuriousWakeup
        BY <2>2 DEF SpuriousWakeup, Woken, Blocked, ThreadsTypeOK
    <2>3. CASE WaitForIdle
        BY <2>3 DEF WaitForIdle, ThreadsTypeOK
    <2> QED
        BY <2>1, <2>2, <2>3
<1>2. ThreadsTypeOK'
    BY <1>0, <1>1 DEF ThreadsTypeOK
<1>3. JoinedInOrder'
    BY <1>0, <1>1 DEF JoinedInOrder, ReturnedStay
<1>4. SessionsCounted'
    BY <1>0 DEF SessionsCounted, Serving, Admitting
<1> QED
    BY Zenon, <1>2, <1>3, <1>4

(* accept_loop: a connection is refused, or decided on below the limit, ...   *)
LEMMA AcceptKeeps ==
    ASSUME ThreadsInv, NEW a \in Acceptors, Accept(a)
    PROVE  ThreadsInv'
<1> USE DEF Accept, poolVars, stopVars
<1>1. ThreadsTypeOK /\ JoinedInOrder /\ SessionsCounted
    BY DEF ThreadsInv
<1>2. PICK c \in Offered(a) :
        /\ conn[c] = "offered"
        /\ IF active >= max_sessions
           THEN conn' = [conn EXCEPT ![c] = "ended"] /\ UNCHANGED accepting
           ELSE /\ accepting' = [accepting EXCEPT ![a] = "admit"]
                /\ conn' = [conn EXCEPT ![c] = "accepted"]
    OBVIOUS
<1>3. c \in Conns
    BY OfferedConns
<1>4. ThreadsTypeOK'
    BY <1>1, <1>2, <1>3 DEF ThreadsTypeOK, ConnStates
<1>5. conn'[c] \in {"ended", "accepted"} /\ \A d \in Conns \ {c} : conn'[d] = conn[d]
    BY <1>1, <1>2, <1>3 DEF ThreadsTypeOK
<1>6. Serving' = Serving
    <2>1. \A d \in Conns : (conn'[d] \in Served) = (conn[d] \in Served)
        <3>1. conn[c] \notin Served /\ conn'[c] \notin Served
            BY Zenon, <1>2, <1>5 DEF Served
        <3> HIDE DEF Accept
        <3> QED BY <1>5, <3>1
    <2> QED
        BY <2>1, SameServed
<1>7. JoinedInOrder'
    <2>1. stopper \in {"running", "signalled"} /\ UNCHANGED <<stopper, store_, worker>>
        OBVIOUS
    <2>2. ASSUME NEW b \in Acceptors, NEW d \in Offered(b), conn'[d] = "accepted"
          PROVE  accepting'[b] = "admit" /\ \A x \in Offered(b) : conn'[x] = "accepted" => x = d
        <3>1. CASE d = c
            <4>1. a = b /\ accepting'[a] = "admit"
                BY Zenon, <1>1, <1>2, <2>2, <3>1, <1>3, OfferedConns DEF ThreadsTypeOK, ConnStates
            <4>2. \A x \in Offered(a) : x # c => conn'[x] = conn[x] /\ conn[x] # "accepted"
                BY <1>1, <1>5, OfferedConns DEF JoinedInOrder
            <4> QED
                BY <3>1, <4>1, <4>2
        <3>2. CASE d # c
            <4>1. conn[d] = "accepted" /\ accepting[b] = "admit"
                BY <1>1, <1>5, <2>2, <3>2, OfferedConns DEF JoinedInOrder
            <4>2. b # a /\ c \notin Offered(b)
                BY <4>1, OfferedConns
            <4>3. \A x \in Offered(b) : conn'[x] = conn[x]
                BY <1>5, <4>2, OfferedConns
            <4>4. accepting'[b] = accepting[b]
                BY <1>1, <1>2, <4>2 DEF ThreadsTypeOK
            <4> QED
                BY <1>1, <4>1, <4>3, <4>4 DEF JoinedInOrder
        <3> QED
            BY <3>1, <3>2
    <2> QED
        BY <1>1, <2>1, <2>2 DEF JoinedInOrder
<1>8. SessionsCounted'
    <2>1. active = Cardinality(Serving')
        BY <1>1, <1>6 DEF SessionsCounted
    <2>2. CASE active >= max_sessions
        BY <1>1, <1>2, <2>1, <2>2 DEF SessionsCounted, Admitting
    <2>3. CASE ~(active >= max_sessions)
        <3>1. active + 1 <= max_sessions /\ active \in Int /\ max_sessions \in Int
            BY <1>1, <2>3, ThreadsAssumptions DEF ThreadsTypeOK
        <3>2. Admitting("endpoint")' \in 0 .. 1 /\ Admitting("admin")' \in 0 .. 1
            BY DEF Admitting
        <3> QED
            BY <2>1, <3>1, <3>2 DEF SessionsCounted
    <2> QED
        BY <2>2, <2>3
<1> QED
    BY <1>4, <1>7, <1>8 DEF ThreadsInv

(* ... and counted when its session thread is started. *)
LEMMA AdmitKeeps ==
    ASSUME ThreadsInv, NEW a \in Acceptors, Admit(a)
    PROVE  ThreadsInv'
<1> USE DEF Admit, poolVars, stopVars
<1>1. ThreadsTypeOK /\ JoinedInOrder /\ SessionsCounted
    BY DEF ThreadsInv
<1>2. PICK c \in Offered(a) : conn[c] = "accepted" /\ conn' = [conn EXCEPT ![c] = "serving"]
    OBVIOUS
<1>3. c \in Conns
    BY ZenonT(40), OfferedConns
<1>4. ThreadsTypeOK'
    BY <1>1, <1>2, <1>3 DEF ThreadsTypeOK, ConnStates
<1>5. conn'[c] = "serving" /\ \A d \in Conns \ {c} : conn'[d] = conn[d]
    BY <1>1, <1>2, <1>3 DEF ThreadsTypeOK
<1>6. Cardinality(Serving') = Cardinality(Serving) + 1
    <2>1. conn[c] \notin Served /\ conn'[c] \in Served
        BY Zenon, <1>2, <1>5 DEF Served
    <2> QED
        BY <1>3, <1>5, <2>1, OneMoreServed
<1>7. JoinedInOrder'
    <2>1. stopper \notin {"accepted", "drained", "stopped"} /\ UNCHANGED <<stopper, store_, worker>>
        BY <1>1 DEF JoinedInOrder
    <2>2. ASSUME NEW b \in Acceptors, NEW d \in Offered(b), conn'[d] = "accepted"
          PROVE  accepting'[b] = "admit" /\ \A x \in Offered(b) : conn'[x] = "accepted" => x = d
        <3>1. d # c /\ conn[d] = "accepted"
            BY <1>5, <2>2, OfferedConns
        <3>2. a # b
            BY <1>1, <1>2, <3>1 DEF JoinedInOrder
        <3>3. \A x \in Offered(b) : conn'[x] = conn[x]
            BY <1>5, <3>2, OfferedConns
        <3>4. accepting'[b] = accepting[b]
            BY Zenon, <1>1, <3>2 DEF ThreadsTypeOK
        <3> QED
            BY <1>1, <3>1, <3>3, <3>4 DEF JoinedInOrder
    <2> QED
        BY <1>1, <2>1, <2>2 DEF JoinedInOrder
<1>8. SessionsCounted'
    <2>1. Admitting(a) = 1 /\ Admitting(a)' = 0 /\ \A b \in Acceptors \ {a} : Admitting(b)' = Admitting(b)
        BY <1>1 DEF ThreadsTypeOK, Admitting
    <2>2. \A b \in Acceptors : Admitting(b) \in Int
        BY DEF Admitting
    <2> QED
        BY <1>1, <1>6, <2>1, <2>2, ThreadsAssumptions
        DEF SessionsCounted, ThreadsTypeOK, Acceptors
<1> QED
    BY <1>4, <1>7, <1>8 DEF ThreadsInv

(* An accept loop ends between two connections. *)
LEMMA AcceptLoopEndsKeeps ==
    ASSUME ThreadsInv, NEW a \in Acceptors, AcceptLoopEnds(a)
    PROVE  ThreadsInv'
<1> USE DEF AcceptLoopEnds, poolVars, stopVars
<1>1. ThreadsTypeOK /\ JoinedInOrder /\ SessionsCounted
    BY DEF ThreadsInv
<1>2. ThreadsTypeOK'
    BY <1>1 DEF ThreadsTypeOK
<1>3. accepting'[a] = "exited" /\ \A b \in Acceptors \ {a} : accepting'[b] = accepting[b]
    BY <1>1 DEF ThreadsTypeOK
<1>4. JoinedInOrder'
    BY <1>1, <1>3 DEF JoinedInOrder
<1>5. Serving' = Serving
    BY DEF Serving
<1>6. \A b \in Acceptors : Admitting(b)' = Admitting(b)
    BY <1>3 DEF Admitting
<1>7. SessionsCounted'
    BY <1>1, <1>5, <1>6 DEF SessionsCounted, Acceptors
<1> QED
    BY <1>2, <1>4, <1>7 DEF ThreadsInv

(* What a session does between its start and its end: it is served all along, *)
(* and a worker it wakes was blocked, not gone.                               *)
LEMMA SessionWorks ==
    ASSUME ThreadsInv, NEW c \in Conns, RegisterLink(c) \/ Submit(c) \/ Push(c) \/ NotifyOne(c)
    PROVE  ThreadsInv'
<1> USE DEF poolVars, stopVars
<1>1. ThreadsTypeOK /\ JoinedInOrder /\ SessionsCounted
    BY Zenon DEF ThreadsInv
<1>2. UNCHANGED <<accepting, active, stopper, store_>>
    BY DEF RegisterLink, Submit, Push, NotifyOne
<1>3. worker' \in [Workers -> WorkerStates] /\ ReturnedStay
    <2>1. CASE worker' = worker
        BY <1>1, <2>1 DEF ThreadsTypeOK, ReturnedStay
    <2>2. CASE \E w \in Blocked : worker' = Woken({w})
        BY Zenon, <1>1, <2>2 DEF ThreadsTypeOK, ReturnedStay, WorkerStates, Woken, Blocked
    <2> QED
        BY Zenon, <2>1, <2>2 DEF RegisterLink, Submit, Push, NotifyOne
<1>4. /\ conn' \in [Conns -> ConnStates]
      /\ conn[c] \in Served /\ conn'[c] \in Served
      /\ \A d \in Conns \ {c} : conn'[d] = conn[d]
    BY <1>1 DEF ThreadsTypeOK, ConnStates, Served, RegisterLink, Submit, Push, NotifyOne
<1>5. ThreadsTypeOK'
    BY <1>1, <1>2, <1>3, <1>4 DEF ThreadsTypeOK
<1>6. Serving' = Serving
    BY <1>4, SameServed
<1>7. \A d \in Conns : (conn'[d] = "accepted") = (conn[d] = "accepted")
    BY Zenon, <1>4 DEF Served
<1>8. JoinedInOrder'
    BY <1>1, <1>2, <1>3, <1>4, <1>7, OfferedConns DEF JoinedInOrder, ReturnedStay
<1>9. SessionsCounted'
    BY <1>1, <1>2, <1>6 DEF SessionsCounted, Admitting
<1> QED
    BY <1>5, <1>8, <1>9 DEF ThreadsInv

(* A session that ends is no longer counted. *)
LEMMA SessionEndsKeeps ==
    ASSUME ThreadsInv, NEW c \in Conns, SessionEnds(c)
    PROVE  ThreadsInv'
<1> USE DEF SessionEnds, poolVars, stopVars
<1>1. ThreadsTypeOK /\ JoinedInOrder /\ SessionsCounted
    BY DEF ThreadsInv
<1>2. ThreadsTypeOK'
    BY <1>1 DEF ThreadsTypeOK, ConnStates
<1>3. conn'[c] = "ended" /\ \A d \in Conns \ {c} : conn'[d] = conn[d]
    BY <1>1 DEF ThreadsTypeOK
<1>4. Cardinality(Serving') = Cardinality(Serving) - 1
    <2>1. conn[c] \in Served /\ conn'[c] \notin Served
        BY Zenon, <1>3 DEF Served
    <2> QED
        BY <1>3, <2>1, OneLessServed
<1>5. JoinedInOrder'
    BY <1>1, <1>3, OfferedConns DEF JoinedInOrder, Served
<1>6. SessionsCounted'
    <2>1. Admitting("endpoint") \in Int /\ Admitting("admin") \in Int
        BY DEF Admitting
    <2>2. Admitting("endpoint")' = Admitting("endpoint") /\ Admitting("admin")' = Admitting("admin")
        BY DEF Admitting
    <2> QED
        BY <1>1, <1>4, <2>1, <2>2, ThreadsAssumptions DEF SessionsCounted, ThreadsTypeOK
<1> QED
    BY <1>2, <1>5, <1>6 DEF ThreadsInv

(* request_shutdown and stop: each phase begins when the one before it is     *)
(* over, and what was joined stays so.                                        *)
LEMMA StopKeeps ==
    ASSUME ThreadsInv, Signal \/ Stopper
    PROVE  ThreadsInv'
<1> USE DEF Stopper, StopStep, poolVars, sessionVars
<1>1. ThreadsTypeOK /\ JoinedInOrder /\ SessionsCounted
    BY Zenon DEF ThreadsInv
<1>2. UNCHANGED <<accepting, conn, active>>
    BY Zenon DEF Signal, CloseListeners, NotifyAll, JoinAcceptors, JoinWorkers, Release
<1>3. worker' \in [Workers -> WorkerStates] /\ ReturnedStay
    <2>1. CASE worker' = worker
        BY <1>1, <2>1 DEF ThreadsTypeOK, ReturnedStay
    <2>2. CASE worker' = Woken(Blocked)
        BY <1>1, <2>2 DEF ThreadsTypeOK, ReturnedStay, WorkerStates, Woken, Blocked
    <2> QED
        BY <2>1, <2>2 DEF Signal, CloseListeners, NotifyAll, JoinAcceptors, JoinWorkers, Release
<1>4. ThreadsTypeOK'
    BY ZenonT(40), <1>1, <1>2, <1>3
    DEF ThreadsTypeOK, StopPhases, Signal, CloseListeners, NotifyAll, JoinAcceptors, JoinWorkers, Release
<1>5. SessionsCounted'
    BY <1>1, <1>2 DEF SessionsCounted, Serving, Admitting
<1>6. JoinedInOrder'
    <2>1. CASE Signal \/ CloseListeners \/ NotifyAll
        BY Zenon, <1>1, <1>2, <2>1 DEF JoinedInOrder, Signal, CloseListeners, NotifyAll
    <2>2. CASE JoinAcceptors
        BY Zenon, <1>1, <1>2, <2>2 DEF JoinedInOrder, JoinAcceptors
    <2>3. CASE JoinWorkers
        BY <1>1, <1>2, <2>3 DEF JoinedInOrder, JoinWorkers
    <2>4. CASE Release
        BY ZenonT(40), <1>1, <1>2, <2>4 DEF JoinedInOrder, Release, Served
    <2> QED
        BY <2>1, <2>2, <2>3, <2>4
<1> QED
    BY <1>4, <1>5, <1>6 DEF ThreadsInv

(* The inductive invariant holds in every reachable state. *)
THEOREM ThreadsInvariant == ThreadsSpec => []ThreadsInv
<1>1. ThreadsInit => ThreadsInv
    BY InitThreads
<1>2. ThreadsInv /\ [ThreadsNext]_threadsVars => ThreadsInv'
    <2> SUFFICES ASSUME ThreadsInv, [ThreadsNext]_threadsVars PROVE ThreadsInv'
        OBVIOUS
    <2>1. CASE (\E w \in Workers : Worker(w)) \/ SpuriousWakeup \/ WaitForIdle
        BY <2>1, PoolKeeps
    <2>2. ASSUME NEW a \in Acceptors, Accept(a) \/ Admit(a) \/ AcceptLoopEnds(a) PROVE ThreadsInv'
        BY <2>2, AcceptKeeps, AdmitKeeps, AcceptLoopEndsKeeps
    <2>3. ASSUME NEW c \in Conns, SessionLoop(c) PROVE ThreadsInv'
        BY <2>3, SessionWorks, SessionEndsKeeps DEF SessionLoop
    <2>4. CASE Signal \/ Stopper
        BY <2>4, StopKeeps
    <2>5. CASE UNCHANGED threadsVars
        BY Zenon, <2>5 DEF threadsVars, ThreadsInv, ThreadsTypeOK, JoinedInOrder, SessionsCounted, Serving, Admitting
    <2> QED
        BY <2>1, <2>2, <2>3, <2>4, <2>5 DEF ThreadsNext
<1> QED
    BY <1>1, <1>2, PTL DEF ThreadsSpec

(* stop() releases the store, and with it the directory lock, only when no    *)
(* worker, no session and no accept loop that could start one is left, for    *)
(* any number of them and wherever the stop falls in what they do.            *)
THEOREM StoreIsReleasedLast == ThreadsSpec => []StoreReleasedLast
<1>1. ThreadsInv => StoreReleasedLast
    <2> SUFFICES ASSUME ThreadsInv, ~store_
                 PROVE  /\ Serving = {} /\ \A w \in Workers : worker[w] = "exited"
                        /\ \A c \in Conns : conn[c] # "accepted"
        BY DEF StoreReleasedLast
    <2>1. JoinedInOrder /\ stopper = "stopped"
        BY Zenon DEF ThreadsInv, JoinedInOrder
    <2>2. Serving = {}
        BY <2>1 DEF JoinedInOrder, Serving, Served
    <2>3. \A w \in Workers : worker[w] = "exited"
        BY <2>1 DEF JoinedInOrder
    <2>4. \A c \in Conns : conn[c] # "accepted"
        BY <2>1, OfferedConns DEF JoinedInOrder
    <2> QED
        BY <2>2, <2>3, <2>4
<1> QED
    BY <1>1, ThreadsInvariant, PTL

(* active_sessions_ is exactly the number of sessions being served, and the   *)
(* two accept loops together overshoot max_sessions by one at most.           *)
THEOREM SessionsStayBounded == ThreadsSpec => []SessionsAlmostBounded
<1>1. ThreadsInv => SessionsAlmostBounded
    <2> SUFFICES ASSUME ThreadsInv PROVE SessionsAlmostBounded
        OBVIOUS
    <2>1. Admitting("endpoint") \in Nat /\ Admitting("admin") \in Nat
        BY DEF Admitting
    <2> QED
        BY <2>1, ThreadsAssumptions
        DEF ThreadsInv, SessionsCounted, ThreadsTypeOK, SessionsAlmostBounded
<1> QED
    BY <1>1, ThreadsInvariant, PTL

=============================================================================
