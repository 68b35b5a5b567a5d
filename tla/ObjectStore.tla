---------------------------- MODULE ObjectStore ----------------------------
(* The files an endpoint's object store keeps for one object version, and the *)
(* threads that work on them without a lock: the detached transfer threads    *)
(* that promote staged bytes, the main thread that publishes, and the control *)
(* reader that answers COMMIT_REQUEST, AUTHORITY_QUERY and CLEANUP_REQUEST    *)
(* one at a time.  An action is one call into the file system.                *)
(*                                                                            *)
(* A digest is the content it was computed from.  How bytes come to staging   *)
(* is DataPlane's subject; cancellation flags and grants are MovementFabric's *)
(* and ControlLink's.                                                         *)
EXTENDS Naturals, Sequences

CONSTANTS
    Movers,           \* movements of this version towards this endpoint
    Contents,         \* the contents that go by this name and generation
    Size,             \* the byte count of each content
    Absent,           \* no file, or no movement
    Faults,           \* what may happen: "crash", "io", "edit", "cleanup", "read"
    MaxStagings,      \* bound: attempts of one movement
    MaxPublications,  \* bound: publications in one behaviour
    MaxQueries,       \* bound: authority queries in one behaviour
    MaxFaults         \* bound: faults and cleanups in one behaviour

ASSUME ObjectAssumption ==
    /\ Size \in [Contents -> Nat] /\ Absent \notin Contents \cup Movers
    /\ Absent \notin [by : Movers \cup {Absent}, content : Contents]
    /\ {MaxStagings, MaxPublications, MaxQueries, MaxFaults} \subseteq Nat

VARIABLES
    authorized,   \* the content each movement is authorized to place
    data,         \* durable: objects/<id>/<generation>/data
    import,       \* durable: data.import beside it
    marker,       \* durable: commits/<id>/<generation>.marker, [by, content]
    staging,      \* durable: staging/<movement>/data.part
    quarantine,   \* durable: the movements with residue in quarantine/
    transfer,     \* the transfer thread of each movement: [pc, attempts]
    publisher,    \* the publishing thread: [pc, described]
    reader,       \* the control reader: [pc, movement, present, marker]
    requested,    \* the movements whose COMMIT_REQUEST was sent
    report,       \* the code of the last authority report
    authors,      \* history: who wrote a marker since a writer could not read one, in order
    touched,      \* history: who hashed other bytes than the ones in place now
    cut,          \* history: the bytes are gone because a replacement was cut short
    publications, queries, faults

storeVars == <<authorized, data, import, marker, staging, quarantine, transfer, publisher, reader,
              requested, report, authors, touched, cut, publications, queries, faults>>
fileVars == <<data, import, marker, staging, quarantine>>
historyVars == <<authors, touched, cut>>
budgets == <<publications, queries, faults>>

IdleReader == [pc |-> "idle", movement |-> Absent, present |-> FALSE, marker |-> Absent]
IdlePublisher == [pc |-> "idle", described |-> Absent]

(* An empty object can be published; a grant for one is never signed. *)
Movable == {c \in Contents : Size[c] > 0}

StoreInit ==
    /\ authorized \in [Movers -> Movable]
    /\ data = Absent /\ import = Absent /\ marker = Absent
    /\ staging = [m \in Movers |-> Absent] /\ quarantine = {}
    /\ transfer = [m \in Movers |-> [pc |-> "ready", attempts |-> 0]]
    /\ publisher = IdlePublisher /\ reader = IdleReader
    /\ requested = {} /\ report = "none"
    /\ authors = <<>> /\ touched = {} /\ cut = FALSE
    /\ publications = 0 /\ queries = 0 /\ faults = 0

Happens(what) == what \in Faults /\ faults < MaxFaults /\ faults' = faults + 1

(* The object file is removed or replaced under whoever looked at it. *)
Placed(c) == data' = c /\ touched' = {"reader", "publisher"} /\ cut' = FALSE
Cleared == data' = Absent /\ touched' = {"reader", "publisher"} /\ UNCHANGED cut

object_present == data # Absent

(* The digest of the file as it is opened: one that is replaced meanwhile is  *)
(* still read to its end.                                                     *)
digest_object == data

(* Markers are replaced atomically; what keeps one from being opened, read or  *)
(* decoded is a "read" fault.                                                  *)
read_commit_marker == marker

object_size == IF data = Absent THEN 0 ELSE Size[data]

-----------------------------------------------------------------------------
(* A transfer thread.                                                        *)

transferFrame == UNCHANGED <<authorized, import, marker, quarantine, publisher, reader, requested, report,
                             authors, publications, queries>>

At(m, from, to) == transfer[m].pc = from /\ transfer' = [transfer EXCEPT ![m].pc = to]

(* An attempt has staged every byte and found the authorized digest.  A       *)
(* movement that was asked to commit is not attempted again.                  *)
Stage(m) ==
    /\ transfer[m].pc \in {"ready", "arrived", "failed"} /\ m \notin requested
    /\ transfer[m].attempts < MaxStagings
    /\ transfer' = [transfer EXCEPT ![m] = [pc |-> "staged", attempts |-> @.attempts + 1]]
    /\ staging' = [staging EXCEPT ![m] = authorized[m]]
    /\ UNCHANGED <<data, touched, cut, faults>> /\ transferFrame

(* promote_staging: without staged bytes there is nothing to do, ... *)
PromoteAbsent(m) ==
    /\ staging[m] = Absent /\ At(m, "staged", "failed")
    /\ UNCHANGED <<data, staging, touched, cut, faults>> /\ transferFrame

(* ... else a previous object file is removed, ... *)
PromoteClear(m) ==
    /\ staging[m] # Absent /\ At(m, "staged", "cleared")
    /\ IF object_present THEN Cleared ELSE UNCHANGED <<data, touched, cut>>
    /\ UNCHANGED <<staging, faults>> /\ transferFrame

PromoteRename_Discards(m) ==   \* mutant: the staging directory goes before the rename
    /\ At(m, "cleared", "failed")
    /\ staging' = [staging EXCEPT ![m] = Absent]
    /\ UNCHANGED <<data, touched, cut, faults>> /\ transferFrame

(* ... and the staged file takes its place, after which its directory goes.   *)
PromoteRename(m) ==
    /\ staging[m] # Absent /\ At(m, "cleared", "arrived")
    /\ Placed(staging[m])
    /\ staging' = [staging EXCEPT ![m] = Absent]
    /\ UNCHANGED faults /\ transferFrame

(* The rename fails, for its own reasons or because a cleanup took the file. *)
PromoteFails(m) ==
    /\ At(m, "cleared", "failed")
    /\ IF staging[m] = Absent THEN UNCHANGED faults ELSE Happens("io")
    /\ cut' = (data = Absent)
    /\ UNCHANGED <<data, staging, touched>> /\ transferFrame

Transfer(m) ==
    Stage(m) \/ PromoteAbsent(m) \/ PromoteClear(m) \/ PromoteRename(m) \/ PromoteFails(m)

-----------------------------------------------------------------------------
(* write_commit_marker, by the publishing thread or by the control reader.   *)
(* A marker names a fresh movement id or a movement that is asked once, so an *)
(* existing marker is never the one being written.                            *)

MayWrite_Always == TRUE   \* mutant: an existing marker is not looked for

MayWrite == marker = Absent

(* A marker that cannot be opened, read or decoded, or whose path exists()    *)
(* cannot examine, does not stand in the way of another.                      *)
Overlooked == marker # Absent /\ Happens("read") /\ authors' = <<>>

WriteMarker(by, c) ==
    /\ marker' = [by |-> by, content |-> c]
    /\ authors' = Append(authors, by)

-----------------------------------------------------------------------------
(* The publishing thread.                                                    *)

publisherFrame == UNCHANGED <<authorized, staging, quarantine, transfer, reader, requested, report, queries>>

Publishes(from, to) == publisher.pc = from /\ publisher' = [publisher EXCEPT !.pc = to]

(* publish_bytes writes what it hashed to data.import; publish_file has       *)
(* hashed the file and will read it again.                                    *)
PublishBytes(c) ==
    /\ publisher.pc = "idle" /\ publications < MaxPublications
    /\ publications' = publications + 1
    /\ publisher' = [pc |-> "imported", described |-> c]
    /\ import' = c
    /\ UNCHANGED <<data, marker, historyVars, faults>> /\ publisherFrame

PublishFile(c) ==
    /\ publisher.pc = "idle" /\ publications < MaxPublications
    /\ publications' = publications + 1
    /\ publisher' = [pc |-> "hashed", described |-> c]
    /\ UNCHANGED <<data, import, marker, historyVars, faults>> /\ publisherFrame

(* copy_file: a file that changed in between is copied as it is now. *)
CopyFile(c) ==
    /\ Publishes("hashed", "imported") /\ import' = c
    /\ IF c = publisher.described THEN UNCHANGED faults ELSE Happens("edit")
    /\ UNCHANGED <<data, marker, historyVars, publications>> /\ publisherFrame

(* finalize_publication: the target is removed, whatever it was, ... *)
FinalizeClear ==
    /\ Publishes("imported", "cleared")
    /\ Cleared
    /\ UNCHANGED <<import, marker, authors, publications, faults>> /\ publisherFrame

(* ... and replaced by the import, or not at all, ... *)
FinalizeRename ==
    /\ Publishes("cleared", "placed")
    /\ data' = import /\ import' = Absent /\ cut' = FALSE
    /\ touched' = {"reader"} \cup (IF import = publisher.described THEN {} ELSE {"publisher"})
    /\ UNCHANGED <<marker, authors, publications, faults>> /\ publisherFrame

FinalizeFails ==
    /\ Publishes("cleared", "idle") /\ Happens("io")
    /\ cut' = (data = Absent)
    /\ UNCHANGED <<data, import, marker, authors, touched, publications>> /\ publisherFrame

(* ... before anything is asked about a marker: a version that is committed   *)
(* fails the publication here, with the new bytes in place.                   *)
FinalizeCheck ==
    /\ \/ Publishes("placed", IF MayWrite THEN "checked" ELSE "idle") /\ UNCHANGED <<authors, faults>>
       \/ Publishes("placed", "checked") /\ Overlooked
    /\ UNCHANGED <<data, import, marker, touched, cut, publications>> /\ publisherFrame

FinalizeMark ==
    /\ Publishes("checked", "idle")
    /\ WriteMarker(Absent, publisher.described)
    /\ UNCHANGED <<data, import, touched, cut, publications, faults>> /\ publisherFrame

Publisher ==
    \/ \E c \in Contents : PublishBytes(c) \/ PublishFile(c) \/ CopyFile(c)
    \/ FinalizeClear \/ FinalizeRename \/ FinalizeFails \/ FinalizeCheck \/ FinalizeMark

-----------------------------------------------------------------------------
(* The control reader.                                                       *)

readerFrame == UNCHANGED <<authorized, data, import, cut, transfer, publisher, publications>>

CommitHash_Present(m) ==   \* mutant: bytes in place are committed unhashed
    /\ reader.pc = "idle" /\ transfer[m].pc = "arrived" /\ m \notin requested
    /\ requested' = requested \cup {m}
    /\ touched' = touched \ {"reader"}
    /\ reader' = IF object_present THEN [IdleReader EXCEPT !.pc = "hashed", !.movement = m] ELSE reader
    /\ UNCHANGED <<marker, staging, quarantine, report, authors, queries, faults>> /\ readerFrame

(* on_commit_request, for a movement whose bytes were reported to have        *)
(* arrived: bytes that are missing or hash to something else are refused.     *)
CommitHash(m) ==
    /\ reader.pc = "idle" /\ transfer[m].pc = "arrived" /\ m \notin requested
    /\ requested' = requested \cup {m}
    /\ touched' = touched \ {"reader"}
    /\ reader' = IF digest_object = authorized[m] THEN [IdleReader EXCEPT !.pc = "hashed", !.movement = m] ELSE reader
    /\ UNCHANGED <<marker, staging, quarantine, report, authors, queries, faults>> /\ readerFrame

CommitCheck ==
    /\ reader.pc = "hashed"
    /\ \/ /\ reader' = IF MayWrite THEN [reader EXCEPT !.pc = "checked"] ELSE IdleReader
          /\ UNCHANGED <<authors, faults>>
       \/ reader' = [reader EXCEPT !.pc = "checked"] /\ Overlooked
    /\ UNCHANGED <<marker, staging, quarantine, requested, report, touched, queries>> /\ readerFrame

CommitMark ==
    /\ reader.pc = "checked"
    /\ WriteMarker(reader.movement, authorized[reader.movement])
    /\ reader' = IdleReader
    /\ UNCHANGED <<staging, quarantine, requested, report, touched, queries, faults>> /\ readerFrame

(* ObjectStore::authority: are there bytes, ... *)
AuthorityPresent ==
    /\ reader.pc = "idle" /\ queries < MaxQueries /\ queries' = queries + 1
    /\ reader' = [IdleReader EXCEPT !.pc = "looked", !.present = object_present]
    /\ UNCHANGED <<marker, staging, quarantine, requested, report, authors, touched, faults>>
    /\ readerFrame

(* ... can a marker be read, ... *)
AuthorityMarker ==
    /\ reader.pc = "looked"
    /\ \/ /\ read_commit_marker # Absent /\ UNCHANGED faults
          /\ reader' = [reader EXCEPT !.pc = "read", !.marker = read_commit_marker]
       \/ /\ IF read_commit_marker = Absent THEN UNCHANGED faults ELSE Happens("read")
          /\ reader' = [reader EXCEPT !.pc = "unread"]
    /\ UNCHANGED <<marker, staging, quarantine, requested, report, authors, touched, queries>>
    /\ readerFrame

(* ... if it cannot, is one there by now (commit_marker_present takes a path  *)
(* it cannot examine for one that does not exist), ...                        *)
AuthorityAbsent ==
    /\ reader.pc = "unread" /\ reader' = IdleReader
    /\ \/ /\ report' = IF marker = Absent THEN "VERSION_NOT_FOUND" ELSE "UNREADABLE"
          /\ UNCHANGED faults
       \/ marker # Absent /\ Happens("read") /\ report' = "VERSION_NOT_FOUND"
    /\ UNCHANGED <<marker, staging, quarantine, requested, authors, touched, queries>>
    /\ readerFrame

Verdict_NoSize == IF reader.present THEN "AUTHORITATIVE" ELSE "NOT_FOUND"   \* mutant: sizes are not compared

(* ... and if it can, is the size the marker's: a file that is gone by now    *)
(* has size 0.                                                                *)
Verdict ==
    IF ~reader.present THEN "NOT_FOUND"
    ELSE IF object_size # Size[reader.marker.content] THEN "BYTE_COUNT_MISMATCH"
    ELSE "AUTHORITATIVE"

AuthoritySize ==
    /\ reader.pc = "read"
    /\ reader' = IdleReader /\ report' = Verdict
    /\ UNCHANGED <<marker, staging, quarantine, requested, authors, touched, queries, faults>>
    /\ readerFrame

(* The movement's staging directory is removed or moved to quarantine.  The   *)
(* move fails when an earlier one left something there.                       *)
cleanup(m, move) ==
    /\ staging' = IF move /\ m \in quarantine THEN staging ELSE [staging EXCEPT ![m] = Absent]
    /\ quarantine' = IF move /\ staging[m] # Absent THEN quarantine \cup {m} ELSE quarantine

(* Even under a transfer that is about to promote the directory. *)
on_cleanup_request(m, move) ==
    /\ reader.pc = "idle" /\ Happens("cleanup")
    /\ cleanup(m, move)
    /\ UNCHANGED <<reader, marker, requested, report, authors, touched, queries>> /\ readerFrame

Reader ==
    \/ \E m \in Movers : CommitHash(m) \/ \E move \in BOOLEAN : on_cleanup_request(m, move)
    \/ CommitCheck \/ CommitMark \/ AuthorityPresent \/ AuthorityMarker \/ AuthorityAbsent
    \/ AuthoritySize

-----------------------------------------------------------------------------
InWindow == (\E m \in Movers : transfer[m].pc = "cleared") \/ publisher.pc = "cleared"

(* The process dies and is started again: open() keeps every file as it is.   *)
(* The coordinator takes a lost attempt for failed.                           *)
NodeRestart ==
    /\ Happens("crash")
    /\ cut' = (cut \/ (data = Absent /\ InWindow))
    /\ transfer' = [m \in Movers |-> [transfer[m] EXCEPT
                       !.pc = IF @ \in {"staged", "cleared"} THEN "failed" ELSE @]]
    /\ publisher' = IdlePublisher /\ reader' = IdleReader
    /\ UNCHANGED <<authorized, fileVars, requested, report, authors, touched, publications, queries>>

StoreNext == (\E m \in Movers : Transfer(m)) \/ Publisher \/ Reader \/ NodeRestart

StoreSpec == StoreInit /\ [][StoreNext]_storeVars

-----------------------------------------------------------------------------
Maybe(S) == S \cup {Absent}
Markers == [by : Maybe(Movers), content : Contents]

(* A committed version lacks its bytes only while somebody replaces them, or  *)
(* when a replacement was cut short between removing the old file and         *)
(* renaming the new one: by the end of the process, an I/O error, or a        *)
(* cleanup of the staging directory (promote_staging, finalize_publication).  *)
BytesMissingHasCause == marker # Absent /\ data = Absent => InWindow \/ cut

(* A marker is written at most twice: every writer looks for an existing one  *)
(* before it writes, and only a publication and a commit can look at the same *)
(* time (write_commit_marker holds no lock, but all commits run on one        *)
(* thread).  A writer that cannot read the existing marker replaces it, and   *)
(* the count starts over.                                                     *)
MarkerRewrittenOnce ==
    /\ Len(authors) <= 2
    /\ Len(authors) = 2 => (authors[1] = Absent) # (authors[2] = Absent)

(* A marker is written over exactly the bytes it describes, by a commit or by *)
(* a publication, unless somebody replaced them after they were hashed        *)
(* (on_commit_request) or placed (finalize_publication), or the published     *)
(* file changed between the two times publish_file reads it.                  *)
MarkerIsExact ==
    [][marker' # marker
           => \/ data = marker'.content
              \/ (IF marker'.by = Absent THEN "publisher" ELSE "reader") \in touched]_storeVars

(* A report of authority is true when it is made: the marker and bytes of its *)
(* size are in the store together, although authority() looks at the bytes,   *)
(* the marker and the size in three steps.  The exception is a marker of an   *)
(* empty object, whose size a missing file also has.                          *)
AuthorityIsHeld ==
    [][AuthoritySize /\ report' = "AUTHORITATIVE"
           => /\ marker # Absent /\ object_size = Size[reader.marker.content]
              /\ data # Absent \/ Size[reader.marker.content] = 0]_storeVars
=============================================================================
