# TLA+ models and proofs for State-Movement-Fabric

The fabric moves a versioned state object from a source endpoint to a destination
endpoint under the control of a coordinator, and promises that a movement's recorded
outcome is true whatever crashes, disconnects or is cancelled meanwhile. This directory
models the protocol and the components it rests on, checks them with TLC on small
instances, and proves the central facts with TLAPS for every instance.

## The system

| Part | Source | State | What changes it |
|---|---|---|---|
| Movement record and state machine | `movement.cpp` | state, fencing generation, attempts | `apply_transition`, `record_attempt_started` |
| Coordinator engine | `coordinator.cpp` | records, pending keys, links | `submit`, `drive_movement`, `verify_destination`, `cancel`, `reconcile`, `recover_after_restart` |
| Coordinator threads | `coordinator.cpp` | queue, worker and session counts, `stopping_` | accept loops, sessions, `worker_loop`, `stop` |
| Membership | `coordinator.cpp`, `topology.cpp` | topology view, `links_`, `inventory_` | registration, announcement, end of a session, restart |
| Endpoint, control side | `endpoint_agent.cpp` | grants, cancellation flags, transfer thread | `on_grant`, `on_execute`, `on_cancel`, `on_verify_request`, `on_commit_request`, `on_authority_query` |
| Endpoint, data side | `endpoint_agent.cpp` | window counters of both ends | `serve_data_connection`, `run_transfer` |
| Object store | `object_store.cpp` | staging bytes and journal, objects, commit markers | `StagingWriter`, `promote_staging`, `publish`, `write_commit_marker`, `cleanup` |
| Movement store | `movement_store.cpp` | append-only log, index | `put`, `enforce_retention`, `compact`, `open` |
| Wire, framing, sessions, transport | `wire.cpp`, `framing.cpp`, `session.cpp`, `transport.cpp` | sequence numbers, negotiated limits | send, receive, handshake |
| Pure helpers | `chunk_plan.cpp`, `state_object.cpp`, `compatibility.cpp`, `policy.cpp`, `provenance.cpp` | none, or bounded lists | their functions |

The coordinator talks to each endpoint over one control connection and matches answers to
waiting threads by a key made of the message type and identifiers. A worker drives a
movement: grant to both endpoints, execute, wait for the attempt's result, probe the
destination's bytes, request the commit, record the outcome. The destination's commit
marker is the effect of a movement; the record is what the coordinator says of it. Between
the endpoints a data connection carries chunks under a window into a staging area whose
journal lets a later attempt resume.

What makes this hard: three threads may work on private copies of one record and write them
back unconditionally; any process may die between two steps; an answer may be lost, late or
meant for an earlier attempt; writes may be torn; and shutdown races with everything. The
list of such places, each at its line, is `hazards` in `PROJECT.json`.

## Modules

| Module | Models | Checked by |
|---|---|---|
| `Movement` | the state machine, as pure operators | through `MovementFabric` |
| `MovementFabric` | coordinator engine, both endpoints' control side, commit markers, crashes, link loss | `MCFabric` |
| `MovementOutcome` | abstract: outcomes and effects only | refined by `MovementFabric` |
| `MovementStore` | the log as cells, torn and failing writes, recovery, retention, compaction | `MCStore` |
| `ObjectStore` | the files of one object version under the threads that use them without a lock | `MCObjects` |
| `DataPlane` | data sessions of one movement, staging, journal, resumption | `MCData` |
| `CoordinatorThreads` | threads at the granularity of the mutex and the atomics | `MCThreads` |
| `Membership` | topology view, links and inventory under concurrent session threads | `MCMembership` |
| `FramedStream` | one connection: sequence numbers, keys, sends that give up half-way | through `ControlLink` |
| `ControlLink` | an endpoint's control link from hello to its end, on a `FramedStream` | `MCLink` |
| `ChunkPlan` | segmentation of an object, in machine integers, as pure operators | through `Wire` |
| `WireFormats` | every structure as tables: what `encode` writes, `decode` reads, `validate` checks | through `Wire` |
| `Wire` | encoding, decoding and one exchange of any structure | `MCWire` |
| `MovementFabricProofs` | type correctness of `MovementFabric` | `tlapm` |
| `MovementCommitProofs` | commit markers and claims of a commit | `tlapm` |
| `MovementStepProofs`, `MovementOutcomeProofs` | denials of a commit, revisions, the refinement of `MovementOutcome` | `tlapm` |
| `ThreadProofs` | `ObjectStore`, `Membership` and `CoordinatorThreads` | `tlapm` |
| `DataPlaneProofs` | `DataPlane` and `ChunkPlan` | `tlapm` |
| `ControlLinkStreamProofs` | the stream under a control link, and who sends what on it | `tlapm` |
| `ControlLinkProofs` | keys, grants, announcements and request slots of a control link | `tlapm` |

**MovementFabric.** `drive`, `cancel` and `reconcile` hold the local record copies of the
three threads, so a put of a stale copy is possible exactly where the code allows it. A step
reaches from one access to shared state to the next. A link is an endpoint and an
incarnation, FIFO in each direction. `Deliver` gives an answer to whoever waits under its
key, as `deliver()` does. The endpoint's handlers are one action each; promotion is two
(`WorkerClearTarget`, `WorkerRename`) because a crash can fall between them. A failed `put`
either keeps nothing or keeps the record without acknowledging it, which is what
`MovementStore` shows of the log; recovery ignores one (`CoordinatorStart`). A commit marker
may be there and unreadable: a "read" fault keeps it from being opened, read or decoded, so
`write_commit_marker` overwrites it and `authority` calls it invalid; a "stat" fault is an
error of `exists()`, which both take for an absent marker.

**MovementStore.** A record is `HeaderCells` cells and its payload. A kill may leave any
prefix of an append; with `WriteErrors` any write, sync, rename or reopen may return an
error. With `sync_on_write` a record is in the file when its append returns; without it the
record stays in the stdio buffer (`buffer`) until the next seek, a truncation or the closing
of the file, and a kill leaves any part of it. Write errors are modelled with
`sync_on_write` only: without it they surface in a later call. The store's mutex makes
operations atomic for other threads.

**ObjectStore.** `MovementFabric` takes a commit as one step; here an action is one call into
the file system. Three kinds of thread share the files of a version and take no lock:
transfer threads that promote staged bytes, the main thread that publishes, and the control
reader that answers COMMIT_REQUEST, AUTHORITY_QUERY and CLEANUP_REQUEST. A "read" fault
hides a marker from the one that looks for it (`Overlooked`, `AuthorityAbsent`). `authors`,
`touched` and `cut` are history: who wrote a marker since one was overlooked, whose hash is
out of date, and whether a replacement was cut short.

**DataPlane.** A chunk is good or not; a chunk digest certifies what the source read, the
content digest certifies the object. Attempts are serial. `flushed` separates what reached
the file from what `sync_on_write = false` leaves in the stdio buffer. Grants and refusals
are in `MovementFabric`. A write, a sync or a journal that fails ends the attempt as a kill
does ("io").

**CoordinatorThreads.** Testing a predicate and blocking are two steps of a thread that
holds `queue_mutex_`; whoever does not take the mutex can act in between. `missed` is
history: the workers past their predicate when the stop was notified.

**Membership.** The steps of a session thread between two locks are actions. `topology_`
has no lock in the code; the model takes each of its operations as atomic. `overtaken` is
history.

**FramedStream and ControlLink.** A frame is a header piece and a rest, so a send that gives
up can leave half of one on the stream. `send_sequence_` is taken before the bytes go out, as
in the code. `ControlLink` uses the stream's actions as conjuncts of its own: the endpoint's
main thread, control reader, transfer workers and `stop()`, and the coordinator's session and
drives. `calls` and `firstLost` are history.

**WireFormats and Wire.** `encode()` and `decode()` of a structure are translated into two
separate tables, so a field one of them leaves out or reads in another order shows. A cell is
one primitive of `codec.cpp` with its width; 0 stands for empty and `Over` for anything past
a bound. A digest or MAC is the values it covers. `Wire` builds a value, validates, encodes
and decodes it, possibly cut short, prolonged, damaged in one cell or read as another
structure.

**How they fit together.** Each module takes the others' guarantees as its atomic steps:
`MovementFabric`'s FIFO links are `ControlLink`'s `DeliveredPrefix`; its `put` is
`MovementStore`; its BYTES_ARRIVED is `DataPlane`'s `ArrivedIsExact`; its commit handler is
`ObjectStore`; its records, messages and journals survive the trip by `Wire`'s `RoundTrip`.

## Runs

Runs that TLC completes without error:

| Run | Shows |
|---|---|
| `fabric_races` | a driver, a cancel and a reconcile of one movement with a crashing destination: COMMITTED is backed by a marker, FAILED and SUPERSEDED by its absence, and the movement settles |
| `fabric_retries` | two movements of one version with two attempts each, a coordinator crash, a reconcile and a fault, an unreadable marker among them: evidence precedes every claim, records only advance, outcomes follow `MovementOutcome` |
| `store_log` | with and without `sync_on_write`, kills inside any append and failing writes: whenever the log opens, its contents are exact (unsynced, the last record may be missing); kills alone never make it unreadable; retention keeps its bound and drops only completed movements, oldest first |
| `objects` | two movements and two publications of a version with a restart, an I/O error, an unreadable marker, an edit or a cleanup: committed bytes are missing only around a replacement, a marker that can be read is rewritten at most once and names the bytes in place, an authority report is true |
| `data_sessions` | what is promoted is exact, the window and the journal's claim hold, an undisturbed attempt from the first chunk arrives, and every attempt ends |
| `threads_lifecycle` | the store is released after the last thread that uses it; at most one session too many; a queued movement is always taken; a stop completes unless a worker fell asleep in one window |
| `members_view` | no link outlives the session that serves it; a served process is live and reachable unless an older session overtook it; a dead endpoint is noticed |
| `link` | a prefix of what was sent is accepted and only a broken stream refused; only peers are keyed; what was acknowledged is held; no request slot leaks; no transfer starts on a dead link; a link that ends at one end ends at the other |
| `codec` | what `validate` accepts is read back field for field; cut, prolonged and foreign encodings are refused; seals cover every field; chunk plans tile their object; a resumed prefix fits it |

Runs that TLC refutes, each stating what a document, comment or test of the repository says
(quoted in `findings`):

| Run | What the code does instead |
|---|---|
| `fabric_cancel_race` | the driver's next put replaces CANCELLED |
| `fabric_retry_stuck` | a retry's TRANSFERRING -> TRANSFERRING is refused and the movement is left undriven |
| `data_resume` | DATA_BEGIN's resume fields are not encoded, so an attempt that found a verified prefix fails although nothing disturbs it |

The models also contain behaviours for which no run states a refuted property. They limit what
the properties above may claim, and a reader should know them:

- A marker that cannot be read is overwritten by the next commit of its version
  (`object_store.cpp:509-540`); `MovementOutcome` allows it only in a step in which an error
  occurs, and never to a movement that was given up.
- When `exists()` fails, `authority()` reports that there is no marker and `reconcile()`
  records FAILED, although the movement may have committed. This is the "stat" fault: no run
  includes it, and the theorems on outcomes assume `MarkersSeen`.
- `recover_after_restart()` ignores a failed put; the record stays in flight, and nothing
  drives it.
- `cancel()` resolves OUTCOME_UNKNOWN without asking the destination, so
  `ImplementsOutcome` is checked without cancel.
- `reconcile()` takes any marker of the version for its own movement's, so two movements of
  a version may both end COMMITTED; `CommittedHasMarker` speaks of the version's marker.
- Promotion and publication remove the old object before they rename the new one; a crash in
  between leaves a committed version without bytes (`BytesMissingHasCause` names the window).
- The unlocked check in `write_commit_marker` lets a publication and a commit both write a
  marker (`MarkerRewrittenOnce`: never a third).
- An object of no bytes can be published, but no grant for it is ever signed; it is also the
  exception of `AuthorityIsHeld`, because the size of missing bytes reads as zero.
- `src/README.md:236-237` says a journal that claims more than the bytes support "is
  discarded"; the code returns an error and keeps it, so later attempts fail the same way.
- `src/README.md:211` on torn records holds for kills. Residue of a *failed* append can stay
  behind a shorter later append and then makes `open()` refuse the log; `RecoveryIsExact`
  allows the refusal and `OpensAfterKills` is about logs without failed writes.
- `request_shutdown()` notifies without `queue_mutex_`, so a worker between its predicate and
  its wait sleeps on and `stop()` waits for it, where `src/include/smf/coordinator.hpp:115-116`
  counts on a prompt release of the store; `StopHeldOnlyByASleeper` shows this is the only
  cause.
- The two accept loops compare and count in separate steps, so `SessionsAlmostBounded`
  allows one session above the limit.
- `wait_for_idle` can return between a worker's pop and its increment of
  `active_movements_`.
- A late session of an older process can mark its replacement dead by name, against
  `src/README.md:54`; `ServedUnlessOvertaken` states the exception.
- The topology generation starts over with the coordinator process.
- After an announcement timed out, its late acknowledgement is taken for the next one's; the
  comment in `announce()` holds only before that (`AckedIsAnnounced`).
- An endpoint whose link ends goes on running and does not reconnect, against
  `src/README.md:460`; `LinkEndsAtBothEnds` speaks of the link only.
- CLEANUP_REQUEST is handled but never sent, so grants stay until the link ends.

### Bounds

Two movements of one version are enough for every race over a marker; one movement with all
three threads for every race over a record. Two incarnations or epochs give one crash and
recovery, after which state repeats. Three attempts let a second resume follow a resumed
one; four chunks under a window of two fill and drain the window twice. In the store, two
identities and payloads of one and three cells give overwriting, retention and residue within four
appends. In the object store, two contents of one size and an empty one tell a check of the
size from a check of the digest. Two workers and three connections on two listeners give
every pair of threads.

Faults, disturbances and operator commands are budgets (`MaxFaults`, `MaxDisturbed`,
`MaxCommands` for each kind of command); all bounds are named in the modules. `ControlLink`
takes its budgets from a set of loads: a behaviour is under one of them, so that
announcements, two movements, a stalled send and a stop are each combined with what they
interact with, not all at once.

In `codec` the integer widths and limits are scaled down in proportion (`U64` = 16, `U32` = 8)
so that every boundary of `ChunkPlan` is met; the theorem below covers the real ones. Every
field of every structure takes values at, inside and past its bound, two fields at once where
`validate` relates them.

Symmetry is used in `store_log`, `objects` and `fabric_retries`, which check safety and action
properties and refinement without fairness.

Deadlock is checked in `store_log`. Elsewhere the system may rightly stop: all movements
settled, budgets spent, the process stopped; in `data_sessions` `EveryAttemptEnds` says more
than absence of deadlock.

### Fairness

Weak fairness of the steps of threads that are runnable: workers, sessions, readers and
transfer threads are operating-system threads with bounded waits (every `await` and receive
has a budget, so giving up is a step that eventually happens). No fairness for faults,
crashes, operator commands, announcements, grants, stops or new submissions. A restart of the
coordinator is fair because a movement cannot settle while nobody runs it. `fabric_races`
allows one attempt per movement: with more, a movement can be left undriven
(`fabric_retry_stuck`).

## Proofs

Each theorem holds for every value of the constants, under the `ASSUME` of the module it is
about, which TLC evaluates in that module's runs.

**The protocol** (`FabricAssumptions`):

- `TypeCorrect`: `Spec => []TypeOK`. Inductive by itself, one lemma per group of actions.
- `EvidenceOfCommit`: `Spec => []CommitEvidence`. "COMMITTED implies a marker" is not
  inductive: the driver concludes it from an answer, the answer came over a link, and
  `put` may write an older local copy. `CommitEvidence` closes the chain: wherever a commit
  is claimed (queued on a link, held in an answered key, in a local copy, in the store) the
  marker exists. A marker may be replaced but never disappears (`MarkersKept`), which keeps
  old claims true; only `OnCommitRequest` and `OnAuthorityQuery` create claims, and both look
  at the disk.
- `CommittedIsReal`: `Spec => []CommittedHasMarker`, a consequence.
- `OutcomeInvariant` and `FailedIsReal`: `MarkersSeen => (Spec => []FailedHasNoEffect)`, with
  `MarkersSeen == "stat" \notin Faults`. That a marker is
  absent now says nothing of later: the commit request may still be on its way. `OutcomeInv`
  says why none is. The drive of a movement runs once and sends at most one commit request
  (`CoordinatorStages`); on a link no commit request follows another one, or a reconcile
  query, about the same movement (`RequestsInOrder`); so whatever denies a commit, a refusal,
  a report without a marker, or the record itself, is about a movement with no marker and no
  request pending, and there will be none (`NoEffectEvidence`). `MovementStepProofs` reduces
  the steps of the three threads to what they do to record, pc and queues, and to what they
  do to their copies of the record.
- `OneWriter`: `MarkersSeen /\ NoCancel => (Spec => []AllInStep)`, with `NoCancel == "cancel" \notin Commands`.
  The copy a drive or reconcile thread works on is the record in the store. It needs
  `OutcomeInv` (reconcile works only on a movement whose drive ended) and fails with
  `cancel()`, which `fabric_cancel_race` shows.
- `GenerationsFence`: `MarkersSeen /\ NoCancel => (Spec => GenerationFences)`, each put is a newer revision.
- `ProtocolRefinesOutcome`: `MarkersSeen /\ NoCancel => (Spec => ImplementsOutcome)`. Every step of the
  protocol is a step of `MovementOutcome` or leaves outcomes and effects alone. A decision of
  the record is justified by `OutcomeInv` (no effect) or `CommitEvidence` (effect), and
  `AllInStep` excludes a decided record being overwritten by an older copy.

**The object store** (`ObjectAssumption`, in `ThreadProofs`): `MissingBytesHaveACause`,
`MarkerWrittenAtMostTwice`, `MarkersAreExact`, `AuthorityIsTrue`, all from `ObjectInv`. It adds
to the shape of the files what each thread carries between its steps: bytes are missed as soon
as somebody is *about* to write a marker for them; a writer that has looked and seen no marker
can only have been preceded by the other writer, or overlooked what was there; bytes that were hashed are in place or
whoever hashed them is recorded as overtaken.

**The data plane** (`DataAssumptions`, in `DataPlaneProofs`): `PromotedIsExact` and
`JournalIsBacked`, from `DataInv`. The digest check looks at what was hashed, the promotion
moves what was staged: the invariant says that the hashed chunks are the staged ones up to the
verified point (`HashedIsStaged`; staged bytes rot between attempts, and an attempt hashes what
it resumes), and that with `sync_on_write` nothing staged is left in a buffer and the journal
is no longer than the file (`SyncedIsFlushed`).

`FreshAttempts` and `WindowHolds` (`Spec => []FreshAttemptArrives`, `Spec => []WindowBounded`)
come from `SessionInv`, which relates the two threads through what is between them. `Due(k)` is
the chunk the k-th frame under way has to carry for the destination to accept it; every frame
carries it and lies within a window of the chunks journalled so far (`FramesInTurn`). For as
long as the connection is up, the source's counter is what is due behind the last frame, the
destination's count since its last acknowledgement is the distance to the start of the source's
window, and an acknowledgement is under way exactly when the source waits and nothing else is
left of the window (`Serving`). A connection nothing disturbed is closed only behind a
DATA_ABORT (`ClosedWithAbort`). So none of the failing branches is left to an undisturbed
attempt from the first chunk but the digest check, and an intact source passes it
(`FromTheStart`). TLC found `SessionInv` invariant for windows of one, two and three before it
was proved.

**The control link** (`LinkAssumption`): `AcceptedIsAPrefix`, `Spec => []DeliveredPrefix`.
`StreamInv` numbers the calls and says that no whole frame of a failed call is on the stream,
so the receiver's expected number stops there. A lemma per thread shows that every step of
`ControlLink` is a send, a receive or leaves the stream alone.

What the ends conclude from each other's frames follows from `LinkInv`: `KeyedEndsArePeers`,
`RefusedAfterALoss`, `SlotsAreGivenBack`, `AckedGrantsAreHeld`, `AnnouncedIsInInventory` and
`NoTransferOnADeadLink`. `Traffic` says once for all which frames a step may put on its way and
in which state of the sender; the invariants then speak about frames in transit without looking
at every action again. A frame is tagged with a key its receiver has or will have by the
time it reads it (`TagInv`, `KeyInv`), and the frames on an unbroken stream are numbered from
the receiver's expected number on (`WholeFrames`), so nothing is refused there. A GRANT_ACK in transit names a
grant in the table (`GrantInv`); EXECUTE_MOVEMENT is sent once per movement (`ExecuteInv`);
while nothing has timed out the one announcement is on its way to the coordinator or its
acknowledgement on its way back, never both (`AnnounceInv`).

**Membership** (`MembershipAssumptions`, in `ThreadProofs`): `ServedIsReachable`
(`Spec => []ServedUnlessOvertaken`) from
`MembersInv`: no session or registration is of a process not started yet, a registered session
is of the recorded incarnation or an older one, and, unless overtaken, the session of the
recorded incarnation has marked its endpoint live before it links it. `LinksHaveSessions`
(`Spec => []LinkHasSession`) needs only that a session that ends takes its own link along
(`LinksLead`).

**The coordinator's threads** (`ThreadsAssumptions`, in `ThreadProofs`): `StoreIsReleasedLast` and
`SessionsStayBounded`, from `ThreadsInv`: past each join of `stop()` the joined threads have
returned, and the admissions decided but not yet counted, one per accept loop, are added to the
exact count of sessions, which gives the bound of one above the limit.

**Segmentation** (`LimitsAssumption`, in `DataPlaneProofs`): `ValidDescriptorsTile`: what
`validate()` accepts tiles its object, by Euclidean division, with the modular arithmetic of
the code.

Only model-checked: liveness and everything under fairness, which the prover does not reach;
the movement store, whose recovery is a recursion over the log and whose operations fold over
lists of records, and the wire formats, whose decoder is recursive (no induction over data).
Every other safety invariant and action property of a passing run is a theorem.
A type invariant is stated where it is a theorem (`MovementFabric`); for the other components
the shapes are conjuncts of the inductive invariants.

## Not modelled

- `max_attempts` stale results in a row (`discarded >= 4`) cannot be reached with the
  messages an endpoint sends, and is left out.
- Each movement has at most one cancel and one reconcile in progress; there are at least as
  many workers as movements in `MovementFabric`; an endpoint's old process is gone before the
  new one starts.
- An endpoint's orderly shutdown is modelled in `ControlLink` and is a crash in
  `MovementFabric`; registration is one step in `MovementFabric` and several in `Membership`.
- The data listener's pool of session threads and its queue: `DataPlane` has one connection
  at a time, served at once.
- Matching a policy and compatibility evidence to a movement: lookups `submit()` makes once;
  `MovementFabric` takes their verdicts as given. Their validation and encoding are in `Wire`.
- A full provenance chain in `apply_transition`. `evaluate_supersession` is not called by the
  code, nor is the `remove_placed` branch of `cleanup`.
- Retention is not reached in `MovementFabric`.
- Process crashes are modelled, loss of the page cache is not; the log's file header is
  written in one step; the state directory's lock is not modelled.
- Duplicate chunks: the source never sends below the agreed resume point.
- The data race on `topology_` itself: each operation is taken as atomic.
- Digests and MACs are injective; identifiers and endpoint names are opaque.
- Address parsing, listening and connecting, logging, time, the named fault points and the
  command-line programs: no protocol state of their own.
