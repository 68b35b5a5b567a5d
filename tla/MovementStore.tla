---------------------------- MODULE MovementStore ----------------------------
(* The coordinator's durable log (movement_store.cpp): an append-only file of *)
(* checksummed records, an index in memory, recovery, retention, compaction.  *)
(*                                                                            *)
(* The file is a sequence of cells.  A record occupies HeaderCells cells of   *)
(* header (the first holds magic, sequence and length) and then its payload;  *)
(* a cell is <<record, part>>.  A write at an offset replaces the cells it    *)
(* covers and leaves whatever lies behind them.  The store's mutex makes an   *)
(* operation atomic for other threads, so only a failing write or the end of  *)
(* the process can separate its appends.                                      *)
(*                                                                            *)
(* Without sync_on_write a record stays in the stdio buffer until the seek of *)
(* the next append, a truncation or the closing of the file flushes it.  A    *)
(* write error of such a log surfaces in a later call and is not modelled.    *)
EXTENDS Integers, FiniteSets, SequencesExt

CONSTANTS
    Ids,                 \* movement identities
    None,                \* "no record"
    MaxHistory,          \* max_history_records
    RetentionCompleted,  \* retention_completed
    PayloadCells,        \* the payload sizes an encoded movement may have
    SyncOptions,         \* the values of sync_on_write to consider (--sync)
    WriteErrors,         \* TRUE: a synced append, or compact(), may meet an error
    MaxAppends           \* bound: append_record calls in one behaviour

ASSUME StoreAssumptions ==
    /\ MaxHistory \in Nat \ {0} /\ RetentionCompleted \in Nat
    /\ PayloadCells \subseteq Nat \ {0}
    /\ WriteErrors \in BOOLEAN /\ SyncOptions \subseteq BOOLEAN

VARIABLES
    sync_on_write,  \* MovementStoreOptions::sync_on_write, fixed for a behaviour
    file,           \* durable: the cells of movements.smf after the file header
    buffer,         \* the cells before append_offset that may not have reached the file
    status,         \* "closed", "open", or "detached": open but file_ is null
    records,        \* records_: what the index holds of each movement
    order,          \* order_: the indexed movements, oldest first
    epoch,          \* coordinator_state_
    next_sequence,
    append_offset,
    result,         \* how the last operation ended
    kept,           \* history: what the index held without the record in the buffer
    failed,         \* history: an append failed since the log was last opened or rewritten
    unacknowledged, \* records written since the last success by an append that failed
    appends         \* append_record calls so far

vars == <<sync_on_write, file, buffer, status, records, order, epoch, next_sequence, append_offset,
          result, kept, failed, unacknowledged, appends>>

HeaderCells == 2
Empty == [records |-> [id \in Ids |-> None], order |-> <<>>, epoch |-> 0]
Contents == [records |-> records, order |-> order, epoch |-> epoch]

-----------------------------------------------------------------------------
(* Records and what applying one does to the index.                          *)

MovementOp(id, value) == [type |-> "movement", id |-> id, value |-> value, size |-> value.cells]
RetireOp(id) == [type |-> "retire", id |-> id, value |-> None, size |-> 1]
StateOp(n) == [type |-> "state", id |-> None, value |-> n, size |-> 1]

(* apply_record, and what put, retire and save_coordinator_state do to memory. *)
apply_record(c, op) ==
    CASE op.type = "movement" ->
           [c EXCEPT !.records[op.id] = op.value,
                     !.order = IF c.records[op.id] = None THEN Append(@, op.id) ELSE @]
      [] op.type = "retire" ->
           [c EXCEPT !.records[op.id] = None, !.order = SelectSeq(@, LAMBDA id : id # op.id)]
      [] op.type = "state" -> [c EXCEPT !.epoch = op.value]

ApplyAll(c, ops) == FoldLeft(apply_record, c, ops)

(* The cells of an encoded record. *)
Cells(op, sequence) ==
    [i \in 1 .. HeaderCells + op.size |-> <<[op |-> op, sequence |-> sequence], i>>]

(* seek and write: the cells behind the written ones stay. *)
WriteAt(f, offset, cells) ==
    SubSeq(f, 1, offset) \o cells \o SubSeq(f, offset + Len(cells) + 1, Len(f))

(* The file once the first n cells of the buffer have reached it. *)
Flushed(n) ==
    IF buffer = <<>> THEN file
    ELSE WriteAt(file, append_offset - Len(buffer), SubSeq(buffer, 1, n))
Flush == Flushed(Len(buffer))

-----------------------------------------------------------------------------
(* Recovery: the sequential scan of open().                                  *)

Length(f, offset) == HeaderCells + f[offset + 1][1].op.size
ChecksumOk(f, offset) ==
    SubSeq(f, offset + 1, offset + Length(f, offset)) = Cells(f[offset + 1][1].op, f[offset + 1][1].sequence)

(* What open() finds at an offset: the end, a torn tail, damage or a record. *)
Found_AcceptsAnyTail(f, offset) ==   \* mutant: an unverified final record is applied
    LET remaining == Len(f) - offset
    IN IF remaining = 0 THEN "end"
       ELSE IF remaining < HeaderCells THEN "torn"
       ELSE IF f[offset + 1][2] # 1 THEN "damage"
       ELSE "record"

Found(f, offset) ==
    LET remaining == Len(f) - offset
    IN IF remaining = 0 THEN "end"
       ELSE IF remaining < HeaderCells THEN "torn"
       ELSE IF f[offset + 1][2] # 1 THEN "damage"
       ELSE IF Length(f, offset) > remaining THEN "torn"
       ELSE IF ChecksumOk(f, offset) THEN "record"
       ELSE IF Length(f, offset) = remaining THEN "torn" ELSE "damage"

(* The scan from an offset on, given what was recovered before it. *)
Recover(f) ==
    LET scan[n \in 0 .. Len(f)] ==   \* the state of the loop after at most n records
          IF n = 0 THEN [at |-> 0, sequence |-> 0, contents |-> Empty, refused |-> FALSE]
          ELSE LET s == scan[n - 1]
                   here == Found(f, s.at)
                   r == f[s.at + 1][1]
               IN IF s.refused \/ here \in {"end", "torn"} THEN s
                  ELSE IF here = "damage" \/ r.sequence <= s.sequence
                  THEN [s EXCEPT !.refused = TRUE]
                  ELSE [s EXCEPT !.at = @ + Length(f, s.at), !.sequence = r.sequence,
                                 !.contents = apply_record(@, r.op)]
    IN scan[Len(f)]

Init ==
    /\ sync_on_write \in SyncOptions
    /\ file = <<>> /\ buffer = <<>> /\ kept = Empty /\ status = "closed"
    /\ records = Empty.records /\ order = Empty.order /\ epoch = Empty.epoch
    /\ next_sequence = 1 /\ append_offset = 0
    /\ result = "ok" /\ failed = FALSE /\ unacknowledged = {} /\ appends = 0

(* The index takes the given contents. *)
Holds(c) == records' = c.records /\ order' = c.order /\ epoch' = c.epoch

open_ForgetsSequence ==   \* mutant: numbering starts over after recovery
    LET s == Recover(file)
    IN /\ status = "closed" /\ ~s.refused
       /\ file' = SubSeq(file, 1, s.at)
       /\ status' = "open" /\ result' = "opened"
       /\ Holds(s.contents)
       /\ next_sequence' = 1 /\ append_offset' = s.at
       /\ kept' = s.contents /\ failed' = FALSE /\ unacknowledged' = {}
       /\ UNCHANGED <<sync_on_write, buffer, appends>>

(* A refused open leaves the file as it is; a torn tail is truncated away. *)
open ==
    LET s == Recover(file)
    IN /\ status = "closed"
       /\ IF s.refused
          THEN /\ result' = "refused"
               /\ UNCHANGED <<file, status, records, order, epoch, next_sequence, append_offset,
                              kept, failed, unacknowledged>>
          ELSE /\ file' = SubSeq(file, 1, s.at)
               /\ status' = "open" /\ result' = "opened"
               /\ Holds(s.contents)
               /\ next_sequence' = s.sequence + 1 /\ append_offset' = s.at
               /\ kept' = s.contents /\ failed' = FALSE /\ unacknowledged' = {}
       /\ UNCHANGED <<sync_on_write, buffer, appends>>

-----------------------------------------------------------------------------
(* Operations.                                                               *)

(* The appends of an operation, in order.  done of them succeed; the next one *)
(* gets partial cells into the file and then fails, or the process ends.  A   *)
(* sync that fails is a failure with every cell written.                      *)
Written(ops, done, partial) ==
    LET all == [i \in 1 .. Len(ops) |-> Cells(ops[i], next_sequence + i - 1)]
        tail == IF done < Len(ops) THEN SubSeq(all[done + 1], 1, partial) ELSE <<>>
    IN FlattenSeq(SubSeq(all, 1, done)) \o tail

CellCount(ops) == FoldLeft(LAMBDA n, op : n + HeaderCells + op.size, 0, ops)

(* Each seek flushes what was written before it, so without a sync only the   *)
(* last record is still in the buffer.                                        *)
Succeeds(ops) ==
    /\ IF sync_on_write
       THEN /\ file' = WriteAt(Flush, append_offset, Written(ops, Len(ops), 0))
            /\ buffer' = <<>> /\ kept' = ApplyAll(Contents, ops)
       ELSE /\ file' = WriteAt(Flush, append_offset, Written(ops, Len(ops) - 1, 0))
            /\ buffer' = Cells(Last(ops), next_sequence + Len(ops) - 1)
            /\ kept' = ApplyAll(Contents, Front(ops))
    /\ Holds(ApplyAll(Contents, ops))
    /\ next_sequence' = next_sequence + Len(ops)
    /\ append_offset' = append_offset + CellCount(ops)
    /\ result' = "ok" /\ unacknowledged' = {}
    /\ UNCHANGED <<status, failed>>

(* Complete records in the file that were never acknowledged. *)
LeftBehind(ops, done, partial) ==
    (IF done = 0 THEN unacknowledged ELSE {})
    \cup {op \in {ops[done + 1]} : partial = HeaderCells + op.size}

(* An error is returned; what was appended before it stays, in memory too. *)
Fails(ops, done, partial) ==
    LET before == SubSeq(ops, 1, done)
    IN /\ WriteErrors /\ sync_on_write
       /\ file' = WriteAt(file, append_offset, Written(ops, done, partial))
       /\ Holds(ApplyAll(Contents, before)) /\ kept' = ApplyAll(Contents, before)
       /\ next_sequence' = next_sequence + done + 1
       /\ append_offset' = append_offset + CellCount(before)
       /\ result' = "error" /\ failed' = TRUE
       /\ unacknowledged' = LeftBehind(ops, done, partial)
       /\ UNCHANGED <<status, buffer>>

(* The process ends inside the operation: only the file remains. *)
Dies(ops, done, partial) ==
    /\ file' = WriteAt(Flush, append_offset, Written(ops, done, partial)) /\ buffer' = <<>>
    /\ status' = "closed" /\ result' = "crashed"
    /\ Holds(ApplyAll(Contents, SubSeq(ops, 1, done)))
    /\ kept' = ApplyAll(Contents, SubSeq(ops, 1, done))
    /\ unacknowledged' = LeftBehind(ops, done, partial)
    /\ UNCHANGED <<next_sequence, append_offset, failed>>

append_record(ops) ==
    /\ status = "open" /\ appends + Len(ops) <= MaxAppends
    /\ appends' = appends + Len(ops) /\ UNCHANGED sync_on_write
    /\ \/ Succeeds(ops)
       \/ \E done \in 0 .. Len(ops) - 1 :
            \E partial \in 0 .. HeaderCells + ops[done + 1].size :
              Fails(ops, done, partial) \/ Dies(ops, done, partial)

Live(c) == {id \in Ids : c.records[id] # None}

(* enforce_retention: oldest completed movements first, down to               *)
(* RetentionCompleted records, and only once MaxHistory is exceeded.          *)
Victims_Newest(c) ==   \* mutant: the youngest completed movements go first
    LET done == Reverse(SelectSeq(c.order, LAMBDA id : c.records[id].state = "done"))
        excess == Cardinality(Live(c)) - RetentionCompleted
    IN IF RetentionCompleted = 0 \/ Cardinality(Live(c)) <= MaxHistory THEN <<>>
       ELSE SubSeq(done, 1, IF excess < Len(done) THEN excess ELSE Len(done))

Victims(c) ==
    LET done == SelectSeq(c.order, LAMBDA id : c.records[id].state = "done")
        excess == Cardinality(Live(c)) - RetentionCompleted
    IN IF RetentionCompleted = 0 \/ Cardinality(Live(c)) <= MaxHistory THEN <<>>
       ELSE SubSeq(done, 1, IF excess < Len(done) THEN excess ELSE Len(done))

put(id, value) ==
    LET first == MovementOp(id, value)
        victims == Victims(apply_record(Contents, first))
    IN append_record(<<first>> \o [i \in 1 .. Len(victims) |-> RetireOp(victims[i])])

retire(id) == records[id] # None /\ append_record(<<RetireOp(id)>>)

save_coordinator_state == append_record(<<StateOp(epoch + 1)>>)

(* A store whose file handle was lost refuses every append before it writes. *)
AppendDetached ==
    /\ status = "detached"
    /\ result' = "error"
    /\ UNCHANGED <<sync_on_write, file, buffer, status, records, order, epoch, next_sequence,
                   append_offset, kept, failed, unacknowledged, appends>>

(* The log compact() writes: the indexed records in order, then the           *)
(* coordinator state, renumbered from 1.                                      *)
Renumbered(ops) == FlattenSeq([i \in 1 .. Len(ops) |-> Cells(ops[i], i)])
LiveOps(c) == [i \in 1 .. Len(c.order) |-> MovementOp(c.order[i], c.records[c.order[i]])]

Compacted(c) == Renumbered(LiveOps(c) \o (IF c.epoch = 0 THEN <<>> ELSE <<StateOp(c.epoch)>>))

(* The temporary log is complete and synced before the old file is closed and *)
(* replaced.  An error before that changes nothing; an error at the rename or *)
(* at the reopening leaves the store without a file handle.                   *)
compact ==
    /\ status \in {"open", "detached"}
    /\ \/ /\ file' = Compacted(Contents) /\ append_offset' = Len(file')
          /\ buffer' = <<>> /\ kept' = Contents
          /\ status' = "open" /\ result' = "ok" /\ failed' = FALSE /\ unacknowledged' = {}
       \/ /\ WriteErrors /\ result' = "error"
          /\ \/ UNCHANGED <<file, buffer, status, kept>>
             \/ status' = "detached" /\ file' = Flush /\ buffer' = <<>> /\ kept' = Contents
          /\ UNCHANGED <<append_offset, failed, unacknowledged>>
       \/ /\ file' = Compacted(Contents) /\ failed' = FALSE /\ unacknowledged' = {}
          /\ buffer' = <<>> /\ kept' = Contents
          /\ \/ WriteErrors /\ status' = "detached" /\ result' = "error"
             \/ status' = "closed" /\ result' = "crashed"
          /\ UNCHANGED append_offset
    /\ UNCHANGED <<sync_on_write, records, order, epoch, next_sequence, appends>>

(* A shutdown closes the file; the end of the process between two operations  *)
(* loses what the buffer still holds.                                         *)
stop ==
    /\ status # "closed" /\ status' = "closed"
    /\ \/ result' = "closed" /\ file' = Flush /\ kept' = Contents
       \/ /\ result' = "crashed" /\ UNCHANGED kept
          /\ \E n \in 0 .. Len(buffer) : file' = Flushed(n)
    /\ buffer' = <<>>
    /\ UNCHANGED <<sync_on_write, records, order, epoch, next_sequence, append_offset, failed,
                   unacknowledged, appends>>

Values == [state : {"active", "done"}, cells : PayloadCells]

Next ==
    \/ open \/ compact \/ stop \/ AppendDetached \/ save_coordinator_state
    \/ \E id \in Ids : retire(id) \/ \E value \in Values : put(id, value)

Spec == Init /\ [][Next]_vars

-----------------------------------------------------------------------------
(* Properties.  The index keeps its last contents while the store is closed:  *)
(* nothing reads it then, and the properties compare the file with it.        *)

(* What a kill at this moment may leave of the log. *)
Remains == {Flushed(n) : n \in 0 .. Len(buffer)}

(* The index lists each movement it holds once, and whatever open() recovers  *)
(* is what the index held: every acknowledged append and nothing else, except *)
(* for one complete record whose append was never acknowledged and after      *)
(* which none succeeded.  So a torn record is never applied, and a retired    *)
(* movement does not come back.  Without sync_on_write a kill may also lose   *)
(* the last acknowledged record, and no other (append_record syncs or not).   *)
RecoveryIsExact ==
    /\ IsInjective(order) /\ Range(order) = Live(Contents)
    /\ \A f \in Remains :
         LET s == Recover(f)
         IN \/ s.refused
            \/ s.contents = Contents
            \/ ~sync_on_write /\ s.contents = kept
            \/ \E op \in unacknowledged : s.contents = apply_record(Contents, op)

(* The store can be opened again: what the process leaves behind, wherever it *)
(* is killed, is a log that open() accepts, as long as no append has failed   *)
(* since the log was last opened or rewritten by compact().  After a failed   *)
(* append, whose bytes stay behind append_offset_, a shorter one may leave a  *)
(* log that open() refuses.                                                   *)
OpensAfterKills == ~failed => \A f \in Remains : ~Recover(f).refused

(* The index now holds the given contents, less completed movements that left *)
(* oldest first, each with an append of its own.                              *)
LeftInOrder(c) ==
    LET left == {j \in DOMAIN c.order : records'[c.order[j]] = None}
    IN /\ \A id \in Live(Contents') : records'[id] = c.records[id]
       /\ \A j \in left : c.records[c.order[j]].state = "done"
       /\ \A j \in left : \A i \in 1 .. j - 1 : i \in left \/ c.records[c.order[i]].state = "active"
       /\ result' = "ok" => appends' = appends + 1 + Cardinality(left)

(* Retention: once a put that changes a record is acknowledged, the history   *)
(* is within its bound unless every retained movement is still active; and    *)
(* whatever leaves the index without retire() leaves it after a put, was      *)
(* completed, and left before any younger one (enforce_retention).            *)
RetentionSparesActive ==
    [][/\ result' = "ok" /\ (\E id \in Ids : records'[id] \notin {None, records[id]})
            => \/ Cardinality(Live(Contents')) <= MaxHistory
               \/ \A id \in Live(Contents') : records'[id].state = "active"
       /\ status = "open" /\ appends' # appends /\ epoch' = epoch
            => \/ result' # "ok" /\ Contents' = Contents
               \/ \E id \in Live(Contents) : Contents' = apply_record(Contents, RetireOp(id))
               \/ \E id \in Ids, value \in Values :
                    LeftInOrder(apply_record(Contents, MovementOp(id, value)))]_vars
=============================================================================
