---------------------------- MODULE CollectorQueue ----------------------------
(***************************************************************************)
(* The collector's durable queue (internal/collector/wal): segment files   *)
(* of records, meta.json with the sequence and acknowledgment high-water   *)
(* marks, and the manifests that split a stored batch into children.       *)
(*                                                                         *)
(* A call holds the queue's mutex and is one step.  A call that fails is a *)
(* step too: it leaves the files as they were where it failed.  A process  *)
(* that dies inside a call is such a step followed by a crash.  Recovery   *)
(* quarantines one file per step and may be interrupted between any two.   *)
(*                                                                         *)
(* A record is one unit long per event.  An event of Huge makes its record *)
(* longer than the whole queue may be.                                     *)
(***************************************************************************)
EXTENDS Integers, Sequences, FiniteSets, SequencesExt

CONSTANTS
    QueueMax,        \* MaxQueueBytes
    SegmentMax,      \* SegmentMaxBytes
    ReservationSize, \* sequences reserved by one write of meta.json
    Huge,            \* events whose record exceeds MaxQueueBytes
    SyncAlways       \* SyncAlways, or SyncOnSeal

VARIABLES
    meta,        \* meta.json: [next, acked, refs]
    segments,    \* segment files, in order: [first, records, last]
    manifests,   \* repack manifests: [parent, root, children]
    quarantined, \* bytes kept in quarantine files
    queue        \* the queue in memory

queueVars == <<meta, segments, manifests, quarantined, queue>>
fileVars == <<meta, segments, manifests, quarantined>>

ASSUME QueueAssumption ==
    /\ {QueueMax, SegmentMax, ReservationSize} \subseteq Nat \ {0}
    /\ SyncAlways \in BOOLEAN

-----------------------------------------------------------------------------
(* Records, batches and files.                                             *)

MaxOf(S, default) == IF S = {} THEN default ELSE CHOOSE n \in S : \A m \in S : m <= n
Larger(a, b) == IF a >= b THEN a ELSE b

RecordSize(events) ==
    IF events \cap Huge # {} THEN QueueMax + 1 ELSE Cardinality(events)

SegmentSize(segment) ==
    FoldLeft(LAMBDA size, record : size + RecordSize(record.events), 0, segment.records)

PhysicalBytes(files) ==
    FoldLeft(LAMBDA size, segment : size + SegmentSize(segment), 0, files)

SeqsOf(batches) == {batch.seq : batch \in batches}

\* A manifest's last child: the acknowledgment that ends it.
Through(plan) == MaxOf(SeqsOf(plan.children), 0)

\* A batch as the queue keeps it: its identity, its events and the record that
\* holds them, which is another batch's for the children of a repacked one.
Descriptor(record) ==
    [seq |-> record.seq, made |-> record.made, events |-> record.events, root |-> record.seq]

ClosedQueue ==
    [phase |-> "down", next |-> 1, reserved |-> 0, acked |-> 0, unacked |-> {},
     terminal |-> {}, repacks |-> {}, active |-> FALSE, synced |-> 0, handed |-> 0,
     unhealthy |-> FALSE]

IsUp == queue.phase = "up"

Parents(state) == {plan.parent : plan \in state.repacks}

\* Unacknowledged batches that are sent as they are.
Pending == {batch \in queue.unacked : batch.seq \notin Parents(queue)}

HasRecord(files, seq) ==
    \E i \in DOMAIN files : \E record \in ToSet(files[i].records) :
        record.seq = seq /\ record.intact

-----------------------------------------------------------------------------
(* meta.json.                                                              *)

\* The contents written for a state of the queue in memory.
MetaOf(state) ==
    [next |-> Larger(state.next, state.reserved),
     acked |-> state.acked,
     refs |-> {[parent |-> plan.parent, through |-> Through(plan)] :
                  plan \in {p \in state.repacks : Through(p) > state.acked}}]

\* reserveSequencesLocked, for a queue whose counter was just advanced.
Reserved(state) ==
    IF state.next <= state.reserved THEN state.reserved
    ELSE state.next + ReservationSize - 1

-----------------------------------------------------------------------------
(* Append.                                                                 *)

ActiveSize(files, active) == IF active THEN SegmentSize(Last(files)) ELSE 0

\* The files after a record was written to the active segment, or to a new one
\* when the record does not fit.
Written(files, active, record) ==
    IF active /\ ActiveSize(files, active) + RecordSize(record.events) <= SegmentMax
    THEN Append(Front(files), [Last(files) EXCEPT !.records = Append(@, record),
                                                  !.last = record.seq])
    ELSE Append(files, [first |-> record.seq, records |-> <<record>>, last |-> record.seq])

HasRoom(events) ==
    PhysicalBytes(segments) + quarantined + RecordSize(events) <= QueueMax

CanAppend == IsUp /\ ~queue.unhealthy
TooLarge(events) == RecordSize(events) > QueueMax

\* A sequence is taken, and the reservation that covers it is on disk first.
Allocated == LET state == [queue EXCEPT !.next = @ + 1]
             IN [state EXCEPT !.reserved = Reserved(state)]

AppendBatch(events, made) ==
    LET record == [seq |-> queue.next, made |-> made, events |-> events, intact |-> TRUE]
        files == Written(segments, queue.active, record)
    IN /\ CanAppend
       /\ ~TooLarge(events)
       /\ HasRoom(events)
       /\ meta' = IF Allocated.reserved = queue.reserved THEN meta ELSE MetaOf(Allocated)
       /\ segments' = files
       /\ queue' = [Allocated EXCEPT
                      !.active = TRUE,
                      !.synced = IF SyncAlways THEN Len(Last(files).records)
                                 ELSE IF Len(files) = Len(segments) THEN @ ELSE 0,
                      !.unacked = @ \cup {Descriptor(record)}]
       /\ UNCHANGED <<manifests, quarantined>>

\* Under pressure a wholly acknowledged active segment is sealed and removed,
\* and the caller tries again.
ReclaimActive(events) ==
    /\ CanAppend
    /\ ~TooLarge(events)
    /\ ~HasRoom(events)
    /\ queue.active
    /\ Last(segments).last <= queue.acked
    /\ segments' = <<>>
    /\ queue' = [queue EXCEPT !.active = FALSE, !.synced = 0]
    /\ UNCHANGED <<meta, manifests, quarantined>>

\* An append that fails burns its sequence.  The reservation may have been
\* written or not; the active segment is sealed.
AppendFailsToReserve(events) ==
    /\ CanAppend /\ ~TooLarge(events) /\ HasRoom(events)
    /\ meta' \in {meta, MetaOf(Allocated)}
    /\ queue' = [queue EXCEPT !.next = @ + 1, !.active = FALSE, !.synced = 0]
    /\ UNCHANGED <<segments, manifests, quarantined>>

\* A short write leaves a torn record, a failed fsync a whole one that the
\* queue in memory does not know.  Either way the queue takes no more records.
AppendFailsToWrite(events, made, intact) ==
    LET record == [seq |-> queue.next, made |-> made, events |-> events, intact |-> intact]
    IN /\ CanAppend /\ ~TooLarge(events) /\ HasRoom(events)
       /\ meta' = IF Allocated.reserved = queue.reserved THEN meta ELSE MetaOf(Allocated)
       /\ LET files == Written(segments, queue.active, record)
          IN segments' = IF intact \/ Len(files) # Len(segments) THEN files
                         ELSE [files EXCEPT ![Len(files)].last = Last(segments).last]
       /\ queue' = [Allocated EXCEPT !.active = intact,
                                     !.synced = IF Len(segments') = Len(segments) THEN @ ELSE 0,
                                     !.unhealthy = TRUE]
       /\ UNCHANGED <<manifests, quarantined>>

-----------------------------------------------------------------------------
(* Acknowledgments.                                                        *)

\* Repacked parents all of whose descendants have an outcome, if the batches of
\* extra get one now.  A set of parents is stuck if each of them has a child that
\* has no outcome and, if it is a parent itself, is in the set.
CompletedParents(state, extra) ==
    LET parents == Parents(state)
        over == state.terminal \cup (extra \ parents) \cup 0 .. state.acked
        Stuck(some) == \A plan \in state.repacks :
            plan.parent \in some => ~(SeqsOf(plan.children) \subseteq over \cup (parents \ some))
    IN parents \ UNION {some \in SUBSET parents : Stuck(some)}

\* The batches an acknowledgment of seq covers.
Covered(seq, cumulative) ==
    IF cumulative
    THEN {batch.seq : batch \in {b \in Pending : b.seq <= seq}}
    ELSE {seq}

WithOutcome(seq, cumulative) ==
    LET covered == Covered(seq, cumulative)
    IN [queue EXCEPT !.terminal = @ \cup covered \cup CompletedParents(queue, covered)]

\* The leading batches that all have an outcome.
TerminalPrefix(state) ==
    {batch \in state.unacked :
        \A other \in state.unacked : other.seq <= batch.seq => other.seq \in state.terminal}

\* PrepareAck: what Ack would drop.
AckPreview(seq, cumulative) ==
    IF seq <= queue.acked THEN {} ELSE TerminalPrefix(WithOutcome(seq, cumulative))

Advanced(state) ==
    LET dropped == TerminalPrefix(state)
    IN [state EXCEPT !.acked = MaxOf(SeqsOf(dropped), @),
                     !.unacked = @ \ dropped,
                     !.terminal = @ \ SeqsOf(dropped)]

\* Sealed segments at the front all of whose batches are acknowledged go.
Reclaimable(files, active, acked) ==
    MaxOf({n \in 0 .. Len(files) - (IF active THEN 1 ELSE 0) :
              \A i \in 1 .. n : files[i].last <= acked}, 0)

Unfinished(plans, acked) == {plan \in plans : Through(plan) > acked}

\* Reclaim, after the high-water mark was persisted; removed is the number of
\* segment files it got to remove.
Reclaim(state, removed) ==
    /\ segments' = SubSeq(segments, removed + 1, Len(segments))
    /\ IF removed = Reclaimable(segments, state.active, state.acked)
       THEN /\ manifests' = Unfinished(manifests, state.acked)
            /\ queue' = [state EXCEPT !.repacks = Unfinished(@, state.acked)]
       ELSE /\ queue' = state
            /\ UNCHANGED manifests

\* An acknowledgment of what is already acknowledged is accepted and does
\* nothing.
CanAck(seq) == seq <= queue.acked \/ seq \in SeqsOf(Pending)

AckBatch(seq, cumulative) ==
    LET state == IF seq <= queue.acked THEN queue ELSE Advanced(WithOutcome(seq, cumulative))
    IN /\ CanAck(seq)
       /\ IF state.acked = queue.acked
          THEN queue' = state /\ UNCHANGED <<meta, segments, manifests>>
          ELSE /\ meta' = MetaOf(state)
               /\ Reclaim(state, Reclaimable(segments, state.active, state.acked))
       /\ UNCHANGED quarantined

\* A failure to write meta.json leaves the queue as it was, with the outcome
\* noted; the file may be the new one.
AckFailsToPersist(seq, cumulative) ==
    LET noted == WithOutcome(seq, cumulative)
    IN /\ CanAck(seq) /\ seq > queue.acked
       /\ meta' \in {meta, MetaOf(Advanced(noted))}
       /\ queue' = noted
       /\ UNCHANGED <<segments, manifests, quarantined>>

\* A failure to remove a segment: some are gone, the manifests are not.
AckFailsToReclaim(seq, cumulative) ==
    LET state == Advanced(WithOutcome(seq, cumulative))
    IN /\ CanAck(seq) /\ seq > queue.acked
       /\ meta' = MetaOf(state)
       /\ \E removed \in 0 .. Reclaimable(segments, state.active, state.acked) - 1 :
             Reclaim(state, removed)
       /\ UNCHANGED quarantined

-----------------------------------------------------------------------------
(* Repacking: a batch the server refuses for its size becomes several.     *)

\* The place of an event among the events of a batch.
Rank(events, event) == Cardinality({other \in events : other <= event})

\* The events in order, cut into runs of at most limit; in two halves if that
\* leaves them whole.
Piece(events, limit, event) ==
    IF Cardinality(events) > limit THEN (Rank(events, event) - 1) \div limit
    ELSE IF Rank(events, event) <= Cardinality(events) \div 2 THEN 0 ELSE 1

Plan(batch, limit, made) ==
    LET piece(event) == Piece(batch.events, limit, event)
    IN [parent |-> batch.seq, root |-> batch.root,
        children |-> {[seq |-> queue.next + n, made |-> made, root |-> batch.root,
                       events |-> {event \in batch.events : piece(event) = n}] :
                         n \in {piece(event) : event \in batch.events}}]

\* The segment that holds a plan's record must outlive its last child.
Raised(files, plan) ==
    [i \in DOMAIN files |->
        IF plan.root \in {record.seq : record \in ToSet(files[i].records)}
        THEN [files[i] EXCEPT !.last = Larger(@, Through(plan))]
        ELSE files[i]]

CanRepack(seq) ==
    /\ IsUp /\ ~queue.unhealthy
    /\ \E batch \in Pending : batch.seq = seq /\ Cardinality(batch.events) > 1

\* The four writes of Repack: the children's sequences, the manifest, its
\* reference in meta.json, the plan in memory.
RepackStages == {"sequences", "manifest", "reference", "installed"}

\* Seeded fault: meta.json requires the manifest before it is written.
RepackReferencedFirst(seq, limit, made, reached) ==
    LET batch == CHOOSE b \in Pending : b.seq = seq
        plan == Plan(batch, limit, made)
        counted == [queue EXCEPT !.active = FALSE, !.synced = 0, !.next = Through(plan) + 1]
        planned == [counted EXCEPT !.repacks = @ \cup {plan}]
    IN /\ CanRepack(seq)
       /\ meta' = MetaOf(planned)
       /\ manifests' = IF reached = "sequences" THEN manifests ELSE manifests \cup {plan}
       /\ IF reached = "installed"
          THEN /\ queue' = [planned EXCEPT !.unacked = @ \cup plan.children]
               /\ segments' = Raised(segments, plan)
          ELSE /\ queue' = [(IF reached = "reference" THEN planned ELSE counted)
                              EXCEPT !.unhealthy = TRUE]
               /\ UNCHANGED segments
       /\ UNCHANGED quarantined

\* The first three must be durable in this order.
Repack(seq, limit, made, reached) ==
    LET batch == CHOOSE b \in Pending : b.seq = seq
        plan == Plan(batch, limit, made)
        counted == [queue EXCEPT !.active = FALSE, !.synced = 0, !.next = Through(plan) + 1]
        planned == [counted EXCEPT !.repacks = @ \cup {plan}]
    IN /\ CanRepack(seq)
       /\ meta' = IF reached \in {"sequences", "manifest"} THEN MetaOf(counted) ELSE MetaOf(planned)
       /\ manifests' = IF reached = "sequences" THEN manifests ELSE manifests \cup {plan}
       /\ IF reached = "installed"
          THEN /\ queue' = [planned EXCEPT !.unacked = @ \cup plan.children]
               /\ segments' = Raised(segments, plan)
          ELSE /\ queue' = [(IF reached = "reference" THEN planned ELSE counted)
                              EXCEPT !.unhealthy = TRUE]
               /\ UNCHANGED segments
       /\ UNCHANGED quarantined

-----------------------------------------------------------------------------
(* Delivery cursor.                                                        *)

\* NextBatch hands out the unacknowledged batches in order.
NextUp == {batch \in Pending :
              /\ batch.seq > queue.handed
              /\ \A other \in Pending : other.seq > queue.handed => batch.seq <= other.seq}

NextBatch(batch) ==
    /\ IsUp
    /\ batch \in NextUp
    /\ queue' = [queue EXCEPT !.handed = batch.seq]
    /\ UNCHANGED fileVars

Rewind ==
    /\ IsUp
    /\ queue' = [queue EXCEPT !.handed = 0]
    /\ UNCHANGED fileVars

\* PendingSourceMarks: the furthest source position a pending batch holds.
PendingMark(state) == MaxOf(UNION {batch.events : batch \in state.unacked}, 0)

-----------------------------------------------------------------------------
(* Recovery.                                                               *)

\* A required manifest that is missing keeps the queue closed.
OpenQueue ==
    /\ queue.phase = "down"
    /\ queue' = [ClosedQueue EXCEPT
                   !.phase = IF \A ref \in meta.refs :
                                   \/ ref.through <= meta.acked
                                   \/ \E plan \in manifests :
                                         plan.parent = ref.parent /\ Through(plan) = ref.through
                             THEN "opening" ELSE "refused",
                   !.next = meta.next,
                   !.acked = meta.acked]
    /\ UNCHANGED fileVars

Corrupt(segment) == \E record \in ToSet(segment.records) : ~record.intact

FirstCorrupt ==
    LET corrupt == {i \in DOMAIN segments : Corrupt(segments[i])}
    IN IF corrupt = {} THEN 0 ELSE CHOOSE i \in corrupt : \A j \in corrupt : i <= j

\* No sequence a file ever named is handed out again.  Behind a damaged record
\* this counts records, of which the code assumes at least as many.
SequenceFloor ==
    MaxOf({segments[i].first + Len(segments[i].records) - 1 : i \in DOMAIN segments}, 0)

Floored(state) == [state EXCEPT !.next = Larger(@, SequenceFloor + 1)]

\* The files behind the first damaged record go first, and the damaged tail
\* last: while any of them is left, the damage is still there to be found.
QuarantineSuccessor ==
    /\ queue.phase = "opening"
    /\ FirstCorrupt # 0 /\ FirstCorrupt < Len(segments)
    /\ queue' = Floored(queue)
    /\ meta' = IF queue'.next = queue.next THEN meta ELSE MetaOf(queue')
    /\ segments' = RemoveAt(segments, FirstCorrupt + 1)
    /\ quarantined' = quarantined + SegmentSize(segments[FirstCorrupt + 1])
    /\ UNCHANGED manifests

Repaired(segment) ==
    LET bad == CHOOSE i \in DOMAIN segment.records :
                   /\ ~segment.records[i].intact
                   /\ \A j \in 1 .. i - 1 : segment.records[j].intact
    IN SubSeq(segment.records, 1, bad - 1)

CutTail(at) ==
    LET kept == Repaired(segments[at])
    IN /\ queue' = Floored(queue)
       /\ meta' = IF queue'.next = queue.next THEN meta ELSE MetaOf(queue')
       /\ segments' = IF kept = <<>> THEN RemoveAt(segments, at)
                      ELSE [segments EXCEPT ![at].records = kept]
       /\ quarantined' = quarantined + SegmentSize(segments[at])
       /\ UNCHANGED manifests

QuarantineTail ==
    /\ queue.phase = "opening"
    /\ FirstCorrupt # 0 /\ FirstCorrupt = Len(segments)
    /\ CutTail(FirstCorrupt)

\* The queue in memory is rebuilt from the files, segments and manifests that
\* are no longer needed are removed, and a manifest without its record keeps
\* the queue closed.
RecoveredFiles(plans) ==
    [i \in DOMAIN segments |->
        LET held == {record.seq : record \in ToSet(segments[i].records)}
        IN [segments[i] EXCEPT
              !.last = MaxOf({Through(plan) : plan \in {p \in plans : p.root \in held}} \cup
                             {Last(segments[i].records).seq}, 0)]]

RecoveredQueue(plans) ==
    LET records == UNION {ToSet(segments[i].records) : i \in DOMAIN segments}
        batches == {Descriptor(record) : record \in records} \cup
                   UNION {plan.children : plan \in plans}
        next == Larger(Floored(queue).next,
                       1 + MaxOf({Through(plan) : plan \in plans}, 0))
    IN [queue EXCEPT
          !.phase = "up",
          !.next = next,
          !.repacks = plans,
          !.unacked = {batch \in batches : batch.seq > queue.acked}]

Recover ==
    LET plans == Unfinished(manifests, queue.acked)
        state == RecoveredQueue(plans)
        files == RecoveredFiles(plans)
    IN /\ queue.phase = "opening"
       /\ FirstCorrupt = 0
       /\ IF \A plan \in plans : HasRecord(segments, plan.root)
          THEN /\ queue' = state
               /\ meta' = IF state.next = queue.next /\ plans = {} THEN meta ELSE MetaOf(state)
               /\ segments' = SubSeq(files, 1 + Reclaimable(files, FALSE, queue.acked), Len(files))
               /\ manifests' = plans
          ELSE /\ queue' = [queue EXCEPT !.phase = "refused"]
               /\ UNCHANGED <<meta, segments, manifests>>
       /\ UNCHANGED quarantined

-----------------------------------------------------------------------------
(* What happens to the files from outside.                                 *)

ProcessDies ==
    /\ queue' = ClosedQueue
    /\ UNCHANGED fileVars

\* Power is lost: records of the active segment that were not synced may be
\* gone, the first of them perhaps in part.
PowerLost ==
    /\ queue.active
    /\ \E kept \in queue.synced .. Len(Last(segments).records) - 1, torn \in BOOLEAN :
          LET records == Last(segments).records
              left == SubSeq(records, 1, kept) \o
                      (IF torn THEN <<[records[kept + 1] EXCEPT !.intact = FALSE]>> ELSE <<>>)
          IN segments' = IF left = <<>> THEN Front(segments)
                         ELSE Append(Front(segments), [Last(segments) EXCEPT !.records = left])
    /\ queue' = ClosedQueue
    /\ UNCHANGED <<meta, manifests, quarantined>>

\* A stored record is damaged while the collector is down.
Damage ==
    /\ queue.phase = "down"
    /\ \E i \in DOMAIN segments : \E j \in DOMAIN segments[i].records :
          segments' = [segments EXCEPT ![i].records[j].intact = FALSE]
    /\ UNCHANGED <<meta, manifests, quarantined, queue>>

\* The operator removes the quarantine files.
CleanQuarantine ==
    /\ quarantined > 0
    /\ quarantined' = 0
    /\ UNCHANGED <<meta, segments, manifests, queue>>

QueueInit ==
    /\ meta = [next |-> 1, acked |-> 0, refs |-> {}]
    /\ segments = <<>>
    /\ manifests = {}
    /\ quarantined = 0
    /\ queue = ClosedQueue
===============================================================================
