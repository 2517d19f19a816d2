------------------------- MODULE CollectorSteps_proofs -------------------------
(***************************************************************************)
(* The inductive invariant of the collector, for every source, batch and   *)
(* queue size, and its preservation while the collector works: reading,    *)
(* flushing, appending, sending, outcomes and acknowledgments, with the    *)
(* writes of these that fail.                                              *)
(*                                                                         *)
(* A batch the queue ever named keeps its identity (Identity, Used); what  *)
(* the files hold is settled or still to be delivered (Memory, Finished,   *)
(* Coverage); and what the pipeline has in hand lies behind all of it      *)
(* (InOrder).                                                              *)
(***************************************************************************)
EXTENDS Collector, FiniteSetTheorems, SequenceTheorems, WellFoundedInduction, TLAPS

\* The failure a huge event cannot stand: a repacking cut short between its
\* reference and its installation leaves Pending empty while the queue still
\* holds the batch, and the checkpoint passes both.
NoOversized == Huge = {} \/ "repack" \notin Faults

(***************************************************************************)
(* The inductive invariant                                                 *)
(***************************************************************************)
RecordType == [seq : Nat, made : Nat, events : SUBSET (1 .. Events), intact : BOOLEAN]
SegmentType == [first : Nat, records : Seq(RecordType), last : Nat]
PlanType == [parent : Nat, root : Nat, children : SUBSET Batch]
QueueType ==
  [phase : {"down", "opening", "up", "refused"}, next : Nat \ {0}, reserved : Nat, acked : Nat,
   unacked : SUBSET Batch, terminal : SUBSET Nat, repacks : SUBSET PlanType, active : BOOLEAN,
   synced : Nat, handed : Nat, unhealthy : BOOLEAN]

FileTypes ==
  /\ meta \in [next : Nat \ {0}, acked : Nat, refs : SUBSET [parent : Nat, through : Nat]]
  /\ segments \in Seq(SegmentType)
  /\ manifests \subseteq PlanType

Chunk == (SUBSET (1 .. Events)) \ {{}}
PipeTypes ==
  /\ readPos \in 0 .. Events /\ checkpoint \in 0 .. Events
  /\ batch \subseteq 1 .. Events /\ dead \subseteq 1 .. Events
  /\ work \in Seq(Chunk)
  /\ batcher \in {"on", "dropping", "off"}

SendTypes ==
  /\ connected \in BOOLEAN
  /\ inflight \subseteq Batch /\ IsFiniteSet(inflight) /\ Cardinality(inflight) <= MaxInFlight
  /\ answered \subseteq SeqsOf(inflight)
  /\ outcome \in [pc : {"none", "checkpoint", "ack"}, seq : Nat, cumulative : BOOLEAN]
  /\ verdicts \subseteq [seq : Nat, made : Nat, events : SUBSET (1 .. Events), verdict : Verdicts]
  /\ epoch \in Nat /\ faults \subseteq Faults

Types == FileTypes /\ queue \in QueueType /\ PipeTypes /\ SendTypes

Running == queue.phase \in {"opening", "up"}

\* What the queue's files and the stream name.
RecsOf(files) == UNION {ToSet(files[i].records) : i \in DOMAIN files}
Recs == RecsOf(segments)
Children == UNION {plan.children : plan \in manifests}
Known == {Descriptor(record) : record \in Recs} \cup Children
Named == Known \cup inflight
EventsOf(things) == UNION {thing.events : thing \in things}
Final == {v \in verdicts : v.verdict # "repack"}

\* Segments are in the order of their records.
SegmentInOrder(s) ==
  /\ s.records # <<>>
  /\ \A j \in DOMAIN s.records : s.first + j - 1 <= s.records[j].seq
  /\ \A j, k \in DOMAIN s.records : j < k => s.records[j].seq < s.records[k].seq
FilesInOrder ==
  /\ \A i \in DOMAIN segments : SegmentInOrder(segments[i])
  /\ \A i, k \in DOMAIN segments : i < k =>
        \A r \in ToSet(segments[i].records), s \in ToSet(segments[k].records) : r.seq < s.seq

\* Every sequence ever named is below the next one, across restarts too.
Used ==
  /\ meta.acked < meta.next
  /\ \A n \in SeqsOf(Named) \cup SeqsOf(verdicts) :
        /\ 0 < n /\ n < meta.next
        /\ Running => n < queue.next
  /\ queue.phase = "opening" => queue.next = meta.next /\ queue.acked = meta.acked
  /\ IsUp =>
       /\ queue.reserved <= meta.next
       /\ queue.acked <= meta.acked /\ meta.acked < queue.next
       /\ queue.acked < queue.next /\ queue.handed < queue.next
       /\ \A n \in queue.terminal : 0 < n /\ n < queue.next
       /\ \A i \in DOMAIN segments : segments[i].last < queue.next

Identity ==
  /\ \A a, b \in Named : a.seq = b.seq => a = b
  /\ \A v, w \in verdicts : v.seq = w.seq => v = w
  /\ \A b \in Named, v \in verdicts : b.seq = v.seq => b.made = v.made /\ b.events = v.events

\* Plans split a batch completely, once, on the server's demand.
Families ==
  /\ \A p, q \in manifests : p.parent = q.parent => p = q
  /\ \A p \in manifests :
       /\ p.root <= p.parent /\ p.children # {}
       /\ \A c \in p.children : p.parent < c.seq /\ c.root = p.root
       /\ \A b \in Known : b.seq = p.parent => b.root = p.root /\ b.events = EventsOf(p.children)
       /\ \E v \in verdicts : v.seq = p.parent /\ v.verdict = "repack"

\* The memory of a queue that does not run.
Shut ==
  /\ queue.phase # "up" => queue = [ClosedQueue EXCEPT !.phase = queue.phase, !.next = queue.next,
                                                       !.acked = queue.acked]
  /\ ~IsUp => ~connected /\ batcher = "off"
  /\ ~connected => inflight = {} /\ outcome = NoOutcome

\* What the queue holds in memory is what the files hold, but for batches behind
\* everything it knows after a failure.
Memory == IsUp =>
  /\ queue.unacked \subseteq {b \in Known : b.seq > queue.acked}
  /\ queue.repacks \subseteq manifests
  /\ ~queue.unhealthy => Unfinished(manifests, queue.acked) \subseteq queue.repacks
  /\ \A b \in Known \ queue.unacked : b.seq > queue.acked =>
       /\ queue.unhealthy /\ \A c \in queue.unacked : c.seq < b.seq
       /\ b.seq \notin queue.terminal \cup Parents(queue)
  /\ \A n \in queue.terminal : n <= queue.acked \/ n \in Parents(queue) \/ n \in SeqsOf(Final)
  /\ \A p \in queue.repacks : p.parent \in queue.terminal =>
       \A c \in p.children : c.seq <= queue.acked \/ c.seq \in queue.terminal

\* Segments outlive what they hold.
KeptBy(files, b) ==
  \E i \in DOMAIN files : /\ b.seq <= files[i].last
                          /\ \E r \in ToSet(files[i].records) : r.seq = b.root /\ r.intact
Kept == IsUp =>
  /\ \A b \in queue.unacked : KeptBy(segments, b)
  /\ \A i \in DOMAIN segments : \A r \in ToSet(segments[i].records) : r.intact => r.seq <= segments[i].last
  /\ queue.active =>
       segments # <<>> /\ \A i \in DOMAIN segments : segments[i].last <= Last(segments).last
  /\ \A r \in Recs : ~r.intact =>
       queue.unhealthy /\ batcher = "off" /\ \A s \in Recs : s.seq <= r.seq

\* The sender passes a batch only with an outcome.
Sending == IsUp =>
  /\ answered \subseteq SeqsOf(verdicts)
  /\ \A b \in inflight : /\ b.seq <= queue.handed /\ b.seq \notin Parents(queue)
                         /\ b \in queue.unacked \/ (b.seq <= queue.acked /\ b.seq \in SeqsOf(Final))
  /\ connected => \A b \in Pending : b.seq <= queue.handed => b \in inflight \/ b.seq \in queue.terminal
  /\ outcome.pc # "none" =>
       /\ outcome.seq \in answered
       /\ \E v \in Final : v.seq = outcome.seq /\ v.events \subseteq Settled
       /\ outcome.cumulative => \A b \in Pending : b.seq < outcome.seq => b.seq \in queue.terminal
  /\ outcome.pc = "ack" =>
       EventsOf(AckPreview(outcome.seq, outcome.cumulative)) \subseteq 1 .. checkpoint

\* What is acknowledged or has an outcome is settled, and what is acknowledged
\* lies before the checkpoint.
Finished ==
  /\ \A b \in Known : b.seq <= meta.acked => b.events \subseteq Settled
  /\ IsUp => \A b \in Known : b.seq \in queue.terminal => b.events \subseteq Settled
  /\ \A r \in Recs : r.seq <= meta.acked => r.events \subseteq 1 .. checkpoint

\* What the collector need not read again.
Done == Settled \cup 1 .. checkpoint

\* No event before one in a sound record is missing.
Sound(r) == \A s \in Recs : s.seq <= r.seq => s.intact
Coverage ==
  \A r \in Recs : Sound(r) => \A x \in r.events : \A e \in 1 .. x :
    e \in Done \/ \E s \in Recs : s.seq <= r.seq /\ e \in s.events

InHand == batch \cup UNION ToSet(work)

\* What the batcher holds lies behind what was stored before.
InOrder == batcher # "off" =>
  /\ 1 .. readPos \subseteq Done \cup EventsOf(Recs) \cup InHand
  /\ checkpoint <= readPos
  /\ \A r \in Recs : \A e \in r.events : e <= readPos /\ \A h \in InHand : e < h
  /\ \A h \in InHand : checkpoint < h /\ h <= readPos /\ h \notin Undecodable
  /\ \A i, k \in DOMAIN work : i < k => \A d \in work[i], e \in work[k] : d < e
  /\ \A i \in DOMAIN work : \A d \in work[i], e \in batch : d < e

Dropping ==
  /\ batcher = "off" => batch = {} /\ work = <<>>
  /\ batcher = "dropping" =>
       /\ work # <<>> /\ Head(work) \subseteq dead /\ \E e \in Huge : Head(work) = {e}
       /\ "repack" \notin Faults => ~queue.unhealthy

Past == NoOversized => 1 .. checkpoint \subseteq Settled

\* What recovery will need.
Matched(ref) == \E p \in manifests : p.parent = ref.parent /\ Through(p) = ref.through
References == \A ref \in meta.refs : ref.through <= meta.acked \/ Matched(ref)

Low == IF Running THEN queue.acked ELSE meta.acked

\* The segment of a plan's record outlives it, or the parent holds it back.
Guarded(p, i) ==
  /\ \E r \in ToSet(segments[i].records) : r.seq = p.root /\ r.intact
  /\ queue.active => i < Len(segments)
  /\ IsUp => \/ Through(p) <= segments[i].last
             \/ /\ p.parent \in SeqsOf(queue.unacked)
                /\ \/ p \notin queue.repacks
                   \/ \E c \in p.children : c.seq > queue.acked /\ c \notin queue.unacked
Undamaged == "damage" \notin faults =>
  /\ queue.phase # "refused"
  /\ \A r \in Recs : ~r.intact => \A s \in Recs : s.seq <= r.seq
  /\ \A p \in manifests : Through(p) > Low => \E i \in DOMAIN segments : Guarded(p, i)

\* Records of the active segment that a loss of power may take: with SyncAlways,
\* only those the queue does not know.
InDoubt(r) ==
  /\ queue.active
  /\ \E j \in DOMAIN Last(segments).records : j > queue.synced /\ r = Last(segments).records[j]
Leaves == {b \in Known : b.seq > Low /\ b.seq \notin {p.parent : p \in manifests}}

Once == SyncAlways /\ "damage" \notin faults =>
  /\ \A r \in Recs : InDoubt(r) => r.seq > queue.acked /\ Descriptor(r) \notin queue.unacked
  /\ \A v \in Final : \A e \in v.events :
       e <= checkpoint \/ \E r \in Recs : r.intact /\ e \in r.events /\ ~InDoubt(r)
  /\ \A v, w \in Final : v # w => v.events \cap w.events = {}
  /\ \A a, b \in Leaves : a # b => a.events \cap b.events = {}
  /\ \A b \in Leaves, v \in Final : v.seq # b.seq => v.events \cap b.events = {}
  /\ Stored \cap dead = {}

\* Where the events of the files and of verdicts come from.
Origins ==
  /\ \A r \in Recs : r.events \cap (Undecodable \cup Huge) = {}
  /\ \A c \in Children, r \in Recs : c.root = r.seq => c.events \subseteq r.events
  /\ \A p \in manifests : \A c, d \in p.children : c # d => c.events \cap d.events = {}
  /\ \A v \in verdicts : v.events \cap (Undecodable \cup Huge) = {}
  /\ dead \subseteq Undecodable \cup Huge \cup EventsOf(Final)

CollectorInv ==
  /\ Types /\ FilesInOrder /\ Used /\ Identity /\ Families /\ Shut /\ Memory /\ Kept /\ Sending
  /\ Finished /\ Coverage /\ InOrder /\ Dropping /\ Past /\ References /\ Undamaged /\ Origins /\ Once

-----------------------------------------------------------------------------
(* Lemmas on numbers, sets and sequences.                                   *)

\* A set of naturals has a least element.
LEMMA LeastOf ==
  ASSUME NEW T \in SUBSET Nat, T # {}
  PROVE  \E n \in T : \A t \in T : n <= t
  <1>1. \E n \in T : \A t \in T : ~ (<<t, n>> \in OpToRel(<, Nat))
    BY WFMin, NatLessThanWellFounded
  <1>2. PICK n \in T : \A t \in T : ~ (<<t, n>> \in OpToRel(<, Nat))
    BY <1>1
  <1>3. \A t \in T : ~ (t < n)
    BY <1>2 DEF OpToRel
  <1> QED BY <1>3

\* A bounded set of naturals has a greatest element.
LEMMA GreatestOf ==
  ASSUME NEW S \in SUBSET Nat, S # {}, NEW u \in Nat, \A n \in S : n <= u
  PROVE  \E n \in S : \A m \in S : m <= n
  <1> DEFINE T == {u - n : n \in S}
  <1>1. T \in SUBSET Nat /\ T # {}
    <2>1. \A n \in S : n \in Nat /\ n <= u /\ u - n \in Nat
      OBVIOUS
    <2> QED BY <2>1
  <1> HIDE DEF T
  <1>2. PICK t \in T : \A s \in T : t <= s
    BY <1>1, LeastOf
  <1> USE DEF T
  <1>3. PICK n \in S : t = u - n
    BY <1>2
  <1>4. ASSUME NEW m \in S PROVE m <= n
    <2>1. u - n <= u - m
      BY <1>2, <1>3
    <2> QED BY <2>1
  <1> QED BY <1>3, <1>4

\* MaxOf is the greatest element of a bounded set.
LEMMA MaxOfGreatest ==
  ASSUME NEW S \in SUBSET Nat, S # {}, NEW u \in Nat, \A n \in S : n <= u, NEW d
  PROVE  MaxOf(S, d) \in S /\ \A n \in S : n <= MaxOf(S, d)
  <1>1. \E n \in S : \A m \in S : m <= n
    BY GreatestOf
  <1> QED BY <1>1 DEF MaxOf

\* Of no elements it is the default.
LEMMA MaxOfNone ==
  ASSUME NEW d
  PROVE  MaxOf({}, d) = d
  BY DEF MaxOf

\* The elements of a sequence.
LEMMA ToSetOf ==
  ASSUME NEW S, NEW s \in Seq(S)
  PROVE  /\ ToSet(s) \subseteq S
         /\ \A e : e \in ToSet(s) <=> \E j \in 1 .. Len(s) : e = s[j]
         /\ \A j \in 1 .. Len(s) : s[j] \in ToSet(s)
         /\ DOMAIN s = 1 .. Len(s)
         /\ (s = <<>>) <=> (ToSet(s) = {})
         /\ (s = <<>>) <=> (Len(s) = 0)
  <1>1. (s = <<>>) <=> (Len(s) = 0)
    BY EmptySeq
  <1>2. DOMAIN s = 1 .. Len(s) /\ Len(s) \in Nat /\ \A j \in 1 .. Len(s) : s[j] \in S
    OBVIOUS
  <1>3. \A e : e \in ToSet(s) <=> \E j \in 1 .. Len(s) : e = s[j]
    BY <1>2 DEF ToSet
  <1>4. Len(s) # 0 => s[1] \in ToSet(s)
    BY <1>2, <1>3
  <1>5. ToSet(s) # {} => Len(s) # 0
    BY <1>2, <1>3
  <1> QED BY <1>1, <1>2, <1>3, <1>4, <1>5

\* Appending adds exactly its element to what a sequence holds.
LEMMA ToSetAppend ==
  ASSUME NEW S, NEW s \in Seq(S), NEW e \in S
  PROVE  /\ ToSet(Append(s, e)) = ToSet(s) \cup {e}
         /\ Append(s, e) \in Seq(S) /\ Append(s, e) # <<>>
  <1>1. /\ Append(s, e) \in Seq(S) /\ Len(Append(s, e)) = Len(s) + 1
        /\ Append(s, e)[Len(s) + 1] = e
        /\ \A j \in 1 .. Len(s) : Append(s, e)[j] = s[j]
    OBVIOUS
  <1>2. \A x : x \in ToSet(Append(s, e)) <=> \E j \in 1 .. Len(s) + 1 : x = Append(s, e)[j]
    <2> DEFINE t == Append(s, e)
    <2>1. t \in Seq(S) /\ Len(t) = Len(s) + 1
      BY <1>1
    <2> HIDE DEF t
    <2>2. \A x : x \in ToSet(t) <=> \E j \in 1 .. Len(t) : x = t[j]
      BY <2>1, ToSetOf
    <2> QED BY <2>1, <2>2 DEF t
  <1>3. \A x : x \in ToSet(s) <=> \E j \in 1 .. Len(s) : x = s[j]
    BY ToSetOf
  <1>4. ASSUME NEW x \in ToSet(Append(s, e)) PROVE x \in ToSet(s) \cup {e}
    <2>1. PICK j \in 1 .. Len(s) + 1 : x = Append(s, e)[j]
      BY <1>2
    <2>2. CASE j = Len(s) + 1
      BY <2>1, <2>2, <1>1
    <2>3. CASE j \in 1 .. Len(s)
      BY <2>1, <2>3, <1>1, <1>3
    <2> QED BY <2>2, <2>3
  <1>5. ToSet(s) \cup {e} \subseteq ToSet(Append(s, e))
    <2>1. e \in ToSet(Append(s, e))
      BY <1>1, <1>2
    <2>2. ASSUME NEW x \in ToSet(s) PROVE x \in ToSet(Append(s, e))
      <3>1. PICK j \in 1 .. Len(s) : x = s[j]
        BY <1>3
      <3>2. j \in 1 .. Len(s) + 1 /\ x = Append(s, e)[j]
        BY <3>1, <1>1
      <3> QED BY <3>2, <1>2
    <2> QED BY <2>1, <2>2
  <1> QED BY <1>1, <1>4, <1>5

\* An integer quotient of naturals.
LEMMA QuotientOf ==
  ASSUME NEW x \in Nat, NEW l \in Nat \ {0}
  PROVE  x \div l \in Nat /\ x \div l <= x
  OBVIOUS

\* Ranks of the elements of a finite set.
LEMMA RankOf ==
  ASSUME NEW S \in SUBSET Nat, IsFiniteSet(S), NEW e \in S
  PROVE  /\ Rank(S, e) \in 1 .. Cardinality(S)
         /\ (\A d \in S : e <= d) => Rank(S, e) = 1
         /\ (\A d \in S : d <= e) => Rank(S, e) = Cardinality(S)
         /\ \A d \in S : d <= e => Rank(S, d) <= Rank(S, e)
  <1> DEFINE Below(x) == {other \in S : other <= x}
  <1>1. \A x \in S : /\ Below(x) \subseteq S /\ IsFiniteSet(Below(x)) /\ Cardinality(Below(x)) \in Nat
                     /\ Cardinality(Below(x)) <= Cardinality(S)
    BY FS_Subset, FS_CardinalityType
  <1>2. Cardinality(S) \in Nat
    BY FS_CardinalityType
  <1>3. Cardinality({e}) = 1
    BY FS_Singleton
  <1>4. {e} \subseteq Below(e)
    OBVIOUS
  <1>5. 1 <= Cardinality(Below(e))
    BY <1>1, <1>3, <1>4, FS_Subset
  <1>6. ASSUME \A d \in S : e <= d PROVE Below(e) = {e}
    <2>1. \A d \in S : d \in Nat /\ (d <= e => d = e)
      BY <1>6
    <2> QED BY <2>1, <1>4
  <1>7. (\A d \in S : d <= e) => Below(e) = S
    OBVIOUS
  <1>8. ASSUME NEW d \in S, d <= e PROVE Cardinality(Below(d)) <= Cardinality(Below(e))
    <2>1. Below(d) \subseteq Below(e)
      <3>1. \A x \in S : x \in Nat
        OBVIOUS
      <3>2. \A x \in S : x <= d => x <= e
        BY <1>8, <3>1
      <3> QED BY <3>2
    <2> QED BY <2>1, <1>1, FS_Subset
  <1>9. \A x : Rank(S, x) = Cardinality(Below(x))
    BY DEF Rank
  <1> HIDE DEF Below
  <1> QED BY <1>1, <1>2, <1>3, <1>5, <1>6, <1>7, <1>8, <1>9

\* The elements of a set cut at a rank.
LEMMA HalfOf ==
  ASSUME NEW S \in SUBSET Nat, NEW u \in Nat, \A n \in S : n <= u, Cardinality(S) > 1
  PROVE  LET first == {event \in S : Rank(S, event) <= Cardinality(S) \div 2}
         IN /\ first # {} /\ S \ first # {}
            /\ \A d \in first, e \in S \ first : d < e
  <1> DEFINE first == {event \in S : Rank(S, event) <= Cardinality(S) \div 2}
  <1>0. IsFiniteSet(S) /\ Cardinality(S) \in Nat /\ S # {}
    BY FS_BoundedSetOfNaturals, FS_CardinalityType, FS_EmptySet
  <1>1. Cardinality(S) \div 2 >= 1 /\ Cardinality(S) \div 2 < Cardinality(S)
    BY <1>0
  <1>2. PICK lo \in S : \A d \in S : lo <= d
    BY <1>0, LeastOf
  <1>4. PICK hi \in S : \A d \in S : d <= hi
    BY <1>0, GreatestOf
  <1>5. Rank(S, lo) = 1 /\ Rank(S, hi) = Cardinality(S)
    BY <1>0, <1>2, <1>4, RankOf
  <1>6. lo \in first /\ hi \notin first
    BY <1>0, <1>1, <1>5
  <1>7. ASSUME NEW d \in first, NEW e \in S \ first PROVE d < e
    <2>1. /\ d \in Nat /\ e \in Nat /\ Rank(S, d) \in Nat /\ Rank(S, e) \in Nat
          /\ Rank(S, d) <= Cardinality(S) \div 2 /\ ~(Rank(S, e) <= Cardinality(S) \div 2)
      BY <1>0, RankOf
    <2>2. e <= d => Rank(S, e) <= Rank(S, d)
      BY <1>0, RankOf
    <2> QED BY <1>0, <1>1, <2>1, <2>2
  <1> QED BY <1>6, <1>7

-----------------------------------------------------------------------------
(* Lemmas on the files and what they name.                                  *)

\* What the files name is typed.
LEMMA NamesTyped ==
  ASSUME Types
  PROVE  /\ Recs \subseteq RecordType /\ Children \subseteq Batch /\ Known \subseteq Batch
         /\ Named \subseteq Batch /\ Known \subseteq Named
         /\ \A r \in Recs : /\ Descriptor(r) \in Known /\ Descriptor(r).seq = r.seq
                            /\ Descriptor(r).made = r.made /\ Descriptor(r).events = r.events
                            /\ Descriptor(r).root = r.seq
         /\ \A i \in DOMAIN segments :
               /\ segments[i] \in SegmentType /\ segments[i].records \in Seq(RecordType)
               /\ ToSet(segments[i].records) \subseteq RecordType
         /\ DOMAIN segments = 1 .. Len(segments)
         /\ \A r : r \in Recs <=> \E i \in DOMAIN segments : r \in ToSet(segments[i].records)
  <1>1. segments \in Seq(SegmentType) /\ manifests \subseteq PlanType
        /\ inflight \subseteq Batch
    BY DEF Types, FileTypes, SendTypes
  <1>2. DOMAIN segments = 1 .. Len(segments) /\ \A i \in DOMAIN segments : segments[i] \in SegmentType
    BY <1>1
  <1>3. \A i \in DOMAIN segments : segments[i].records \in Seq(RecordType)
    BY <1>2 DEF SegmentType
  <1>4. \A i \in DOMAIN segments : ToSet(segments[i].records) \subseteq RecordType
    BY <1>3, ToSetOf
  <1>5. \A r : r \in Recs <=> \E i \in DOMAIN segments : r \in ToSet(segments[i].records)
    BY DEF Recs, RecsOf
  <1>6. Recs \subseteq RecordType
    BY <1>4, <1>5
  <1>7. Children \subseteq Batch
    <2>1. \A p \in manifests : p.children \subseteq Batch
      BY <1>1 DEF PlanType
    <2> QED BY <2>1 DEF Children
  <1>8. \A r \in Recs : /\ Descriptor(r) \in Batch /\ Descriptor(r).seq = r.seq
                        /\ Descriptor(r).made = r.made /\ Descriptor(r).events = r.events
                        /\ Descriptor(r).root = r.seq
    BY <1>6 DEF Descriptor, RecordType, Batch
  <1>9. Known \subseteq Batch /\ \A r \in Recs : Descriptor(r) \in Known
    BY <1>7, <1>8 DEF Known
  <1> QED BY <1>1, <1>2, <1>3, <1>4, <1>5, <1>6, <1>7, <1>8, <1>9 DEF Named

\* A batch the files name is a record's or a plan's child.
LEMMA KnownFrom ==
  ASSUME NEW b \in Known
  PROVE  (\E r \in Recs : b = Descriptor(r)) \/ (\E p \in manifests : b \in p.children)
  BY DEF Known, Children

\* Through is the greatest sequence of a plan's children.
LEMMA ThroughOf ==
  ASSUME NEW plan \in PlanType, plan.children # {}, NEW u \in Nat, \A c \in plan.children : c.seq <= u
  PROVE  /\ Through(plan) \in Nat /\ Through(plan) <= u
         /\ \E c \in plan.children : c.seq = Through(plan)
         /\ \A c \in plan.children : c.seq <= Through(plan)
  <1>1. SeqsOf(plan.children) \in SUBSET Nat /\ SeqsOf(plan.children) # {}
        /\ \A n \in SeqsOf(plan.children) : n <= u
    BY DEF PlanType, Batch, SeqsOf
  <1>2. MaxOf(SeqsOf(plan.children), 0) \in SeqsOf(plan.children)
        /\ \A n \in SeqsOf(plan.children) : n <= MaxOf(SeqsOf(plan.children), 0)
    BY <1>1, MaxOfGreatest
  <1>3. Through(plan) \in SeqsOf(plan.children)
        /\ \A n \in SeqsOf(plan.children) : n <= Through(plan)
    BY <1>2 DEF Through
  <1> QED BY <1>1, <1>3 DEF SeqsOf

\* Of the plans on disk.
LEMMA PlansOf ==
  ASSUME Types, Used, Families, NEW p \in manifests
  PROVE  /\ p \in PlanType /\ p.parent \in Nat /\ p.root \in Nat /\ p.children \subseteq Children
         /\ p.children \subseteq Known
         /\ Through(p) \in Nat /\ Through(p) < meta.next /\ p.parent < Through(p)
         /\ p.root <= p.parent
         /\ \E c \in p.children : c.seq = Through(p)
         /\ \A c \in p.children : /\ c \in Batch /\ c.seq \in Nat /\ c.seq <= Through(p)
                                  /\ p.parent < c.seq /\ c.root = p.root
  <1>1. p \in PlanType /\ meta.next \in Nat \ {0}
    BY DEF Types, FileTypes
  <1>2. p.children # {} /\ p.root <= p.parent /\ \A c \in p.children : p.parent < c.seq /\ c.root = p.root
    BY DEF Families
  <1>3. p.children \subseteq Children
    BY DEF Children
  <1>4. p.children \subseteq Known /\ p.children \subseteq Named
    BY <1>3 DEF Known, Named
  <1>5. \A c \in p.children : c \in Batch /\ c.seq \in Nat
    BY <1>1 DEF PlanType, Batch
  <1>6. \A c \in p.children : c.seq < meta.next
    BY <1>4 DEF Used, SeqsOf
  <1>7. meta.next - 1 \in Nat /\ \A c \in p.children : c.seq <= meta.next - 1
    BY <1>1, <1>5, <1>6
  <1>8. /\ Through(p) \in Nat /\ Through(p) <= meta.next - 1
        /\ \E c \in p.children : c.seq = Through(p)
        /\ \A c \in p.children : c.seq <= Through(p)
    BY <1>1, <1>2, <1>7, ThroughOf
  <1>9. p.parent \in Nat /\ p.root \in Nat
    BY <1>1 DEF PlanType
  <1>10. p.parent < Through(p)
    BY <1>2, <1>5, <1>8, <1>9
  <1>11. Through(p) < meta.next
    BY <1>1, <1>8
  <1> QED BY <1>1, <1>2, <1>3, <1>4, <1>5, <1>8, <1>9, <1>10, <1>11

\* The fields of the queue in memory.
LEMMA QueueTyped ==
  ASSUME Types
  PROVE  /\ queue.next \in Nat \ {0} /\ queue.reserved \in Nat /\ queue.acked \in Nat
         /\ queue.unacked \subseteq Batch /\ queue.terminal \subseteq Nat
         /\ queue.repacks \subseteq PlanType /\ queue.active \in BOOLEAN
         /\ queue.synced \in Nat /\ queue.handed \in Nat /\ queue.unhealthy \in BOOLEAN
         /\ meta.next \in Nat \ {0} /\ meta.acked \in Nat
         /\ Pending \subseteq queue.unacked
         /\ \A b \in queue.unacked : b.seq \in Nat
  <1>1. queue \in QueueType /\ meta \in [next : Nat \ {0}, acked : Nat, refs : SUBSET [parent : Nat, through : Nat]]
    BY DEF Types, FileTypes
  <1>2. queue.unacked \subseteq Batch
    BY <1>1 DEF QueueType
  <1> QED BY <1>1, <1>2 DEF QueueType, Pending, Batch

\* A failure is remembered.
LEMMA FaultsGrow ==
  ASSUME Types, NoFault \/ \E kind \in Faults : Fault(kind)
  PROVE  faults \subseteq faults' /\ faults' \subseteq Faults
  BY DEF Types, SendTypes, NoFault, Fault

\* What has a durable end keeps it.
LEMMA SettledGrows ==
  ASSUME verdicts \subseteq verdicts', dead \subseteq dead'
  PROVE  Settled \subseteq Settled' /\ Stored \subseteq Stored' /\ Final \subseteq Final'
  BY DEF Settled, Stored, Final

\* What is done only grows while the checkpoint and what is settled do.
LEMMA DoneGrows ==
  ASSUME Settled \subseteq Settled', checkpoint \in 0 .. Events, checkpoint' \in 0 .. Events,
         checkpoint <= checkpoint'
  PROVE  Done \subseteq Done'
  <1>1. 1 .. checkpoint \subseteq 1 .. checkpoint'
    BY CollectorAssumption DEF CollectorAssumption
  <1> QED BY <1>1 DEF Done

\* What is settled is part of the source.
LEMMA SettledTyped ==
  ASSUME Types
  PROVE  Settled \subseteq 1 .. Events
  <1>1. dead \subseteq 1 .. Events /\ \A v \in verdicts : v.events \subseteq 1 .. Events
    BY DEF Types, PipeTypes, SendTypes
  <1> QED BY <1>1 DEF Settled, Stored

\* Records that differ have different sequences.
LEMMA RecordsApart ==
  ASSUME Types, FilesInOrder, NEW i \in DOMAIN segments, NEW k \in DOMAIN segments,
         NEW r \in ToSet(segments[i].records), NEW s \in ToSet(segments[k].records), r.seq = s.seq
  PROVE  i = k /\ r = s
  <1>1. /\ i \in Nat /\ k \in Nat /\ r \in RecordType /\ s \in RecordType
        /\ segments[i].records \in Seq(RecordType)
    BY NamesTyped
  <1>2. r.seq \in Nat /\ s.seq \in Nat
    BY <1>1 DEF RecordType
  <1>3. i = k
    BY <1>1, <1>2 DEF FilesInOrder
  <1>4. PICK j \in 1 .. Len(segments[i].records) : r = segments[i].records[j]
    BY <1>1, ToSetOf
  <1>5. PICK l \in 1 .. Len(segments[i].records) : s = segments[i].records[l]
    BY <1>1, <1>3, ToSetOf
  <1>6. \A m, n \in DOMAIN segments[i].records : m < n => segments[i].records[m].seq < segments[i].records[n].seq
    BY DEF FilesInOrder, SegmentInOrder
  <1>7. DOMAIN segments[i].records = 1 .. Len(segments[i].records)
    BY <1>1, ToSetOf
  <1>8. j = l
    <2>1. ~(j < l) /\ ~(l < j)
      BY <1>2, <1>4, <1>5, <1>6, <1>7
    <2> QED BY <2>1
  <1> QED BY <1>3, <1>4, <1>5, <1>8

-----------------------------------------------------------------------------
(* What a step leaves alone.                                                *)

\* A step of the pipeline that touches neither queue nor sender.
LEMMA PipelineFrame ==
  ASSUME CollectorInv,
         UNCHANGED <<meta, segments, manifests, queue, senderVars, verdicts>>,
         dead \subseteq dead', checkpoint <= checkpoint', checkpoint' \in 0 .. Events,
         batcher = "off" => batcher' = "off", faults \subseteq faults'
  PROVE  /\ FilesInOrder' /\ Used' /\ Identity' /\ Families' /\ Memory' /\ Kept' /\ Sending'
         /\ Finished' /\ Coverage' /\ References' /\ Undamaged'
         /\ Recs' = Recs /\ Known' = Known /\ Children' = Children /\ Final' = Final
         /\ Leaves' = Leaves /\ Settled \subseteq Settled' /\ Stored' = Stored
  <1>0. /\ UNCHANGED <<meta, segments, manifests, queue, verdicts>>
        /\ UNCHANGED <<connected, inflight, answered, outcome>>
    BY DEF senderVars
  <1>1. /\ Recs' = Recs /\ Children' = Children /\ Final' = Final /\ Pending' = Pending
        /\ IsUp' = IsUp /\ Running' = Running /\ Parents(queue)' = Parents(queue)
        /\ Stored' = Stored
    BY <1>0 DEF Recs, RecsOf, Children, Final, Pending, IsUp, Running, Parents, Stored
  <1>2. Known' = Known
    BY <1>1 DEF Known
  <1>3. Named' = Named /\ Low' = Low
    BY <1>0, <1>1, <1>2 DEF Named, Low
  <1>4. Settled \subseteq Settled'
    BY <1>0, SettledGrows
  <1>5. Leaves' = Leaves
    BY <1>0, <1>2, <1>3 DEF Leaves
  <1>6. FilesInOrder'
    BY <1>0 DEF CollectorInv, FilesInOrder, SegmentInOrder
  <1>7. Used'
    BY <1>0, <1>1, <1>3 DEF CollectorInv, Used
  <1>8. Identity'
    BY <1>0, <1>3 DEF CollectorInv, Identity
  <1>9. Families'
    BY <1>0, <1>2 DEF CollectorInv, Families
  <1>10. Memory'
    BY <1>0, <1>1, <1>2 DEF CollectorInv, Memory
  <1>11. Kept'
    BY <1>0, <1>1 DEF CollectorInv, Kept, KeptBy
  <1>12. Sending'
    <2>1. ASSUME NEW s, NEW c PROVE AckPreview(s, c)' = AckPreview(s, c)
      BY <1>0 DEF AckPreview, TerminalPrefix, WithOutcome, Covered, CompletedParents, Pending, Parents
    <2>2. AckPreview(outcome.seq, outcome.cumulative)' = AckPreview(outcome.seq, outcome.cumulative)
      BY <1>0 DEF AckPreview, TerminalPrefix, WithOutcome, Covered, CompletedParents, Pending, Parents
    <2>3. 1 .. checkpoint \subseteq 1 .. checkpoint'
      BY DEF CollectorInv, Types, PipeTypes
    <2>4. Sending
      BY DEF CollectorInv
    <2> QED BY <1>0, <1>1, <1>4, <2>2, <2>3, <2>4 DEF Sending, EventsOf
  <1>13. Finished'
    <2>1. 1 .. checkpoint \subseteq 1 .. checkpoint'
      BY DEF CollectorInv, Types, PipeTypes
    <2> QED BY <1>0, <1>1, <1>2, <1>4, <2>1 DEF CollectorInv, Finished
  <1>14. Coverage'
    <2>1. Done \subseteq Done'
      BY <1>4, DoneGrows DEF CollectorInv, Types, PipeTypes
    <2> QED BY <1>1, <2>1 DEF CollectorInv, Coverage, Sound
  <1>15. References'
    BY <1>0 DEF CollectorInv, References, Matched
  <1>16. Undamaged'
    BY <1>0, <1>1, <1>3 DEF CollectorInv, Undamaged, Guarded
  <1> QED BY <1>1, <1>2, <1>4, <1>5, <1>6, <1>7, <1>8, <1>9, <1>10, <1>11, <1>12, <1>13, <1>14, <1>15, <1>16

\* Once depends on the pipeline through the checkpoint and the dead letters.
LEMMA OnceFrame ==
  ASSUME CollectorInv,
         UNCHANGED <<meta, segments, manifests, queue, verdicts>>,
         checkpoint <= checkpoint', checkpoint' \in 0 .. Events, faults \subseteq faults',
         SyncAlways /\ "damage" \notin faults => Stored' \cap dead' = {}
  PROVE  Once'
  <1>1. /\ Recs' = Recs /\ Children' = Children /\ Final' = Final /\ Running' = Running
    BY DEF Recs, RecsOf, Children, Final, Running
  <1>2. Known' = Known
    BY <1>1 DEF Known
  <1>3. Leaves' = Leaves
    BY <1>1, <1>2 DEF Leaves, Low
  <1>4. ASSUME NEW r PROVE InDoubt(r)' <=> InDoubt(r)
    BY DEF InDoubt, Last
  <1>5. checkpoint \in Nat /\ checkpoint' \in Nat /\ \A v \in Final : v.events \subseteq Nat
    BY DEF CollectorInv, Types, PipeTypes, SendTypes, Final
  <1>6. \A e \in Nat : e <= checkpoint => e <= checkpoint'
    BY <1>5
  <1>7. Once
    BY DEF CollectorInv
  <1>8. SUFFICES ASSUME SyncAlways, "damage" \notin faults PROVE
           /\ \A r \in Recs : InDoubt(r) => r.seq > queue.acked /\ Descriptor(r) \notin queue.unacked
           /\ \A v \in Final : \A e \in v.events :
                 e <= checkpoint' \/ \E r \in Recs : r.intact /\ e \in r.events /\ ~InDoubt(r)
           /\ \A v, w \in Final : v # w => v.events \cap w.events = {}
           /\ \A a, b \in Leaves : a # b => a.events \cap b.events = {}
           /\ \A b \in Leaves, v \in Final : v.seq # b.seq => v.events \cap b.events = {}
           /\ Stored' \cap dead' = {}
    BY <1>1, <1>3, <1>4 DEF Once
  <1> QED BY <1>5, <1>6, <1>7, <1>8 DEF Once

-----------------------------------------------------------------------------
(* The pipeline.                                                            *)

\* On a healthy queue a batch that will be delivered holds whatever a record
\* holds and nothing settled.
LEMMA PendingCovers ==
  ASSUME Types, Used, Families, Memory, Finished, IsUp, ~queue.unhealthy,
         NEW r \in Recs, NEW e \in r.events, e \notin Settled
  PROVE  \E b \in Pending : e \in b.events
  <1> DEFINE B == {k \in Known : e \in k.events}
             S == SeqsOf(B)
  <1>1. Known \subseteq Batch /\ Descriptor(r) \in B
    BY NamesTyped
  <1>2. S \in SUBSET Nat /\ S # {}
    BY <1>1 DEF SeqsOf, Batch
  <1>3. meta.next \in Nat /\ meta.acked \in Nat /\ queue.acked \in Nat /\ queue.acked <= meta.acked
    BY QueueTyped DEF Used
  <1>4. \A n \in S : n <= meta.next
    <2>1. \A n \in S : n \in SeqsOf(Named)
      BY DEF SeqsOf, Named
    <2> QED BY <1>2, <1>3, <2>1 DEF Used
  <1>5. PICK n \in S : \A m \in S : m <= n
    <2> HIDE DEF S
    <2> QED BY <1>2, <1>3, <1>4, GreatestOf
  <1>6. PICK b \in B : b.seq = n
    BY DEF SeqsOf
  <1>7. b \in Known /\ b.seq \in Nat /\ e \in b.events
    BY <1>1 DEF Batch
  <1>8. b.seq > queue.acked
    <2>1. ~(b.seq <= meta.acked)
      BY <1>7 DEF Finished
    <2> QED BY <1>3, <1>7, <2>1
  <1>9. b \in queue.unacked
    BY <1>7, <1>8 DEF Memory
  <1>10. b.seq \notin Parents(queue)
    <2>1. SUFFICES ASSUME NEW p \in queue.repacks, p.parent = b.seq PROVE FALSE
      BY DEF Parents
    <2>2. p \in manifests
      BY DEF Memory
    <2>3. b.events = EventsOf(p.children)
      BY <1>7, <2>1, <2>2 DEF Families
    <2>4. PICK c \in p.children : e \in c.events
      BY <1>7, <2>3 DEF EventsOf
    <2>5. c \in Known /\ c.seq \in Nat /\ p.parent < c.seq
      BY <2>2, PlansOf
    <2>6. c.seq \in S
      BY <2>4, <2>5 DEF SeqsOf
    <2> QED BY <1>5, <1>6, <1>7, <2>1, <2>5, <2>6
  <1> QED BY <1>7, <1>9, <1>10 DEF Pending

\* What the batcher holds.
LEMMA HandOf ==
  ASSUME Types
  PROVE  /\ DOMAIN work = 1 .. Len(work) /\ Len(work) \in Nat
         /\ \A i \in 1 .. Len(work) : work[i] \subseteq 1 .. Events /\ work[i] # {}
         /\ \A e : e \in InHand <=> e \in batch \/ \E i \in 1 .. Len(work) : e \in work[i]
         /\ InHand \subseteq 1 .. Events
         /\ work # <<>> => /\ 1 \in DOMAIN work /\ Head(work) = work[1]
                           /\ Tail(work) \in Seq(Chunk)
                           /\ Len(Tail(work)) = Len(work) - 1
                           /\ \A i \in 1 .. Len(work) - 1 : Tail(work)[i] = work[i + 1]
  <1>1. work \in Seq(Chunk) /\ batch \subseteq 1 .. Events
    BY DEF Types, PipeTypes
  <1>2. DOMAIN work = 1 .. Len(work) /\ Len(work) \in Nat
        /\ \A i \in 1 .. Len(work) : work[i] \in Chunk
    BY <1>1
  <1>3. \A x : x \in ToSet(work) <=> \E i \in 1 .. Len(work) : x = work[i]
    BY <1>1, ToSetOf
  <1>4. work # <<>> => /\ 1 \in DOMAIN work /\ Head(work) = work[1]
                       /\ Tail(work) \in Seq(Chunk)
                       /\ Len(Tail(work)) = Len(work) - 1
                       /\ \A i \in 1 .. Len(work) - 1 : Tail(work)[i] = work[i + 1]
    BY <1>1, <1>2
  <1>5. \A e : e \in InHand <=> e \in batch \/ \E i \in 1 .. Len(work) : e \in work[i]
    BY <1>3 DEF InHand
  <1>6. \A i \in 1 .. Len(work) : work[i] \subseteq 1 .. Events /\ work[i] # {}
    BY <1>2 DEF Chunk
  <1>7. InHand \subseteq 1 .. Events
    BY <1>1, <1>5, <1>6
  <1> QED BY <1>2, <1>4, <1>5, <1>6, <1>7

\* A step of the pipeline keeps the invariant if its own part of it holds after.
LEMMA PipelineStep ==
  ASSUME CollectorInv,
         UNCHANGED <<meta, segments, manifests, queue, senderVars, verdicts, epoch>>,
         dead \subseteq dead', checkpoint <= checkpoint',
         batcher = "off" => batcher' = "off", faults \subseteq faults', faults' \subseteq Faults,
         PipeTypes', InOrder', Dropping', Past',
         dead' \subseteq dead \cup Undecodable \cup Huge,
         SyncAlways /\ "damage" \notin faults => Stored \cap dead' = {}
  PROVE  CollectorInv'
  <1>1. checkpoint' \in 0 .. Events
    BY DEF PipeTypes
  <1>2. /\ FilesInOrder' /\ Used' /\ Identity' /\ Families' /\ Memory' /\ Kept' /\ Sending'
        /\ Finished' /\ Coverage' /\ References' /\ Undamaged'
        /\ Recs' = Recs /\ Children' = Children /\ Final' = Final
        /\ Settled \subseteq Settled' /\ Stored' = Stored
    BY <1>1, PipelineFrame
  <1>3. Types'
    <2>1. FileTypes' /\ queue' \in QueueType
      BY DEF CollectorInv, Types, FileTypes
    <2>2. SendTypes'
      BY DEF CollectorInv, Types, SendTypes, senderVars, SeqsOf
    <2> QED BY <2>1, <2>2 DEF Types
  <1>4. Shut'
    BY DEF CollectorInv, Shut, IsUp, senderVars, NoOutcome, ClosedQueue
  <1>5. Origins'
    BY <1>2 DEF CollectorInv, Origins, EventsOf
  <1>6. Once'
    BY <1>1, <1>2, OnceFrame
  <1> QED BY <1>2, <1>3, <1>4, <1>5, <1>6 DEF CollectorInv

\* What is in order while the batcher runs.
LEMMA OrderNow ==
  ASSUME CollectorInv, batcher # "off"
  PROVE  /\ IsUp
         /\ readPos \in 0 .. Events /\ checkpoint \in 0 .. Events
         /\ 1 .. readPos \subseteq Done \cup EventsOf(Recs) \cup InHand
         /\ checkpoint <= readPos
         /\ \A r \in Recs : \A e \in r.events : e \in Nat /\ e <= readPos /\ \A h \in InHand : e < h
         /\ \A h \in InHand : h \in 1 .. Events /\ checkpoint < h /\ h <= readPos /\ h \notin Undecodable
         /\ \A i, k \in 1 .. Len(work) : i < k => \A d \in work[i], e \in work[k] : d < e
         /\ \A i \in 1 .. Len(work) : \A d \in work[i], e \in batch : d < e
  <1>1. Types /\ IsUp
    BY DEF CollectorInv, Shut
  <1>2. \A r \in Recs : \A e \in r.events : e \in Nat
    BY <1>1, NamesTyped DEF RecordType
  <1>3. DOMAIN work = 1 .. Len(work) /\ InHand \subseteq 1 .. Events
    BY <1>1, HandOf
  <1>4. readPos \in 0 .. Events /\ checkpoint \in 0 .. Events
    BY <1>1 DEF Types, PipeTypes
  <1> QED BY <1>1, <1>2, <1>3, <1>4 DEF CollectorInv, InOrder

\* An undecodable event goes to the dead letters.
LEMMA ReadUndecodableKeeps ==
  ASSUME CollectorInv, ReadUndecodable
  PROVE  CollectorInv'
  <1> USE CollectorAssumption
  <1>0. /\ batcher = "on" /\ Next1 \in Undecodable
        /\ dead' = dead \cup {Next1} /\ readPos' = Next1
        /\ UNCHANGED <<meta, segments, manifests, queue, senderVars, verdicts, epoch>>
        /\ UNCHANGED <<batch, work, batcher, checkpoint, faults>>
    BY DEF ReadUndecodable, NoFault, queueVars
  <1>1. Types
    BY DEF CollectorInv
  <1>2. readPos \in Nat /\ Next1 = readPos + 1 /\ Next1 \in 1 .. Events /\ checkpoint \in Nat
    BY <1>0, <1>1 DEF Next1, Types, PipeTypes
  <1>3. PipeTypes' /\ faults' \subseteq Faults
    BY <1>0, <1>1, <1>2 DEF Types, PipeTypes, SendTypes
  <1>4. Recs' = Recs /\ InHand' = InHand /\ Settled' = Settled \cup {Next1}
        /\ Done' = Done \cup {Next1}
    BY <1>0 DEF Recs, RecsOf, InHand, Settled, Stored, Done
  <1>5. InOrder'
    <2>1. \A n \in 1 .. Next1 : n \in 1 .. readPos \/ n = Next1
      BY <1>2
    <2>2. 1 .. readPos' \subseteq Done' \cup EventsOf(Recs) \cup InHand
      BY <1>0, <1>4, <2>1, OrderNow
    <2>3. \A r \in Recs : \A e \in r.events : e <= readPos'
      BY <1>0, <1>2, OrderNow
    <2>4. \A h \in InHand : h <= readPos'
      BY <1>0, <1>2, OrderNow
    <2>5. checkpoint' <= readPos'
      BY <1>0, <1>2, OrderNow
    <2> QED BY <1>0, <1>1, <1>4, <2>2, <2>3, <2>4, <2>5, OrderNow, HandOf DEF InOrder, EventsOf
  <1>6. Dropping'
    BY <1>0 DEF CollectorInv, Dropping
  <1>7. Past'
    BY <1>0, <1>4 DEF CollectorInv, Past, NoOversized
  <1>8. SyncAlways /\ "damage" \notin faults => Stored \cap dead' = {}
    <2>1. Next1 \notin Stored
      BY <1>0 DEF CollectorInv, Origins, Stored
    <2>2. SyncAlways /\ "damage" \notin faults => Stored \cap dead = {}
      BY DEF CollectorInv, Once
    <2> QED BY <1>0, <2>1, <2>2
  <1> QED BY <1>0, <1>2, <1>3, <1>5, <1>6, <1>7, <1>8, PipelineStep

\* An event read joins the batch, and a full batch is flushed.
LEMMA ReadKeeps ==
  ASSUME CollectorInv, Read
  PROVE  CollectorInv'
  <1> USE CollectorAssumption
  <1> DEFINE grown == batch \cup {Next1}
  <1>0. /\ batcher = "on" /\ work = <<>> /\ Next1 \in (1 .. Events) \ Undecodable
        /\ readPos' = Next1
        /\ UNCHANGED <<meta, segments, manifests, queue, senderVars, verdicts, epoch>>
        /\ UNCHANGED <<batcher, checkpoint, dead, faults>>
        /\ \/ batch' = {} /\ work' = <<grown>>
           \/ batch' = grown /\ work' = <<>>
    BY DEF Read, NoFault, queueVars
  <1>1. Types
    BY DEF CollectorInv
  <1>2. readPos \in Nat /\ Next1 = readPos + 1 /\ Next1 \in 1 .. Events /\ checkpoint \in Nat
        /\ batch \subseteq 1 .. Events
    BY <1>0, <1>1 DEF Next1, Types, PipeTypes
  <1>3. grown \in Chunk /\ grown \subseteq 1 .. Events
    BY <1>2 DEF Chunk
  <1> HIDE DEF grown
  <1>4. PipeTypes' /\ faults' \subseteq Faults
    <2>1. <<grown>> \in Seq(Chunk)
      BY <1>3
    <2>2. work' \in Seq(Chunk)
      <3>1. <<>> \in Seq(Chunk)
        OBVIOUS
      <3>2. work' = <<grown>> \/ work' = <<>>
        BY <1>0
      <3> QED BY <2>1, <3>1, <3>2
    <2>3. batch' \subseteq 1 .. Events
      BY <1>0, <1>3
    <2> QED BY <1>0, <1>1, <1>2, <2>2, <2>3 DEF Types, PipeTypes, SendTypes
  <1>5. InHand' = grown /\ InHand = batch
    BY <1>0 DEF InHand, ToSet
  <1>6. Recs' = Recs /\ Settled' = Settled /\ Done' = Done
    BY <1>0 DEF Recs, RecsOf, Settled, Stored, Done
  <1>7. \A h \in grown : h \in batch \/ h = Next1
    BY DEF grown
  <1>8. InOrder'
    <2>1. \A n \in 1 .. Next1 : n \in 1 .. readPos \/ n = Next1
      BY <1>2
    <2>2. 1 .. readPos' \subseteq Done' \cup EventsOf(Recs) \cup grown
      BY <1>0, <1>5, <1>6, <2>1, OrderNow DEF grown
    <2>3. ASSUME NEW r \in Recs, NEW e \in r.events PROVE e <= readPos' /\ \A h \in grown : e < h
      <3>1. e \in Nat /\ e <= readPos /\ \A h \in batch : e < h
        BY <1>0, <1>5, OrderNow
      <3>2. e <= Next1 /\ e < Next1
        BY <1>2, <3>1
      <3> QED BY <1>0, <1>7, <3>1, <3>2
    <2>4. ASSUME NEW h \in grown PROVE checkpoint < h /\ h <= readPos' /\ h \notin Undecodable
      <3>1. CASE h \in batch
        <4>1. h \in 1 .. Events /\ checkpoint < h /\ h <= readPos /\ h \notin Undecodable
          BY <1>0, <1>5, <3>1, OrderNow
        <4> QED BY <1>0, <1>2, <4>1
      <3>2. CASE h = Next1
        <4>1. checkpoint <= readPos
          BY <1>0, OrderNow
        <4> QED BY <1>0, <1>2, <3>2, <4>1
      <3> QED BY <1>7, <3>1, <3>2
    <2>5. checkpoint' <= readPos'
      BY <1>0, <1>2, OrderNow
    <2>6. /\ \A i, k \in DOMAIN work' : ~(i < k)
          /\ \A i \in DOMAIN work' : batch' = {}
      BY <1>0
    <2> QED BY <1>0, <1>5, <1>6, <2>2, <2>3, <2>4, <2>5, <2>6 DEF InOrder, EventsOf
  <1>9. Dropping'
    BY <1>0 DEF CollectorInv, Dropping
  <1>10. Past'
    BY <1>0, <1>6 DEF CollectorInv, Past, NoOversized
  <1>11. SyncAlways /\ "damage" \notin faults => Stored \cap dead' = {}
    BY <1>0 DEF CollectorInv, Once
  <1> QED BY <1>0, <1>2, <1>4, <1>8, <1>9, <1>10, <1>11, PipelineStep

\* The batch is flushed before it is full.
LEMMA LingerKeeps ==
  ASSUME CollectorInv, Linger
  PROVE  CollectorInv'
  <1>0. /\ batcher = "on" /\ work = <<>> /\ batch # {} /\ batch' = {} /\ work' = <<batch>>
        /\ UNCHANGED <<meta, segments, manifests, queue, senderVars, verdicts, epoch>>
        /\ UNCHANGED <<readPos, batcher, checkpoint, dead, faults>>
    BY DEF Linger, NoFault, queueVars
  <1>1. Types
    BY DEF CollectorInv
  <1>2. PipeTypes' /\ faults' \subseteq Faults /\ checkpoint \in Nat
    <2>1. batch \in Chunk
      BY <1>0, <1>1 DEF Chunk, Types, PipeTypes
    <2>2. work' \in Seq(Chunk) /\ batch' \subseteq 1 .. Events
      BY <1>0, <2>1
    <2> QED BY <1>0, <1>1, <2>2 DEF Types, PipeTypes, SendTypes
  <1>3. InHand' = batch /\ InHand = batch
    BY <1>0 DEF InHand, ToSet
  <1>4. Recs' = Recs /\ Settled' = Settled
    BY <1>0 DEF Recs, RecsOf, Settled, Stored
  <1>5. InOrder'
    <2>1. /\ \A i, k \in DOMAIN work' : ~(i < k)
          /\ batch' = {}
      BY <1>0
    <2> QED BY <1>0, <1>3, <1>4, <2>1, OrderNow DEF InOrder, EventsOf, Done
  <1>6. Dropping'
    BY <1>0 DEF CollectorInv, Dropping
  <1>7. Past'
    BY <1>0, <1>4 DEF CollectorInv, Past, NoOversized
  <1>8. SyncAlways /\ "damage" \notin faults => Stored \cap dead' = {}
    BY <1>0 DEF CollectorInv, Once
  <1> QED BY <1>0, <1>2, <1>5, <1>6, <1>7, <1>8, PipelineStep

\* The pipeline stops: what it had in hand is read again.
LEMMA StopKeeps ==
  ASSUME CollectorInv, FlushRefused \/ GraceExpires
  PROVE  CollectorInv'
  <1>0. /\ batch' = {} /\ work' = <<>> /\ batcher' = "off"
        /\ UNCHANGED <<meta, segments, manifests, queue, senderVars, verdicts, epoch>>
        /\ UNCHANGED <<readPos, checkpoint, dead>>
    BY DEF FlushRefused, GraceExpires, queueVars
  <1>1. Types
    BY DEF CollectorInv
  <1>2. faults \subseteq faults' /\ faults' \subseteq Faults
    BY <1>1 DEF FlushRefused, GraceExpires, NoFault, Fault, Types, SendTypes
  <1>3. PipeTypes' /\ checkpoint \in Nat
    BY <1>0, <1>1 DEF Types, PipeTypes
  <1>4. InOrder' /\ Dropping'
    BY <1>0 DEF InOrder, Dropping
  <1>5. Past'
    BY <1>0 DEF CollectorInv, Past, NoOversized, Settled, Stored
  <1>6. SyncAlways /\ "damage" \notin faults => Stored \cap dead' = {}
    BY <1>0 DEF CollectorInv, Once
  <1> QED BY <1>0, <1>2, <1>3, <1>4, <1>5, <1>6, PipelineStep

\* The operator removes the quarantine files.
LEMMA OperatorCleansKeeps ==
  ASSUME CollectorInv, OperatorCleans
  PROVE  CollectorInv'
  <1>0. /\ UNCHANGED <<meta, segments, manifests, queue, senderVars, verdicts, epoch>>
        /\ UNCHANGED <<readPos, batch, work, batcher, checkpoint, dead, faults>>
    BY DEF OperatorCleans, CleanQuarantine, NoFault, pipelineVars
  <1>1. Types
    BY DEF CollectorInv
  <1>2. PipeTypes' /\ faults' \subseteq Faults /\ checkpoint \in Nat
    BY <1>0, <1>1 DEF Types, PipeTypes, SendTypes
  <1>3. Recs' = Recs /\ Settled' = Settled /\ InHand' = InHand
    BY <1>0 DEF Recs, RecsOf, Settled, Stored, InHand
  <1>4. InOrder'
    BY <1>0, <1>3 DEF CollectorInv, InOrder, EventsOf, Done
  <1>5. Dropping'
    BY <1>0 DEF CollectorInv, Dropping
  <1>6. Past'
    BY <1>0, <1>3 DEF CollectorInv, Past, NoOversized
  <1>7. SyncAlways /\ "damage" \notin faults => Stored \cap dead' = {}
    BY <1>0 DEF CollectorInv, Once
  <1> QED BY <1>0, <1>2, <1>4, <1>5, <1>6, <1>7, PipelineStep

\* A batch the queue can never take is split in two.
LEMMA FlushSplitsKeeps ==
  ASSUME CollectorInv, FlushSplits
  PROVE  CollectorInv'
  <1> USE CollectorAssumption
  <1> DEFINE whole == Head(work)
             first == {event \in whole : Rank(whole, event) <= Cardinality(whole) \div 2}
             second == whole \ first
             rest == Tail(work)
  <1>0. /\ batcher = "on" /\ work # <<>> /\ Cardinality(whole) > 1
        /\ work' = <<first, second>> \o rest
        /\ UNCHANGED <<meta, segments, manifests, queue, senderVars, verdicts, epoch>>
        /\ UNCHANGED <<readPos, batch, batcher, checkpoint, dead, faults>>
    BY DEF FlushSplits, Flushing, NoFault, queueVars
  <1>1. Types
    BY DEF CollectorInv
  <1>2. /\ Len(work) \in Nat /\ 1 \in 1 .. Len(work) /\ whole = work[1]
        /\ \A i \in 1 .. Len(work) : work[i] \subseteq 1 .. Events /\ work[i] # {}
        /\ rest \in Seq(Chunk) /\ Len(rest) = Len(work) - 1
        /\ \A i \in 1 .. Len(work) - 1 : rest[i] = work[i + 1]
    BY <1>0, <1>1, HandOf
  <1>3. whole \subseteq 1 .. Events
    BY <1>2
  <1>4. first # {} /\ second # {} /\ \A d \in first, e \in second : d < e
    <2> HIDE DEF whole
    <2>1. whole \in SUBSET Nat /\ Events \in Nat /\ \A n \in whole : n <= Events
      BY <1>3
    <2> QED BY <1>0, <2>1, HalfOf
  <1>5. first \cup second = whole
    OBVIOUS
  <1> HIDE DEF whole, first, second, rest
  <1>6. /\ work' \in Seq(Chunk) /\ Len(work') = Len(work) + 1
        /\ work'[1] = first /\ work'[2] = second
        /\ \A i \in 3 .. Len(work) + 1 : work'[i] = work[i - 1]
        /\ DOMAIN work' = 1 .. Len(work) + 1
    <2> DEFINE pair == <<first, second>>
    <2>0. first \in Chunk /\ second \in Chunk
      BY <1>3, <1>4, <1>5 DEF Chunk
    <2>1. pair \in Seq(Chunk) /\ Len(pair) = 2 /\ pair[1] = first /\ pair[2] = second
      BY <2>0
    <2> HIDE DEF pair
    <2>2. /\ pair \o rest \in Seq(Chunk)
          /\ Len(pair \o rest) = 2 + Len(rest)
          /\ \A i \in 1 .. Len(pair) + Len(rest) :
                (pair \o rest)[i] = IF i <= Len(pair) THEN pair[i] ELSE rest[i - Len(pair)]
      <3>1. rest \in Seq(Chunk)
        BY <1>2
      <3> QED BY <2>1, <3>1, ConcatProperties
    <2>3. work' = pair \o rest
      BY <1>0 DEF pair
    <2>4. \A i \in 3 .. Len(work) + 1 : i - 2 \in 1 .. Len(work) - 1 /\ rest[i - 2] = work[i - 1]
      BY <1>2
    <2>5. DOMAIN work' = 1 .. Len(work')
      BY <2>2, <2>3
    <2> QED BY <1>2, <2>1, <2>2, <2>3, <2>4, <2>5
  <1>7. PipeTypes' /\ faults' \subseteq Faults /\ checkpoint \in Nat
    BY <1>0, <1>1, <1>6 DEF Types, PipeTypes, SendTypes
  \* Every element of the new list is part of one of the old.
  <1> DEFINE from(i) == IF i <= 2 THEN 1 ELSE i - 1
  <1>8. \A i \in 1 .. Len(work) + 1 : from(i) \in 1 .. Len(work) /\ work'[i] \subseteq work[from(i)]
    <2>1. TAKE i \in 1 .. Len(work) + 1
    <2>2. CASE i = 1
      BY <1>2, <1>5, <1>6, <2>2
    <2>3. CASE i = 2
      BY <1>2, <1>5, <1>6, <2>3
    <2>4. CASE i \in 3 .. Len(work) + 1
      BY <1>2, <1>6, <2>4
    <2> QED BY <1>2, <2>2, <2>3, <2>4
  <1>9. \A e : e \in InHand' <=> e \in InHand
    <2>1. \A e : e \in InHand' <=> e \in batch' \/ \E i \in 1 .. Len(work') : e \in work'[i]
      <3>1. \A x : x \in ToSet(work') <=> \E i \in 1 .. Len(work') : x = work'[i]
        BY <1>6, ToSetOf
      <3> QED BY <3>1 DEF InHand
    <2>2. ASSUME NEW e \in InHand' PROVE e \in InHand
      BY <1>0, <1>1, <1>6, <1>8, <2>1, HandOf
    <2>3. ASSUME NEW e \in InHand PROVE e \in InHand'
      <3>1. CASE e \in batch
        BY <1>0, <2>1, <3>1
      <3>2. CASE \E i \in 1 .. Len(work) : e \in work[i]
        <4>1. PICK i \in 1 .. Len(work) : e \in work[i]
          BY <3>2
        <4>2. CASE i = 1
          <5>1. e \in work'[1] \/ e \in work'[2]
            BY <1>2, <1>5, <1>6, <4>1, <4>2
          <5>2. 1 \in 1 .. Len(work') /\ 2 \in 1 .. Len(work')
            BY <1>2, <1>6
          <5> QED BY <2>1, <5>1, <5>2
        <4>3. CASE i # 1
          <5>1. i + 1 \in 3 .. Len(work) + 1 /\ (i + 1) - 1 = i
            BY <1>2, <4>3
          <5>2. work'[i + 1] = work[i]
            BY <1>6, <5>1
          <5>3. i + 1 \in 1 .. Len(work')
            BY <1>2, <1>6, <5>1
          <5> QED BY <2>1, <4>1, <5>2, <5>3
        <4> QED BY <4>2, <4>3
      <3> QED BY <1>1, <3>1, <3>2, HandOf
    <2> QED BY <2>2, <2>3
  <1>10. Recs' = Recs /\ Settled' = Settled /\ InHand' = InHand
    BY <1>0, <1>9 DEF Recs, RecsOf, Settled, Stored
  <1>11. InOrder'
    <2>1. ASSUME NEW i \in DOMAIN work', NEW k \in DOMAIN work', i < k,
                 NEW d \in work'[i], NEW e \in work'[k]
          PROVE  d < e
      <3>1. /\ i \in 1 .. Len(work) + 1 /\ k \in 1 .. Len(work) + 1
            /\ d \in work[from(i)] /\ e \in work[from(k)]
        BY <1>6, <1>8, <2>1
      <3>2. CASE i = 1 /\ k = 2
        BY <1>4, <1>6, <2>1, <3>2
      <3>3. CASE ~(i = 1 /\ k = 2)
        <4>1. from(i) < from(k)
          BY <1>2, <2>1, <3>1, <3>3
        <4>2. from(i) \in 1 .. Len(work) /\ from(k) \in 1 .. Len(work)
          BY <1>8, <3>1
        <4> HIDE DEF from
        <4> QED BY <1>0, <3>1, <4>1, <4>2, OrderNow
      <3> QED BY <3>2, <3>3
    <2>2. ASSUME NEW i \in DOMAIN work', NEW d \in work'[i], NEW e \in batch
          PROVE  d < e
      <3>1. from(i) \in 1 .. Len(work) /\ d \in work[from(i)]
        BY <1>6, <1>8
      <3> HIDE DEF from
      <3> QED BY <1>0, <3>1, OrderNow
    <2> QED BY <1>0, <1>10, <2>1, <2>2, OrderNow DEF InOrder, EventsOf, Done
  <1>12. Dropping'
    BY <1>0 DEF CollectorInv, Dropping
  <1>13. Past'
    BY <1>0, <1>10 DEF CollectorInv, Past, NoOversized
  <1>14. SyncAlways /\ "damage" \notin faults => Stored \cap dead' = {}
    BY <1>0 DEF CollectorInv, Once
  <1> QED BY <1>0, <1>7, <1>11, <1>12, <1>13, <1>14, PipelineStep

\* An event the queue can never take goes to the dead letters.
LEMMA FlushDeadLettersKeeps ==
  ASSUME CollectorInv, FlushDeadLetters
  PROVE  CollectorInv'
  <1> USE CollectorAssumption, QueueAssumption
  <1>0. /\ batcher = "on" /\ work # <<>> /\ IsUp /\ ~queue.unhealthy
        /\ TooLarge(Head(work)) /\ Cardinality(Head(work)) = 1
        /\ dead' = dead \cup Head(work) /\ batcher' = "dropping"
        /\ UNCHANGED <<meta, segments, manifests, queue, senderVars, verdicts, epoch>>
        /\ UNCHANGED <<readPos, batch, work, checkpoint, faults>>
    BY DEF FlushDeadLetters, Flushing, CanAppend, NoFault, queueVars
  <1>1. Types
    BY DEF CollectorInv
  <1>2. Head(work) \subseteq 1 .. Events /\ 1 \in DOMAIN work /\ Head(work) = work[1]
    BY <1>0, <1>1, HandOf
  <1>3. \E e \in Huge : Head(work) = {e}
    <2>1. Head(work) \cap Huge # {}
      BY <1>0 DEF TooLarge, RecordSize
    <2>2. IsFiniteSet(Head(work))
      <3>1. 1 \in Int /\ Events \in Int
        BY DEF CollectorAssumption
      <3>2. IsFiniteSet(1 .. Events)
        BY <3>1, FS_Interval
      <3> QED BY <1>2, <3>2, FS_Subset
    <2>3. PICK x : Head(work) = {x}
      BY <1>0, <2>2, FS_Singleton
    <2> QED BY <2>1, <2>3
  <1>4. PipeTypes' /\ faults' \subseteq Faults /\ checkpoint \in Nat
    <2>1. dead' \subseteq 1 .. Events
      BY <1>0, <1>1, <1>2 DEF Types, PipeTypes
    <2> QED BY <1>0, <1>1, <2>1 DEF Types, PipeTypes, SendTypes
  <1>5. Recs' = Recs /\ InHand' = InHand /\ Settled \subseteq Settled'
    BY <1>0 DEF Recs, RecsOf, InHand, Settled, Stored
  <1>6. InOrder'
    BY <1>0, <1>5 DEF CollectorInv, InOrder, EventsOf, Done
  <1>7. Dropping'
    BY <1>0, <1>3 DEF CollectorInv, Dropping
  <1>8. Past'
    BY <1>0, <1>5 DEF CollectorInv, Past, NoOversized
  <1>9. SyncAlways /\ "damage" \notin faults => Stored \cap dead' = {}
    <2>1. Huge \cap Stored = {}
      BY DEF CollectorInv, Origins, Stored
    <2>2. SyncAlways /\ "damage" \notin faults => Stored \cap dead = {}
      BY DEF CollectorInv, Once
    <2> QED BY <1>0, <1>3, <2>1, <2>2
  <1>10. dead' \subseteq dead \cup Undecodable \cup Huge
    BY <1>0, <1>3
  <1> QED BY <1>0, <1>4, <1>6, <1>7, <1>8, <1>9, <1>10, PipelineStep

\* The checkpoint passes a dropped event when nothing waits before it.
LEMMA AdvanceCheckpointKeeps ==
  ASSUME CollectorInv, AdvanceCheckpoint
  PROVE  CollectorInv'
  <1> USE CollectorAssumption
  <1>0. /\ batcher = "dropping" /\ batcher' = "on" /\ work' = Tail(work)
        /\ checkpoint' = IF Pending = {} THEN Larger(checkpoint, MaxOf(Head(work), 0)) ELSE checkpoint
        /\ UNCHANGED <<meta, segments, manifests, queue, senderVars, verdicts, epoch>>
        /\ UNCHANGED <<readPos, batch, dead, faults>>
    BY DEF AdvanceCheckpoint, NoFault, queueVars
  <1>1. Types
    BY DEF CollectorInv
  <1>2. /\ work # <<>> /\ Head(work) \subseteq dead /\ ("repack" \notin Faults => ~queue.unhealthy)
        /\ \E e \in Huge : Head(work) = {e}
    BY <1>0 DEF CollectorInv, Dropping
  <1>3. PICK top \in Huge : Head(work) = {top}
    BY <1>2
  <1>4. /\ Len(work) \in Nat /\ 1 \in 1 .. Len(work) /\ work[1] = {top}
        /\ work' \in Seq(Chunk) /\ Len(work') = Len(work) - 1
        /\ \A i \in 1 .. Len(work) - 1 : work'[i] = work[i + 1]
        /\ DOMAIN work' = 1 .. Len(work) - 1
    <2>1. work' \in Seq(Chunk)
      BY <1>0, <1>1, <1>2, HandOf
    <2>2. DOMAIN work' = 1 .. Len(work')
      BY <2>1
    <2> QED BY <1>0, <1>1, <1>2, <1>3, <2>1, <2>2, HandOf
  <1>5. /\ top \in 1 .. Events /\ top \in dead /\ top \in InHand
        /\ checkpoint \in 0 .. Events /\ readPos \in 0 .. Events
        /\ checkpoint < top /\ top <= readPos /\ checkpoint <= readPos /\ IsUp
    <2>1. top \in InHand /\ top \in dead
      BY <1>1, <1>2, <1>3, <1>4, HandOf
    <2> QED BY <1>0, <2>1, OrderNow
  <1>6. checkpoint' \in {checkpoint, top} /\ (checkpoint' = top => top = checkpoint \/ Pending = {})
    <2>1. {top} \in SUBSET Nat /\ {top} # {} /\ Events \in Nat /\ \A n \in {top} : n <= Events
      BY <1>5
    <2>2. MaxOf({top}, 0) = top
      BY <2>1, MaxOfGreatest
    <2> QED BY <1>0, <1>3, <1>5, <2>2 DEF Larger
  <1>7. PipeTypes' /\ faults' \subseteq Faults /\ checkpoint <= checkpoint'
    BY <1>0, <1>1, <1>4, <1>5, <1>6 DEF Types, PipeTypes, SendTypes
  <1>8. Recs' = Recs /\ Settled' = Settled
    BY <1>0 DEF Recs, RecsOf, Settled, Stored
  <1>9. \A e : e \in InHand <=> e = top \/ e \in InHand'
    <2>1. \A e : e \in InHand' <=> e \in batch \/ \E i \in 1 .. Len(work') : e \in work'[i]
      <3>1. \A x : x \in ToSet(work') <=> \E i \in 1 .. Len(work') : x = work'[i]
        BY <1>4, ToSetOf
      <3> QED BY <1>0, <3>1 DEF InHand
    <2>2. ASSUME NEW e \in InHand', e \notin batch PROVE e \in InHand
      <3>1. PICK i \in 1 .. Len(work) - 1 : e \in work'[i]
        BY <1>4, <2>1, <2>2
      <3>2. i + 1 \in 1 .. Len(work) /\ e \in work[i + 1]
        BY <1>4, <3>1
      <3> QED BY <1>1, <3>2, HandOf
    <2>3. ASSUME NEW e \in InHand, e # top, e \notin batch PROVE e \in InHand'
      <3>1. PICK i \in 1 .. Len(work) : e \in work[i]
        BY <1>1, <2>3, HandOf
      <3>2. i # 1
        BY <1>4, <2>3, <3>1
      <3>3. i - 1 \in 1 .. Len(work) - 1 /\ work'[i - 1] = work[i]
        BY <1>4, <3>2
      <3> QED BY <1>4, <2>1, <3>1, <3>3
    <2> QED BY <1>1, <1>5, <2>1, <2>2, <2>3, HandOf
  <1>10. \A h \in InHand' : top < h
    <2>1. ASSUME NEW h \in batch PROVE top < h
      BY <1>0, <1>4, OrderNow
    <2>2. ASSUME NEW i \in 1 .. Len(work'), NEW h \in work'[i] PROVE top < h
      <3>1. i + 1 \in 1 .. Len(work) /\ h \in work[i + 1] /\ 1 < i + 1 /\ top \in work[1]
        BY <1>4
      <3> QED BY <1>0, <1>4, <3>1, OrderNow
    <2>3. \A x : x \in ToSet(work') <=> \E i \in 1 .. Len(work') : x = work'[i]
      BY <1>4, ToSetOf
    <2> QED BY <1>0, <2>1, <2>2, <2>3 DEF InHand
  <1>11. InOrder'
    <2>1. 1 .. readPos' \subseteq Done' \cup EventsOf(Recs) \cup InHand'
      <3>1. top \in Settled
        BY <1>5 DEF Settled
      <3>2. Done \subseteq Done'
        BY <1>1, <1>7, <1>8, DoneGrows DEF Types, PipeTypes
      <3>3. top \in Done'
        BY <1>8, <3>1 DEF Done
      <3> QED BY <1>0, <1>9, <3>2, <3>3, OrderNow
    <2>2. checkpoint' <= readPos'
      BY <1>0, <1>5, <1>6
    <2>3. \A r \in Recs : \A e \in r.events : e <= readPos' /\ \A h \in InHand' : e < h
      BY <1>0, <1>9, OrderNow
    <2>4. ASSUME NEW h \in InHand' PROVE checkpoint' < h /\ h <= readPos' /\ h \notin Undecodable
      <3>1. h \in InHand
        BY <1>9
      <3>2. h \in 1 .. Events /\ checkpoint < h /\ h <= readPos /\ h \notin Undecodable
        BY <1>0, <3>1, OrderNow
      <3>3. top < h
        BY <1>10
      <3> QED BY <1>0, <1>6, <3>2, <3>3
    <2>5. ASSUME NEW i \in DOMAIN work', NEW k \in DOMAIN work', i < k
          PROVE  \A d \in work'[i], e \in work'[k] : d < e
      <3>1. i + 1 \in 1 .. Len(work) /\ k + 1 \in 1 .. Len(work) /\ i + 1 < k + 1
            /\ work'[i] = work[i + 1] /\ work'[k] = work[k + 1]
        BY <1>4, <2>5
      <3> QED BY <1>0, <3>1, OrderNow
    <2>6. ASSUME NEW i \in DOMAIN work' PROVE \A d \in work'[i], e \in batch : d < e
      <3>1. i + 1 \in 1 .. Len(work) /\ work'[i] = work[i + 1]
        BY <1>4
      <3> QED BY <1>0, <3>1, OrderNow
    <2> QED BY <1>0, <1>8, <2>1, <2>2, <2>3, <2>4, <2>5, <2>6 DEF InOrder, EventsOf
  <1>12. Dropping'
    BY <1>0 DEF Dropping
  <1>13. Past'
    <2>1. SUFFICES ASSUME NoOversized, NEW e \in 1 .. checkpoint' PROVE e \in Settled
      BY <1>8 DEF Past, NoOversized
    <2>2. CASE e \in 1 .. checkpoint
      BY <2>1, <2>2 DEF CollectorInv, Past
    <2>3. CASE ~(e \in 1 .. checkpoint)
      <3>1. checkpoint' = top /\ Pending = {} /\ e \in 1 .. top /\ e \in 1 .. readPos
        BY <1>5, <1>6, <2>1, <2>3
      <3>2. ~queue.unhealthy
        BY <1>2, <2>1 DEF NoOversized
      <3>3. CASE e \in InHand
        <4>1. e = top
          <5>1. e \in InHand' => top < e
            BY <1>10
          <5> QED BY <1>5, <1>9, <3>1, <3>3, <5>1
        <4> QED BY <1>5, <4>1 DEF Settled
      <3>4. CASE e \in EventsOf(Recs)
        <4>1. PICK r \in Recs : e \in r.events
          BY <3>4 DEF EventsOf
        <4> QED BY <1>1, <1>5, <3>1, <3>2, <4>1, PendingCovers DEF CollectorInv
      <3> QED BY <1>0, <2>3, <3>1, <3>3, <3>4, OrderNow DEF Done
    <2> QED BY <2>2, <2>3
  <1>14. SyncAlways /\ "damage" \notin faults => Stored \cap dead' = {}
    BY <1>0 DEF CollectorInv, Once
  <1> QED BY <1>0, <1>7, <1>11, <1>12, <1>13, <1>14, PipelineStep

-----------------------------------------------------------------------------
(* Outcomes.                                                                *)

Over(extra) == queue.terminal \cup (extra \ Parents(queue)) \cup 0 .. queue.acked

\* The completed parents are the least set closed under having every child over.
LEMMA CompletedLeast ==
  ASSUME NEW extra, \A p, q \in queue.repacks : p.parent = q.parent => p = q
  PROVE  /\ CompletedParents(queue, extra) \subseteq Parents(queue)
         /\ \A p \in queue.repacks : p.parent \in CompletedParents(queue, extra) =>
              SeqsOf(p.children) \subseteq Over(extra) \cup CompletedParents(queue, extra)
         /\ \A G : (\A p \in queue.repacks : SeqsOf(p.children) \subseteq Over(extra) \cup G => p.parent \in G)
                      => CompletedParents(queue, extra) \subseteq G
  <1> DEFINE parents == Parents(queue)
             over == Over(extra)
             Stuck(some) == \A p \in queue.repacks :
                p.parent \in some => ~(SeqsOf(p.children) \subseteq over \cup (parents \ some))
             U == UNION {some \in SUBSET parents : Stuck(some)}
             C == CompletedParents(queue, extra)
  <1>1. C = parents \ U
    BY DEF CompletedParents, Over
  <1>2. \A p \in queue.repacks : p.parent \in parents
    BY DEF Parents
  <1> HIDE DEF parents, over, C
  <1>3. ASSUME NEW p \in queue.repacks, p.parent \in C, ~(SeqsOf(p.children) \subseteq over \cup C)
        PROVE  FALSE
    <2> DEFINE more == U \cup {p.parent}
    <2>1. more \subseteq parents
      BY <1>2
    <2>2. ASSUME NEW q \in queue.repacks, q.parent \in more
          PROVE  ~(SeqsOf(q.children) \subseteq over \cup (parents \ more))
      <3>1. CASE q.parent = p.parent
        <4>1. q = p
          BY <3>1
        <4>2. parents \ more \subseteq C
          BY <1>1
        <4> QED BY <1>3, <4>1, <4>2
      <3>2. CASE q.parent \in U
        <4>1. PICK some \in SUBSET parents : Stuck(some) /\ q.parent \in some
          BY <3>2
        <4>2. ~(SeqsOf(q.children) \subseteq over \cup (parents \ some))
          BY <4>1
        <4>3. some \subseteq more
          BY <4>1
        <4>4. parents \ more \subseteq parents \ some
          BY <4>3
        <4> QED BY <4>2, <4>4
      <3> QED BY <2>2, <3>1, <3>2
    <2>3. Stuck(more)
      BY <2>2
    <2>4. p.parent \in U
      <3>1. p.parent \in more
        OBVIOUS
      <3> HIDE DEF more, Stuck
      <3>2. more \in {some \in SUBSET parents : Stuck(some)}
        BY <2>1, <2>3
      <3> QED BY <3>1, <3>2
    <2> QED BY <1>1, <1>3, <2>4
  <1>4. ASSUME NEW G,
               \A p \in queue.repacks : SeqsOf(p.children) \subseteq over \cup G => p.parent \in G
        PROVE  C \subseteq G
    <2> DEFINE rest == parents \ G
    <2>1. ASSUME NEW p \in queue.repacks, p.parent \in rest
          PROVE  ~(SeqsOf(p.children) \subseteq over \cup (parents \ rest))
      <3>1. parents \ rest \subseteq G
        OBVIOUS
      <3> QED BY <1>4, <2>1, <3>1
    <2>2. Stuck(rest) /\ rest \in SUBSET parents
      BY <2>1
    <2>3. rest \subseteq U
      BY <2>2
    <2> QED BY <1>1, <2>3
  <1> QED BY <1>1, <1>3, <1>4 DEF C, over, parents

\* What an outcome of the sender notes.
NotedOf == WithOutcome(outcome.seq, outcome.cumulative)

\* An outcome adds itself and completed parents, and all of it is settled.
LEMMA OutcomeNoted ==
  ASSUME CollectorInv, outcome.pc # "none"
  PROVE  /\ IsUp /\ connected /\ outcome.seq \in Nat
         /\ NotedOf = [queue EXCEPT !.terminal = NotedOf.terminal]
         /\ NotedOf.unacked = queue.unacked /\ NotedOf.acked = queue.acked /\ NotedOf.next = queue.next
         /\ queue.terminal \subseteq NotedOf.terminal
         /\ \A n \in NotedOf.terminal :
              /\ n \in Nat /\ 0 < n /\ n < queue.next
              /\ n <= queue.acked \/ n \in Parents(queue) \/ n \in SeqsOf(Final)
              /\ n \in queue.terminal \/ n = outcome.seq \/ n \in Parents(queue)
         /\ outcome.seq \in NotedOf.terminal \/ (outcome.cumulative /\ outcome.seq \notin SeqsOf(Pending))
         /\ \A b \in Known : b.seq \in NotedOf.terminal => b.events \subseteq Settled
         /\ \A b \in Known \ queue.unacked : b.seq > queue.acked => b.seq \notin NotedOf.terminal
         /\ \A p \in queue.repacks : p.parent \in NotedOf.terminal =>
              \A c \in p.children : c.seq <= queue.acked \/ c.seq \in NotedOf.terminal
  <1> DEFINE seq == outcome.seq
             covered == Covered(seq, outcome.cumulative)
             C == CompletedParents(queue, covered)
             T == queue.terminal \cup covered \cup C
  <1>1. /\ Types /\ Used /\ Identity /\ Families /\ Memory /\ Sending /\ Finished /\ Shut
    BY DEF CollectorInv
  <1>2. connected /\ IsUp
    BY <1>1 DEF Shut, NoOutcome
  <1>3. seq \in answered /\ \E v \in Final : v.seq = seq /\ v.events \subseteq Settled
    BY <1>1, <1>2 DEF Sending
  <1>4. PICK sent \in inflight : sent.seq = seq
    BY <1>1, <1>3 DEF Types, SendTypes, SeqsOf
  <1>5. PICK v \in Final : v.seq = seq /\ v.events \subseteq Settled
    BY <1>3
  <1>6. sent \in Named /\ v \in verdicts /\ seq \in SeqsOf(Named) /\ seq \in SeqsOf(Final)
    BY <1>4, <1>5 DEF Named, Final, SeqsOf
  <1>7. seq \in Nat /\ 0 < seq /\ seq < queue.next /\ seq \notin Parents(queue)
    <2>1. seq \in Nat
      BY <1>1 DEF Types, SendTypes
    <2>2. 0 < seq /\ seq < queue.next
      BY <1>1, <1>2, <1>6 DEF Used, Running, IsUp
    <2>3. seq \notin Parents(queue)
      BY <1>1, <1>2, <1>4 DEF Sending
    <2> QED BY <2>1, <2>2, <2>3
  <1>8. covered \subseteq queue.terminal \cup {seq}
    <2>1. CASE outcome.cumulative
      <3>1. \A b \in Pending : b.seq < seq => b.seq \in queue.terminal
        BY <1>1, <1>2, <2>1 DEF Sending, NoOutcome
      <3>2. \A b \in Pending : b.seq \in Nat
        BY <1>1, QueueTyped
      <3>3. covered = {b.seq : b \in {c \in Pending : c.seq <= seq}}
        BY <2>1 DEF Covered
      <3> HIDE DEF covered
      <3>4. \A n \in covered : n \in queue.terminal \/ n = seq
        BY <1>7, <3>1, <3>2, <3>3
      <3> QED BY <3>4
    <2>2. CASE ~outcome.cumulative
      BY <2>2 DEF Covered
    <2> QED BY <2>1, <2>2
  <1>9. seq \in covered \/ (outcome.cumulative /\ seq \notin SeqsOf(Pending))
    BY <1>7 DEF Covered, SeqsOf
  <1>10. /\ NotedOf = [queue EXCEPT !.terminal = T]
    BY DEF NotedOf, WithOutcome
  <1>11. queue \in QueueType
    BY <1>1 DEF Types
  <1>12. /\ NotedOf.terminal = T
         /\ NotedOf.unacked = queue.unacked /\ NotedOf.acked = queue.acked /\ NotedOf.next = queue.next
    BY <1>10, <1>11 DEF QueueType
  <1> HIDE DEF covered
  <1>13. queue.repacks \subseteq manifests /\ \A p, q \in queue.repacks : p.parent = q.parent => p = q
    BY <1>1, <1>2 DEF Memory, Families
  <1>14. /\ C \subseteq Parents(queue)
         /\ \A p \in queue.repacks : p.parent \in C => SeqsOf(p.children) \subseteq Over(covered) \cup C
         /\ \A G : (\A p \in queue.repacks : SeqsOf(p.children) \subseteq Over(covered) \cup G => p.parent \in G)
                      => C \subseteq G
    BY <1>13, CompletedLeast
  <1> HIDE DEF C
  <1>15. Known \subseteq Batch /\ Known \subseteq Named /\ queue.acked \in Nat /\ meta.acked \in Nat
         /\ queue.terminal \subseteq Nat
    BY <1>1, NamesTyped, QueueTyped
  <1>16. \A b \in Known : b.seq = seq => b.events \subseteq Settled
    BY <1>1, <1>5, <1>6, <1>15 DEF Identity
  <1> DEFINE G == {n \in Nat : \A b \in Known : b.seq = n => b.events \subseteq Settled}
  <1>17. queue.terminal \cup {seq} \cup 0 .. queue.acked \subseteq G
    <2>1. queue.terminal \subseteq G
      BY <1>1, <1>2, <1>15 DEF Finished
    <2>2. seq \in G
      BY <1>7, <1>16
    <2>3. ASSUME NEW n \in 0 .. queue.acked PROVE n \in G
      <3>1. n \in Nat /\ n <= meta.acked
        BY <1>1, <1>2, <1>15 DEF Used
      <3> QED BY <1>1, <3>1 DEF Finished
    <2> QED BY <2>1, <2>2, <2>3
  <1>18. C \subseteq G
    <2>1. ASSUME NEW p \in queue.repacks, SeqsOf(p.children) \subseteq Over(covered) \cup G
          PROVE  p.parent \in G
      <3>1. p \in manifests /\ p.parent \in Nat /\ p.children \subseteq Known
        BY <1>1, <1>13, PlansOf
      <3>2. Over(covered) \subseteq G
        BY <1>8, <1>17 DEF Over
      <3>3. \A c \in p.children : c.events \subseteq Settled
        BY <2>1, <3>1, <3>2 DEF SeqsOf
      <3>4. \A b \in Known : b.seq = p.parent => b.events = EventsOf(p.children)
        BY <1>1, <3>1 DEF Families
      <3>5. EventsOf(p.children) \subseteq Settled
        BY <3>3 DEF EventsOf
      <3> QED BY <3>1, <3>4, <3>5
    <2> HIDE DEF G
    <2> QED BY <1>14, <2>1
  <1>19. \A b \in Known : b.seq \in T => b.events \subseteq Settled
    BY <1>8, <1>17, <1>18
  <1>20. \A n \in Parents(queue) : n \in Nat /\ 0 < n /\ n < queue.next
    <2>1. TAKE n \in Parents(queue)
    <2>2. PICK p \in queue.repacks : p.parent = n
      BY DEF Parents
    <2>3. p \in manifests /\ n \in Nat
      BY <1>1, <1>13, <2>2, PlansOf
    <2>4. PICK w \in verdicts : w.seq = n
      BY <1>1, <2>2, <2>3 DEF Families
    <2> QED BY <1>1, <1>2, <2>3, <2>4 DEF Used, SeqsOf, Running, IsUp
  <1>21. \A n \in T : n \in queue.terminal \/ n = seq \/ n \in Parents(queue)
    BY <1>8, <1>14
  <1>22. \A n \in queue.terminal : /\ 0 < n /\ n < queue.next
                                   /\ n <= queue.acked \/ n \in Parents(queue) \/ n \in SeqsOf(Final)
    BY <1>1, <1>2 DEF Used, Memory
  <1>23. ASSUME NEW b \in Known \ queue.unacked, b.seq > queue.acked PROVE b.seq \notin T
    <2>1. b.seq \notin queue.terminal \cup Parents(queue)
      BY <1>1, <1>2, <1>23 DEF Memory
    <2>2. b.seq # seq
      <3>1. SUFFICES ASSUME b.seq = seq PROVE FALSE
        OBVIOUS
      <3>2. b = sent
        BY <1>1, <1>4, <1>6, <1>15, <3>1 DEF Identity
      <3>3. sent \in queue.unacked \/ sent.seq <= queue.acked
        BY <1>1, <1>2 DEF Sending
      <3> QED BY <1>4, <1>7, <1>15, <1>23, <3>2, <3>3
    <2> QED BY <1>21, <2>1, <2>2
  <1>24. ASSUME NEW p \in queue.repacks, p.parent \in T, NEW c \in p.children
         PROVE  c.seq <= queue.acked \/ c.seq \in T
    <2>1. CASE p.parent \in queue.terminal
      BY <1>1, <1>2, <2>1 DEF Memory
    <2>2. CASE p.parent = seq
      BY <1>7, <2>2 DEF Parents
    <2>3. CASE p.parent \in C
      <3>1. c.seq \in Over(covered) \cup C
        BY <1>14, <2>3 DEF SeqsOf
      <3> QED BY <1>8, <1>15, <3>1 DEF Over
    <2> QED BY <1>8, <1>24, <2>1, <2>2, <2>3
  <1> HIDE DEF T, G
  <1>25. T \subseteq Nat
    BY <1>7, <1>15, <1>20, <1>21
  <1>26. queue.terminal \subseteq T /\ (seq \in covered => seq \in T)
    BY DEF T
  <1>27. NotedOf = [queue EXCEPT !.terminal = NotedOf.terminal]
    BY <1>10, <1>12 DEF T
  <1> QED BY <1>2, <1>6, <1>7, <1>9, <1>12, <1>19, <1>20, <1>21, <1>22, <1>23, <1>24, <1>25, <1>26, <1>27

\* A batch the queue delivers has its record, whose events include its own.
LEMMA RootOf ==
  ASSUME Types, FilesInOrder, Used, Families, Memory, Kept, Origins, IsUp, NEW b \in queue.unacked
  PROVE  /\ b \in Known /\ b.seq \in Nat /\ b.root \in Nat /\ b.root <= b.seq
         /\ \E i \in DOMAIN segments : \E r \in ToSet(segments[i].records) :
              /\ r \in Recs /\ r.seq = b.root /\ r.intact /\ b.seq <= segments[i].last
              /\ b.events \subseteq r.events
  <1>1. b \in Known /\ b \in Batch /\ b.seq \in Nat /\ b.root \in Nat
    BY NamesTyped DEF Memory, Batch
  <1>2. PICK i \in DOMAIN segments : /\ b.seq <= segments[i].last
                                     /\ \E r \in ToSet(segments[i].records) : r.seq = b.root /\ r.intact
    BY DEF Kept, KeptBy
  <1>3. PICK r \in ToSet(segments[i].records) : r.seq = b.root /\ r.intact
    BY <1>2
  <1>4. r \in Recs
    BY NamesTyped
  <1>5. CASE \E s \in Recs : b = Descriptor(s)
    <2>1. PICK s \in Recs : b = Descriptor(s)
      BY <1>5
    <2>2. PICK k \in DOMAIN segments : s \in ToSet(segments[k].records)
      BY NamesTyped
    <2>3. b.root = s.seq /\ b.seq = s.seq /\ b.events = s.events
      BY <2>1, NamesTyped
    <2>4. s = r
      BY <1>3, <2>2, <2>3, RecordsApart
    <2> QED BY <1>1, <1>2, <1>3, <1>4, <2>3, <2>4
  <1>6. CASE \E p \in manifests : b \in p.children
    <2>1. PICK p \in manifests : b \in p.children
      BY <1>6
    <2>2. b.root = p.root /\ p.root <= p.parent /\ p.parent < b.seq /\ p.parent \in Nat /\ p.root \in Nat
      BY <2>1, PlansOf
    <2>3. b.events \subseteq r.events
      BY <1>3, <1>4, <2>1 DEF Origins, Children
    <2> QED BY <1>1, <1>2, <1>3, <1>4, <2>2, <2>3
  <1> QED BY <1>1, <1>5, <1>6, KnownFrom

\* No event before one that an acknowledgment releases is left behind.
LEMMA ReleasedSettled ==
  ASSUME CollectorInv, outcome.pc # "none",
         NEW x \in EventsOf(AckPreview(outcome.seq, outcome.cumulative))
  PROVE  x \in 1 .. Events /\ (\E r \in Recs : x \in r.events) /\ \A e \in 1 .. x : e \in Done
  <1>1. /\ Types /\ Used /\ Identity /\ Families /\ Memory /\ Sending /\ Finished /\ Kept
        /\ Origins /\ FilesInOrder /\ Coverage
    BY DEF CollectorInv
  <1>2. IsUp /\ NotedOf.unacked = queue.unacked
        /\ \A b \in Known : b.seq \in NotedOf.terminal => b.events \subseteq Settled
    BY OutcomeNoted
  <1>3. PICK b \in TerminalPrefix(NotedOf) : x \in b.events
    BY DEF EventsOf, AckPreview, NotedOf
  <1>4. b \in queue.unacked /\ \A o \in queue.unacked : o.seq <= b.seq => o.seq \in NotedOf.terminal
    BY <1>2, <1>3 DEF TerminalPrefix
  <1>5. b.seq \in Nat /\ b.root \in Nat /\ b.root <= b.seq
    BY <1>1, <1>2, <1>4, RootOf
  <1>6. PICK i \in DOMAIN segments : \E r \in ToSet(segments[i].records) :
              /\ r \in Recs /\ r.seq = b.root /\ r.intact /\ b.seq <= segments[i].last
              /\ b.events \subseteq r.events
    BY <1>1, <1>2, <1>4, RootOf
  <1>7. PICK r \in ToSet(segments[i].records) : r \in Recs /\ r.seq = b.root /\ r.intact /\ b.events \subseteq r.events
    BY <1>6
  <1>8. x \in r.events /\ x \in 1 .. Events
    BY <1>1, <1>3, <1>7, NamesTyped DEF RecordType
  <1>9. Sound(r)
    <2>1. SUFFICES ASSUME NEW s \in Recs, s.seq <= r.seq, ~s.intact PROVE FALSE
      BY DEF Sound
    <2>2. r.seq <= s.seq /\ r.seq \in Nat /\ s.seq \in Nat
      BY <1>1, <1>2, <1>7, <2>1, NamesTyped DEF Kept, RecordType
    <2>3. PICK k \in DOMAIN segments : s \in ToSet(segments[k].records)
      BY <1>1, NamesTyped
    <2>4. s = r
      BY <1>1, <2>1, <2>2, <2>3, RecordsApart
    <2> QED BY <1>7, <2>1, <2>4
  <1>10. ASSUME NEW e \in 1 .. x PROVE e \in Done
    <2>1. e \in Done \/ \E s \in Recs : s.seq <= r.seq /\ e \in s.events
      BY <1>1, <1>7, <1>8, <1>9 DEF Coverage
    <2>2. ASSUME NEW s \in Recs, s.seq <= r.seq, e \in s.events PROVE e \in Settled
      <3>1. Descriptor(s) \in Known /\ Descriptor(s).seq = s.seq /\ Descriptor(s).events = s.events /\ s.seq \in Nat
        BY <1>1, NamesTyped DEF RecordType
      <3>2. queue.acked \in Nat /\ meta.acked \in Nat /\ queue.acked <= meta.acked
        BY <1>1, <1>2, QueueTyped DEF Used
      <3>3. CASE s.seq <= queue.acked
        <4>1. s.seq <= meta.acked
          BY <3>1, <3>2, <3>3
        <4> QED BY <1>1, <2>2, <3>1, <4>1 DEF Finished
      <3>4. CASE s.seq > queue.acked
        <4>1. Descriptor(s) \in queue.unacked
          <5>1. SUFFICES ASSUME Descriptor(s) \notin queue.unacked PROVE FALSE
            OBVIOUS
          <5>2. \A c \in queue.unacked : c.seq < s.seq
            BY <1>1, <1>2, <3>1, <3>4, <5>1 DEF Memory
          <5> QED BY <1>4, <1>5, <1>7, <2>2, <3>1, <5>2
        <4>2. s.seq <= b.seq
          BY <1>5, <1>7, <2>2, <3>1
        <4>3. s.seq \in NotedOf.terminal
          BY <1>4, <3>1, <4>1, <4>2
        <4> QED BY <1>2, <2>2, <3>1, <4>3
      <3> QED BY <3>1, <3>2, <3>3, <3>4
    <2> QED BY <2>1, <2>2 DEF Done
  <1> QED BY <1>7, <1>8, <1>10

\* What an acknowledgment would release does not depend on later batches.
LEMMA PreviewKept ==
  ASSUME CollectorInv, outcome.pc # "none", outcome' = outcome,
         queue'.acked = queue.acked, queue'.terminal = queue.terminal, queue'.repacks = queue.repacks,
         queue.unacked \subseteq queue'.unacked,
         \A b \in queue'.unacked \ queue.unacked : b.seq \in Nat /\ queue.next <= b.seq
  PROVE  AckPreview(outcome.seq, outcome.cumulative)' = AckPreview(outcome.seq, outcome.cumulative)
  <1> DEFINE seq == outcome.seq
             cum == outcome.cumulative
             fresh == queue'.unacked \ queue.unacked
  <1>1. Types /\ Used /\ Sending
    BY DEF CollectorInv
  <1>2. /\ seq \in Nat /\ IsUp /\ queue.next \in Nat
        /\ \A n \in NotedOf.terminal : n \in Nat /\ n < queue.next
        /\ NotedOf.unacked = queue.unacked
        /\ seq \in NotedOf.terminal \/ cum
    BY <1>1, OutcomeNoted, QueueTyped
  <1>3. seq < queue.next
    <2>1. seq \in answered /\ answered \subseteq SeqsOf(inflight)
      BY <1>1, <1>2 DEF Sending, Types, SendTypes
    <2>2. seq \in SeqsOf(Named)
      BY <2>1 DEF SeqsOf, Named
    <2> QED BY <1>1, <1>2, <2>2 DEF Used, Running, IsUp
  <1>4. Parents(queue)' = Parents(queue)
    BY DEF Parents
  <1>5. Pending' \cap queue.unacked = Pending /\ Pending' \subseteq Pending \cup fresh
    BY <1>4 DEF Pending
  <1>6. \A b \in queue.unacked : b.seq \in Nat
    BY <1>1, QueueTyped
  <1>7. {b.seq : b \in {c \in Pending' : c.seq <= seq}} = {b.seq : b \in {c \in Pending : c.seq <= seq}}
    <2>1. \A c \in fresh : ~(c.seq <= seq)
      BY <1>2, <1>3
    <2>2. {c \in Pending' : c.seq <= seq} = {c \in Pending : c.seq <= seq}
      BY <1>5, <2>1
    <2> QED BY <2>2
  <1>8. Covered(outcome.seq, outcome.cumulative)' = Covered(outcome.seq, outcome.cumulative)
    BY <1>7 DEF Covered
  <1>9. CompletedParents(queue, Covered(outcome.seq, outcome.cumulative))' =
        CompletedParents(queue, Covered(outcome.seq, outcome.cumulative))
    BY <1>4, <1>8 DEF CompletedParents, Parents
  <1>10. NotedOf'.terminal = NotedOf.terminal /\ NotedOf'.unacked = queue'.unacked
    <2>1. queue \in QueueType /\ queue.terminal = queue'.terminal
      BY <1>1 DEF Types
    <2>2. NotedOf' = [queue' EXCEPT !.terminal = @ \cup Covered(outcome.seq, outcome.cumulative)' \cup
                         CompletedParents(queue, Covered(outcome.seq, outcome.cumulative))']
      BY DEF NotedOf, WithOutcome
    <2>3. NotedOf = [queue EXCEPT !.terminal = @ \cup Covered(outcome.seq, outcome.cumulative) \cup
                         CompletedParents(queue, Covered(outcome.seq, outcome.cumulative))]
      BY DEF NotedOf, WithOutcome
    <2>4. NotedOf.terminal = queue.terminal \cup Covered(outcome.seq, outcome.cumulative) \cup
                         CompletedParents(queue, Covered(outcome.seq, outcome.cumulative))
      BY <2>1, <2>3 DEF QueueType
    <2> QED BY <1>8, <1>9, <2>2, <2>4
  <1>11. TerminalPrefix(NotedOf') = TerminalPrefix(NotedOf)
    <2> DEFINE T == NotedOf.terminal
    <2>1. TerminalPrefix(NotedOf) =
            {b \in queue.unacked : \A o \in queue.unacked : o.seq <= b.seq => o.seq \in T}
      BY <1>2 DEF TerminalPrefix
    <2>2. TerminalPrefix(NotedOf') =
            {b \in queue'.unacked : \A o \in queue'.unacked : o.seq <= b.seq => o.seq \in T}
      BY <1>10 DEF TerminalPrefix
    <2>3. \A b \in queue'.unacked : b \in queue.unacked \/ b \in fresh
      OBVIOUS
    <2>4. \A o \in fresh : o.seq \in Nat /\ o.seq \notin T /\ o.seq <= o.seq /\ queue.next <= o.seq
      BY <1>2
    <2>5. ASSUME NEW b \in queue.unacked,
                 \A o \in queue.unacked : o.seq <= b.seq => o.seq \in T,
                 NEW o \in fresh
          PROVE  ~(o.seq <= b.seq)
      <3>1. b.seq \in T
        BY <1>6, <2>5
      <3>2. b.seq < queue.next
        BY <1>2, <3>1
      <3> QED BY <1>2, <1>6, <2>4, <3>2
    <2> HIDE DEF T, fresh
    <2>6. \A b \in queue.unacked : (\A o \in queue.unacked : o.seq <= b.seq => o.seq \in T) =>
                                   (\A o \in queue'.unacked : o.seq <= b.seq => o.seq \in T)
      BY <2>3, <2>5
    <2>7. \A b \in fresh : ~(\A o \in queue'.unacked : o.seq <= b.seq => o.seq \in T)
      BY <2>4 DEF fresh
    <2> QED BY <2>1, <2>2, <2>3, <2>6, <2>7
  <1>12. AckPreview(outcome.seq, outcome.cumulative) =
           IF outcome.seq <= queue.acked THEN {} ELSE TerminalPrefix(NotedOf)
    BY DEF AckPreview, NotedOf
  <1>13. AckPreview(outcome.seq, outcome.cumulative)' =
           IF outcome.seq <= queue.acked THEN {} ELSE TerminalPrefix(NotedOf')
    BY DEF AckPreview, NotedOf
  <1> QED BY <1>11, <1>12, <1>13

-----------------------------------------------------------------------------
(* The sender.                                                              *)

CursorOnly ==
  /\ UNCHANGED <<meta, segments, manifests, pipelineVars>>
  /\ queue'.phase = queue.phase /\ queue'.next = queue.next /\ queue'.reserved = queue.reserved
  /\ queue'.acked = queue.acked /\ queue'.unacked = queue.unacked /\ queue'.terminal = queue.terminal
  /\ queue'.repacks = queue.repacks /\ queue'.active = queue.active
  /\ queue'.synced = queue.synced /\ queue'.unhealthy = queue.unhealthy

\* A step of the sender that moves at most the queue's cursor.
LEMMA SenderFrame ==
  ASSUME CollectorInv, CursorOnly, dead \subseteq dead', verdicts \subseteq verdicts',
         checkpoint <= checkpoint', checkpoint' \in 0 .. Events, faults \subseteq faults'
  PROVE  /\ FilesInOrder' /\ Families' /\ Memory' /\ Kept' /\ Finished' /\ Coverage'
         /\ References' /\ Undamaged' /\ Dropping' /\ (checkpoint' = checkpoint => InOrder')
         /\ Recs' = Recs /\ Known' = Known /\ Children' = Children /\ Leaves' = Leaves
         /\ Pending' = Pending /\ IsUp' = IsUp /\ Running' = Running
         /\ Parents(queue)' = Parents(queue) /\ InHand' = InHand
         /\ Final \subseteq Final' /\ Settled \subseteq Settled' /\ Stored \subseteq Stored'
         /\ \A r : InDoubt(r)' <=> InDoubt(r)
  <1>0. /\ UNCHANGED <<meta, segments, manifests, readPos, batch, work, batcher>>
        /\ queue'.phase = queue.phase /\ queue'.acked = queue.acked /\ queue'.unacked = queue.unacked
        /\ queue'.terminal = queue.terminal /\ queue'.repacks = queue.repacks
        /\ queue'.active = queue.active /\ queue'.synced = queue.synced
        /\ queue'.unhealthy = queue.unhealthy
    BY DEF CursorOnly, pipelineVars
  <1>1. /\ Recs' = Recs /\ Children' = Children /\ Parents(queue)' = Parents(queue)
        /\ IsUp' = IsUp /\ Running' = Running /\ InHand' = InHand
    BY <1>0 DEF Recs, RecsOf, Children, IsUp, Running, Parents, InHand
  <1>2. Known' = Known /\ Pending' = Pending /\ Low' = Low
    BY <1>0, <1>1 DEF Known, Pending, Low
  <1>3. Settled \subseteq Settled' /\ Stored \subseteq Stored' /\ Final \subseteq Final'
    BY SettledGrows
  <1>4. SeqsOf(Final) \subseteq SeqsOf(Final')
    BY <1>3 DEF SeqsOf
  <1>5. Leaves' = Leaves
    BY <1>0, <1>2 DEF Leaves
  <1>6. FilesInOrder'
    BY <1>0 DEF CollectorInv, FilesInOrder, SegmentInOrder
  <1>7. Families'
    BY <1>0, <1>2 DEF CollectorInv, Families
  <1>8. Memory'
    <2>1. Memory
      BY DEF CollectorInv
    <2>2. SeqsOf(Final)' = SeqsOf(Final')
      BY DEF SeqsOf
    <2> QED BY <1>0, <1>1, <1>2, <1>4, <2>1, <2>2 DEF Memory
  <1>9. Kept'
    BY <1>0, <1>1 DEF CollectorInv, Kept, KeptBy
  <1>10. Finished'
    <2>1. 1 .. checkpoint \subseteq 1 .. checkpoint'
      BY DEF CollectorInv, Types, PipeTypes
    <2> QED BY <1>0, <1>1, <1>2, <1>3, <2>1 DEF CollectorInv, Finished
  <1>d. Done \subseteq Done'
    BY <1>3, DoneGrows DEF CollectorInv, Types, PipeTypes
  <1>11. Coverage'
    BY <1>1, <1>d DEF CollectorInv, Coverage, Sound
  <1>12. References'
    BY <1>0 DEF CollectorInv, References, Matched
  <1>13. Undamaged'
    BY <1>0, <1>1, <1>2 DEF CollectorInv, Undamaged, Guarded
  <1>14. Dropping'
    BY <1>0 DEF CollectorInv, Dropping
  <1>15. checkpoint' = checkpoint => InOrder'
    BY <1>0, <1>1, <1>3, <1>d DEF CollectorInv, InOrder, EventsOf
  <1>16. \A r : InDoubt(r)' <=> InDoubt(r)
    BY <1>0 DEF InDoubt, Last
  <1> QED BY <1>1, <1>2, <1>3, <1>5, <1>6, <1>7, <1>8, <1>9, <1>10, <1>11, <1>12, <1>13, <1>14, <1>15, <1>16

\* Where the checkpoint may move for an outcome.
Passed == Larger(checkpoint, MaxOf(EventsOf(AckPreview(outcome.seq, outcome.cumulative)), 0))

\* The checkpoint an answer moves to covers every event the answer releases, passes
\* no event still in hand, and passes only events that are settled (commitTerminal
\* in internal/collector/sender/sender.go saves it before the queue forgets the batch).
LEMMA PassedSettled ==
  ASSUME CollectorInv, outcome.pc # "none"
  PROVE  /\ Passed \in 0 .. Events /\ checkpoint <= Passed
         /\ EventsOf(AckPreview(outcome.seq, outcome.cumulative)) \subseteq 1 .. Passed
         /\ 1 .. checkpoint \subseteq Settled => 1 .. Passed \subseteq Settled
         /\ batcher # "off" => Passed <= readPos /\ \A h \in InHand : Passed < h
  <1> USE CollectorAssumption
  <1> DEFINE released == EventsOf(AckPreview(outcome.seq, outcome.cumulative))
  <1>1. \A x \in released : /\ x \in 1 .. Events /\ (\E r \in Recs : x \in r.events)
                            /\ \A e \in 1 .. x : e \in Done
    BY ReleasedSettled
  <1>2. checkpoint \in 0 .. Events /\ Events \in Nat
    BY DEF CollectorInv, Types, PipeTypes
  <1> HIDE DEF released
  <1>3. CASE released = {}
    <2>1. Passed = checkpoint
      <3>1. MaxOf(released, 0) = 0
        BY <1>3, MaxOfNone
      <3> QED BY <1>2, <3>1 DEF Passed, released, Larger
    <2>2. batcher # "off" => checkpoint <= readPos /\ \A h \in InHand : checkpoint < h
      BY OrderNow
    <2> QED BY <1>2, <1>3, <2>1, <2>2 DEF released
  <1>4. CASE released # {}
    <2> DEFINE top == MaxOf(released, 0)
    <2>1. released \in SUBSET Nat /\ \A n \in released : n <= Events
      BY <1>1
    <2>2. top \in released /\ \A n \in released : n <= top
      BY <1>2, <1>4, <2>1, MaxOfGreatest
    <2>3. Passed = Larger(checkpoint, top)
      BY DEF Passed, released
    <2> HIDE DEF top
    <2>4. top \in 1 .. Events /\ (\E r \in Recs : top \in r.events) /\ \A e \in 1 .. top : e \in Done
      BY <1>1, <2>2
    <2>5. Passed \in {checkpoint, top} /\ checkpoint <= Passed /\ top <= Passed
      BY <1>2, <2>3, <2>4 DEF Larger
    <2>6. \A n \in released : n \in 1 .. Passed
      BY <1>1, <1>2, <2>2, <2>4, <2>5
    <2>7. 1 .. checkpoint \subseteq Settled => 1 .. Passed \subseteq Settled
      BY <2>4, <2>5 DEF Done
    <2>8. ASSUME batcher # "off" PROVE Passed <= readPos /\ \A h \in InHand : Passed < h
      <3>1. top <= readPos /\ \A h \in InHand : top < h
        BY <2>4, <2>8, OrderNow
      <3>2. checkpoint <= readPos /\ \A h \in InHand : checkpoint < h
        BY <2>8, OrderNow
      <3> QED BY <2>5, <3>1, <3>2
    <2> QED BY <1>2, <2>4, <2>5, <2>6, <2>7, <2>8 DEF released
  <1> QED BY <1>3, <1>4

\* What holds when the checkpoint may have moved for an outcome.
LEMMA CheckpointMoved ==
  ASSUME CollectorInv, CursorOnly, UNCHANGED <<dead, verdicts>>, faults \subseteq faults',
         checkpoint' = checkpoint \/ (outcome.pc # "none" /\ checkpoint' = Passed)
  PROVE  /\ checkpoint' \in 0 .. Events /\ checkpoint <= checkpoint'
         /\ InOrder' /\ Past' /\ Once' /\ Origins'
  <1>1. Types /\ checkpoint \in 0 .. Events
    BY DEF CollectorInv, Types, PipeTypes
  <1>2. checkpoint' \in 0 .. Events /\ checkpoint <= checkpoint'
    BY <1>1, PassedSettled
  <1>3. /\ Recs' = Recs /\ InHand' = InHand /\ Children' = Children /\ Known' = Known /\ Leaves' = Leaves
        /\ (checkpoint' = checkpoint => InOrder')
        /\ \A r : InDoubt(r)' <=> InDoubt(r)
    BY <1>2, SenderFrame
  <1>4. Settled' = Settled /\ Stored' = Stored /\ Final' = Final
    BY DEF Settled, Stored, Final
  <1>5. UNCHANGED <<meta, segments, manifests, readPos, batch, work, batcher>>
    BY DEF CursorOnly, pipelineVars
  <1>6. InOrder'
    <2>1. CASE outcome.pc # "none" /\ checkpoint' = Passed
      <3>1. batcher # "off" => checkpoint' <= readPos /\ \A h \in InHand : checkpoint' < h
        BY <2>1, PassedSettled
      <3>2. Done \subseteq Done'
        BY <1>1, <1>2, <1>4, DoneGrows
      <3> QED BY <1>3, <1>4, <1>5, <3>1, <3>2 DEF CollectorInv, InOrder, EventsOf
    <2> QED BY <1>3, <2>1
  <1>7. Past'
    <2>1. 1 .. checkpoint \subseteq Settled => 1 .. checkpoint' \subseteq Settled
      BY PassedSettled
    <2> QED BY <1>4, <2>1 DEF CollectorInv, Past, NoOversized
  <1>8. Origins'
    BY <1>3, <1>4, <1>5 DEF CollectorInv, Origins, EventsOf
  <1>9. Once'
    <2>1. \A v \in Final : v.events \subseteq Nat
      BY <1>1 DEF Types, SendTypes, Final
    <2>2. \A e \in Nat : e <= checkpoint => e <= checkpoint'
      BY <1>1, <1>2
    <2>3. Once /\ queue'.acked = queue.acked /\ queue'.unacked = queue.unacked
      BY DEF CollectorInv, CursorOnly
    <2> QED BY <1>3, <1>4, <2>1, <2>2, <2>3 DEF Once
  <1> QED BY <1>2, <1>6, <1>7, <1>8, <1>9

\* A stream that ends takes the sender's memory with it.
LEMMA StreamEndsKeeps ==
  ASSUME CollectorInv, StreamBreaks \/ CommitCheckpointFails
  PROVE  CollectorInv'
  <1>0. /\ UNCHANGED <<meta, segments, manifests, queue, pipelineVars, dead, verdicts, epoch>>
        /\ connected' = FALSE /\ inflight' = {} /\ answered' = {} /\ outcome' = NoOutcome
        /\ checkpoint' = checkpoint \/ (outcome.pc # "none" /\ checkpoint' = Passed)
    BY DEF StreamBreaks, CommitCheckpointFails, Disconnected, queueVars, Passed, EventsOf
  <1>1. Types
    BY DEF CollectorInv
  <1>2. faults \subseteq faults' /\ faults' \subseteq Faults
    BY <1>1 DEF StreamBreaks, CommitCheckpointFails, Fault, Types, SendTypes
  <1>3. CursorOnly
    BY <1>0 DEF CursorOnly
  <1>4. checkpoint' \in 0 .. Events /\ checkpoint <= checkpoint' /\ InOrder' /\ Past' /\ Once' /\ Origins'
    BY <1>0, <1>2, <1>3, CheckpointMoved
  <1>5. /\ FilesInOrder' /\ Families' /\ Memory' /\ Kept' /\ Finished' /\ Coverage'
        /\ References' /\ Undamaged' /\ Dropping' /\ Known' = Known /\ IsUp' = IsUp /\ Running' = Running
    BY <1>0, <1>2, <1>3, <1>4, SenderFrame
  <1>6. Types'
    <2>1. FileTypes' /\ queue' \in QueueType /\ PipeTypes'
      BY <1>0, <1>1, <1>4 DEF Types, FileTypes, PipeTypes, pipelineVars
    <2>2. SendTypes'
      <3>1. IsFiniteSet({}) /\ Cardinality({}) = 0
        BY FS_EmptySet
      <3>2. NoOutcome \in [pc : {"none", "checkpoint", "ack"}, seq : Nat, cumulative : BOOLEAN]
        BY DEF NoOutcome
      <3>3. MaxInFlight \in Nat /\ epoch \in Nat
            /\ verdicts \subseteq [seq : Nat, made : Nat, events : SUBSET (1 .. Events), verdict : Verdicts]
        BY <1>1, CollectorAssumption DEF Types, SendTypes
      <3>4. IsFiniteSet(inflight') /\ Cardinality(inflight') <= MaxInFlight
        BY <1>0, <3>1, <3>3
      <3>5. answered' \subseteq SeqsOf(inflight)' /\ inflight' \subseteq Batch
        BY <1>0
      <3> QED BY <1>0, <1>2, <3>2, <3>3, <3>4, <3>5 DEF SendTypes
    <2> QED BY <2>1, <2>2 DEF Types
  <1>7. Named' \subseteq Named
    BY <1>0, <1>5 DEF Named
  <1>8. Used'
    BY <1>0, <1>5, <1>7 DEF CollectorInv, Used, SeqsOf
  <1>9. Identity'
    BY <1>0, <1>7 DEF CollectorInv, Identity
  <1>10. Shut'
    BY <1>0, <1>5 DEF CollectorInv, Shut, ClosedQueue, pipelineVars
  <1>11. Sending'
    BY <1>0 DEF Sending, NoOutcome
  <1> QED BY <1>4, <1>5, <1>6, <1>8, <1>9, <1>10, <1>11 DEF CollectorInv

\* The positions an acknowledgment releases become durable.
LEMMA CommitCheckpointKeeps ==
  ASSUME CollectorInv, CommitCheckpoint
  PROVE  CollectorInv'
  <1>0. /\ UNCHANGED <<meta, segments, manifests, queue, pipelineVars, dead, verdicts, epoch>>
        /\ UNCHANGED <<connected, inflight, answered, faults>>
        /\ outcome.pc = "checkpoint" /\ outcome' = [outcome EXCEPT !.pc = "ack"]
        /\ checkpoint' = Passed
    BY DEF CommitCheckpoint, NoFault, queueVars, Passed, EventsOf
  <1>1. Types
    BY DEF CollectorInv
  <1>2. outcome'.pc = "ack" /\ outcome'.seq = outcome.seq /\ outcome'.cumulative = outcome.cumulative
        /\ outcome' \in [pc : {"none", "checkpoint", "ack"}, seq : Nat, cumulative : BOOLEAN]
    BY <1>0, <1>1 DEF Types, SendTypes
  <1>3. CursorOnly
    BY <1>0 DEF CursorOnly
  <1>4. checkpoint' \in 0 .. Events /\ checkpoint <= checkpoint' /\ InOrder' /\ Past' /\ Once' /\ Origins'
    BY <1>0, <1>3, CheckpointMoved
  <1>5. /\ FilesInOrder' /\ Families' /\ Memory' /\ Kept' /\ Finished' /\ Coverage'
        /\ References' /\ Undamaged' /\ Dropping' /\ Known' = Known /\ IsUp' = IsUp /\ Running' = Running
        /\ Pending' = Pending /\ Parents(queue)' = Parents(queue) /\ Final \subseteq Final'
        /\ Settled \subseteq Settled'
    BY <1>0, <1>3, <1>4, SenderFrame
  <1>6. Types'
    <2>1. FileTypes' /\ queue' \in QueueType /\ PipeTypes'
      BY <1>0, <1>1, <1>4 DEF Types, FileTypes, PipeTypes, pipelineVars
    <2>2. SendTypes'
      BY <1>0, <1>1, <1>2 DEF Types, SendTypes, SeqsOf
    <2> QED BY <2>1, <2>2 DEF Types
  <1>7. Named' = Named
    BY <1>0, <1>5 DEF Named
  <1>8. Used' /\ Identity'
    BY <1>0, <1>5, <1>7 DEF CollectorInv, Used, SeqsOf, Identity
  <1>9. connected /\ IsUp
    BY <1>0 DEF CollectorInv, Shut, NoOutcome
  <1>10. Shut'
    <2>1. queue'.phase = "up" /\ connected'
      BY <1>0, <1>9 DEF IsUp
    <2> QED BY <1>5, <1>9, <2>1 DEF Shut
  <1>11. Sending'
    <2>1. EventsOf(AckPreview(outcome.seq, outcome.cumulative)) \subseteq 1 .. checkpoint'
      BY <1>0, PassedSettled
    <2>2. AckPreview(outcome.seq, outcome.cumulative)' = AckPreview(outcome.seq, outcome.cumulative)
      BY <1>0, <1>2 DEF AckPreview, TerminalPrefix, WithOutcome, Covered, CompletedParents, Pending, Parents
    <2>3. EventsOf(AckPreview(outcome.seq, outcome.cumulative))' = EventsOf(AckPreview(outcome.seq, outcome.cumulative))
      BY <2>2 DEF EventsOf
    <2>4. outcome.pc # "none" /\ Sending /\ Final' = Final /\ Settled' = Settled
      BY <1>0 DEF CollectorInv, Final, Settled, Stored
    <2> QED BY <1>0, <1>2, <1>5, <1>9, <2>1, <2>3, <2>4 DEF Sending
  <1> QED BY <1>4, <1>5, <1>6, <1>8, <1>10, <1>11 DEF CollectorInv

\* The answer to a batch in flight is about that batch.
LEMMA VerdictOf ==
  ASSUME Types, Identity, Sending, IsUp, NEW seq \in answered
  PROVE  /\ Sent(seq) \in inflight /\ Sent(seq).seq = seq
         /\ Verdict(seq) \in verdicts /\ Verdict(seq).seq = seq
         /\ Verdict(seq).events = Sent(seq).events
         /\ Verdict(seq).verdict \in {"ack", "reject", "repack"}
  <1> USE CollectorAssumption
  <1>1. \E b \in inflight : b.seq = seq
    BY DEF Types, SendTypes, SeqsOf
  <1>2. Sent(seq) \in inflight /\ Sent(seq).seq = seq
    BY <1>1 DEF Sent
  <1>3. PICK v \in verdicts : v.seq = seq
    BY DEF Sending, SeqsOf
  <1>4. v.made = Sent(seq).made
    BY <1>2, <1>3 DEF Identity, Named
  <1>5. Verdict(seq) \in verdicts /\ Verdict(seq).seq = seq
    BY <1>3, <1>4 DEF Verdict
  <1>6. Verdict(seq).events = Sent(seq).events
    BY <1>2, <1>5 DEF Identity, Named
  <1>7. Verdict(seq).verdict \in {"ack", "reject", "repack"}
    BY <1>5 DEF Types, SendTypes
  <1> QED BY <1>2, <1>5, <1>6, <1>7

\* An outcome is taken up once what it refuses is kept, and a cumulative one only
\* from the first batch in flight.
LEMMA ReceiveOutcomeKeeps ==
  ASSUME CollectorInv, NEW seq \in answered, ReceiveOutcome(seq)
  PROVE  CollectorInv'
  <1> USE CollectorAssumption
  <1>0. /\ UNCHANGED <<meta, segments, manifests, queue, pipelineVars, checkpoint, verdicts, epoch>>
        /\ UNCHANGED <<connected, inflight, answered, faults>>
        /\ connected /\ Verdict(seq).verdict # "repack" /\ dead' = dead \cup Refused(seq)
    BY DEF ReceiveOutcome, NoFault, queueVars
  <1>1. /\ Types /\ Used /\ Identity /\ Shut /\ Sending /\ Once /\ Origins
    BY DEF CollectorInv
  <1>2. IsUp
    BY <1>0, <1>1 DEF Shut
  <1>3. PICK cumulative \in BOOLEAN :
          /\ cumulative => \A other \in inflight : other.seq >= seq
          /\ outcome' = [pc |-> "checkpoint", seq |-> seq, cumulative |-> cumulative]
    BY DEF ReceiveOutcome
  <1>4. /\ Sent(seq) \in inflight /\ Sent(seq).seq = seq
        /\ Verdict(seq) \in verdicts /\ Verdict(seq).seq = seq
        /\ Verdict(seq).verdict \in {"ack", "reject"}
    BY <1>0, <1>1, <1>2, VerdictOf
  <1> DEFINE answer == Verdict(seq)
  <1>5. answer \in Final /\ answer.events \subseteq 1 .. Events /\ Refused(seq) \subseteq answer.events
    BY <1>0, <1>1, <1>4 DEF Final, Types, SendTypes, Refused
  <1>6. CursorOnly
    BY <1>0 DEF CursorOnly
  <1>7. checkpoint \in 0 .. Events /\ seq \in Nat
    <2>1. Sent(seq) \in Batch
      BY <1>1, <1>4 DEF Types, SendTypes
    <2>2. seq \in Nat
      BY <1>4, <2>1 DEF Batch
    <2> QED BY <1>1, <2>2 DEF Types, PipeTypes
  <1>8. /\ FilesInOrder' /\ Families' /\ Memory' /\ Kept' /\ Finished' /\ Coverage'
        /\ References' /\ Undamaged' /\ Dropping' /\ InOrder'
        /\ Recs' = Recs /\ Known' = Known /\ Children' = Children /\ Pending' = Pending
        /\ IsUp' = IsUp /\ Running' = Running /\ Parents(queue)' = Parents(queue)
        /\ Settled \subseteq Settled'
    <2>1. checkpoint <= checkpoint' /\ checkpoint' \in 0 .. Events
      BY <1>0, <1>7
    <2> QED BY <1>0, <1>6, <2>1, SenderFrame
  <1>9. Final' = Final /\ Stored' = Stored
    BY <1>0 DEF Final, Stored
  <1>10. Types'
    <2>1. FileTypes' /\ queue' \in QueueType
      BY <1>0, <1>1 DEF Types, FileTypes
    <2>2. PipeTypes'
      BY <1>0, <1>1, <1>5 DEF Types, PipeTypes, pipelineVars
    <2>3. SendTypes'
      BY <1>0, <1>1, <1>3, <1>7 DEF Types, SendTypes, SeqsOf
    <2> QED BY <2>1, <2>2, <2>3 DEF Types
  <1>11. Named' = Named
    BY <1>0, <1>8 DEF Named
  <1>12. Used' /\ Identity'
    BY <1>0, <1>1, <1>8, <1>11 DEF Used, SeqsOf, Identity
  <1>13. Shut'
    <2>1. queue'.phase = "up" /\ connected'
      BY <1>0, <1>2 DEF IsUp
    <2> QED BY <1>2, <1>8, <2>1 DEF Shut
  <1>14. answer.events \subseteq Settled'
    <2>1. CASE answer.verdict = "reject"
      BY <1>0, <2>1 DEF Refused, Settled
    <2>2. CASE answer.verdict = "ack"
      <3>1. answer.events \ Invalid \subseteq Stored'
        <4>1. answer \in {w \in verdicts : w.verdict = "ack"}
          BY <1>4, <2>2
        <4> HIDE DEF answer
        <4> QED BY <1>9, <4>1 DEF Stored
      <3>2. answer.events \cap Invalid \subseteq dead'
        BY <1>0, <2>2 DEF Refused
      <3> QED BY <3>1, <3>2 DEF Settled
    <2> QED BY <1>4, <2>1, <2>2
  <1>15. ASSUME cumulative, NEW b \in Pending, b.seq < seq PROVE b.seq \in queue.terminal
    <2>1. b.seq \in Nat /\ queue.handed \in Nat
      BY <1>1, QueueTyped
    <2>2. seq <= queue.handed
      BY <1>1, <1>2, <1>4 DEF Sending
    <2>3. b \in inflight \/ b.seq \in queue.terminal
      BY <1>0, <1>1, <1>2, <1>7, <1>15, <2>1, <2>2 DEF Sending
    <2>4. b \notin inflight
      BY <1>3, <1>7, <1>15, <2>1
    <2> QED BY <2>3, <2>4
  <1>16. Sending'
    <2>1. outcome'.pc = "checkpoint" /\ outcome'.seq = seq /\ outcome'.cumulative = cumulative
      BY <1>3
    <2>2. outcome'.cumulative => \A b \in Pending' : b.seq < outcome'.seq => b.seq \in queue'.terminal
      BY <1>0, <1>8, <1>15, <2>1
    <2>3. \E w \in Final' : w.seq = outcome'.seq /\ w.events \subseteq Settled'
      BY <1>4, <1>5, <1>9, <1>14, <2>1
    <2>4. outcome'.seq \in answered'
      BY <1>0, <2>1
    <2>5. Sending
      BY <1>1
    <2> QED BY <1>0, <1>2, <1>8, <1>9, <2>1, <2>2, <2>3, <2>4, <2>5 DEF Sending, SeqsOf
  <1>17. Past'
    BY <1>0, <1>8 DEF CollectorInv, Past, NoOversized
  <1>18. Origins'
    <2>1. \A e \in answer.events : e \in EventsOf(Final)
      BY <1>5 DEF EventsOf
    <2>2. dead' \subseteq Undecodable \cup Huge \cup EventsOf(Final)
      BY <1>0, <1>1, <1>5, <2>1 DEF Origins
    <2> QED BY <1>0, <1>1, <1>8, <1>9, <2>2 DEF Origins, EventsOf
  <1>19. Once'
    <2>1. ASSUME SyncAlways, "damage" \notin faults PROVE Stored' \cap dead' = {}
      <3>1. Stored \cap dead = {} /\ \A a, b \in Final : a # b => a.events \cap b.events = {}
        BY <1>1, <2>1 DEF Once
      <3>2. CASE answer.verdict = "ack"
        <4>1. Refused(seq) \subseteq Invalid
          BY <3>2 DEF Refused
        <4>2. Stored \cap Invalid = {}
          BY DEF Stored
        <4> QED BY <1>0, <1>9, <3>1, <4>1, <4>2
      <3>3. CASE answer.verdict = "reject"
        <4>1. \A w \in verdicts : w.verdict = "ack" => w \in Final /\ w # answer
          BY <3>3 DEF Final
        <4>2. \A w \in verdicts : w.verdict = "ack" => w.events \cap answer.events = {}
          BY <1>5, <3>1, <4>1
        <4>3. Stored \cap answer.events = {}
          BY <4>2 DEF Stored
        <4> QED BY <1>0, <1>5, <1>9, <3>1, <4>3
      <3> QED BY <1>4, <3>2, <3>3
    <2>2. checkpoint <= checkpoint' /\ checkpoint' \in 0 .. Events
      BY <1>0, <1>7
    <2> QED BY <1>0, <2>1, <2>2, OnceFrame
  <1> QED BY <1>8, <1>10, <1>12, <1>13, <1>16, <1>17, <1>18, <1>19 DEF CollectorInv

\* A stream starts at the first batch without an outcome.
LEMMA ConnectKeeps ==
  ASSUME CollectorInv, Connect
  PROVE  CollectorInv'
  <1>0. /\ UNCHANGED <<meta, segments, manifests, pipelineVars, checkpoint, dead, verdicts, epoch>>
        /\ UNCHANGED <<inflight, answered, outcome, faults>>
        /\ ~connected /\ connected' = TRUE /\ IsUp /\ queue' = [queue EXCEPT !.handed = 0]
    BY DEF Connect, Rewind, fileVars, NoFault
  <1>1. /\ Types /\ Used /\ Identity /\ Shut /\ Sending
    BY DEF CollectorInv
  <1>2. /\ queue' \in QueueType /\ queue'.handed = 0
        /\ CursorOnly
    BY <1>0, <1>1 DEF Types, QueueType, CursorOnly
  <1>3. checkpoint \in 0 .. Events /\ checkpoint <= checkpoint' /\ faults \subseteq faults' /\ dead \subseteq dead'
        /\ verdicts \subseteq verdicts'
    BY <1>0, <1>1 DEF Types, PipeTypes
  <1>4. /\ FilesInOrder' /\ Families' /\ Memory' /\ Kept' /\ Finished' /\ Coverage'
        /\ References' /\ Undamaged' /\ Dropping' /\ Known' = Known /\ Pending' = Pending
        /\ IsUp' = IsUp /\ Running' = Running
    BY <1>0, <1>2, <1>3, SenderFrame
  <1>5. InOrder' /\ Past' /\ Once' /\ Origins'
    BY <1>0, <1>2, <1>3, CheckpointMoved
  <1>6. inflight = {} /\ outcome = NoOutcome
    BY <1>0, <1>1 DEF Shut
  <1>7. Types'
    <2>1. FileTypes' /\ PipeTypes'
      BY <1>0, <1>1 DEF Types, FileTypes, PipeTypes, pipelineVars
    <2>2. SendTypes'
      BY <1>0, <1>1 DEF Types, SendTypes, SeqsOf
    <2> QED BY <1>2, <2>1, <2>2 DEF Types
  <1>8. Named' = Named
    BY <1>0, <1>4 DEF Named
  <1>9. Used' /\ Identity'
    <2>1. 0 < queue.next /\ queue'.next = queue.next /\ queue'.reserved = queue.reserved
          /\ queue'.acked = queue.acked /\ queue'.terminal = queue.terminal /\ queue'.phase = queue.phase
      BY <1>1, <1>2, QueueTyped DEF CursorOnly
    <2> QED BY <1>0, <1>1, <1>2, <1>4, <1>8, <2>1 DEF Used, SeqsOf, Identity
  <1>10. Shut'
    <2>1. queue'.phase = "up" /\ connected'
      BY <1>0, <1>2 DEF IsUp, CursorOnly
    <2> QED BY <1>0, <1>4, <2>1 DEF Shut
  <1>11. Sending'
    <2>1. \A b \in Pending : ~(b.seq <= 0)
      <3>1. TAKE b \in Pending
      <3>2. b \in Known /\ b.seq \in Nat
        BY <1>0, <1>1, QueueTyped DEF CollectorInv, Memory
      <3>3. 0 < b.seq
        BY <1>1, <3>2 DEF Used, SeqsOf, Named
      <3> QED BY <3>2, <3>3
    <2>2. outcome'.pc = "none" /\ inflight' = {} /\ answered' \subseteq SeqsOf(verdicts')
      BY <1>0, <1>1, <1>6 DEF NoOutcome, Sending
    <2> QED BY <1>2, <1>4, <2>1, <2>2 DEF Sending, SeqsOf
  <1> QED BY <1>4, <1>5, <1>7, <1>9, <1>10, <1>11 DEF CollectorInv

\* The next batch goes out on the stream.
LEMMA SendKeeps ==
  ASSUME CollectorInv, Send
  PROVE  CollectorInv'
  <1>0. /\ UNCHANGED <<meta, segments, manifests, pipelineVars, checkpoint, dead, verdicts, epoch>>
        /\ UNCHANGED <<connected, answered, outcome, faults>>
        /\ connected /\ IsUp /\ Cardinality(inflight) < MaxInFlight
    BY DEF Send, NextBatch, fileVars, NoFault
  <1>1. /\ Types /\ Used /\ Identity /\ Shut /\ Sending /\ Memory
    BY DEF CollectorInv
  <1>2. PICK next \in NextUp : queue' = [queue EXCEPT !.handed = next.seq] /\ inflight' = inflight \cup {next}
    BY DEF Send, NextBatch
  <1>3. /\ next \in Pending /\ next \in Known /\ next \in Batch /\ next.seq \in Nat
        /\ next \in queue.unacked /\ next.seq \notin Parents(queue)
        /\ queue.handed \in Nat /\ queue.handed < next.seq
        /\ \A other \in Pending : other.seq > queue.handed => next.seq <= other.seq
    BY <1>0, <1>1, <1>2, QueueTyped DEF NextUp, Memory, Pending
  <1>4. queue' \in QueueType /\ queue'.handed = next.seq /\ CursorOnly
    BY <1>0, <1>1, <1>2, <1>3 DEF Types, QueueType, CursorOnly
  <1>5. checkpoint \in 0 .. Events /\ checkpoint <= checkpoint' /\ faults \subseteq faults' /\ dead \subseteq dead'
        /\ verdicts \subseteq verdicts'
    BY <1>0, <1>1 DEF Types, PipeTypes
  <1>6. /\ FilesInOrder' /\ Families' /\ Memory' /\ Kept' /\ Finished' /\ Coverage'
        /\ References' /\ Undamaged' /\ Dropping' /\ Known' = Known /\ Pending' = Pending
        /\ IsUp' = IsUp /\ Running' = Running /\ Parents(queue)' = Parents(queue)
    BY <1>0, <1>4, <1>5, SenderFrame
  <1>7. InOrder' /\ Past' /\ Once' /\ Origins'
    BY <1>0, <1>4, <1>5, CheckpointMoved
  <1>8. Types'
    <2>1. FileTypes' /\ PipeTypes'
      BY <1>0, <1>1 DEF Types, FileTypes, PipeTypes, pipelineVars
    <2>2. IsFiniteSet(inflight') /\ Cardinality(inflight') <= MaxInFlight
      <3>1. MaxInFlight \in Nat /\ IsFiniteSet(inflight) /\ Cardinality(inflight) \in Nat
        BY <1>1, CollectorAssumption, FS_CardinalityType DEF Types, SendTypes
      <3>2. Cardinality(inflight') = IF next \in inflight THEN Cardinality(inflight) ELSE Cardinality(inflight) + 1
        BY <1>2, <3>1, FS_AddElement
      <3>3. IsFiniteSet(inflight')
        BY <1>2, <3>1, FS_AddElement
      <3> QED BY <1>0, <3>1, <3>2, <3>3
    <2>3. SeqsOf(inflight) \subseteq SeqsOf(inflight)'
      BY <1>2 DEF SeqsOf
    <2>4. SendTypes'
      BY <1>0, <1>1, <1>2, <1>3, <2>2, <2>3 DEF Types, SendTypes
    <2> QED BY <1>4, <2>1, <2>4 DEF Types
  <1>9. Named' = Named
    BY <1>2, <1>3, <1>6 DEF Named
  <1>10. next.seq < queue.next
    BY <1>0, <1>1, <1>3 DEF Used, SeqsOf, Named, Running, IsUp
  <1>11. Used' /\ Identity'
    <2>1. queue'.next = queue.next /\ queue'.reserved = queue.reserved
          /\ queue'.acked = queue.acked /\ queue'.terminal = queue.terminal /\ queue'.phase = queue.phase
      BY <1>4 DEF CursorOnly
    <2> QED BY <1>0, <1>1, <1>4, <1>6, <1>9, <1>10, <2>1 DEF Used, SeqsOf, Identity
  <1>12. Shut'
    <2>1. queue'.phase = "up" /\ connected'
      BY <1>0, <1>4 DEF IsUp, CursorOnly
    <2> QED BY <1>0, <1>6, <2>1 DEF Shut
  <1>13. Sending'
    <2>1. queue'.acked = queue.acked /\ queue'.unacked = queue.unacked /\ queue'.terminal = queue.terminal
          /\ queue'.repacks = queue.repacks
      BY <1>4 DEF CursorOnly
    <2>2. Final' = Final /\ Settled' = Settled
      BY <1>0 DEF Final, Settled, Stored
    <2>3. ASSUME NEW b \in inflight'
          PROVE  /\ b.seq <= queue'.handed /\ b.seq \notin Parents(queue)
                 /\ b \in queue.unacked \/ (b.seq <= queue.acked /\ b.seq \in SeqsOf(Final))
      <3>1. CASE b = next
        BY <1>3, <1>4, <3>1
      <3>2. CASE b \in inflight
        <4>1. b.seq \in Nat /\ b.seq <= queue.handed
          BY <1>0, <1>1, <3>2 DEF Types, SendTypes, Batch, Sending
        <4> QED BY <1>0, <1>1, <1>3, <1>4, <3>2, <4>1 DEF Sending
      <3> QED BY <1>2, <3>1, <3>2
    <2>4. ASSUME NEW b \in Pending, b.seq <= queue'.handed PROVE b \in inflight' \/ b.seq \in queue.terminal
      <3>1. b.seq \in Nat /\ b \in Known
        BY <1>0, <1>1, QueueTyped DEF Memory
      <3>2. CASE b.seq <= queue.handed
        BY <1>0, <1>1, <1>2, <3>2 DEF Sending
      <3>3. CASE b.seq > queue.handed
        <4>1. b.seq = next.seq
          BY <1>3, <1>4, <2>4, <3>1, <3>3
        <4>2. b = next
          BY <1>1, <1>3, <3>1, <4>1 DEF Identity, Named
        <4> QED BY <1>2, <4>2
      <3> QED BY <1>3, <3>1, <3>2, <3>3
    <2>5. outcome.pc # "none" =>
            AckPreview(outcome.seq, outcome.cumulative)' = AckPreview(outcome.seq, outcome.cumulative)
      BY <1>0, <2>1, PreviewKept
    <2>6. ASSUME outcome.pc = "ack"
          PROVE  EventsOf(AckPreview(outcome.seq, outcome.cumulative))' \subseteq 1 .. checkpoint'
      <3>1. EventsOf(AckPreview(outcome.seq, outcome.cumulative))' = EventsOf(AckPreview(outcome.seq, outcome.cumulative))
        BY <2>5, <2>6 DEF EventsOf
      <3> QED BY <1>0, <1>1, <2>6, <3>1 DEF Sending
    <2>7. answered' \subseteq SeqsOf(verdicts)'
      BY <1>0, <1>1 DEF Sending, SeqsOf
    <2>8. outcome.pc # "none" =>
            /\ outcome.seq \in answered
            /\ \E v \in Final : v.seq = outcome.seq /\ v.events \subseteq Settled
            /\ outcome.cumulative => \A b \in Pending : b.seq < outcome.seq => b.seq \in queue.terminal
      BY <1>0, <1>1 DEF Sending
    <2>9. SeqsOf(Final)' = SeqsOf(Final)
      BY <2>2 DEF SeqsOf
    <2> QED BY <1>0, <1>6, <2>1, <2>2, <2>3, <2>4, <2>6, <2>7, <2>8, <2>9 DEF Sending
  <1> QED BY <1>6, <1>7, <1>8, <1>11, <1>12, <1>13 DEF CollectorInv

\* The server's answer to a batch it sees for the first time is its only one.
LEMMA ServerAnswersKeeps ==
  ASSUME CollectorInv, NEW seq \in SeqsOf(inflight), ServerAnswers(seq)
  PROVE  CollectorInv'
  <1> USE CollectorAssumption
  <1> DEFINE sent == Sent(seq)
  <1>0. /\ UNCHANGED <<meta, segments, manifests, queue, pipelineVars, checkpoint, dead, epoch>>
        /\ UNCHANGED <<connected, inflight, outcome, faults>>
        /\ answered' = answered \cup {seq}
    BY DEF ServerAnswers, NoFault, queueVars
  <1>1. /\ Types /\ Used /\ Identity /\ Shut /\ Sending /\ Memory /\ Origins /\ Once /\ Families
        /\ FilesInOrder /\ Kept
    BY DEF CollectorInv
  <1>2. sent \in inflight /\ sent.seq = seq
    <2>1. \E b \in inflight : b.seq = seq
      BY DEF SeqsOf
    <2> QED BY <2>1 DEF Sent
  <1>3. connected /\ IsUp
    BY <1>1, <1>2 DEF Shut
  <1>4. sent \in Named /\ sent \in Batch /\ seq \in Nat /\ seq \in SeqsOf(Named)
    <2>1. sent \in Batch
      BY <1>1, <1>2 DEF Types, SendTypes
    <2> QED BY <1>2, <2>1 DEF Named, SeqsOf, Batch
  <1>5. \/ verdicts' = verdicts /\ \E v \in verdicts : v.seq = seq
        \/ /\ ~\E v \in verdicts : v.seq = seq
           /\ \E verdict \in Verdicts :
                verdicts' = verdicts \cup {[seq |-> seq, made |-> sent.made, events |-> sent.events,
                                            verdict |-> verdict]}
    <2>1. CASE \E v \in verdicts : v.seq = seq /\ v.made = sent.made
      BY <2>1 DEF ServerAnswers
    <2>2. CASE ~\E v \in verdicts : v.seq = seq /\ v.made = sent.made
      <3>1. ~\E v \in verdicts : v.seq = seq
        BY <1>1, <1>2, <1>4, <2>2 DEF Identity
      <3>2. \E verdict \in Verdicts :
                verdicts' = verdicts \cup {[seq |-> seq, made |-> sent.made, events |-> sent.events,
                                            verdict |-> verdict]}
        BY <2>2 DEF ServerAnswers
      <3> QED BY <3>1, <3>2
    <2> QED BY <2>1, <2>2
  <1> HIDE DEF sent
  <1>6. /\ verdicts \subseteq verdicts' /\ SeqsOf(verdicts') = SeqsOf(verdicts) \cup {seq}
        /\ verdicts' \subseteq [seq : Nat, made : Nat, events : SUBSET (1 .. Events), verdict : Verdicts]
        /\ \A v, w \in verdicts' : v.seq = w.seq => v = w
        /\ \A v \in verdicts' \ verdicts :
              /\ v.seq = seq /\ v.made = sent.made /\ v.events = sent.events
              /\ \A w \in verdicts : w.seq # seq
    <2>1. CASE verdicts' = verdicts /\ \E v \in verdicts : v.seq = seq
      BY <1>1, <2>1 DEF Types, SendTypes, SeqsOf, Identity
    <2>2. CASE /\ ~\E v \in verdicts : v.seq = seq
               /\ \E verdict \in Verdicts :
                    verdicts' = verdicts \cup {[seq |-> seq, made |-> sent.made, events |-> sent.events,
                                                verdict |-> verdict]}
      <3>1. PICK verdict \in Verdicts :
                    verdicts' = verdicts \cup {[seq |-> seq, made |-> sent.made, events |-> sent.events,
                                                verdict |-> verdict]}
        BY <2>2
      <3> DEFINE new == [seq |-> seq, made |-> sent.made, events |-> sent.events, verdict |-> verdict]
      <3>2. new \in [seq : Nat, made : Nat, events : SUBSET (1 .. Events), verdict : Verdicts]
            /\ new.seq = seq /\ new.made = sent.made /\ new.events = sent.events
        BY <1>4 DEF Batch
      <3>3. verdicts' = verdicts \cup {new}
        BY <3>1
      <3> HIDE DEF new
      <3> QED BY <1>1, <2>2, <3>2, <3>3 DEF Types, SendTypes, SeqsOf, Identity
    <2> QED BY <1>5, <2>1, <2>2
  <1>7. CursorOnly
    BY <1>0 DEF CursorOnly
  <1>8. checkpoint \in 0 .. Events /\ checkpoint <= checkpoint' /\ faults \subseteq faults' /\ dead \subseteq dead'
    BY <1>0, <1>1 DEF Types, PipeTypes
  <1>9. /\ Families' /\ Memory' /\ Kept' /\ Finished' /\ Coverage' /\ InOrder'
        /\ References' /\ Undamaged' /\ Dropping' /\ Known' = Known /\ Pending' = Pending
        /\ IsUp' = IsUp /\ Running' = Running /\ Parents(queue)' = Parents(queue) /\ FilesInOrder'
        /\ Final \subseteq Final' /\ Settled \subseteq Settled' /\ Stored \subseteq Stored'
        /\ Recs' = Recs /\ Children' = Children /\ Leaves' = Leaves
        /\ \A r : InDoubt(r)' <=> InDoubt(r)
    BY <1>0, <1>6, <1>7, <1>8, SenderFrame
  <1>10. Types'
    <2>1. FileTypes' /\ PipeTypes' /\ queue' \in QueueType
      BY <1>0, <1>1 DEF Types, FileTypes, PipeTypes, pipelineVars
    <2>2. SendTypes'
      BY <1>0, <1>1, <1>6 DEF Types, SendTypes, SeqsOf
    <2> QED BY <2>1, <2>2 DEF Types
  <1>11. Named' = Named
    BY <1>0, <1>9 DEF Named
  <1>12. SeqsOf(Named)' = SeqsOf(Named) /\ SeqsOf(verdicts)' = SeqsOf(verdicts) \cup {seq}
    BY <1>6, <1>11 DEF SeqsOf
  <1>13. Used'
    BY <1>0, <1>1, <1>4, <1>9, <1>12 DEF Used
  <1>14. Identity'
    BY <1>1, <1>2, <1>4, <1>6, <1>11 DEF Identity
  <1>15. Shut'
    BY <1>0, <1>1, <1>9 DEF Shut, ClosedQueue, pipelineVars
  <1>16. Sending'
    <2>1. AckPreview(outcome.seq, outcome.cumulative)' = AckPreview(outcome.seq, outcome.cumulative)
      BY <1>0 DEF AckPreview, TerminalPrefix, WithOutcome, Covered, CompletedParents, Pending, Parents
    <2>2. EventsOf(AckPreview(outcome.seq, outcome.cumulative))' = EventsOf(AckPreview(outcome.seq, outcome.cumulative))
      BY <2>1 DEF EventsOf
    <2>3. answered' \subseteq SeqsOf(verdicts)' /\ answered \subseteq answered'
      BY <1>0, <1>1, <1>3, <1>12 DEF Sending
    <2>4. SeqsOf(Final) \subseteq SeqsOf(Final)'
      BY <1>9 DEF SeqsOf
    <2>5. Sending
      BY <1>1
    <2> QED BY <1>0, <1>9, <2>2, <2>3, <2>4, <2>5 DEF Sending
  <1>17. Past'
    BY <1>0, <1>9 DEF CollectorInv, Past, NoOversized
  <1>18. ASSUME NEW v \in verdicts' \ verdicts
         PROVE  /\ sent \in queue.unacked /\ sent \in Leaves /\ v.events = sent.events
                /\ v.events \cap (Undecodable \cup Huge) = {}
                /\ \E r \in Recs : r.intact /\ v.events \subseteq r.events /\ r.seq <= sent.seq
    <2>1. sent \in queue.unacked
      <3>1. sent.seq \notin SeqsOf(Final)
        BY <1>2, <1>6, <1>18 DEF SeqsOf, Final
      <3> QED BY <1>1, <1>2, <1>3, <3>1 DEF Sending
    <2>2. PICK r \in Recs : r.intact /\ sent.events \subseteq r.events /\ r.seq <= sent.seq
      BY <1>1, <1>3, <2>1, RootOf
    <2>3. r.events \cap (Undecodable \cup Huge) = {}
      BY <1>1 DEF Origins
    <2>4. sent \in Known /\ sent.seq > queue.acked
      BY <1>1, <1>3, <2>1 DEF Memory
    <2>5. sent.seq \notin {p.parent : p \in manifests}
      <3>1. SUFFICES ASSUME NEW p \in manifests, p.parent = sent.seq PROVE FALSE
        OBVIOUS
      <3>2. \E w \in verdicts : w.seq = p.parent
        BY <1>1 DEF Families
      <3> QED BY <1>2, <1>6, <1>18, <3>1, <3>2
    <2>6. sent \in Leaves
      BY <1>3, <2>4, <2>5 DEF Leaves, Low, Running, IsUp
    <2> QED BY <1>6, <1>18, <2>1, <2>2, <2>3, <2>6
  <1>19. Origins'
    <2>1. \A v \in verdicts' : v.events \cap (Undecodable \cup Huge) = {}
      BY <1>1, <1>18 DEF Origins
    <2>2. EventsOf(Final) \subseteq EventsOf(Final)'
      BY <1>9 DEF EventsOf
    <2> QED BY <1>0, <1>1, <1>9, <2>1, <2>2 DEF Origins
  <1>20. Once'
    <2>1. SUFFICES ASSUME SyncAlways, "damage" \notin faults PROVE Once'
      BY <1>0 DEF Once
    <2>2. /\ \A r \in Recs : InDoubt(r) => r.seq > queue.acked /\ Descriptor(r) \notin queue.unacked
          /\ \A v \in Final : \A e \in v.events :
               e <= checkpoint \/ \E r \in Recs : r.intact /\ e \in r.events /\ ~InDoubt(r)
          /\ \A v, w \in Final : v # w => v.events \cap w.events = {}
          /\ \A a, b \in Leaves : a # b => a.events \cap b.events = {}
          /\ \A b \in Leaves, v \in Final : v.seq # b.seq => v.events \cap b.events = {}
          /\ Stored \cap dead = {}
      BY <1>1, <2>1 DEF Once
    <2>3. ASSUME NEW v \in Final', v \notin Final
          PROVE  /\ v \in verdicts' \ verdicts /\ sent \in Leaves /\ v.events = sent.events /\ v.seq = sent.seq
                 /\ \A w \in Final : w.seq # sent.seq /\ w.events \cap v.events = {}
      <3>1. v \in verdicts' \ verdicts
        BY <2>3 DEF Final
      <3>2. sent \in Leaves /\ v.events = sent.events /\ v.seq = sent.seq
        BY <1>2, <1>6, <1>18, <3>1
      <3>3. \A w \in Final : w.seq # sent.seq
        BY <1>2, <1>6, <3>1 DEF Final
      <3> QED BY <2>2, <3>1, <3>2, <3>3
    <2>4. ASSUME NEW v \in Final', NEW e \in v.events
          PROVE  e <= checkpoint \/ \E r \in Recs : r.intact /\ e \in r.events /\ ~InDoubt(r)
      <3>1. CASE v \in Final
        BY <2>2, <3>1
      <3>2. CASE v \notin Final
        <4>1. PICK r \in Recs : r.intact /\ v.events \subseteq r.events /\ r.seq <= sent.seq
          BY <1>18, <2>3, <3>2
        <4>2. ~InDoubt(r)
          <5>1. SUFFICES ASSUME InDoubt(r) PROVE FALSE
            OBVIOUS
          <5>2. r.seq > queue.acked /\ Descriptor(r) \notin queue.unacked
            BY <2>2, <5>1
          <5>3. Descriptor(r) \in Known /\ Descriptor(r).seq = r.seq /\ r.seq \in Nat
            BY <1>1, NamesTyped DEF RecordType
          <5>4. sent \in queue.unacked
            BY <1>18, <2>3, <3>2
          <5>5. sent.seq < r.seq
            BY <1>1, <1>3, <5>2, <5>3, <5>4 DEF Memory
          <5> QED BY <1>2, <1>4, <4>1, <5>3, <5>5
        <4> QED BY <4>1, <4>2
      <3> QED BY <3>1, <3>2
    <2>5. \A v, w \in Final' : v # w => v.events \cap w.events = {}
      <3>1. \A v, w \in Final' \ Final : v = w
        BY <1>6, <2>3
      <3> QED BY <2>2, <2>3, <3>1
    <2>6. ASSUME NEW b \in Leaves, NEW v \in Final', v.seq # b.seq PROVE v.events \cap b.events = {}
      <3>1. CASE v \in Final
        BY <2>2, <2>6, <3>1
      <3>2. CASE v \notin Final
        BY <2>2, <2>3, <2>6, <3>2
      <3> QED BY <3>1, <3>2
    <2>7. Stored' \cap dead = {}
      <3>1. SUFFICES ASSUME NEW e \in Stored', e \in dead PROVE FALSE
        OBVIOUS
      <3>2. PICK v \in verdicts' : v.verdict = "ack" /\ e \in v.events /\ e \notin Invalid
        BY <3>1 DEF Stored
      <3>3. CASE v \in verdicts
        <4>1. e \in Stored
          BY <3>2, <3>3 DEF Stored
        <4> QED BY <2>2, <3>1, <4>1
      <3>4. CASE v \notin verdicts
        <4>1. v \in Final' /\ v \notin Final
          BY <3>2, <3>4 DEF Final
        <4>2. e \notin EventsOf(Final)
          BY <2>3, <3>2, <4>1 DEF EventsOf
        <4>3. e \notin Undecodable \cup Huge
          BY <1>18, <3>2, <3>4
        <4> QED BY <1>1, <3>1, <4>2, <4>3 DEF Origins
      <3> QED BY <3>3, <3>4
    <2> QED BY <1>0, <1>9, <2>2, <2>4, <2>5, <2>6, <2>7 DEF Once
  <1> QED BY <1>9, <1>10, <1>13, <1>14, <1>15, <1>16, <1>17, <1>19, <1>20 DEF CollectorInv

-----------------------------------------------------------------------------
(* Acknowledgments.                                                         *)

MetaType == [next : Nat \ {0}, acked : Nat, refs : SUBSET [parent : Nat, through : Nat]]

\* What meta.json says of a state of the queue.
LEMMA MetaWritten ==
  ASSUME NEW state, state.next \in Nat \ {0}, state.reserved \in Nat, state.acked \in Nat,
         state.repacks \subseteq PlanType, \A p \in state.repacks : Through(p) \in Nat
  PROVE  /\ MetaOf(state) \in MetaType
         /\ state.next <= MetaOf(state).next /\ state.reserved <= MetaOf(state).next
         /\ MetaOf(state).acked = state.acked
         /\ \A ref \in MetaOf(state).refs : \E p \in state.repacks :
              p.parent = ref.parent /\ Through(p) = ref.through /\ Through(p) > state.acked
  <1> DEFINE refs == {[parent |-> plan.parent, through |-> Through(plan)] :
                        plan \in {p \in state.repacks : Through(p) > state.acked}}
  <1>1. MetaOf(state) = [next |-> Larger(state.next, state.reserved), acked |-> state.acked, refs |-> refs]
    BY DEF MetaOf
  <1>2. /\ Larger(state.next, state.reserved) \in Nat \ {0}
        /\ state.next <= Larger(state.next, state.reserved)
        /\ state.reserved <= Larger(state.next, state.reserved)
    BY DEF Larger
  <1>3. ASSUME NEW ref \in refs
        PROVE  /\ ref \in [parent : Nat, through : Nat]
               /\ \E p \in state.repacks :
                     p.parent = ref.parent /\ Through(p) = ref.through /\ Through(p) > state.acked
    <2>1. PICK p \in state.repacks : Through(p) > state.acked /\ ref = [parent |-> p.parent, through |-> Through(p)]
      OBVIOUS
    <2>2. p.parent \in Nat
      BY DEF PlanType
    <2> QED BY <2>1, <2>2
  <1> HIDE DEF refs
  <1> QED BY <1>1, <1>2, <1>3 DEF MetaType

\* The state of the queue after an outcome was noted and its prefix dropped.
After == Advanced(NotedOf)

\* The batches an outcome drops are those up to the new high-water mark.
LEMMA AdvancedOf ==
  ASSUME CollectorInv, outcome.pc # "none"
  PROVE  /\ After \in QueueType
         /\ After.acked \in Nat /\ queue.acked <= After.acked /\ After.acked < queue.next
         /\ After.phase = queue.phase /\ After.next = queue.next /\ After.reserved = queue.reserved
         /\ After.repacks = queue.repacks /\ After.active = queue.active /\ After.synced = queue.synced
         /\ After.handed = queue.handed /\ After.unhealthy = queue.unhealthy
         /\ After.unacked = {b \in queue.unacked : b.seq > After.acked}
         /\ After.terminal \subseteq NotedOf.terminal
         /\ \A n \in NotedOf.terminal : n <= After.acked \/ n \in After.terminal
         /\ \A b \in queue.unacked : b.seq <= After.acked =>
              b.seq \in NotedOf.terminal /\ b \in TerminalPrefix(NotedOf)
         /\ \A b \in Known : b.seq <= After.acked => b.seq <= queue.acked \/ b \in queue.unacked
         /\ \A b \in Known : b.seq <= After.acked => b.events \subseteq Settled
         /\ outcome.pc = "ack" /\ outcome.seq > queue.acked =>
              \A r \in Recs : r.seq <= After.acked => r.events \subseteq 1 .. checkpoint
         /\ After.acked = queue.acked => After = NotedOf
  <1> DEFINE T == NotedOf.terminal
             D == TerminalPrefix(NotedOf)
  <1>1. /\ Types /\ Used /\ Identity /\ Memory /\ Finished /\ Sending
    BY DEF CollectorInv
  <1>2. /\ IsUp /\ NotedOf = [queue EXCEPT !.terminal = T]
        /\ NotedOf.unacked = queue.unacked /\ NotedOf.acked = queue.acked
        /\ \A n \in T : n \in Nat /\ n < queue.next
        /\ \A b \in Known : b.seq \in T => b.events \subseteq Settled
    BY OutcomeNoted
  <1>3. queue \in QueueType
    BY <1>1 DEF Types
  <1> HIDE DEF T
  <1>4. NotedOf \in QueueType
    BY <1>2, <1>3 DEF QueueType
  <1>5. /\ D \subseteq queue.unacked
        /\ \A b \in D : \A o \in queue.unacked : o.seq <= b.seq => o.seq \in T
        /\ \A b \in queue.unacked : (\A o \in queue.unacked : o.seq <= b.seq => o.seq \in T) => b \in D
    BY <1>2 DEF TerminalPrefix, T
  <1>6. \A b \in queue.unacked : b \in Known /\ b \in Batch /\ b.seq \in Nat /\ b.seq > queue.acked
    BY <1>1, <1>2, QueueTyped DEF Memory
  <1>7. queue.acked \in Nat /\ queue.next \in Nat /\ queue.acked < queue.next /\ meta.acked \in Nat /\ queue.acked <= meta.acked
    BY <1>1, <1>2, QueueTyped DEF Used
  <1> HIDE DEF D
  <1>8. \A b \in D : b.seq \in T /\ b.seq \in Nat /\ b.seq < queue.next /\ b.seq > queue.acked
    BY <1>2, <1>5, <1>6
  <1> DEFINE top == MaxOf(SeqsOf(D), queue.acked)
  <1>9. After = [NotedOf EXCEPT !.acked = top, !.unacked = @ \ D, !.terminal = @ \ SeqsOf(D)]
    BY <1>2 DEF After, Advanced, D
  <1>10. D # {} => top \in SeqsOf(D) /\ \A n \in SeqsOf(D) : n <= top
    <2>1. SeqsOf(D) \in SUBSET Nat /\ \A n \in SeqsOf(D) : n <= queue.next
      BY <1>7, <1>8 DEF SeqsOf
    <2>2. D # {} => SeqsOf(D) # {}
      BY DEF SeqsOf
    <2> QED BY <1>7, <2>1, <2>2, MaxOfGreatest
  <1>11. D = {} => top = queue.acked
    <2>1. D = {} => SeqsOf(D) = {}
      BY DEF SeqsOf
    <2> QED BY <2>1, MaxOfNone
  <1> HIDE DEF top
  <1>12. top \in Nat /\ queue.acked <= top /\ top < queue.next
    <2>1. CASE D = {}
      BY <1>7, <1>11, <2>1
    <2>2. CASE D # {}
      <3>1. PICK b \in D : b.seq = top
        BY <1>10, <2>2 DEF SeqsOf
      <3> QED BY <1>7, <1>8, <3>1
    <2> QED BY <2>1, <2>2
  <1>13. /\ After \in QueueType /\ After.acked = top /\ After.unacked = queue.unacked \ D
         /\ After.terminal = T \ SeqsOf(D)
         /\ After.phase = queue.phase /\ After.next = queue.next /\ After.reserved = queue.reserved
         /\ After.repacks = queue.repacks /\ After.active = queue.active /\ After.synced = queue.synced
         /\ After.handed = queue.handed /\ After.unhealthy = queue.unhealthy
    <2>1. /\ NotedOf.terminal = T /\ NotedOf.phase = queue.phase /\ NotedOf.next = queue.next
          /\ NotedOf.reserved = queue.reserved /\ NotedOf.repacks = queue.repacks
          /\ NotedOf.active = queue.active /\ NotedOf.synced = queue.synced
          /\ NotedOf.handed = queue.handed /\ NotedOf.unhealthy = queue.unhealthy
      BY <1>2, <1>3 DEF QueueType, T
    <2>2. After \in QueueType
      BY <1>4, <1>9, <1>12 DEF QueueType
    <2>3. /\ After.acked = top /\ After.unacked = NotedOf.unacked \ D
          /\ After.terminal = NotedOf.terminal \ SeqsOf(D)
          /\ After.phase = NotedOf.phase /\ After.next = NotedOf.next /\ After.reserved = NotedOf.reserved
          /\ After.repacks = NotedOf.repacks /\ After.active = NotedOf.active /\ After.synced = NotedOf.synced
          /\ After.handed = NotedOf.handed /\ After.unhealthy = NotedOf.unhealthy
      BY <1>4, <1>9 DEF QueueType
    <2> QED BY <1>2, <2>1, <2>2, <2>3
  <1>14. \A b \in D : b.seq <= top
    BY <1>10 DEF SeqsOf
  <1>15. ASSUME NEW b \in queue.unacked, b.seq <= top PROVE b \in D
    <2>1. D # {}
      BY <1>6, <1>7, <1>11, <1>15
    <2>2. PICK d \in D : d.seq = top
      BY <1>10, <2>1 DEF SeqsOf
    <2>3. \A o \in queue.unacked : o.seq <= b.seq => o.seq \in T
      BY <1>5, <1>6, <1>12, <1>15, <2>2
    <2> QED BY <1>5, <2>3
  <1>16. After.unacked = {b \in queue.unacked : b.seq > After.acked}
    <2>1. \A b \in queue.unacked : b \notin D <=> b.seq > top
      BY <1>6, <1>12, <1>14, <1>15
    <2> QED BY <1>13, <2>1
  <1>17. \A n \in T : n <= top \/ n \in T \ SeqsOf(D)
    BY <1>14 DEF SeqsOf
  <1>18. ASSUME NEW b \in Known, b.seq <= top PROVE b.seq <= queue.acked \/ b \in queue.unacked
    <2>1. SUFFICES ASSUME b.seq > queue.acked, b \notin queue.unacked PROVE FALSE
      <3>1. b.seq \in Nat
        BY <1>1, NamesTyped DEF Batch
      <3> QED BY <1>7, <2>1, <3>1
    <2>2. b.seq \in Nat
      BY <1>1, NamesTyped DEF Batch
    <2>3. D # {}
      BY <1>7, <1>11, <1>18, <2>1, <2>2
    <2>4. PICK d \in D : d.seq = top
      BY <1>10, <2>3 DEF SeqsOf
    <2>5. d.seq < b.seq
      BY <1>1, <1>2, <1>5, <2>1, <2>4 DEF Memory
    <2> QED BY <1>12, <1>18, <2>2, <2>4, <2>5
  <1>19. ASSUME NEW b \in Known, b.seq <= top PROVE b.events \subseteq Settled
    <2>1. CASE b.seq <= queue.acked
      <3>1. b.seq \in Nat
        BY <1>1, NamesTyped DEF Batch
      <3>2. b.seq <= meta.acked
        BY <1>7, <2>1, <3>1
      <3> QED BY <1>1, <3>2 DEF Finished
    <2>2. CASE b \in queue.unacked
      BY <1>2, <1>8, <1>15, <1>19, <2>2
    <2> QED BY <1>18, <1>19, <2>1, <2>2
  <1>20. ASSUME outcome.pc = "ack", outcome.seq > queue.acked, NEW r \in Recs, r.seq <= top
         PROVE  r.events \subseteq 1 .. checkpoint
    <2>1. Descriptor(r) \in Known /\ Descriptor(r).seq = r.seq /\ Descriptor(r).events = r.events /\ r.seq \in Nat
      BY <1>1, NamesTyped DEF RecordType
    <2>2. CASE r.seq <= queue.acked
      <3>1. r.seq <= meta.acked
        BY <1>7, <2>1, <2>2
      <3> QED BY <1>1, <3>1 DEF Finished
    <2>3. CASE Descriptor(r) \in queue.unacked
      <3>1. Descriptor(r) \in D
        BY <1>15, <1>20, <2>1, <2>3
      <3>2. outcome.seq \in Nat
        BY OutcomeNoted
      <3>3. AckPreview(outcome.seq, outcome.cumulative) = D
        BY <1>7, <1>20, <3>2 DEF AckPreview, NotedOf, D
      <3>4. EventsOf(D) \subseteq 1 .. checkpoint
        BY <1>1, <1>2, <1>20, <3>3 DEF Sending
      <3> QED BY <2>1, <3>1, <3>4 DEF EventsOf
    <2> QED BY <1>18, <1>20, <2>1, <2>2, <2>3
  <1>21. ASSUME top = queue.acked PROVE After = NotedOf
    <2>1. D = {}
      <3>1. \A b \in D : ~(b.seq <= top)
        BY <1>7, <1>8, <1>21
      <3> QED BY <1>14, <3>1
    <2>2. SeqsOf(D) = {}
      BY <2>1 DEF SeqsOf
    <2>3. After = [NotedOf EXCEPT !.acked = NotedOf.acked, !.unacked = NotedOf.unacked, !.terminal = NotedOf.terminal]
      BY <1>2, <1>9, <1>21, <2>1, <2>2
    <2> QED BY <1>4, <2>3 DEF QueueType
  <1>22. \A b \in queue.unacked : b.seq <= top => b.seq \in T /\ b \in D
    BY <1>8, <1>15
  <1> HIDE DEF After
  <1>23. NotedOf.terminal = T /\ TerminalPrefix(NotedOf) = D
    BY DEF T, D
  <1>24. After.acked = top
    BY <1>13
  <1>25. \A b \in Known : b.seq <= After.acked => b.seq <= queue.acked \/ b \in queue.unacked
    BY <1>18, <1>24
  <1>26. \A b \in Known : b.seq <= After.acked => b.events \subseteq Settled
    BY <1>19, <1>24
  <1>27. outcome.pc = "ack" /\ outcome.seq > queue.acked =>
              \A r \in Recs : r.seq <= After.acked => r.events \subseteq 1 .. checkpoint
    BY <1>20, <1>24
  <1>28. After.acked = queue.acked => After = NotedOf
    BY <1>21, <1>24
  <1>29. /\ \A n \in NotedOf.terminal : n <= After.acked \/ n \in After.terminal
         /\ After.terminal \subseteq NotedOf.terminal
    BY <1>13, <1>17, <1>23
  <1>30. \A b \in queue.unacked : b.seq <= After.acked =>
              b.seq \in NotedOf.terminal /\ b \in TerminalPrefix(NotedOf)
    BY <1>22, <1>23, <1>24
  <1>31. After.acked \in Nat /\ queue.acked <= After.acked /\ After.acked < queue.next
    BY <1>12, <1>24
  <1> QED BY <1>13, <1>16, <1>25, <1>26, <1>27, <1>28, <1>29, <1>30, <1>31

\* What the sender does once an outcome was handed to the queue.
AfterOutcome ==
  /\ UNCHANGED <<pipelineVars, checkpoint, dead, verdicts, epoch>>
  /\ inflight' \subseteq inflight /\ answered' \subseteq answered \cap SeqsOf(inflight')
  /\ outcome' = NoOutcome /\ connected' \in BOOLEAN
  /\ ~connected' => inflight' = {}
  /\ connected' => \A b \in inflight \ inflight' :
        b.seq = outcome.seq \/ (outcome.cumulative /\ b.seq < outcome.seq)
  /\ faults \subseteq faults' /\ faults' \subseteq Faults

\* The parts of the sender and the pipeline after it.
LEMMA OutcomeFrame ==
  ASSUME CollectorInv, outcome.pc # "none", AfterOutcome,
         queue'.phase = queue.phase, Pending' \subseteq Pending,
         Parents(queue)' \subseteq Parents(queue), queue'.handed = queue.handed,
         queue'.acked \in Nat, queue.acked <= queue'.acked,
         \A b \in queue.unacked : b \in queue'.unacked \/ (b.seq <= queue'.acked /\ b.seq \in NotedOf.terminal),
         \A b \in queue'.unacked : b.seq > queue'.acked,
         \A n \in queue.terminal : n <= queue'.acked \/ n \in queue'.terminal,
         outcome.seq <= queue.acked \/ (\A n \in NotedOf.terminal : n <= queue'.acked \/ n \in queue'.terminal)
  PROVE  /\ PipeTypes' /\ SendTypes' /\ Shut' /\ Sending' /\ Past'
         /\ Final' = Final /\ Settled' = Settled /\ Stored' = Stored /\ IsUp /\ IsUp' /\ Running'
         /\ InHand' = InHand
  <1>0. /\ UNCHANGED <<readPos, batch, work, batcher, checkpoint, dead, verdicts, epoch>>
        /\ inflight' \subseteq inflight /\ answered' \subseteq answered /\ answered' \subseteq SeqsOf(inflight')
        /\ outcome' = NoOutcome /\ connected' \in BOOLEAN
        /\ faults \subseteq faults' /\ faults' \subseteq Faults
    BY DEF AfterOutcome, pipelineVars
  <1>1. /\ Types /\ Shut /\ Sending /\ Memory
    BY DEF CollectorInv
  <1>2. /\ IsUp /\ connected /\ outcome.seq \in Nat
        /\ \A n \in NotedOf.terminal :
              /\ n \in Nat
              /\ n <= queue.acked \/ n \in Parents(queue) \/ n \in SeqsOf(Final)
        /\ outcome.seq \in NotedOf.terminal \/ (outcome.cumulative /\ outcome.seq \notin SeqsOf(Pending))
    BY OutcomeNoted
  <1>3. Final' = Final /\ Settled' = Settled /\ Stored' = Stored /\ InHand' = InHand
    BY <1>0 DEF Final, Settled, Stored, InHand
  <1>4. IsUp' /\ Running'
    BY <1>2 DEF IsUp, Running
  <1>5. PipeTypes'
    BY <1>0, <1>1 DEF Types, PipeTypes
  <1>6. SendTypes'
    <2>1. IsFiniteSet(inflight') /\ Cardinality(inflight') <= Cardinality(inflight)
          /\ Cardinality(inflight') \in Nat /\ Cardinality(inflight) \in Nat
      BY <1>0, <1>1, FS_Subset, FS_CardinalityType DEF Types, SendTypes
    <2>2. Cardinality(inflight') <= MaxInFlight /\ MaxInFlight \in Nat
      BY <1>1, <2>1, CollectorAssumption DEF Types, SendTypes
    <2>3. NoOutcome \in [pc : {"none", "checkpoint", "ack"}, seq : Nat, cumulative : BOOLEAN]
      BY DEF NoOutcome
    <2>4. answered' \subseteq SeqsOf(inflight)'
      BY <1>0 DEF SeqsOf
    <2> QED BY <1>0, <1>1, <2>1, <2>2, <2>3, <2>4 DEF Types, SendTypes
  <1>7. Shut'
    <2>1. queue'.phase = "up"
      BY <1>4 DEF IsUp
    <2>2. ~connected' => inflight' = {}
      BY DEF AfterOutcome
    <2> QED BY <1>0, <1>4, <2>1, <2>2 DEF Shut
  <1>8. queue.acked \in Nat /\ queue.handed \in Nat
        /\ \A b \in queue.unacked : b \in Batch /\ b.seq \in Nat /\ b.seq > queue.acked
    BY <1>1, <1>2, QueueTyped DEF Memory
  <1>9. Sending'
    <2>1. answered' \subseteq SeqsOf(verdicts)'
      BY <1>0, <1>1, <1>2 DEF Sending, SeqsOf
    <2>2. ASSUME NEW b \in inflight'
          PROVE  /\ b.seq <= queue'.handed /\ b.seq \notin Parents(queue)'
                 /\ b \in queue'.unacked \/ (b.seq <= queue'.acked /\ b.seq \in SeqsOf(Final))
      <3>1. /\ b.seq <= queue.handed /\ b.seq \notin Parents(queue)
            /\ b \in queue.unacked \/ (b.seq <= queue.acked /\ b.seq \in SeqsOf(Final))
        BY <1>0, <1>1, <1>2 DEF Sending
      <3>2. b.seq \in Nat
        BY <1>0, <1>1 DEF Types, SendTypes, Batch
      <3>3. ASSUME b \in queue.unacked, b \notin queue'.unacked
            PROVE  b.seq <= queue'.acked /\ b.seq \in SeqsOf(Final)
        <4>1. b.seq <= queue'.acked /\ b.seq \in NotedOf.terminal
          BY <3>3
        <4>2. ~(b.seq <= queue.acked)
          BY <1>8, <3>3
        <4> QED BY <1>2, <3>1, <4>1, <4>2
      <3>4. b.seq <= queue.acked => b.seq <= queue'.acked
        BY <1>8, <3>2
      <3> QED BY <3>1, <3>3, <3>4
    <2>3. ASSUME connected', NEW b \in Pending', b.seq <= queue'.handed
          PROVE  b \in inflight' \/ b.seq \in queue'.terminal
      <3>1. b \in Pending /\ b \in queue.unacked /\ b \in queue'.unacked
        BY DEF Pending
      <3>2. b.seq \in Nat /\ ~(b.seq <= queue'.acked) /\ ~(b.seq <= queue.acked)
        BY <1>8, <3>1
      <3>3. b \in inflight \/ b.seq \in queue.terminal
        BY <1>1, <1>2, <2>3, <3>1 DEF Sending
      <3>4. CASE b.seq \in queue.terminal
        BY <3>2, <3>4
      <3>5. CASE b \in inflight \ inflight'
        <4>1. b.seq = outcome.seq \/ (outcome.cumulative /\ b.seq < outcome.seq)
          BY <2>3, <3>5 DEF AfterOutcome
        <4>2. CASE b.seq = outcome.seq
          <5>1. outcome.seq \in NotedOf.terminal
            BY <1>2, <3>1, <4>2 DEF SeqsOf
          <5> QED BY <3>2, <4>2, <5>1
        <4>3. CASE outcome.cumulative /\ b.seq < outcome.seq
          <5>1. b.seq \in queue.terminal
            BY <1>1, <1>2, <3>1, <4>3 DEF Sending
          <5> QED BY <3>4, <5>1
        <4> QED BY <4>1, <4>2, <4>3
      <3> QED BY <3>3, <3>4, <3>5
    <2>4. outcome'.pc = "none"
      BY <1>0 DEF NoOutcome
    <2>5. SeqsOf(Final)' = SeqsOf(Final)
      BY <1>3 DEF SeqsOf
    <2> QED BY <2>1, <2>2, <2>3, <2>4, <2>5 DEF Sending
  <1>10. Past'
    BY <1>0, <1>3 DEF CollectorInv, Past, NoOversized
  <1> QED BY <1>2, <1>3, <1>4, <1>5, <1>6, <1>7, <1>9, <1>10

\* Dropping depends on the queue's health alone.
LEMMA DroppingFrame ==
  ASSUME CollectorInv, UNCHANGED <<batch, work, batcher, dead>>, queue'.unhealthy = queue.unhealthy
  PROVE  Dropping'
  BY DEF CollectorInv, Dropping

\* An outcome is noted, or was already acknowledged, and no file but meta.json
\* changes.
LEMMA NotedStepKeeps ==
  ASSUME CollectorInv, outcome.pc = "ack", AfterOutcome, UNCHANGED <<segments, manifests>>,
         \/ queue' = queue /\ meta' = meta /\ outcome.seq <= queue.acked
         \/ queue' = NotedOf /\ outcome.seq > queue.acked /\ meta' \in {meta, MetaOf(After)}
  PROVE  CollectorInv'
  <1>0. /\ UNCHANGED <<segments, manifests, readPos, batch, work, batcher, checkpoint, dead, verdicts, epoch>>
        /\ faults \subseteq faults' /\ inflight' \subseteq inflight
    BY DEF AfterOutcome, pipelineVars
  <1>1. /\ Types /\ FilesInOrder /\ Used /\ Identity /\ Families /\ Shut /\ Memory /\ Kept /\ Sending
        /\ Finished /\ Coverage /\ InOrder /\ Dropping /\ References /\ Undamaged /\ Origins /\ Once
    BY DEF CollectorInv
  <1>2. /\ IsUp /\ NotedOf = [queue EXCEPT !.terminal = NotedOf.terminal]
        /\ NotedOf.unacked = queue.unacked /\ NotedOf.acked = queue.acked /\ NotedOf.next = queue.next
        /\ queue.terminal \subseteq NotedOf.terminal
        /\ \A n \in NotedOf.terminal :
              /\ n \in Nat /\ 0 < n /\ n < queue.next
              /\ n <= queue.acked \/ n \in Parents(queue) \/ n \in SeqsOf(Final)
        /\ \A b \in Known : b.seq \in NotedOf.terminal => b.events \subseteq Settled
        /\ \A b \in Known \ queue.unacked : b.seq > queue.acked => b.seq \notin NotedOf.terminal
        /\ \A p \in queue.repacks : p.parent \in NotedOf.terminal =>
              \A c \in p.children : c.seq <= queue.acked \/ c.seq \in NotedOf.terminal
    BY OutcomeNoted
  <1>3. queue \in QueueType
    BY <1>1 DEF Types
  <1>4. /\ queue' \in QueueType /\ queue'.phase = queue.phase /\ queue'.next = queue.next
        /\ queue'.reserved = queue.reserved /\ queue'.acked = queue.acked /\ queue'.unacked = queue.unacked
        /\ queue'.repacks = queue.repacks /\ queue'.active = queue.active /\ queue'.synced = queue.synced
        /\ queue'.handed = queue.handed /\ queue'.unhealthy = queue.unhealthy
        /\ queue.terminal \subseteq queue'.terminal
        /\ queue'.terminal = queue.terminal \/ (outcome.seq > queue.acked /\ queue'.terminal = NotedOf.terminal)
    <2>1. CASE queue' = queue
      BY <1>3, <2>1
    <2>2. CASE queue' = NotedOf /\ outcome.seq > queue.acked
      <3> DEFINE T == NotedOf.terminal
      <3>1. T \in SUBSET Nat
        BY <1>2
      <3> HIDE DEF T
      <3>2. queue' = [queue EXCEPT !.terminal = T]
        BY <1>2, <2>2 DEF T
      <3> QED BY <1>2, <1>3, <2>2, <3>1, <3>2 DEF QueueType, T
    <2> QED BY <2>1, <2>2
  <1>5. /\ Recs' = Recs /\ Children' = Children /\ Parents(queue)' = Parents(queue)
    BY <1>0, <1>4 DEF Recs, RecsOf, Children, Parents
  <1>6. Known' = Known /\ Pending' = Pending
    BY <1>4, <1>5 DEF Known, Pending
  <1>7. queue.acked \in Nat /\ queue.next \in Nat \ {0} /\ queue.reserved \in Nat /\ queue.acked < queue.next
        /\ meta \in MetaType /\ queue.acked <= meta.acked /\ queue.reserved <= meta.next
        /\ \A b \in queue.unacked : b.seq > queue.acked
    BY <1>1, <1>2, QueueTyped DEF Used, Types, FileTypes, MetaType, Memory
  <1>8. /\ PipeTypes' /\ SendTypes' /\ Shut' /\ Sending' /\ Past'
        /\ Final' = Final /\ Settled' = Settled /\ Stored' = Stored /\ IsUp' /\ Running' /\ InHand' = InHand
    <2>1. outcome.seq \in Nat
      BY OutcomeNoted
    <2>2. outcome.seq <= queue.acked \/ (\A n \in NotedOf.terminal : n <= queue'.acked \/ n \in queue'.terminal)
      BY <1>2, <1>4
    <2>3. \A b \in queue'.unacked : b.seq > queue'.acked
      BY <1>4, <1>7
    <2>4. \A n \in queue.terminal : n <= queue'.acked \/ n \in queue'.terminal
      BY <1>4
    <2>5. \A b \in queue.unacked : b \in queue'.unacked
      BY <1>4
    <2>6. queue'.acked \in Nat /\ queue.acked <= queue'.acked /\ Pending' \subseteq Pending
          /\ Parents(queue)' \subseteq Parents(queue) /\ queue'.handed = queue.handed /\ queue'.phase = queue.phase
      BY <1>4, <1>5, <1>6, <1>7
    <2> QED BY <2>2, <2>3, <2>4, <2>5, <2>6, OutcomeFrame
  <1>9. Dropping'
    BY <1>0, <1>4, DroppingFrame
  <1>10. /\ meta' \in MetaType /\ meta'.acked < meta'.next /\ meta'.acked < queue.next
         /\ queue'.acked <= meta'.acked /\ queue.reserved <= meta'.next
         /\ \A n : n < meta.next /\ n < queue.next => n < meta'.next \/ n \notin Nat
         /\ \A b \in Known : b.seq <= meta'.acked => b.events \subseteq Settled
         /\ \A r \in Recs : r.seq <= meta'.acked => r.events \subseteq 1 .. checkpoint
         /\ \A ref \in meta'.refs : ref.through <= meta'.acked \/ Matched(ref)
    <2>1. CASE meta' = meta
      BY <1>1, <1>2, <1>4, <1>7, <2>1 DEF Used, Finished, References
    <2>2. CASE outcome.seq > queue.acked /\ meta' = MetaOf(After)
      <3>1. queue.repacks \subseteq manifests /\ queue.repacks \subseteq PlanType
            /\ \A p \in queue.repacks : Through(p) \in Nat
        BY <1>1, <1>2, PlansOf DEF Memory
      <3>2. /\ After.acked \in Nat /\ queue.acked <= After.acked /\ After.acked < queue.next
            /\ After.next = queue.next /\ After.reserved = queue.reserved /\ After.repacks = queue.repacks
            /\ \A b \in Known : b.seq <= After.acked => b.events \subseteq Settled
            /\ \A r \in Recs : r.seq <= After.acked => r.events \subseteq 1 .. checkpoint
        BY <2>2, AdvancedOf
      <3>3. /\ MetaOf(After) \in MetaType
            /\ queue.next <= MetaOf(After).next /\ queue.reserved <= MetaOf(After).next
            /\ MetaOf(After).acked = After.acked
            /\ \A ref \in MetaOf(After).refs : \E p \in queue.repacks :
                 p.parent = ref.parent /\ Through(p) = ref.through /\ Through(p) > After.acked
        BY <1>7, <3>1, <3>2, MetaWritten
      <3> DEFINE m == MetaOf(After)
      <3> HIDE DEF m
      <3>4. /\ m \in MetaType /\ queue.next <= m.next /\ queue.reserved <= m.next /\ m.acked = After.acked
        BY <3>3 DEF m
      <3>5. m.next \in Nat
        BY <3>4 DEF MetaType
      <3>6. \A n \in Nat : n < queue.next => n < m.next
        BY <1>7, <3>4, <3>5
      <3>7. m.acked < m.next
        BY <3>2, <3>4, <3>6
      <3>8. \A ref \in m.refs : Matched(ref)
        BY <3>1, <3>3 DEF Matched, m
      <3>9. m.acked < queue.next
        BY <3>2, <3>4
      <3> QED BY <1>4, <2>2, <3>2, <3>4, <3>6, <3>7, <3>8, <3>9 DEF m
    <2> QED BY <2>1, <2>2
  <1>11. Types'
    <2>1. FileTypes'
      BY <1>0, <1>1, <1>10 DEF Types, FileTypes, MetaType
    <2> QED BY <1>4, <1>8, <2>1 DEF Types
  <1>12. FilesInOrder'
    BY <1>0, <1>1 DEF FilesInOrder, SegmentInOrder
  <1>13. Named' \subseteq Named
    BY <1>0, <1>6 DEF Named
  <1>14. Used'
    <2>1. \A n \in SeqsOf(Named)' \cup SeqsOf(verdicts)' : n \in SeqsOf(Named) \cup SeqsOf(verdicts)
      BY <1>0, <1>13 DEF SeqsOf
    <2>2. \A n \in SeqsOf(Named) \cup SeqsOf(verdicts) : n \in Nat /\ 0 < n /\ n < meta.next /\ n < queue.next
      <3>1. \A v \in verdicts : v.seq \in Nat
        BY <1>1 DEF Types, SendTypes
      <3>2. \A b \in Named : b.seq \in Nat
        BY <1>1, NamesTyped DEF Batch
      <3>3. \A n \in SeqsOf(Named) \cup SeqsOf(verdicts) : n \in Nat
        BY <3>1, <3>2 DEF SeqsOf
      <3> QED BY <1>1, <1>2, <3>3 DEF Used, Running, IsUp
    <2>3. \A n \in SeqsOf(Named)' \cup SeqsOf(verdicts)' : 0 < n /\ n < meta'.next /\ n < queue'.next
      BY <1>4, <1>10, <2>1, <2>2
    <2>4. \A n \in queue'.terminal : 0 < n /\ n < queue'.next
      BY <1>1, <1>2, <1>4 DEF Used
    <2>5. queue'.phase = "up" /\ queue'.handed < queue'.next /\ \A i \in DOMAIN segments' : segments'[i].last < queue'.next
      BY <1>0, <1>1, <1>2, <1>4 DEF Used, IsUp
    <2> QED BY <1>4, <1>7, <1>10, <2>3, <2>4, <2>5 DEF Used
  <1>15. Identity'
    BY <1>0, <1>1, <1>13 DEF Identity
  <1>16. Families'
    BY <1>0, <1>1, <1>6 DEF Families
  <1>17. Memory'
    <2>1. SeqsOf(Final)' = SeqsOf(Final)
      BY <1>8 DEF SeqsOf
    <2>2. /\ queue.unacked \subseteq {b \in Known : b.seq > queue.acked}
          /\ queue.repacks \subseteq manifests
          /\ ~queue.unhealthy => Unfinished(manifests, queue.acked) \subseteq queue.repacks
          /\ \A b \in Known \ queue.unacked : b.seq > queue.acked =>
               /\ queue.unhealthy /\ \A c \in queue.unacked : c.seq < b.seq
               /\ b.seq \notin queue.terminal \cup Parents(queue)
          /\ \A n \in queue.terminal : n <= queue.acked \/ n \in Parents(queue) \/ n \in SeqsOf(Final)
          /\ \A p \in queue.repacks : p.parent \in queue.terminal =>
               \A c \in p.children : c.seq <= queue.acked \/ c.seq \in queue.terminal
      BY <1>1, <1>2 DEF Memory
    <2>3. \A b \in Known \ queue.unacked : b.seq > queue.acked => b.seq \notin queue'.terminal
      BY <1>2, <1>4, <2>2
    <2>4. \A n \in queue'.terminal : n <= queue.acked \/ n \in Parents(queue) \/ n \in SeqsOf(Final)
      BY <1>2, <1>4, <2>2
    <2>5. \A p \in queue.repacks : p.parent \in queue'.terminal =>
               \A c \in p.children : c.seq <= queue.acked \/ c.seq \in queue'.terminal
      BY <1>2, <1>4, <2>2
    <2> QED BY <1>0, <1>4, <1>5, <1>6, <2>1, <2>2, <2>3, <2>4, <2>5 DEF Memory
  <1>18. Kept'
    BY <1>0, <1>1, <1>2, <1>4, <1>5 DEF Kept, KeptBy
  <1>19. Finished'
    <2>1. \A b \in Known : b.seq \in queue'.terminal => b.events \subseteq Settled
      BY <1>1, <1>2, <1>4 DEF Finished
    <2> QED BY <1>0, <1>5, <1>6, <1>8, <1>10, <2>1 DEF Finished
  <1>20. Coverage'
    BY <1>0, <1>1, <1>5, <1>8 DEF Coverage, Sound, Done
  <1>21. InOrder'
    BY <1>0, <1>1, <1>5, <1>8 DEF InOrder, EventsOf, Done
  <1>22. References'
    BY <1>0, <1>10 DEF References, Matched
  <1>23. Low = queue.acked /\ Low' = queue.acked
    BY <1>2, <1>4, <1>8 DEF Low, Running, IsUp
  <1>24. Undamaged'
    BY <1>0, <1>1, <1>2, <1>4, <1>5, <1>8, <1>23 DEF Undamaged, Guarded
  <1>25. Origins'
    BY <1>0, <1>1, <1>5, <1>8 DEF Origins, EventsOf
  <1>26. Once'
    <2>1. \A r : InDoubt(r)' <=> InDoubt(r)
      BY <1>0, <1>4 DEF InDoubt, Last
    <2>2. Leaves' = Leaves
      BY <1>0, <1>6, <1>23 DEF Leaves
    <2> QED BY <1>0, <1>1, <1>4, <1>5, <1>8, <2>1, <2>2 DEF Once
  <1> QED BY <1>8, <1>9, <1>11, <1>12, <1>14, <1>15, <1>16, <1>17, <1>18, <1>19, <1>20, <1>21, <1>22, <1>24,
             <1>25, <1>26 DEF CollectorInv

\* An acknowledgment that moves the high-water mark and removes n segments.
Drops(n) ==
  /\ outcome.pc = "ack" /\ outcome.seq > queue.acked /\ AfterOutcome
  /\ n \in 0 .. Len(segments) /\ (queue.active => n < Len(segments))
  /\ \A i \in 1 .. n : segments[i].last <= After.acked
  /\ segments' = SubSeq(segments, n + 1, Len(segments))
  /\ meta' = MetaOf(After)
  /\ \/ manifests' = manifests /\ queue' = After
     \/ /\ manifests' = Unfinished(manifests, After.acked)
        /\ queue' = [After EXCEPT !.repacks = Unfinished(@, After.acked)]

\* What is left of the queue.
LEMMA DropsLeave ==
  ASSUME CollectorInv, NEW n, Drops(n)
  PROVE  /\ queue' \in QueueType /\ queue'.phase = queue.phase /\ queue'.next = queue.next
         /\ queue'.reserved = queue.reserved /\ queue'.acked = After.acked
         /\ queue'.unacked = {b \in queue.unacked : b.seq > After.acked}
         /\ queue'.terminal = After.terminal
         /\ queue'.active = queue.active /\ queue'.synced = queue.synced
         /\ queue'.handed = queue.handed /\ queue'.unhealthy = queue.unhealthy
         /\ manifests' \subseteq manifests /\ queue'.repacks \subseteq queue.repacks
         /\ queue'.repacks \subseteq manifests'
         /\ \A p \in manifests : p \in manifests' \/ Through(p) <= After.acked
         /\ \A p \in queue.repacks : p \in queue'.repacks \/ Through(p) <= After.acked
         /\ queue.repacks \cap Unfinished(manifests', After.acked) \subseteq queue'.repacks
  <1>1. /\ Types /\ Used /\ Families /\ Memory
    BY DEF CollectorInv
  <1>2. IsUp
    BY OutcomeNoted DEF Drops
  <1>3. /\ After \in QueueType /\ After.acked \in Nat
        /\ After.phase = queue.phase /\ After.next = queue.next /\ After.reserved = queue.reserved
        /\ After.repacks = queue.repacks /\ After.active = queue.active /\ After.synced = queue.synced
        /\ After.handed = queue.handed /\ After.unhealthy = queue.unhealthy
        /\ After.unacked = {b \in queue.unacked : b.seq > After.acked}
    BY AdvancedOf DEF Drops
  <1>4. queue.repacks \subseteq manifests /\ \A p \in manifests : Through(p) \in Nat
    BY <1>1, <1>2, PlansOf DEF Memory
  <1> HIDE DEF After
  <1>5. CASE manifests' = manifests /\ queue' = After
    BY <1>3, <1>4, <1>5
  <1>6. CASE /\ manifests' = Unfinished(manifests, After.acked)
             /\ queue' = [After EXCEPT !.repacks = Unfinished(@, After.acked)]
    <2> DEFINE left == Unfinished(queue.repacks, After.acked)
    <2>1. left \subseteq PlanType /\ left \subseteq queue.repacks /\ left \subseteq manifests'
          /\ (\A p \in queue.repacks : (p \in left \/ Through(p) <= After.acked))
          /\ queue.repacks \cap Unfinished(manifests', After.acked) \subseteq left
      BY <1>1, <1>3, <1>4, <1>6, QueueTyped DEF Unfinished
    <2>2. queue' = [After EXCEPT !.repacks = left]
      BY <1>3, <1>6
    <2> HIDE DEF left
    <2>3. queue' \in QueueType /\ queue'.repacks = left
      BY <1>3, <2>1, <2>2 DEF QueueType
    <2>4. manifests' \subseteq manifests /\ \A p \in manifests : p \in manifests' \/ Through(p) <= After.acked
      BY <1>3, <1>4, <1>6 DEF Unfinished
    <2>5. /\ queue'.phase = After.phase /\ queue'.next = After.next /\ queue'.reserved = After.reserved
          /\ queue'.acked = After.acked /\ queue'.unacked = After.unacked /\ queue'.terminal = After.terminal
          /\ queue'.active = After.active /\ queue'.synced = After.synced
          /\ queue'.handed = After.handed /\ queue'.unhealthy = After.unhealthy
      BY <1>3, <2>2 DEF QueueType
    <2> QED BY <1>3, <2>1, <2>3, <2>4, <2>5
  <1> QED BY <1>5, <1>6 DEF Drops

\* What is left of the files.
LEMMA FilesLeft ==
  ASSUME CollectorInv, NEW n, Drops(n)
  PROVE  /\ n \in Nat /\ segments' \in Seq(SegmentType) /\ DOMAIN segments' = 1 .. Len(segments')
         /\ Len(segments') = Len(segments) - n /\ Len(segments) \in Nat
         /\ \A i \in DOMAIN segments' : i + n \in DOMAIN segments /\ segments'[i] = segments[i + n]
         /\ \A i \in DOMAIN segments : i > n => i - n \in DOMAIN segments' /\ segments'[i - n] = segments[i]
         /\ \A i \in DOMAIN segments : segments[i].last > After.acked => i > n
         /\ queue.active => segments' # <<>> /\ Last(segments') = Last(segments)
         /\ Recs' \subseteq Recs
         /\ \A i \in DOMAIN segments : i > n => ToSet(segments[i].records) \subseteq Recs'
         /\ \A r \in Recs : r.intact => r \in Recs' \/ r.seq <= After.acked
         /\ Children' \subseteq Children /\ Known' \subseteq Known
         /\ \A b \in queue'.unacked : b \in Known'
  <1>1. /\ Types /\ Used /\ Families /\ Memory /\ Kept /\ FilesInOrder /\ Origins
    BY DEF CollectorInv
  <1>2. IsUp
    BY OutcomeNoted DEF Drops
  <1>3. /\ queue'.unacked = {b \in queue.unacked : b.seq > After.acked}
        /\ manifests' \subseteq manifests
        /\ \A p \in manifests : p \in manifests' \/ Through(p) <= After.acked
    BY DropsLeave
  <1>4. After.acked \in Nat
    BY AdvancedOf DEF Drops
  <1> HIDE DEF After
  <1>5. /\ n \in 0 .. Len(segments) /\ (queue.active => n < Len(segments))
        /\ \A i \in 1 .. n : segments[i].last <= After.acked
        /\ segments' = SubSeq(segments, n + 1, Len(segments))
    BY DEF Drops
  <1>6. segments \in Seq(SegmentType)
    BY <1>1 DEF Types, FileTypes
  <1>7. Len(segments) \in Nat /\ DOMAIN segments = 1 .. Len(segments) /\ n \in Nat
        /\ \A i \in DOMAIN segments : segments[i] \in SegmentType
    BY <1>5, <1>6
  <1>8. /\ segments' \in Seq(SegmentType) /\ Len(segments') = Len(segments) - n
        /\ \A i \in 1 .. Len(segments) - n : segments'[i] = segments[i + n]
    <2>1. n + 1 \in Int /\ Len(segments) \in Int /\ n <= Len(segments)
          /\ \A i \in n + 1 .. Len(segments) : segments[i] \in SegmentType
      BY <1>5, <1>7
    <2>2. /\ segments' \in Seq(SegmentType)
          /\ Len(segments') = IF n + 1 <= Len(segments) THEN Len(segments) - (n + 1) + 1 ELSE 0
          /\ \A i \in 1 .. Len(segments) - (n + 1) + 1 : segments'[i] = segments[n + 1 + i - 1]
      BY <1>5, <2>1, SubSeqProperties
    <2>3. Len(segments) - (n + 1) + 1 = Len(segments) - n
          /\ \A i \in 1 .. Len(segments) - n : n + 1 + i - 1 = i + n
      BY <1>7
    <2>4. Len(segments') = Len(segments) - n
      <3>1. CASE n + 1 <= Len(segments)
        BY <2>2, <2>3, <3>1
      <3>2. CASE ~(n + 1 <= Len(segments))
        <4>1. Len(segments) - n = 0
          <5>1. n \in Nat /\ Len(segments) \in Nat /\ n <= Len(segments)
            BY <1>5, <1>7
          <5> QED BY <3>2, <5>1
        <4> QED BY <2>2, <3>2, <4>1
      <3> QED BY <3>1, <3>2
    <2>5. ASSUME NEW i \in 1 .. Len(segments) - n PROVE segments'[i] = segments[i + n]
      <3>1. i \in 1 .. Len(segments) - (n + 1) + 1 /\ n + 1 + i - 1 = i + n
        BY <2>3
      <3> QED BY <2>2, <3>1
    <2> QED BY <2>2, <2>4, <2>5
  <1>9. DOMAIN segments' = 1 .. Len(segments')
    BY <1>8
  <1>10. \A i \in DOMAIN segments' : i + n \in DOMAIN segments /\ segments'[i] = segments[i + n]
    BY <1>7, <1>8, <1>9
  <1>11. \A i \in DOMAIN segments : i > n => i - n \in DOMAIN segments' /\ segments'[i - n] = segments[i]
    <2>1. TAKE i \in DOMAIN segments
    <2>2. ASSUME i > n PROVE i - n \in 1 .. Len(segments) - n /\ (i - n) + n = i
      BY <1>7, <2>2
    <2> QED BY <1>8, <1>9, <2>2
  <1>12. \A i \in DOMAIN segments : segments[i].last > After.acked => i > n
    <2>1. TAKE i \in DOMAIN segments
    <2>2. segments[i].last \in Nat
      BY <1>7 DEF SegmentType
    <2> QED BY <1>4, <1>5, <1>7, <2>2
  <1>13. queue.active => segments' # <<>> /\ Last(segments') = Last(segments)
    <2>1. ASSUME queue.active PROVE Len(segments') >= 1 /\ segments'[Len(segments')] = segments[Len(segments)]
      <3>1. Len(segments') \in 1 .. Len(segments) - n /\ Len(segments') + n = Len(segments)
        <4>1. n < Len(segments) /\ Len(segments') = Len(segments) - n
          BY <1>5, <1>8, <2>1
        <4> QED BY <1>7, <4>1
      <3> QED BY <1>8, <3>1
    <2>2. Len(<<>>) = 0
      OBVIOUS
    <2> QED BY <2>1, <2>2 DEF Last
  <1>14. \A r : r \in Recs' <=> \E i \in DOMAIN segments' : r \in ToSet(segments'[i].records)
    BY DEF Recs, RecsOf
  <1>15. \A r : r \in Recs <=> \E i \in DOMAIN segments : r \in ToSet(segments[i].records)
    BY DEF Recs, RecsOf
  <1>16. Recs' \subseteq Recs
    BY <1>10, <1>14, <1>15
  <1>17. \A i \in DOMAIN segments : i > n => ToSet(segments[i].records) \subseteq Recs'
    BY <1>11, <1>14
  <1>18. ASSUME NEW r \in Recs, r.intact, r \notin Recs' PROVE r.seq <= After.acked
    <2>1. PICK i \in DOMAIN segments : r \in ToSet(segments[i].records)
      BY <1>15
    <2>2. r.seq <= segments[i].last
      BY <1>1, <1>2, <1>18, <2>1 DEF Kept
    <2>3. ~(i > n)
      BY <1>17, <1>18, <2>1
    <2>4. segments[i].last <= After.acked
      BY <1>5, <1>7, <2>3
    <2>5. r.seq \in Nat /\ segments[i].last \in Nat
      BY <1>1, <1>7, <1>18, NamesTyped DEF RecordType, SegmentType
    <2> QED BY <1>4, <2>2, <2>4, <2>5
  <1>19. Children' \subseteq Children
    BY <1>3 DEF Children
  <1>20. Known' \subseteq Known
    BY <1>16, <1>19 DEF Known
  <1>21. ASSUME NEW b \in queue'.unacked PROVE b \in Known'
    <2>1. b \in queue.unacked /\ b.seq > After.acked
      BY <1>3
    <2>2. b \in Known /\ b.seq \in Nat
      BY <1>1, <1>2, <2>1, RootOf
    <2>3. PICK i \in DOMAIN segments : \E r \in ToSet(segments[i].records) :
              /\ r \in Recs /\ r.seq = b.root /\ r.intact /\ b.seq <= segments[i].last
      BY <1>1, <1>2, <2>1, RootOf
    <2>4. i > n
      <3>1. segments[i].last \in Nat
        BY <1>7 DEF SegmentType
      <3>2. segments[i].last > After.acked
        BY <1>4, <2>1, <2>2, <2>3, <3>1
      <3> QED BY <1>12, <3>2
    <2>5. CASE \E s \in Recs : b = Descriptor(s)
      <3>1. PICK s \in Recs : b = Descriptor(s)
        BY <2>5
      <3>2. PICK k \in DOMAIN segments : s \in ToSet(segments[k].records)
        BY <1>15
      <3>3. b.root = s.seq
        BY <1>1, <3>1, NamesTyped
      <3>4. k = i
        BY <1>1, <2>3, <3>2, <3>3, RecordsApart
      <3>5. s \in Recs'
        BY <1>17, <2>4, <3>2, <3>4
      <3> QED BY <3>1, <3>5 DEF Known
    <2>6. CASE \E p \in manifests : b \in p.children
      <3>1. PICK p \in manifests : b \in p.children
        BY <2>6
      <3>2. b.seq <= Through(p) /\ Through(p) \in Nat
        BY <1>1, <3>1, PlansOf
      <3>3. p \in manifests'
        BY <1>3, <1>4, <2>1, <2>2, <3>2
      <3>4. b \in Children'
        BY <3>1, <3>3 DEF Children
      <3> QED BY <3>4 DEF Known
    <2> QED BY <2>2, <2>5, <2>6, KnownFrom
  <1> QED BY <1>7, <1>8, <1>9, <1>10, <1>11, <1>12, <1>13, <1>16, <1>17, <1>18, <1>19, <1>20, <1>21

\* Types, names and plans after segments were removed.
LEMMA DropsKeepFiles ==
  ASSUME CollectorInv, NEW n, Drops(n)
  PROVE  /\ PipeTypes' /\ SendTypes' /\ Shut' /\ Sending' /\ Past' /\ Types' /\ Used' /\ IsUp /\ IsUp' /\ Running'
         /\ Final' = Final /\ Settled' = Settled /\ Stored' = Stored /\ InHand' = InHand
         /\ FilesInOrder' /\ Identity' /\ Families' /\ References' /\ Origins' /\ Dropping'
  <1>0. /\ UNCHANGED <<readPos, batch, work, batcher, checkpoint, dead, verdicts, epoch>>
        /\ faults \subseteq faults' /\ inflight' \subseteq inflight /\ AfterOutcome
    BY DEF Drops, AfterOutcome, pipelineVars
  <1>1. /\ Types /\ FilesInOrder /\ Used /\ Identity /\ Families /\ Memory /\ Origins /\ References
    BY DEF CollectorInv
  <1>2. /\ IsUp
        /\ \A m \in NotedOf.terminal : m \in Nat /\ 0 < m /\ m < queue.next
        /\ queue.terminal \subseteq NotedOf.terminal
    BY OutcomeNoted DEF Drops
  <1>3. /\ After.acked \in Nat /\ queue.acked <= After.acked /\ After.acked < queue.next
        /\ After.next = queue.next /\ After.reserved = queue.reserved /\ After.repacks = queue.repacks
        /\ After.terminal \subseteq NotedOf.terminal
        /\ \A m \in NotedOf.terminal : m <= After.acked \/ m \in After.terminal
        /\ \A b \in queue.unacked : b.seq <= After.acked => b.seq \in NotedOf.terminal
    BY AdvancedOf DEF Drops
  <1>4. /\ queue' \in QueueType /\ queue'.phase = queue.phase /\ queue'.next = queue.next
        /\ queue'.reserved = queue.reserved /\ queue'.acked = After.acked
        /\ queue'.unacked = {b \in queue.unacked : b.seq > After.acked}
        /\ queue'.terminal = After.terminal
        /\ queue'.active = queue.active /\ queue'.handed = queue.handed /\ queue'.unhealthy = queue.unhealthy
        /\ manifests' \subseteq manifests /\ queue'.repacks \subseteq queue.repacks
        /\ \A p \in manifests : p \in manifests' \/ Through(p) <= After.acked
        /\ \A p \in queue.repacks : p \in queue'.repacks \/ Through(p) <= After.acked
    BY DropsLeave
  <1>5. /\ n \in Nat /\ segments' \in Seq(SegmentType)
        /\ \A i \in DOMAIN segments' : i + n \in DOMAIN segments /\ segments'[i] = segments[i + n]
        /\ DOMAIN segments' = 1 .. Len(segments')
        /\ Recs' \subseteq Recs /\ Children' \subseteq Children /\ Known' \subseteq Known
    BY FilesLeft
  <1>6. outcome.pc # "none" /\ meta' = MetaOf(After) /\ outcome.seq > queue.acked
    BY DEF Drops
  <1> HIDE DEF After
  <1>7. /\ queue.next \in Nat \ {0} /\ queue.reserved \in Nat /\ queue.repacks \subseteq PlanType
        /\ queue.repacks \subseteq manifests /\ \A p \in queue.repacks : Through(p) \in Nat
        /\ \A b \in queue.unacked : b.seq \in Nat
    BY <1>1, <1>2, QueueTyped, PlansOf DEF Memory
  <1>8. /\ meta' \in MetaType
        /\ queue.next <= meta'.next /\ queue.reserved <= meta'.next
        /\ meta'.acked = After.acked
        /\ \A ref \in meta'.refs : \E p \in queue.repacks :
              p.parent = ref.parent /\ Through(p) = ref.through /\ Through(p) > After.acked
    BY <1>3, <1>6, <1>7, MetaWritten
  <1>9. ASSUME NEW b \in queue'.unacked, b.seq \in Parents(queue) PROVE b.seq \in Parents(queue)'
    <2>1. PICK p \in queue.repacks : p.parent = b.seq
      BY <1>9 DEF Parents
    <2>2. p.parent < Through(p) /\ Through(p) \in Nat /\ p.parent \in Nat
      BY <1>1, <1>7, <2>1, PlansOf
    <2>3. p \in queue'.repacks
      BY <1>3, <1>4, <2>1, <2>2
    <2> QED BY <2>1, <2>3 DEF Parents
  <1>10. Pending' \subseteq Pending /\ Parents(queue)' \subseteq Parents(queue)
    BY <1>4, <1>9 DEF Pending, Parents
  <1>11. /\ PipeTypes' /\ SendTypes' /\ Shut' /\ Sending' /\ Past'
         /\ Final' = Final /\ Settled' = Settled /\ Stored' = Stored /\ IsUp' /\ Running' /\ InHand' = InHand
    <2>1. \A b \in queue.unacked : b \in queue'.unacked \/ (b.seq <= queue'.acked /\ b.seq \in NotedOf.terminal)
      BY <1>3, <1>4, <1>7
    <2>2. \A b \in queue'.unacked : b.seq > queue'.acked
      BY <1>4
    <2>3. \A m \in NotedOf.terminal : m <= queue'.acked \/ m \in queue'.terminal
      BY <1>3, <1>4
    <2>4. \A m \in queue.terminal : m <= queue'.acked \/ m \in queue'.terminal
      BY <1>2, <2>3
    <2>5. queue'.acked \in Nat /\ queue.acked <= queue'.acked
      BY <1>3, <1>4
    <2> QED BY <1>0, <1>4, <1>6, <1>10, <2>1, <2>2, <2>3, <2>4, <2>5, OutcomeFrame
  <1>12. Types'
    <2>1. manifests' \subseteq PlanType
      BY <1>1, <1>4 DEF Types, FileTypes
    <2> QED BY <1>4, <1>5, <1>8, <1>11, <2>1 DEF Types, FileTypes, MetaType
  <1>13. Named' \subseteq Named
    BY <1>0, <1>5 DEF Named
  <1>14. Used'
    <2>1. \A m \in SeqsOf(Named)' \cup SeqsOf(verdicts)' : m \in SeqsOf(Named) \cup SeqsOf(verdicts)
      BY <1>0, <1>13 DEF SeqsOf
    <2>2. \A m \in SeqsOf(Named) \cup SeqsOf(verdicts) : m \in Nat /\ 0 < m /\ m < queue.next
      <3>1. \A v \in verdicts : v.seq \in Nat
        BY <1>1 DEF Types, SendTypes
      <3>2. \A b \in Named : b.seq \in Nat
        BY <1>1, NamesTyped DEF Batch
      <3>3. \A m \in SeqsOf(Named) \cup SeqsOf(verdicts) : m \in Nat
        BY <3>1, <3>2 DEF SeqsOf
      <3> QED BY <1>1, <1>2, <3>3 DEF Used, Running, IsUp
    <2>3. meta'.next \in Nat
      BY <1>8 DEF MetaType
    <2>4. \A m \in SeqsOf(Named)' \cup SeqsOf(verdicts)' : 0 < m /\ m < meta'.next /\ m < queue'.next
      BY <1>4, <1>7, <1>8, <2>1, <2>2, <2>3
    <2>5. \A m \in queue'.terminal : 0 < m /\ m < queue'.next
      BY <1>2, <1>3, <1>4
    <2>6. meta'.acked < meta'.next /\ queue'.acked <= meta'.acked /\ queue'.acked < queue'.next
          /\ queue'.reserved <= meta'.next /\ meta'.acked < queue'.next
      BY <1>3, <1>4, <1>7, <1>8, <2>3
    <2>7. queue'.phase = "up" /\ queue'.handed < queue'.next /\ \A i \in DOMAIN segments' : segments'[i].last < queue'.next
      BY <1>1, <1>2, <1>4, <1>5 DEF Used, IsUp
    <2> QED BY <2>4, <2>5, <2>6, <2>7 DEF Used
  <1>15. FilesInOrder'
    <2>1. \A i \in DOMAIN segments' : SegmentInOrder(segments'[i])
      BY <1>1, <1>5 DEF FilesInOrder
    <2>2. ASSUME NEW i \in DOMAIN segments', NEW k \in DOMAIN segments', i < k
          PROVE  \A r \in ToSet(segments'[i].records), s \in ToSet(segments'[k].records) : r.seq < s.seq
      <3>1. /\ i + n \in DOMAIN segments /\ k + n \in DOMAIN segments /\ i + n < k + n
            /\ segments'[i] = segments[i + n] /\ segments'[k] = segments[k + n]
        BY <1>5, <2>2
      <3> QED BY <1>1, <3>1 DEF FilesInOrder
    <2> QED BY <2>1, <2>2 DEF FilesInOrder, SegmentInOrder
  <1>16. Identity'
    BY <1>0, <1>1, <1>13 DEF Identity
  <1>17. Families'
    BY <1>0, <1>1, <1>4, <1>5 DEF Families
  <1>18. References'
    <2>1. ASSUME NEW ref \in meta'.refs PROVE Matched(ref)'
      <3>1. PICK p \in queue.repacks : p.parent = ref.parent /\ Through(p) = ref.through /\ Through(p) > After.acked
        BY <1>8
      <3>2. p \in manifests'
        BY <1>3, <1>4, <1>7, <3>1
      <3> QED BY <3>1, <3>2 DEF Matched
    <2> QED BY <2>1 DEF References
  <1>19. Origins'
    BY <1>0, <1>1, <1>4, <1>5, <1>11 DEF Origins, EventsOf
  <1>20. Dropping'
    BY <1>0, <1>4, DroppingFrame
  <1> QED BY <1>2, <1>11, <1>12, <1>14, <1>15, <1>16, <1>17, <1>18, <1>19, <1>20

\* An acknowledgment removes only what is settled.
LEMMA DropsKeep ==
  ASSUME CollectorInv, NEW n, Drops(n)
  PROVE  CollectorInv'
  <1>0. /\ UNCHANGED <<readPos, batch, work, batcher, checkpoint, dead, verdicts, epoch>>
        /\ faults \subseteq faults' /\ outcome.pc = "ack" /\ outcome.seq > queue.acked
        /\ meta' = MetaOf(After)
    BY DEF Drops, AfterOutcome, pipelineVars
  <1>1. /\ Types /\ FilesInOrder /\ Used /\ Identity /\ Families /\ Memory /\ Kept /\ Sending
        /\ Finished /\ Coverage /\ InOrder /\ Undamaged /\ Origins /\ Once
    BY DEF CollectorInv
  <1>2. /\ PipeTypes' /\ SendTypes' /\ Shut' /\ Sending' /\ Past' /\ Types' /\ Used' /\ IsUp /\ IsUp' /\ Running'
        /\ Final' = Final /\ Settled' = Settled /\ Stored' = Stored /\ InHand' = InHand
        /\ FilesInOrder' /\ Identity' /\ Families' /\ References' /\ Origins' /\ Dropping'
    BY DropsKeepFiles
  <1>3. /\ queue.terminal \subseteq NotedOf.terminal
        /\ \A m \in NotedOf.terminal :
              /\ m \in Nat
              /\ m <= queue.acked \/ m \in Parents(queue) \/ m \in SeqsOf(Final)
        /\ \A b \in Known : b.seq \in NotedOf.terminal => b.events \subseteq Settled
        /\ \A b \in Known \ queue.unacked : b.seq > queue.acked => b.seq \notin NotedOf.terminal
        /\ \A p \in queue.repacks : p.parent \in NotedOf.terminal =>
              \A c \in p.children : c.seq <= queue.acked \/ c.seq \in NotedOf.terminal
    BY <1>0, OutcomeNoted
  <1>4. /\ After.acked \in Nat /\ queue.acked <= After.acked /\ After.acked < queue.next
        /\ After.terminal \subseteq NotedOf.terminal
        /\ \A m \in NotedOf.terminal : m <= After.acked \/ m \in After.terminal
        /\ \A b \in queue.unacked : b.seq <= After.acked => b.seq \in NotedOf.terminal
        /\ \A b \in Known : b.seq <= After.acked => b.seq <= queue.acked \/ b \in queue.unacked
        /\ \A b \in Known : b.seq <= After.acked => b.events \subseteq Settled
        /\ \A r \in Recs : r.seq <= After.acked => r.events \subseteq 1 .. checkpoint
        /\ MetaOf(After).acked = After.acked
    BY <1>0, AdvancedOf DEF MetaOf
  <1>5. /\ queue'.acked = After.acked
        /\ queue'.unacked = {b \in queue.unacked : b.seq > After.acked}
        /\ queue'.terminal = After.terminal
        /\ queue'.active = queue.active /\ queue'.synced = queue.synced /\ queue'.unhealthy = queue.unhealthy
        /\ manifests' \subseteq manifests /\ queue'.repacks \subseteq queue.repacks
        /\ queue'.repacks \subseteq manifests'
        /\ \A p \in manifests : p \in manifests' \/ Through(p) <= After.acked
        /\ \A p \in queue.repacks : p \in queue'.repacks \/ Through(p) <= After.acked
        /\ queue.repacks \cap Unfinished(manifests', After.acked) \subseteq queue'.repacks
    BY DropsLeave
  <1>6. /\ n \in Nat /\ DOMAIN segments' = 1 .. Len(segments') /\ Len(segments') = Len(segments) - n
        /\ Len(segments) \in Nat
        /\ \A i \in DOMAIN segments' : i + n \in DOMAIN segments /\ segments'[i] = segments[i + n]
        /\ \A i \in DOMAIN segments : i > n => i - n \in DOMAIN segments' /\ segments'[i - n] = segments[i]
        /\ \A i \in DOMAIN segments : segments[i].last > After.acked => i > n
        /\ queue.active => segments' # <<>> /\ Last(segments') = Last(segments)
        /\ Recs' \subseteq Recs
        /\ \A i \in DOMAIN segments : i > n => ToSet(segments[i].records) \subseteq Recs'
        /\ \A r \in Recs : r.intact => r \in Recs' \/ r.seq <= After.acked
        /\ Children' \subseteq Children /\ Known' \subseteq Known
        /\ \A b \in queue'.unacked : b \in Known'
    BY FilesLeft
  <1> HIDE DEF After
  <1>7. /\ \A p \in manifests : /\ Through(p) \in Nat /\ p.parent \in Nat /\ p.parent < Through(p)
                                /\ p.children \subseteq Known
        /\ \A b \in Known : b.seq \in Nat
        /\ \A i \in DOMAIN segments : segments[i].last \in Nat
        /\ DOMAIN segments = 1 .. Len(segments)
        /\ queue.acked \in Nat
    <2>1. \A b \in Known : b.seq \in Nat
      BY <1>1, NamesTyped DEF Batch
    <2>2. \A i \in DOMAIN segments : segments[i].last \in Nat
      BY <1>1, NamesTyped DEF SegmentType
    <2>3. DOMAIN segments = 1 .. Len(segments) /\ queue.acked \in Nat
      BY <1>1, NamesTyped, QueueTyped
    <2> QED BY <1>1, <2>1, <2>2, <2>3, PlansOf
  <1>8. \A r \in Recs : r.intact /\ r \notin Recs' => r.events \subseteq Settled
    <2>1. TAKE r \in Recs
    <2>2. Descriptor(r) \in Known /\ Descriptor(r).seq = r.seq /\ Descriptor(r).events = r.events
      BY <1>1, NamesTyped
    <2> QED BY <1>4, <1>6, <2>2
  <1>9. \A b \in queue.unacked : b \in Known /\ b.seq > queue.acked
    BY <1>1, <1>2 DEF Memory
  <1>10. Parents(queue)' \subseteq Parents(queue)
    BY <1>5 DEF Parents
  <1>11. Memory'
    <2>1. \A b \in queue'.unacked : b \in Known' /\ b.seq > queue'.acked
      BY <1>5, <1>6
    <2>2. ~queue'.unhealthy => Unfinished(manifests', queue'.acked) \subseteq queue'.repacks
      <3>1. SUFFICES ASSUME ~queue.unhealthy, NEW p \in manifests', Through(p) > After.acked
                     PROVE  p \in queue'.repacks
        BY <1>5 DEF Unfinished
      <3>2. p \in manifests /\ Through(p) > queue.acked
        BY <1>4, <1>5, <1>7, <3>1
      <3>3. p \in queue.repacks
        BY <1>1, <1>2, <3>1, <3>2 DEF Memory, Unfinished
      <3> QED BY <1>5, <3>1, <3>3 DEF Unfinished
    <2>3. ASSUME NEW b \in Known' \ queue'.unacked, b.seq > queue'.acked
          PROVE  /\ queue'.unhealthy /\ \A c \in queue'.unacked : c.seq < b.seq
                 /\ b.seq \notin queue'.terminal \cup Parents(queue)'
      <3>1. b \in Known \ queue.unacked /\ b.seq > queue.acked
        BY <1>4, <1>5, <1>6, <1>7, <2>3
      <3>2. /\ queue.unhealthy /\ \A c \in queue.unacked : c.seq < b.seq
            /\ b.seq \notin queue.terminal \cup Parents(queue)
        BY <1>1, <1>2, <3>1 DEF Memory
      <3>3. b.seq \notin NotedOf.terminal
        BY <1>3, <3>1
      <3> QED BY <1>4, <1>5, <1>10, <3>2, <3>3
    <2>4. ASSUME NEW m \in queue'.terminal
          PROVE  m <= queue'.acked \/ m \in Parents(queue)' \/ m \in SeqsOf(Final)'
      <3>1. m \in Nat /\ (m <= queue.acked \/ m \in Parents(queue) \/ m \in SeqsOf(Final))
        BY <1>3, <1>4, <1>5
      <3>2. m <= queue.acked => m <= queue'.acked
        BY <1>4, <1>5, <1>7, <3>1
      <3>3. ASSUME m \in Parents(queue) PROVE m <= queue'.acked \/ m \in Parents(queue)'
        <4>1. PICK p \in queue.repacks : p.parent = m
          BY <3>3 DEF Parents
        <4>2. p \in manifests
          BY <1>1, <1>2 DEF Memory
        <4>3. p \in queue'.repacks \/ Through(p) <= After.acked
          BY <1>5
        <4>4. Through(p) <= After.acked => m <= queue'.acked
          BY <1>4, <1>5, <1>7, <4>1, <4>2
        <4> QED BY <4>1, <4>3, <4>4 DEF Parents
      <3>4. SeqsOf(Final)' = SeqsOf(Final)
        BY <1>2 DEF SeqsOf
      <3> QED BY <3>1, <3>2, <3>3, <3>4
    <2>5. ASSUME NEW p \in queue'.repacks, p.parent \in queue'.terminal, NEW c \in p.children
          PROVE  c.seq <= queue'.acked \/ c.seq \in queue'.terminal
      <3>1. p \in queue.repacks /\ p \in manifests /\ p.parent \in NotedOf.terminal
        BY <1>1, <1>2, <1>4, <1>5, <2>5 DEF Memory
      <3>2. c.seq \in Nat /\ (c.seq <= queue.acked \/ c.seq \in NotedOf.terminal)
        BY <1>3, <1>7, <3>1
      <3> QED BY <1>4, <1>5, <1>7, <3>2
    <2> QED BY <1>5, <2>1, <2>2, <2>3, <2>4, <2>5 DEF Memory
  <1>12. Kept'
    <2>1. ASSUME NEW b \in queue'.unacked PROVE KeptBy(segments, b)'
      <3>1. b \in queue.unacked /\ b.seq > After.acked /\ b.seq \in Nat
        BY <1>5, <1>7, <1>9
      <3>2. PICK i \in DOMAIN segments : /\ b.seq <= segments[i].last
                                         /\ \E r \in ToSet(segments[i].records) : r.seq = b.root /\ r.intact
        BY <1>1, <1>2, <3>1 DEF Kept, KeptBy
      <3>3. i > n
        BY <1>4, <1>6, <1>7, <3>1, <3>2
      <3>4. i - n \in DOMAIN segments' /\ segments'[i - n] = segments[i]
        BY <1>6, <3>3
      <3> QED BY <3>2, <3>4 DEF KeptBy
    <2>2. \A i \in DOMAIN segments' : \A r \in ToSet(segments'[i].records) : r.intact => r.seq <= segments'[i].last
      BY <1>1, <1>2, <1>6 DEF Kept
    <2>3. queue'.active =>
             segments' # <<>> /\ \A i \in DOMAIN segments' : segments'[i].last <= Last(segments').last
      BY <1>1, <1>2, <1>5, <1>6 DEF Kept
    <2>4. \A r \in Recs' : ~r.intact =>
             queue'.unhealthy /\ batcher' = "off" /\ \A s \in Recs' : s.seq <= r.seq
      BY <1>0, <1>1, <1>2, <1>5, <1>6 DEF Kept
    <2>5. \A b \in queue'.unacked : KeptBy(segments', b)
      BY <2>1 DEF KeptBy
    <2> QED BY <2>2, <2>3, <2>4, <2>5 DEF Kept
  <1>13. Finished'
    <2>1. \A b \in Known' : b.seq <= meta'.acked => b.events \subseteq Settled
      BY <1>0, <1>4, <1>6
    <2>2. \A b \in Known' : b.seq \in queue'.terminal => b.events \subseteq Settled
      BY <1>3, <1>4, <1>5, <1>6
    <2>3. \A r \in Recs' : r.seq <= meta'.acked => r.events \subseteq 1 .. checkpoint
      BY <1>0, <1>4, <1>6
    <2> QED BY <1>0, <1>2, <2>1, <2>2, <2>3 DEF Finished
  <1>14. Coverage'
    <2>1. SUFFICES ASSUME NEW r \in Recs', Sound(r)', NEW x \in r.events, NEW e \in 1 .. x
                   PROVE  e \in Done \/ \E s \in Recs' : s.seq <= r.seq /\ e \in s.events
      BY <1>0, <1>2 DEF Coverage, Done
    <2>2. r \in Recs /\ \A s \in Recs' : s.seq <= r.seq => s.intact
      BY <1>6, <2>1 DEF Sound
    <2>3. ASSUME NEW s \in Recs, s.seq <= r.seq PROVE s.intact
      <3>1. SUFFICES ASSUME ~s.intact PROVE FALSE
        OBVIOUS
      <3>2. r.seq <= s.seq
        BY <1>1, <1>2, <2>2, <3>1 DEF Kept
      <3>3. r.seq \in Nat /\ s.seq \in Nat
        BY <1>1, <2>2, <2>3, NamesTyped DEF RecordType
      <3>4. s = r
        <4>1. r.seq = s.seq
          BY <2>3, <3>2, <3>3
        <4>2. PICK i \in DOMAIN segments : r \in ToSet(segments[i].records)
          BY <1>1, <2>2, NamesTyped
        <4>3. PICK k \in DOMAIN segments : s \in ToSet(segments[k].records)
          BY <1>1, <2>3, NamesTyped
        <4> QED BY <1>1, <4>1, <4>2, <4>3, RecordsApart
      <3> QED BY <2>1, <2>2, <3>1, <3>3, <3>4
    <2>4. Sound(r)
      BY <2>3 DEF Sound
    <2>5. e \in Done \/ \E s \in Recs : s.seq <= r.seq /\ e \in s.events
      BY <1>1, <2>1, <2>2, <2>4 DEF Coverage
    <2> QED BY <1>8, <2>3, <2>5 DEF Done
  <1>15. InOrder'
    <2>1. ASSUME batcher # "off" PROVE 1 .. readPos \subseteq Done \cup EventsOf(Recs)' \cup InHand
      <3>1. \A r \in Recs : r.intact
        BY <1>1, <1>2, <2>1 DEF Kept
      <3>2. EventsOf(Recs) \subseteq Settled \cup EventsOf(Recs)'
        BY <1>8, <3>1 DEF EventsOf
      <3> QED BY <1>1, <2>1, <3>2 DEF InOrder, Done
    <2> QED BY <1>0, <1>1, <1>2, <1>6, <2>1 DEF InOrder, Done
  <1>16. Low = queue.acked /\ Low' = After.acked
    BY <1>2, <1>5 DEF Low, Running, IsUp
  <1>17. Undamaged'
    <2>1. SUFFICES ASSUME "damage" \notin faults
                   PROVE  /\ queue'.phase # "refused"
                          /\ \A r \in Recs' : ~r.intact => \A s \in Recs' : s.seq <= r.seq
                          /\ \A p \in manifests' : Through(p) > After.acked => \E i \in DOMAIN segments' : Guarded(p, i)'
      BY <1>0, <1>16 DEF Undamaged
    <2>2. ASSUME NEW p \in manifests', Through(p) > After.acked
          PROVE  \E i \in DOMAIN segments' : Guarded(p, i)'
      <3>1. p \in manifests /\ Through(p) > queue.acked
        BY <1>4, <1>5, <1>7, <2>2
      <3>2. PICK i \in DOMAIN segments : Guarded(p, i)
        BY <1>1, <1>16, <2>1, <3>1 DEF Undamaged
      <3>3. PICK r \in ToSet(segments[i].records) : r.seq = p.root /\ r.intact
        BY <3>2 DEF Guarded
      <3>4. queue.active => i < Len(segments)
        BY <3>2 DEF Guarded
      <3>5. ASSUME i > n PROVE /\ i - n \in DOMAIN segments' /\ segments'[i - n] = segments[i]
                               /\ queue'.active => i - n < Len(segments')
        <4>1. i - n \in DOMAIN segments' /\ segments'[i - n] = segments[i]
          BY <1>6, <3>5
        <4>2. queue'.active => i - n < Len(segments')
          BY <1>5, <1>6, <1>7, <3>4
        <4> QED BY <4>1, <4>2
      <3>6. CASE Through(p) <= segments[i].last
        <4>1. i > n
          BY <1>4, <1>6, <1>7, <2>2, <3>1, <3>6
        <4> QED BY <3>3, <3>5, <3>6, <4>1 DEF Guarded
      <3>7. CASE ~(Through(p) <= segments[i].last)
        <4>1. /\ p.parent \in SeqsOf(queue.unacked)
              /\ \/ p \notin queue.repacks
                 \/ \E c \in p.children : c.seq > queue.acked /\ c \notin queue.unacked
          BY <1>2, <3>2, <3>7 DEF Guarded
        <4>2. PICK b \in queue.unacked : b.seq = p.parent
          BY <4>1 DEF SeqsOf
        <4>3. b \in Known /\ b.seq > queue.acked /\ b.seq \in Nat
          BY <1>7, <1>9
        <4>4. b.seq > After.acked
          <5>1. SUFFICES ASSUME b.seq <= After.acked PROVE FALSE
            BY <1>4, <4>3
          <5>2. p.parent \in NotedOf.terminal
            BY <1>4, <4>2, <5>1
          <5>3. p.parent \in Parents(queue)
            <6>1. PICK v \in verdicts : v.seq = p.parent /\ v.verdict = "repack"
              BY <1>1, <3>1 DEF Families
            <6>2. p.parent \notin SeqsOf(Final)
              BY <1>1, <6>1 DEF Final, SeqsOf, Identity
            <6> QED BY <1>3, <1>7, <4>2, <4>3, <5>2, <6>2
          <5>4. p \in queue.repacks
            <6>1. PICK q \in queue.repacks : q.parent = p.parent
              BY <5>3 DEF Parents
            <6>2. q \in manifests
              BY <1>1, <1>2 DEF Memory
            <6> QED BY <1>1, <3>1, <6>1, <6>2 DEF Families
          <5>5. PICK c \in p.children : c.seq > queue.acked /\ c \notin queue.unacked
            BY <4>1, <5>4
          <5>6. c \in Known /\ c.seq \in Nat
            BY <1>7, <3>1
          <5>7. c.seq \notin NotedOf.terminal
            BY <1>3, <5>5, <5>6
          <5>8. c.seq <= queue.acked
            BY <1>3, <5>2, <5>4, <5>7
          <5> QED BY <1>7, <5>5, <5>6, <5>8
        <4>5. PICK k \in DOMAIN segments : /\ b.seq <= segments[k].last
                                           /\ \E s \in ToSet(segments[k].records) : s.seq = b.root /\ s.intact
          BY <1>1, <1>2 DEF Kept, KeptBy
        <4>6. b.root = p.root
          BY <1>1, <3>1, <4>2, <4>3 DEF Families
        <4>7. k = i
          BY <1>1, <3>3, <4>5, <4>6, RecordsApart
        <4>8. i > n
          BY <1>4, <1>6, <1>7, <4>3, <4>4, <4>5, <4>7
        <4>9. p.parent \in SeqsOf(queue'.unacked)
          BY <1>5, <4>2, <4>4 DEF SeqsOf
        <4>10. \/ p \notin queue'.repacks
               \/ \E c \in p.children : c.seq > queue'.acked /\ c \notin queue'.unacked
          <5>1. ASSUME NEW c \in p.children PROVE c.seq > After.acked
            <6>1. c.seq \in Nat /\ p.parent < c.seq
              BY <1>1, <3>1, PlansOf
            <6> QED BY <1>4, <1>7, <3>1, <4>2, <4>4, <6>1
          <5> QED BY <1>5, <4>1, <5>1
        <4> QED BY <3>3, <3>5, <4>8, <4>9, <4>10 DEF Guarded
      <3> QED BY <3>6, <3>7
    <2>3. queue'.phase # "refused"
      BY <1>2 DEF IsUp
    <2>4. \A r \in Recs' : ~r.intact => \A s \in Recs' : s.seq <= r.seq
      BY <1>1, <1>6, <2>1 DEF Undamaged
    <2> QED BY <2>2, <2>3, <2>4
  <1>18. Once'
    <2>1. SUFFICES ASSUME SyncAlways, "damage" \notin faults PROVE Once'
      BY <1>0 DEF Once
    <2>2. /\ \A r \in Recs : InDoubt(r) => r.seq > queue.acked /\ Descriptor(r) \notin queue.unacked
          /\ \A v \in Final : \A e \in v.events :
               e <= checkpoint \/ \E r \in Recs : r.intact /\ e \in r.events /\ ~InDoubt(r)
          /\ \A v, w \in Final : v # w => v.events \cap w.events = {}
          /\ \A a, b \in Leaves : a # b => a.events \cap b.events = {}
          /\ \A b \in Leaves, v \in Final : v.seq # b.seq => v.events \cap b.events = {}
          /\ Stored \cap dead = {}
      BY <1>1, <2>1 DEF Once
    <2>3. \A r : InDoubt(r)' <=> InDoubt(r)
      BY <1>5, <1>6 DEF InDoubt
    <2>4. Leaves' \subseteq Leaves
      <3>1. SUFFICES ASSUME NEW b \in Known', b.seq > After.acked, b.seq \notin {p.parent : p \in manifests'}
                     PROVE  b \in Leaves
        BY <1>16 DEF Leaves
      <3>2. b \in Known /\ b.seq > queue.acked
        BY <1>4, <1>6, <1>7, <3>1
      <3>3. \A p \in manifests : p.parent # b.seq
        <4>1. SUFFICES ASSUME NEW p \in manifests, p.parent = b.seq PROVE FALSE
          OBVIOUS
        <4>2. Through(p) <= After.acked
          BY <1>5, <3>1, <4>1
        <4> QED BY <1>4, <1>7, <3>1, <4>1, <4>2
      <3> QED BY <1>16, <3>2, <3>3 DEF Leaves
    <2>5. ASSUME NEW r \in Recs', InDoubt(r) PROVE r.seq > queue'.acked /\ Descriptor(r) \notin queue'.unacked
      <3>1. r \in Recs /\ r.seq > queue.acked /\ Descriptor(r) \notin queue.unacked
        BY <1>6, <2>2, <2>5
      <3>2. Descriptor(r) \in Known /\ Descriptor(r).seq = r.seq /\ r.seq \in Nat
        BY <1>1, <3>1, NamesTyped DEF RecordType
      <3>3. ~(r.seq <= After.acked)
        BY <1>4, <1>7, <3>1, <3>2
      <3> QED BY <1>4, <1>5, <3>1, <3>2, <3>3
    <2>6. ASSUME NEW v \in Final, NEW e \in v.events
          PROVE  e <= checkpoint \/ \E r \in Recs' : r.intact /\ e \in r.events /\ ~InDoubt(r)
      <3>1. SUFFICES ASSUME NEW r \in Recs, r.intact, e \in r.events, ~InDoubt(r), r \notin Recs'
                     PROVE  e <= checkpoint
        BY <2>2
      <3>2. r.seq <= After.acked
        BY <1>6, <3>1
      <3>3. e \in 1 .. checkpoint
        BY <1>4, <3>1, <3>2
      <3> QED BY <3>3
    <2> QED BY <1>0, <1>2, <2>2, <2>3, <2>4, <2>5, <2>6 DEF Once
  <1> QED BY <1>2, <1>11, <1>12, <1>13, <1>14, <1>15, <1>17, <1>18 DEF CollectorInv

\* Segments that go are sealed, and everything in them is acknowledged.
LEMMA ReclaimableOf ==
  ASSUME NEW files, Len(files) \in Nat, NEW active \in BOOLEAN, active => Len(files) # 0, NEW acked
  PROVE  /\ Reclaimable(files, active, acked) \in 0 .. Len(files)
         /\ active => Reclaimable(files, active, acked) < Len(files)
         /\ \A i \in 1 .. Reclaimable(files, active, acked) : files[i].last <= acked
  <1> DEFINE L == Len(files) - (IF active THEN 1 ELSE 0)
             S == {n \in 0 .. L : \A i \in 1 .. n : files[i].last <= acked}
  <1>1. L \in Nat /\ L <= Len(files) /\ (active => L < Len(files))
    OBVIOUS
  <1> HIDE DEF L
  <1>2. 0 \in S /\ S \in SUBSET Nat /\ \A n \in S : n <= L
    BY <1>1
  <1> HIDE DEF S
  <1>3. MaxOf(S, 0) \in S
    <2>1. S # {}
      BY <1>2
    <2> QED BY <1>1, <1>2, <2>1, MaxOfGreatest
  <1>4. Reclaimable(files, active, acked) = MaxOf(S, 0)
    BY DEF Reclaimable, S, L
  <1>5. Reclaimable(files, active, acked) \in 0 .. L
        /\ \A i \in 1 .. Reclaimable(files, active, acked) : files[i].last <= acked
    BY <1>3, <1>4 DEF S
  <1> QED BY <1>1, <1>5

\* A removal of segments by an acknowledgment.
LEMMA ReclaimDrops ==
  ASSUME CollectorInv, outcome.pc = "ack", outcome.seq > queue.acked, AfterOutcome,
         meta' = MetaOf(After), NEW n \in 0 .. Reclaimable(segments, After.active, After.acked),
         Reclaim(After, n)
  PROVE  Drops(n)
  <1>1. Types /\ Kept /\ IsUp
    BY OutcomeNoted DEF CollectorInv
  <1>2. After.active = queue.active /\ queue.active \in BOOLEAN
    BY <1>1, AdvancedOf, QueueTyped
  <1>3. Len(segments) \in Nat /\ (queue.active => Len(segments) # 0)
    <2>1. segments \in Seq(SegmentType)
      BY <1>1 DEF Types, FileTypes
    <2>2. queue.active => segments # <<>>
      BY <1>1 DEF Kept
    <2> QED BY <2>1, <2>2
  <1>4. /\ segments' = SubSeq(segments, n + 1, Len(segments))
        /\ \/ manifests' = manifests /\ queue' = After
           \/ /\ manifests' = Unfinished(manifests, After.acked)
              /\ queue' = [After EXCEPT !.repacks = Unfinished(@, After.acked)]
    BY DEF Reclaim
  <1> DEFINE m == Reclaimable(segments, After.active, After.acked)
  <1>5. m \in 0 .. Len(segments) /\ (queue.active => m < Len(segments))
        /\ \A i \in 1 .. m : segments[i].last <= After.acked
    BY <1>2, <1>3, ReclaimableOf
  <1> HIDE DEF m
  <1>6. n \in 0 .. m
    BY DEF m
  <1>7. n \in 0 .. Len(segments) /\ (queue.active => n < Len(segments))
        /\ \A i \in 1 .. n : segments[i].last <= After.acked
    BY <1>3, <1>5, <1>6
  <1> HIDE DEF After
  <1> QED BY <1>4, <1>7 DEF Drops

\* The queue forgets what an outcome covers.
LEMMA AckKeeps ==
  ASSUME CollectorInv, Ack
  PROVE  CollectorInv'
  <1>0. /\ outcome.pc = "ack" /\ AckBatch(outcome.seq, outcome.cumulative)
        /\ UNCHANGED <<pipelineVars, checkpoint, dead, connected, verdicts, epoch, faults>>
        /\ inflight' = {b \in inflight : IF outcome.cumulative THEN b.seq > outcome.seq ELSE b.seq # outcome.seq}
        /\ answered' = answered \cap SeqsOf(inflight')
        /\ outcome' = NoOutcome
    BY DEF Ack, NoFault
  <1>1. Types /\ connected /\ outcome.seq \in Nat
    BY <1>0, OutcomeNoted DEF CollectorInv
  <1>2. AfterOutcome
    <2>1. \A b \in inflight : b.seq \in Nat
      BY <1>1 DEF Types, SendTypes, Batch
    <2>2. \A b \in inflight \ inflight' : b.seq = outcome.seq \/ (outcome.cumulative /\ b.seq < outcome.seq)
      BY <1>0, <1>1, <2>1
    <2>3. faults' \subseteq Faults
      BY <1>0, <1>1 DEF Types, SendTypes
    <2> QED BY <1>0, <1>1, <2>2, <2>3 DEF AfterOutcome
  <1>3. queue.acked \in Nat
    BY <1>1, QueueTyped
  <1>4. CASE outcome.seq <= queue.acked
    <2>1. queue' = queue /\ meta' = meta /\ UNCHANGED <<segments, manifests>>
      BY <1>0, <1>4 DEF AckBatch
    <2> QED BY <1>0, <1>2, <1>4, <2>1, NotedStepKeeps
  <1>5. CASE ~(outcome.seq <= queue.acked)
    <2>1. outcome.seq > queue.acked
      BY <1>1, <1>3, <1>5
    <2>2. IF After.acked = queue.acked
          THEN queue' = After /\ UNCHANGED <<meta, segments, manifests>>
          ELSE meta' = MetaOf(After) /\ Reclaim(After, Reclaimable(segments, After.active, After.acked))
      BY <1>0, <1>5 DEF AckBatch, After, NotedOf
    <2>3. CASE After.acked = queue.acked
      <3>1. After = NotedOf
        BY <1>0, <2>3, AdvancedOf
      <3> QED BY <1>0, <1>2, <2>1, <2>2, <2>3, <3>1, NotedStepKeeps
    <2>4. CASE After.acked # queue.acked
      <3> DEFINE n == Reclaimable(segments, After.active, After.acked)
      <3>1. meta' = MetaOf(After) /\ Reclaim(After, n)
        BY <2>2, <2>4
      <3>2. n \in Nat
        <4>1. Kept /\ IsUp
          BY <1>0, OutcomeNoted DEF CollectorInv
        <4>2. Len(segments) \in Nat /\ (queue.active => Len(segments) # 0)
          <5>1. segments \in Seq(SegmentType)
            BY <1>1 DEF Types, FileTypes
          <5>2. queue.active => segments # <<>>
            BY <4>1 DEF Kept
          <5> QED BY <5>1, <5>2
        <4>3. After.active = queue.active /\ queue.active \in BOOLEAN
          BY <1>0, <1>1, AdvancedOf, QueueTyped
        <4>4. n \in 0 .. Len(segments)
          BY <4>2, <4>3, ReclaimableOf
        <4> HIDE DEF n
        <4> QED BY <4>2, <4>4
      <3>3. n \in 0 .. n
        BY <3>2
      <3>4. Drops(n)
        BY <1>0, <1>2, <2>1, <3>1, <3>3, ReclaimDrops
      <3> QED BY <3>4, DropsKeep
    <2> QED BY <2>3, <2>4
  <1> QED BY <1>4, <1>5

\* A failure while the queue forgets ends the stream.
LEMMA AckFailsKeeps ==
  ASSUME CollectorInv, AckFails
  PROVE  CollectorInv'
  <1>0. /\ outcome.pc = "ack"
        /\ UNCHANGED <<pipelineVars, checkpoint, dead, verdicts, epoch>>
        /\ connected' = FALSE /\ inflight' = {} /\ answered' = {} /\ outcome' = NoOutcome
        /\ \/ AckFailsToPersist(outcome.seq, outcome.cumulative) /\ Fault("ack")
           \/ AckFailsToReclaim(outcome.seq, outcome.cumulative) /\ Fault("reclaim")
    BY DEF AckFails, Disconnected
  <1>1. AfterOutcome
    <2>1. Types
      BY DEF CollectorInv
    <2>2. faults \subseteq faults' /\ faults' \subseteq Faults
      BY <1>0, <2>1 DEF Fault, Types, SendTypes
    <2> QED BY <1>0, <2>2 DEF AfterOutcome
  <1>2. CASE AckFailsToPersist(outcome.seq, outcome.cumulative)
    <2>1. /\ outcome.seq > queue.acked /\ queue' = NotedOf /\ meta' \in {meta, MetaOf(After)}
          /\ UNCHANGED <<segments, manifests>>
      BY <1>2 DEF AckFailsToPersist, After, NotedOf
    <2> QED BY <1>0, <1>1, <2>1, NotedStepKeeps
  <1>3. CASE AckFailsToReclaim(outcome.seq, outcome.cumulative)
    <2>1. /\ outcome.seq > queue.acked /\ meta' = MetaOf(After)
          /\ \E removed \in 0 .. Reclaimable(segments, After.active, After.acked) - 1 : Reclaim(After, removed)
      BY <1>3 DEF AckFailsToReclaim, After, NotedOf
    <2>2. PICK n \in 0 .. Reclaimable(segments, After.active, After.acked) - 1 : Reclaim(After, n)
      BY <2>1
    <2>3. Reclaimable(segments, After.active, After.acked) \in Int
      <3>1. Types /\ Kept /\ IsUp
        BY <1>0, OutcomeNoted DEF CollectorInv
      <3>2. Len(segments) \in Nat /\ (queue.active => Len(segments) # 0)
        <4>1. segments \in Seq(SegmentType)
          BY <3>1 DEF Types, FileTypes
        <4>2. queue.active => segments # <<>>
          BY <3>1 DEF Kept
        <4> QED BY <4>1, <4>2
      <3>3. After.active = queue.active /\ queue.active \in BOOLEAN
        BY <1>0, <3>1, AdvancedOf, QueueTyped
      <3>4. Reclaimable(segments, After.active, After.acked) \in 0 .. Len(segments)
        BY <3>2, <3>3, ReclaimableOf
      <3> QED BY <3>2, <3>4
    <2> DEFINE m == Reclaimable(segments, After.active, After.acked)
    <2> HIDE DEF m
    <2>4. n \in 0 .. m
      <3>1. m \in Int /\ n \in 0 .. m - 1
        BY <2>3 DEF m
      <3> QED BY <3>1
    <2>5. Drops(n)
      BY <1>0, <1>1, <2>1, <2>2, <2>4, ReclaimDrops DEF m
    <2> QED BY <2>5, DropsKeep
  <1> QED BY <1>0, <1>2, <1>3

-----------------------------------------------------------------------------
(* A record joins the files.                                                *)

\* The active segment grows by a record, or a new segment starts with it.
Joins(record) ==
  /\ segments' \in Seq(SegmentType)
  /\ \/ /\ queue.active /\ Len(segments) # 0 /\ Len(segments') = Len(segments)
        /\ \A i \in 1 .. Len(segments) - 1 : segments'[i] = segments[i]
        /\ segments'[Len(segments)].first = segments[Len(segments)].first
        /\ segments'[Len(segments)].records = Append(segments[Len(segments)].records, record)
        /\ segments'[Len(segments)].last \in {segments[Len(segments)].last, record.seq}
     \/ /\ Len(segments') = Len(segments) + 1
        /\ \A i \in 1 .. Len(segments) : segments'[i] = segments[i]
        /\ segments'[Len(segments) + 1] = [first |-> record.seq, records |-> <<record>>, last |-> record.seq]

\* A write to the active segment, or to a new one, is such a growth; a short
\* write leaves the segment's last sequence.
LEMMA WrittenJoins ==
  ASSUME Types, Kept, IsUp, NEW record \in RecordType, NEW files,
         files = Written(segments, queue.active, record),
         \/ segments' = files
         \/ Len(files) = Len(segments) /\ segments' = [files EXCEPT ![Len(files)].last = Last(segments).last]
  PROVE  /\ Joins(record) /\ Len(segments') = Len(files)
         /\ segments' = files => segments'[Len(segments')].last = record.seq
  <1>1. segments \in Seq(SegmentType) /\ Len(segments) \in Nat /\ (queue.active => segments # <<>>)
    BY DEF Types, FileTypes, Kept
  <1>2. record.seq \in Nat /\ <<record>> \in Seq(RecordType)
    BY DEF RecordType
  <1>3. CASE files = Append(segments, [first |-> record.seq, records |-> <<record>>, last |-> record.seq])
    <2> DEFINE s == [first |-> record.seq, records |-> <<record>>, last |-> record.seq]
    <2>1. s \in SegmentType
      BY <1>2 DEF SegmentType
    <2>2. s.last = record.seq
      OBVIOUS
    <2> HIDE DEF s
    <2>3. /\ Append(segments, s) \in Seq(SegmentType) /\ Len(Append(segments, s)) = Len(segments) + 1
          /\ \A i \in 1 .. Len(segments) : Append(segments, s)[i] = segments[i]
          /\ Append(segments, s)[Len(segments) + 1] = s
      BY <1>1, <2>1
    <2>4. segments' = Append(segments, s) /\ files = segments'
      BY <1>1, <1>3, <2>3 DEF s
    <2>5. Len(segments') = Len(segments) + 1
      BY <2>3, <2>4
    <2> QED BY <2>2, <2>3, <2>4, <2>5 DEF Joins, s
  <1>4. CASE /\ queue.active
             /\ files = Append(Front(segments), [Last(segments) EXCEPT !.records = Append(@, record),
                                                                      !.last = record.seq])
    <2> DEFINE n == Len(segments)
               t == [segments[n] EXCEPT !.records = Append(@, record), !.last = record.seq]
    <2>1. n \in Nat \ {0} /\ segments[n] \in SegmentType
      BY <1>1, <1>4
    <2>2. /\ t \in SegmentType /\ t.first = segments[n].first /\ t.last = record.seq
          /\ t.records = Append(segments[n].records, record)
      <3>1. Append(segments[n].records, record) \in Seq(RecordType)
        BY <2>1 DEF SegmentType
      <3> QED BY <1>2, <2>1, <3>1 DEF SegmentType
    <2>3. files = Append(SubSeq(segments, 1, n - 1), t)
      BY <1>4 DEF Last, Front
    <2> HIDE DEF t
    <2>4. /\ SubSeq(segments, 1, n - 1) \in Seq(SegmentType) /\ Len(SubSeq(segments, 1, n - 1)) = n - 1
          /\ \A i \in 1 .. n - 1 : SubSeq(segments, 1, n - 1)[i] = segments[i]
      <3>1. 1 \in 1 .. n + 1 /\ n - 1 \in 1 - 1 .. n
        BY <2>1
      <3>2. \A i \in 1 .. n - 1 : 1 + i - 1 = i
        OBVIOUS
      <3>3. (n - 1) - 1 + 1 = n - 1
        BY <2>1
      <3> QED BY <1>1, <3>1, <3>2, <3>3, SubSeqProperties
    <2> DEFINE f == SubSeq(segments, 1, n - 1)
    <2> HIDE DEF f
    <2>5. /\ Append(f, t) \in Seq(SegmentType) /\ Len(Append(f, t)) = (n - 1) + 1
          /\ \A i \in 1 .. n - 1 : Append(f, t)[i] = f[i]
          /\ Append(f, t)[(n - 1) + 1] = t
      BY <2>2, <2>4, AppendProperties DEF f
    <2>6. /\ files \in Seq(SegmentType) /\ Len(files) = n
          /\ \A i \in 1 .. n - 1 : files[i] = segments[i]
          /\ files[n] = t
      <3>1. (n - 1) + 1 = n
        BY <2>1
      <3> QED BY <2>3, <2>4, <2>5, <3>1 DEF f
    <2> HIDE DEF n
    <2>7. CASE segments' = files
      BY <1>1, <1>4, <2>1, <2>2, <2>6, <2>7 DEF Joins, n
    <2>8. CASE segments' = [files EXCEPT ![Len(files)].last = Last(segments).last]
      <3>1. Last(segments) = segments[n] /\ segments[n].last \in Nat
        BY <2>1 DEF Last, n, SegmentType
      <3>2. segments' = [files EXCEPT ![n] = [t EXCEPT !.last = segments[n].last]]
        BY <2>6, <2>8, <3>1
      <3> DEFINE u == [t EXCEPT !.last = segments[n].last]
      <3>3. /\ u \in SegmentType /\ u.first = segments[n].first /\ u.last = segments[n].last
            /\ u.records = Append(segments[n].records, record)
        BY <2>2, <3>1 DEF SegmentType
      <3> HIDE DEF u
      <3>4. /\ segments' \in Seq(SegmentType) /\ Len(segments') = n
            /\ \A i \in 1 .. n - 1 : segments'[i] = segments[i]
            /\ segments'[n] = u
        <4>1. n \in 1 .. Len(files)
          BY <2>1, <2>6
        <4>2. segments' = [files EXCEPT ![n] = u]
          BY <3>2 DEF u
        <4>3. \A i \in 1 .. n - 1 : i \in 1 .. Len(files) /\ i # n
          BY <2>1, <2>6
        <4> QED BY <2>6, <3>3, <4>1, <4>2, <4>3
      <3>5. segments' = files => segments'[n].last = record.seq
        BY <2>2, <2>6
      <3> QED BY <1>1, <1>4, <2>1, <2>6, <3>3, <3>4, <3>5 DEF Joins, n
    <2> QED BY <2>7, <2>8
  <1> QED BY <1>3, <1>4 DEF Written

\* What the files hold after a record joined them.
LEMMA JoinedOf ==
  ASSUME Types, FilesInOrder, Used, Kept, IsUp, NEW record \in RecordType, record.seq = queue.next,
         Joins(record)
  PROVE  /\ DOMAIN segments' = 1 .. Len(segments') /\ Len(segments') \in Nat \ {0}
         /\ Last(segments') = segments'[Len(segments')]
         /\ \A i \in DOMAIN segments :
              /\ i \in DOMAIN segments'
              /\ ToSet(segments[i].records) \subseteq ToSet(segments'[i].records)
              /\ segments[i].last \in Nat /\ segments'[i].last \in {segments[i].last, record.seq}
              /\ segments[i].last < record.seq
         /\ \A i \in DOMAIN segments' :
              /\ segments'[i].last \in Nat /\ segments'[i].last <= record.seq
              /\ \A r \in ToSet(segments'[i].records) :
                   r = record \/ (i \in DOMAIN segments /\ r \in ToSet(segments[i].records))
         /\ record \in ToSet(segments'[Len(segments')].records)
         /\ \A i \in DOMAIN segments' : record \in ToSet(segments'[i].records) => i = Len(segments')
         /\ \A i \in DOMAIN segments : i < Len(segments') => segments'[i] = segments[i]
         /\ Recs' = Recs \cup {record} /\ record \notin Recs
         /\ \A r \in Recs : r.seq \in Nat /\ r.seq < record.seq
         /\ FilesInOrder'
  <1> DEFINE n == Len(segments)
             m == Len(segments')
  <1>1. /\ segments \in Seq(SegmentType) /\ n \in Nat /\ segments' \in Seq(SegmentType) /\ m \in Nat
        /\ DOMAIN segments = 1 .. n /\ DOMAIN segments' = 1 .. m
        /\ \A i \in 1 .. n : segments[i] \in SegmentType
        /\ \A i \in 1 .. m : segments'[i] \in SegmentType
        /\ (m = n + 1 \/ (m = n /\ n # 0))
    BY DEF Types, FileTypes, Joins
  <1>2. /\ \A i \in 1 .. n : segments[i].records \in Seq(RecordType) /\ segments[i].last \in Nat
        /\ \A i \in 1 .. m : segments'[i].records \in Seq(RecordType) /\ segments'[i].last \in Nat
    BY <1>1 DEF SegmentType
  <1>3. \A r \in Recs : r.seq \in Nat /\ r.seq < record.seq
    <2>1. \A r \in Recs : Descriptor(r) \in Named /\ Descriptor(r).seq = r.seq /\ r.seq \in Nat
      BY NamesTyped DEF RecordType
    <2> QED BY <2>1 DEF Used, SeqsOf, Running, IsUp
  <1>4. record.seq \in Nat /\ record \notin Recs
    BY <1>3 DEF RecordType
  <1>5. \A i \in 1 .. n : segments[i].last < record.seq
    BY <1>1 DEF Used
  <1> HIDE DEF n, m
  \* A segment of the new files is one of the old, or ends in the record.
  <1>6. /\ \A i \in 1 .. n : i < m => segments'[i] = segments[i]
        /\ \A i \in 1 .. m : i < m => i <= n
        /\ \/ /\ m = n /\ segments'[m].first = segments[m].first
              /\ segments'[m].records = Append(segments[m].records, record)
              /\ segments'[m].last \in {segments[m].last, record.seq}
           \/ /\ m = n + 1 /\ segments'[m].first = record.seq /\ segments'[m].records = <<record>>
              /\ segments'[m].last = record.seq
    <2>1. \/ /\ m = n
             /\ \A i \in 1 .. n - 1 : segments'[i] = segments[i]
             /\ segments'[m].first = segments[m].first
             /\ segments'[m].records = Append(segments[m].records, record)
             /\ segments'[m].last \in {segments[m].last, record.seq}
          \/ /\ m = n + 1
             /\ \A i \in 1 .. n : segments'[i] = segments[i]
             /\ segments'[m] = [first |-> record.seq, records |-> <<record>>, last |-> record.seq]
      BY DEF Joins, n, m
    <2>2. CASE m = n /\ \A i \in 1 .. n - 1 : segments'[i] = segments[i]
      <3>1. \A i \in 1 .. n : i < m => i \in 1 .. n - 1
        BY <1>1, <2>2
      <3> QED BY <1>1, <2>1, <2>2, <3>1
    <2>3. CASE m = n + 1
      <3>1. \A i \in 1 .. m : i < m => i <= n
        BY <1>1, <2>3
      <3>2. m # n
        BY <1>1, <2>3
      <3> QED BY <2>1, <2>3, <3>1, <3>2
    <2> QED BY <2>1, <2>2, <2>3
  <1> DEFINE has(i, r) == r \in ToSet(segments[i].records)
             has1(i, r) == r \in ToSet(segments'[i].records)
  <1>7. /\ m \in 1 .. m /\ has1(m, record)
        /\ m = n => \A r : has1(m, r) <=> has(m, r) \/ r = record
        /\ m = n + 1 => \A r : has1(m, r) <=> r = record
    <2>0. m \in 1 .. m
      BY <1>1
    <2>1. CASE m = n
      <3>0. segments[m].records \in Seq(RecordType) /\ m # n + 1
        BY <1>1, <1>2, <2>0, <2>1
      <3>1. ToSet(Append(segments[m].records, record)) = ToSet(segments[m].records) \cup {record}
        BY <3>0, ToSetAppend
      <3>2. segments'[m].records = Append(segments[m].records, record)
        BY <1>6, <3>0
      <3> QED BY <2>0, <2>1, <3>0, <3>1, <3>2
    <2>2. CASE m = n + 1
      <3>0. m # n
        BY <1>1, <2>2
      <3>1. <<record>> \in Seq(RecordType) /\ Len(<<record>>) = 1 /\ <<record>>[1] = record
        OBVIOUS
      <3>2. \A r : r \in ToSet(<<record>>) <=> \E j \in 1 .. Len(<<record>>) : r = <<record>>[j]
        BY <3>1, ToSetOf
      <3>3. \A j \in 1 .. Len(<<record>>) : j = 1
        OBVIOUS
      <3>4. 1 \in 1 .. Len(<<record>>)
        OBVIOUS
      <3>5. \A r : r \in ToSet(<<record>>) <=> r = record
        BY <3>1, <3>2, <3>3, <3>4
      <3>6. segments'[m].records = <<record>>
        BY <1>6, <3>0
      <3> QED BY <2>0, <3>0, <3>5, <3>6
    <2> QED BY <1>1, <2>1, <2>2
  <1> HIDE DEF has, has1
  <1>8. \A i \in 1 .. n : \A r : i < m => (has1(i, r) <=> has(i, r))
    BY <1>6 DEF has, has1
  <1>9. \A i \in 1 .. n : i \in 1 .. m /\ (i < m \/ (i = m /\ m = n))
    BY <1>1
  <1>10. \A i \in 1 .. m : i < m => i \in 1 .. n
    BY <1>1, <1>6
  <1>11. \A i \in 1 .. n : \A r : has(i, r) => has1(i, r)
    BY <1>7, <1>8, <1>9
  <1>12. ASSUME NEW i \in 1 .. m, NEW r, has1(i, r) PROVE r = record \/ (i \in 1 .. n /\ has(i, r))
    <2>1. CASE i < m
      BY <1>8, <1>10, <1>12, <2>1
    <2>2. CASE i = m
      <3>1. m = n => m \in 1 .. n
        BY <1>7
      <3> QED BY <1>6, <1>7, <1>12, <2>2, <3>1
    <2> QED BY <1>1, <2>1, <2>2
  <1>13. /\ \A r : r \in Recs <=> \E i \in 1 .. n : has(i, r)
         /\ \A r : r \in Recs' <=> \E i \in 1 .. m : has1(i, r)
    BY <1>1 DEF Recs, RecsOf, has, has1
  <1>14. Recs' = Recs \cup {record}
    BY <1>7, <1>9, <1>11, <1>12, <1>13
  <1>15. \A i \in 1 .. m : has1(i, record) => i = m
    <2>1. \A i \in 1 .. n : ~has(i, record)
      BY <1>4, <1>13
    <2> QED BY <1>1, <1>8, <1>10, <2>1
  <1>16. \A i \in 1 .. n : segments'[i].last \in {segments[i].last, record.seq}
    BY <1>6, <1>9
  <1>17. \A i \in 1 .. m : segments'[i].last <= record.seq
    <2>1. TAKE i \in 1 .. m
    <2>2. CASE i < m
      <3>1. segments'[i].last = segments[i].last /\ i \in 1 .. n
        BY <1>6, <1>10, <2>2
      <3> QED BY <1>2, <1>4, <1>5, <3>1
    <2>3. CASE i = m
      <3>1. segments'[m].last = record.seq \/ (segments'[m].last = segments[m].last /\ m \in 1 .. n)
        BY <1>6, <1>7
      <3> QED BY <1>2, <1>4, <1>5, <2>3, <3>1
    <2> QED BY <1>1, <2>2, <2>3
  <1>18. \A i \in 1 .. n : SegmentInOrder(segments[i])
    BY <1>1 DEF FilesInOrder
  <1>19. \A i \in 1 .. m : SegmentInOrder(segments'[i])
    <2>1. SegmentInOrder(segments'[m])
      <3>1. CASE m = n
        <4> DEFINE s == segments[m]
                   L == Len(segments[m].records)
        <4>1. /\ m \in 1 .. n /\ s.records \in Seq(RecordType) /\ L \in Nat /\ DOMAIN s.records = 1 .. L
              /\ s.first \in Nat
          BY <1>1, <1>2, <1>7, <3>1 DEF SegmentType
        <4>2. /\ s.records # <<>>
              /\ \A j \in 1 .. L : s.first + j - 1 <= s.records[j].seq
              /\ \A j, k \in 1 .. L : j < k => s.records[j].seq < s.records[k].seq
          BY <1>18, <4>1 DEF SegmentInOrder
        <4>3. L # 0
          BY <4>1, <4>2, EmptySeq
        <4>4. /\ segments'[m].first = s.first /\ segments'[m].records = Append(s.records, record)
              /\ Len(Append(s.records, record)) = L + 1
              /\ DOMAIN Append(s.records, record) = 1 .. L + 1
              /\ \A j \in 1 .. L : Append(s.records, record)[j] = s.records[j]
              /\ Append(s.records, record)[L + 1] = record
          <5>1. m # n + 1
            BY <1>1, <3>1
          <5> QED BY <1>6, <3>1, <4>1, <5>1, AppendProperties
        <4>5. \A j \in 1 .. L : s.records[j].seq \in Nat /\ s.records[j].seq < record.seq
          <5>1. \A j \in 1 .. L : s.records[j] \in ToSet(s.records)
            BY <4>1, ToSetOf
          <5>2. \A j \in 1 .. L : s.records[j] \in Recs
            BY <1>13, <4>1, <5>1 DEF has
          <5> QED BY <1>3, <5>2
        <4> DEFINE t == Append(s.records, record)
        <4> HIDE DEF t, s, L
        <4>6. \A j \in 1 .. L + 1 : s.first + j - 1 <= t[j].seq
          <5>1. TAKE j \in 1 .. L + 1
          <5>2. CASE j \in 1 .. L
            BY <4>2, <4>4, <5>2 DEF t
          <5>3. CASE j = L + 1
            <6>1. L \in 1 .. L
              BY <4>1, <4>3
            <6>2. s.first + L - 1 <= s.records[L].seq /\ s.records[L].seq < record.seq
                  /\ s.records[L].seq \in Nat
              BY <4>2, <4>5, <6>1
            <6>3. s.first + (L + 1) - 1 <= record.seq
              BY <1>4, <4>1, <6>2
            <6> QED BY <4>4, <5>3, <6>3 DEF t
          <5> QED BY <4>1, <5>2, <5>3
        <4>7. ASSUME NEW j \in 1 .. L + 1, NEW k \in 1 .. L + 1, j < k PROVE t[j].seq < t[k].seq
          <5>1. j \in 1 .. L /\ (k \in 1 .. L \/ k = L + 1)
            BY <4>1, <4>7
          <5>2. CASE k \in 1 .. L
            BY <4>2, <4>4, <4>7, <5>1, <5>2 DEF t
          <5>3. CASE k = L + 1
            BY <4>4, <4>5, <5>1, <5>3 DEF t
          <5> QED BY <5>1, <5>2, <5>3
        <4>8. t # <<>> /\ DOMAIN t = 1 .. L + 1
          <5>1. Len(t) = L + 1 /\ L + 1 # 0 /\ DOMAIN t = 1 .. L + 1
            BY <4>1, <4>4 DEF t
          <5> QED BY <5>1
        <4>9. segments'[m].first = s.first /\ segments'[m].records = t
          BY <4>4 DEF t
        <4> QED BY <4>6, <4>7, <4>8, <4>9 DEF SegmentInOrder
      <3>2. CASE m = n + 1
        <4>1. segments'[m].first = record.seq /\ segments'[m].records = <<record>>
          BY <1>1, <1>6, <3>2
        <4>2. <<record>> # <<>> /\ DOMAIN <<record>> = {1} /\ <<record>>[1] = record
          OBVIOUS
        <4>3. record.seq + 1 - 1 <= record.seq
          BY <1>4
        <4> QED BY <4>1, <4>2, <4>3 DEF SegmentInOrder
      <3> QED BY <1>1, <3>1, <3>2
    <2>2. \A i \in 1 .. m : i < m => SegmentInOrder(segments'[i])
      <3>1. \A i \in 1 .. m : i < m => segments'[i] = segments[i] /\ i \in 1 .. n
        BY <1>6, <1>10
      <3> QED BY <1>18, <3>1
    <2> QED BY <1>1, <2>1, <2>2
  <1>20. FilesInOrder'
    <2>1. ASSUME NEW i \in 1 .. m, NEW k \in 1 .. m, i < k, NEW r, has1(i, r), NEW s, has1(k, s)
          PROVE  r.seq < s.seq
      <3>1. i < m
        BY <1>1, <2>1
      <3>2. has(i, r) /\ i \in 1 .. n /\ r \in Recs
        BY <1>8, <1>10, <1>13, <2>1, <3>1
      <3>3. CASE s = record
        BY <1>3, <3>2, <3>3
      <3>4. CASE k \in 1 .. n /\ has(k, s)
        BY <1>1, <2>1, <3>2, <3>4 DEF FilesInOrder, has
      <3> QED BY <1>12, <2>1, <3>3, <3>4
    <2> QED BY <1>1, <1>19, <2>1 DEF FilesInOrder, has1
  <1>21. Last(segments') = segments'[m]
    BY DEF Last, m
  <1>22. DOMAIN segments' = 1 .. Len(segments') /\ Len(segments') \in Nat \ {0} /\ DOMAIN segments = 1 .. n
    <2>1. m # 0
      BY <1>1, <1>7
    <2> QED BY <1>1, <2>1 DEF m
  <1>23. \A i \in 1 .. n :
              /\ i \in 1 .. m
              /\ ToSet(segments[i].records) \subseteq ToSet(segments'[i].records)
              /\ segments[i].last \in Nat /\ segments'[i].last \in {segments[i].last, record.seq}
              /\ segments[i].last < record.seq
    BY <1>2, <1>5, <1>9, <1>11, <1>16 DEF has, has1
  <1>24. \A i \in 1 .. m :
              /\ segments'[i].last \in Nat /\ segments'[i].last <= record.seq
              /\ \A r \in ToSet(segments'[i].records) :
                   r = record \/ (i \in 1 .. n /\ r \in ToSet(segments[i].records))
    BY <1>2, <1>12, <1>17 DEF has, has1
  <1>25. /\ record \in ToSet(segments'[m].records)
         /\ \A i \in 1 .. m : record \in ToSet(segments'[i].records) => i = m
         /\ \A i \in 1 .. n : i < m => segments'[i] = segments[i]
    BY <1>6, <1>7, <1>15 DEF has1
  <1> QED BY <1>3, <1>4, <1>14, <1>20, <1>21, <1>22, <1>23, <1>24, <1>25 DEF m

-----------------------------------------------------------------------------
(* Appends.                                                                 *)

\* What a rewritten meta.json still says.
MetaFits ==
  /\ meta' \in MetaType
  /\ meta'.acked < meta'.next /\ meta'.acked < queue.next
  /\ queue.acked <= meta'.acked /\ meta'.acked <= meta.acked
  /\ queue.reserved <= meta'.next
  /\ \A n \in Nat : n < meta.next /\ n < queue.next => n < meta'.next
  /\ \A ref \in meta'.refs : ref.through <= meta'.acked \/ Matched(ref)

\* A reservation covers the sequence it is written for.
LEMMA ReservedOf ==
  ASSUME CollectorInv, IsUp, meta' \in {meta, MetaOf(Allocated)}
  PROVE  /\ MetaFits
         /\ Allocated = [queue EXCEPT !.next = queue.next + 1, !.reserved = Allocated.reserved]
         /\ Allocated.reserved \in Nat
         /\ meta' = (IF Allocated.reserved = queue.reserved THEN meta ELSE MetaOf(Allocated)) =>
              queue.next < meta'.next /\ Allocated.reserved <= meta'.next
  <1> USE QueueAssumption DEF QueueAssumption
  <1>1. Types /\ Used /\ Families /\ Memory /\ References
    BY DEF CollectorInv
  <1>2. /\ queue.next \in Nat \ {0} /\ queue.reserved \in Nat /\ queue.acked \in Nat
        /\ queue.repacks \subseteq PlanType /\ meta.next \in Nat \ {0} /\ meta.acked \in Nat
        /\ queue \in QueueType /\ meta \in MetaType
    BY <1>1, QueueTyped DEF Types, FileTypes, MetaType
  <1>3. /\ queue.reserved <= meta.next /\ queue.acked <= meta.acked /\ queue.acked < queue.next
        /\ meta.acked < queue.next /\ meta.acked < meta.next
    BY <1>1 DEF Used
  <1>4. queue.repacks \subseteq manifests /\ \A p \in queue.repacks : Through(p) \in Nat
    BY <1>1, PlansOf DEF Memory
  <1> DEFINE r == IF queue.next + 1 <= queue.reserved THEN queue.reserved
                  ELSE queue.next + 1 + ReservationSize - 1
  <1>5. r \in Nat /\ queue.next + 1 <= r /\ queue.reserved <= r /\ (r = queue.reserved => queue.next < queue.reserved)
    BY <1>2
  <1>6. Allocated = [queue EXCEPT !.next = queue.next + 1, !.reserved = r]
    BY <1>2 DEF Allocated, Reserved, QueueType
  <1> HIDE DEF r
  <1>7. /\ Allocated.reserved = r /\ Allocated.next = queue.next + 1 /\ Allocated.acked = queue.acked
        /\ Allocated.repacks = queue.repacks
    BY <1>2, <1>6 DEF QueueType
  <1> DEFINE m == MetaOf(Allocated)
  <1>8. /\ m \in MetaType /\ queue.next + 1 <= m.next /\ r <= m.next /\ m.acked = queue.acked
        /\ \A ref \in m.refs : \E p \in queue.repacks :
              p.parent = ref.parent /\ Through(p) = ref.through /\ Through(p) > queue.acked
    <2>1. queue.next + 1 \in Nat \ {0}
      BY <1>2
    <2> QED BY <1>2, <1>4, <1>5, <1>7, <2>1, MetaWritten
  <1>9. \A ref \in m.refs : Matched(ref)
    BY <1>4, <1>8 DEF Matched
  <1> HIDE DEF m
  <1>10. CASE meta' = meta
    <2>1. MetaFits
      BY <1>1, <1>2, <1>3, <1>10 DEF MetaFits, References
    <2>2. r = queue.reserved => queue.next < meta'.next /\ r <= meta'.next
      BY <1>2, <1>3, <1>5, <1>10
    <2>3. r # queue.reserved /\ meta = m => queue.next < meta.next /\ r <= meta.next
      BY <1>2, <1>5, <1>8 DEF MetaType
    <2> QED BY <1>5, <1>6, <1>7, <1>10, <2>1, <2>2, <2>3 DEF m
  <1>11. CASE meta' = m
    <2>1. m.next \in Nat /\ queue.next < m.next
      <3>1. m.next \in Nat
        BY <1>8 DEF MetaType
      <3> QED BY <1>2, <1>8, <3>1
    <2>2. \A n \in Nat : n < meta.next /\ n < queue.next => n < m.next
      BY <1>2, <2>1
    <2>3. queue.reserved <= m.next
      BY <1>2, <1>5, <1>8, <2>1
    <2>4. m.acked < m.next
      BY <1>2, <1>3, <1>8, <2>1
    <2>5. MetaFits
      BY <1>2, <1>3, <1>8, <1>9, <1>11, <2>2, <2>3, <2>4 DEF MetaFits
    <2> QED BY <1>5, <1>6, <1>7, <1>8, <1>11, <2>1, <2>5
  <1> QED BY <1>10, <1>11 DEF m

\* What an append, or a failed one, leaves alone.
LEMMA AppendFrame ==
  ASSUME CollectorInv, IsUp,
         UNCHANGED <<manifests, senderVars, checkpoint, dead, verdicts, epoch>>,
         faults \subseteq faults', faults' \subseteq Faults,
         queue' \in QueueType, queue'.phase = queue.phase, queue'.acked = queue.acked,
         queue'.terminal = queue.terminal, queue'.repacks = queue.repacks, queue'.handed = queue.handed,
         queue.unacked \subseteq queue'.unacked,
         \A b \in queue'.unacked \ queue.unacked : b.seq = queue.next,
         MetaFits
  PROVE  /\ SendTypes' /\ Shut' /\ Sending' /\ Past' /\ References'
         /\ Final' = Final /\ Settled' = Settled /\ Stored' = Stored /\ Done' = Done
         /\ Children' = Children /\ IsUp' /\ Running' /\ Running /\ Low' = queue.acked /\ Low = queue.acked
  <1>0. UNCHANGED <<connected, inflight, answered, outcome>>
    BY DEF senderVars
  <1>1. Types /\ Used /\ Families /\ Memory /\ Sending
    BY DEF CollectorInv
  <1>2. queue.phase = "up" /\ queue'.phase = "up"
    BY DEF IsUp
  <1>3. /\ Final' = Final /\ Settled' = Settled /\ Stored' = Stored /\ Done' = Done
        /\ Children' = Children /\ IsUp' /\ Running' /\ Running /\ Low' = queue.acked /\ Low = queue.acked
        /\ Parents(queue)' = Parents(queue)
    BY <1>2 DEF Final, Settled, Stored, Done, Children, IsUp, Running, Low, Parents
  <1>4. SendTypes'
    BY <1>0, <1>1 DEF Types, SendTypes
  <1>5. Shut'
    BY <1>0, <1>2, <1>3 DEF CollectorInv, Shut
  <1>6. /\ queue.next \in Nat /\ queue.handed \in Nat /\ queue.handed < queue.next
        /\ \A b \in queue.unacked : b.seq \in Nat
    BY <1>1, QueueTyped DEF Used
  <1>7. \A n \in Parents(queue) : n # queue.next
    <2>1. \A p \in queue.repacks : p \in manifests /\ p.parent \in Nat /\ \E c \in p.children : c \in Named /\ c.seq \in Nat /\ p.parent < c.seq
      <3>1. \A p \in queue.repacks : p \in manifests
        BY <1>1 DEF Memory
      <3> QED BY <1>1, <3>1, PlansOf DEF Named
    <2>2. \A c \in Named : c.seq < queue.next
      BY <1>1, <1>3 DEF Used, SeqsOf
    <2>3. \A p \in queue.repacks : p.parent # queue.next
      BY <1>6, <2>1, <2>2
    <2> QED BY <2>3 DEF Parents
  <1>8. \A b \in Pending' : b \in Pending \/ b.seq = queue.next
    BY <1>3 DEF Pending
  <1>9. Sending'
    <2>1. /\ answered \subseteq SeqsOf(verdicts)
          /\ \A b \in inflight : /\ b.seq <= queue.handed /\ b.seq \notin Parents(queue)
                                 /\ b \in queue.unacked \/ (b.seq <= queue.acked /\ b.seq \in SeqsOf(Final))
          /\ connected => \A b \in Pending : b.seq <= queue.handed => b \in inflight \/ b.seq \in queue.terminal
          /\ outcome.pc # "none" =>
               /\ outcome.seq \in answered
               /\ \E v \in Final : v.seq = outcome.seq /\ v.events \subseteq Settled
               /\ outcome.cumulative => \A b \in Pending : b.seq < outcome.seq => b.seq \in queue.terminal
          /\ outcome.pc = "ack" =>
               EventsOf(AckPreview(outcome.seq, outcome.cumulative)) \subseteq 1 .. checkpoint
      BY <1>1, <1>2 DEF Sending, IsUp
    <2>2. \A b \in Pending' : b.seq <= queue.handed => b \in Pending
      BY <1>6, <1>8
    <2>3. outcome.pc # "none" => outcome.seq \in Nat /\ outcome.seq < queue.next
      BY OutcomeNoted, <1>1, <1>3, <2>1 DEF Used, Types, SendTypes, SeqsOf
    <2>4. outcome.pc # "none" => \A b \in Pending' : b.seq < outcome.seq => b \in Pending
      BY <1>6, <1>8, <2>3
    <2>5. outcome.pc = "ack" =>
            AckPreview(outcome.seq, outcome.cumulative)' = AckPreview(outcome.seq, outcome.cumulative)
      <3>1. \A b \in queue'.unacked \ queue.unacked : b.seq \in Nat /\ queue.next <= b.seq
        BY <1>6
      <3> QED BY <1>0, <3>1, PreviewKept
    <2>6. connected => \A b \in Pending' : b.seq <= queue.handed => b \in inflight \/ b.seq \in queue.terminal
      BY <2>1, <2>2
    <2>7. outcome.pc # "none" /\ outcome.cumulative =>
            \A b \in Pending' : b.seq < outcome.seq => b.seq \in queue.terminal
      BY <2>1, <2>4
    <2>8. outcome.pc = "ack" =>
            EventsOf(AckPreview(outcome.seq, outcome.cumulative)') \subseteq 1 .. checkpoint
      BY <2>1, <2>5
    <2> QED BY <1>0, <1>3, <2>1, <2>6, <2>7, <2>8 DEF Sending, EventsOf
  <1>10. Past'
    BY <1>3 DEF CollectorInv, Past, NoOversized
  <1>11. References'
    BY DEF MetaFits, References, Matched
  <1> QED BY <1>3, <1>4, <1>5, <1>9, <1>10, <1>11

\* A wholly acknowledged active segment is removed.
LEMMA FlushReclaimsKeeps ==
  ASSUME CollectorInv, FlushReclaims
  PROVE  CollectorInv'
  <1>0. /\ batcher = "on" /\ IsUp /\ ~queue.unhealthy /\ queue.active
        /\ Last(segments).last <= queue.acked /\ segments' = <<>>
        /\ queue' = [queue EXCEPT !.active = FALSE, !.synced = 0]
        /\ UNCHANGED <<meta, manifests, senderVars, verdicts, epoch>>
        /\ UNCHANGED <<readPos, batch, work, batcher, checkpoint, dead, faults>>
    BY DEF FlushReclaims, Flushing, ReclaimActive, CanAppend, NoFault, pipelineVars
  <1>1. /\ Types /\ FilesInOrder /\ Used /\ Identity /\ Families /\ Memory /\ Kept /\ Finished
        /\ Coverage /\ InOrder /\ References /\ Undamaged /\ Origins /\ Once
    BY DEF CollectorInv
  <1>2. /\ queue.acked \in Nat /\ meta.acked \in Nat /\ queue.acked <= meta.acked /\ queue \in QueueType
        /\ queue.unacked \subseteq Batch /\ meta \in MetaType /\ queue.next \in Nat
    BY <1>0, <1>1, QueueTyped DEF Types, FileTypes, Used, MetaType
  <1>3. \A i \in DOMAIN segments : segments[i].last \in Nat /\ segments[i].last <= queue.acked
    <2>1. segments # <<>> /\ \A i \in DOMAIN segments : segments[i].last <= Last(segments).last
      BY <1>0, <1>1 DEF Kept
    <2>2. \A i \in DOMAIN segments : segments[i].last \in Nat
      BY <1>1, NamesTyped DEF SegmentType
    <2>3. Last(segments).last \in Nat
      <3>1. Last(segments) = segments[Len(segments)] /\ Len(segments) \in DOMAIN segments
        <4>1. segments \in Seq(SegmentType)
          BY <1>1 DEF Types, FileTypes
        <4>2. Len(segments) # 0
          BY <2>1, <4>1, EmptySeq
        <4> QED BY <4>1, <4>2 DEF Last
      <3> QED BY <2>2, <3>1
    <2> QED BY <1>0, <1>2, <2>1, <2>2, <2>3
  <1>4. \A r \in Recs : r.intact /\ r.seq \in Nat /\ r.seq <= queue.acked /\ r.seq <= meta.acked
    <2>1. ASSUME NEW i \in DOMAIN segments, NEW r \in ToSet(segments[i].records)
          PROVE  r.intact /\ r.seq \in Nat /\ r.seq <= queue.acked /\ r.seq <= meta.acked
      <3>1. r \in Recs /\ r.seq \in Nat
        BY <1>1, NamesTyped DEF RecordType
      <3>2. r.intact /\ r.seq <= segments[i].last
        BY <1>0, <1>1, <3>1 DEF Kept
      <3> QED BY <1>2, <1>3, <3>1, <3>2
    <2> QED BY <1>1, <2>1, NamesTyped
  <1>5. queue.unacked = {}
    <2>1. ASSUME NEW b \in queue.unacked PROVE FALSE
      <3>1. b.seq \in Nat /\ b.seq > queue.acked
        BY <1>0, <1>1, QueueTyped DEF Memory
      <3>2. PICK i \in DOMAIN segments : b.seq <= segments[i].last
        BY <1>0, <1>1 DEF Kept, KeptBy
      <3> QED BY <1>2, <1>3, <3>1, <3>2
    <2> QED BY <2>1
  <1>6. /\ Recs' = {} /\ DOMAIN segments' = {} /\ segments' \in Seq(SegmentType)
    BY <1>0 DEF Recs, RecsOf
  <1>7. /\ queue' \in QueueType /\ queue'.phase = queue.phase /\ queue'.next = queue.next
        /\ queue'.reserved = queue.reserved /\ queue'.acked = queue.acked /\ queue'.terminal = queue.terminal
        /\ queue'.repacks = queue.repacks /\ queue'.handed = queue.handed /\ queue'.unacked = queue.unacked
        /\ queue'.active = FALSE /\ queue'.unhealthy = queue.unhealthy
    BY <1>0, <1>2 DEF QueueType
  <1>8. MetaFits
    <2>1. meta' \in {meta, MetaOf(Allocated)}
      BY <1>0
    <2> QED BY <1>0, <2>1, ReservedOf
  <1>9. faults \subseteq faults' /\ faults' \subseteq Faults
    BY <1>0, <1>1 DEF Types, SendTypes
  <1>10. /\ SendTypes' /\ Shut' /\ Sending' /\ Past' /\ References'
         /\ Final' = Final /\ Settled' = Settled /\ Stored' = Stored /\ Done' = Done
         /\ Children' = Children /\ IsUp' /\ Running' /\ Running /\ Low' = queue.acked /\ Low = queue.acked
    <2>1. \A b \in queue'.unacked \ queue.unacked : b.seq = queue.next
      BY <1>7
    <2> QED BY <1>0, <1>7, <1>8, <1>9, <2>1, AppendFrame
  <1>11. Known' = Children /\ Known' \subseteq Known /\ Named' \subseteq Named
    BY <1>0, <1>6, <1>10 DEF Known, Named, senderVars
  <1>12. Types'
    <2>1. FileTypes'
      BY <1>0, <1>1, <1>6 DEF Types, FileTypes
    <2>2. PipeTypes'
      BY <1>0, <1>1 DEF Types, PipeTypes
    <2> QED BY <1>7, <1>10, <2>1, <2>2 DEF Types
  <1>13. FilesInOrder'
    BY <1>6 DEF FilesInOrder
  <1>14. Used'
    <2>1. SeqsOf(Named)' \cup SeqsOf(verdicts)' \subseteq SeqsOf(Named) \cup SeqsOf(verdicts)
      BY <1>0, <1>11 DEF SeqsOf
    <2> QED BY <1>0, <1>1, <1>6, <1>7, <1>10, <2>1 DEF Used, IsUp
  <1>15. Identity'
    BY <1>0, <1>1, <1>11 DEF Identity
  <1>16. Families'
    BY <1>0, <1>1, <1>11 DEF Families
  <1>17. Parents(queue)' = Parents(queue)
    BY <1>7 DEF Parents
  <1>18. Memory'
    BY <1>0, <1>1, <1>5, <1>7, <1>10, <1>11, <1>17 DEF Memory
  <1>19. Kept'
    BY <1>5, <1>6, <1>7 DEF Kept
  <1>20. Finished'
    BY <1>0, <1>1, <1>6, <1>7, <1>10, <1>11 DEF Finished
  <1>21. Coverage'
    BY <1>6 DEF Coverage
  <1>22. InOrder'
    <2>1. EventsOf(Recs) \subseteq Settled
      <3>1. ASSUME NEW r \in Recs PROVE r.events \subseteq Settled
        <4>1. Descriptor(r) \in Known /\ Descriptor(r).seq = r.seq /\ Descriptor(r).events = r.events
          BY <1>1, NamesTyped
        <4> QED BY <1>1, <1>4, <4>1 DEF Finished
      <3> QED BY <3>1 DEF EventsOf
    <2>2. EventsOf(Recs)' = {} /\ InHand' = InHand
      BY <1>0, <1>6 DEF EventsOf, InHand
    <2> QED BY <1>0, <1>1, <1>6, <1>10, <2>1, <2>2 DEF InOrder, Done
  <1>23. Dropping'
    BY <1>0, <1>7 DEF CollectorInv, Dropping
  <1>24. Undamaged'
    <2>1. ASSUME "damage" \notin faults, NEW p \in manifests, Through(p) > queue.acked PROVE FALSE
      <3>1. PICK i \in DOMAIN segments : Guarded(p, i)
        BY <1>1, <1>10, <2>1 DEF Undamaged
      <3>2. Through(p) <= segments[i].last
        BY <1>0, <1>5, <3>1 DEF Guarded, SeqsOf
      <3>3. Through(p) \in Nat
        BY <1>1, PlansOf
      <3> QED BY <1>2, <1>3, <2>1, <3>2, <3>3
    <2>2. queue'.phase = "up"
      BY <1>10 DEF IsUp
    <2> QED BY <1>0, <1>6, <1>10, <2>1, <2>2 DEF Undamaged
  <1>25. Origins'
    BY <1>0, <1>1, <1>6, <1>10 DEF Origins, EventsOf
  <1>26. Once'
    <2>1. Leaves' \subseteq Leaves
      BY <1>0, <1>10, <1>11 DEF Leaves
    <2>2. \A r : ~InDoubt(r)'
      BY <1>7 DEF InDoubt
    <2>3. ASSUME NEW v \in Final, NEW e \in v.events,
                 e <= checkpoint \/ \E r \in Recs : r.intact /\ e \in r.events /\ ~InDoubt(r)
          PROVE  e <= checkpoint
      <3>1. \A r \in Recs : r.events \subseteq 1 .. checkpoint
        BY <1>1, <1>4 DEF Finished
      <3>2. \A n \in 1 .. checkpoint : n <= checkpoint
        BY <1>1 DEF Types, PipeTypes
      <3> QED BY <2>3, <3>1, <3>2
    <2> QED BY <1>0, <1>1, <1>6, <1>10, <2>1, <2>2, <2>3 DEF Once
  <1> QED BY <1>10, <1>12, <1>13, <1>14, <1>15, <1>16, <1>18, <1>19, <1>20, <1>21, <1>22, <1>23, <1>24,
             <1>25, <1>26 DEF CollectorInv

\* A record is appended, or all of it or a part is written before a failure.
Appends(record) ==
  /\ batcher = "on" /\ work # <<>> /\ IsUp /\ ~queue.unhealthy /\ ~TooLarge(Head(work))
  /\ record \in RecordType /\ record.seq = queue.next /\ record.events = Head(work)
  /\ Joins(record)
  /\ meta' = (IF Allocated.reserved = queue.reserved THEN meta ELSE MetaOf(Allocated))
  /\ UNCHANGED <<manifests, senderVars, readPos, checkpoint, dead, verdicts, epoch>>
  /\ faults \subseteq faults' /\ faults' \subseteq Faults
  /\ queue' \in QueueType /\ queue'.phase = queue.phase /\ queue'.acked = queue.acked
  /\ queue'.terminal = queue.terminal /\ queue'.repacks = queue.repacks /\ queue'.handed = queue.handed
  /\ queue'.next = queue.next + 1 /\ queue'.reserved = Allocated.reserved
  /\ queue'.active = record.intact
  /\ record.intact => segments'[Len(segments')].last = record.seq
  /\ \/ /\ record.intact /\ ~queue'.unhealthy /\ batcher' = "on"
        /\ queue'.unacked = queue.unacked \cup {Descriptor(record)}
        /\ SyncAlways => queue'.synced = Len(segments'[Len(segments')].records)
     \/ /\ queue'.unhealthy /\ batcher' = "off"
        /\ queue'.unacked = queue.unacked
        /\ queue'.synced = IF Len(segments') = Len(segments) THEN queue.synced ELSE 0

\* What is known after an append.
LEMMA AppendedNames ==
  ASSUME CollectorInv, NEW record, Appends(record)
  PROVE  /\ MetaFits /\ queue.next < meta'.next /\ queue'.reserved <= meta'.next
         /\ SendTypes' /\ Shut' /\ Sending' /\ Past' /\ References'
         /\ Final' = Final /\ Settled' = Settled /\ Stored' = Stored /\ Done' = Done
         /\ Children' = Children /\ IsUp' /\ Running' /\ Running /\ Low' = queue.acked /\ Low = queue.acked
         /\ Descriptor(record) \in Batch /\ Descriptor(record).seq = queue.next
         /\ Descriptor(record).events = Head(work) /\ Descriptor(record).root = queue.next
         /\ Known' = Known \cup {Descriptor(record)} /\ Named' = Named \cup {Descriptor(record)}
         /\ \A b \in Named : b.seq \in Nat /\ 0 < b.seq /\ b.seq < queue.next /\ b.seq < meta.next
         /\ \A v \in verdicts : v.seq \in Nat /\ 0 < v.seq /\ v.seq < queue.next /\ v.seq < meta.next
         /\ \A p \in manifests : /\ p.parent \in Nat /\ p.parent < queue.next /\ p.root < queue.next
                                 /\ p.root \in Nat /\ Through(p) \in Nat /\ Through(p) < queue.next
         /\ \A b \in Known : b.seq > queue.acked => b \in queue.unacked
         /\ \A r \in Recs : r.intact
  <1>0. /\ IsUp /\ record \in RecordType /\ record.seq = queue.next /\ record.events = Head(work)
        /\ UNCHANGED <<manifests, senderVars, verdicts>>
        /\ meta' = (IF Allocated.reserved = queue.reserved THEN meta ELSE MetaOf(Allocated))
        /\ queue'.reserved = Allocated.reserved /\ batcher = "on" /\ ~queue.unhealthy
        /\ Joins(record)
    BY DEF Appends
  <1>1. Types /\ Used /\ Families /\ Memory /\ FilesInOrder /\ Kept
    BY DEF CollectorInv
  <1>2. MetaFits /\ queue.next < meta'.next /\ queue'.reserved <= meta'.next
    BY <1>0, ReservedOf
  <1>3. /\ Descriptor(record) \in Batch /\ Descriptor(record).seq = queue.next
        /\ Descriptor(record).events = Head(work) /\ Descriptor(record).root = queue.next
    BY <1>0 DEF Descriptor, Batch, RecordType
  <1>4. /\ SendTypes' /\ Shut' /\ Sending' /\ Past' /\ References'
        /\ Final' = Final /\ Settled' = Settled /\ Stored' = Stored /\ Done' = Done
        /\ Children' = Children /\ IsUp' /\ Running' /\ Running /\ Low' = queue.acked /\ Low = queue.acked
    <2>1. /\ queue.unacked \subseteq queue'.unacked
          /\ \A b \in queue'.unacked \ queue.unacked : b.seq = queue.next
      BY <1>3 DEF Appends
    <2>2. /\ UNCHANGED <<manifests, senderVars, checkpoint, dead, verdicts, epoch>>
          /\ faults \subseteq faults' /\ faults' \subseteq Faults
          /\ queue' \in QueueType /\ queue'.phase = queue.phase /\ queue'.acked = queue.acked
          /\ queue'.terminal = queue.terminal /\ queue'.repacks = queue.repacks
          /\ queue'.handed = queue.handed
      BY DEF Appends
    <2> QED BY <1>0, <1>2, <2>1, <2>2, AppendFrame
  <1>5. Recs' = Recs \cup {record}
    BY <1>0, <1>1, JoinedOf
  <1>6. Known' = Known \cup {Descriptor(record)}
    BY <1>4, <1>5 DEF Known
  <1>7. Named' = Named \cup {Descriptor(record)}
    BY <1>0, <1>6 DEF Named, senderVars
  <1>8. \A b \in Named : b.seq \in Nat /\ 0 < b.seq /\ b.seq < queue.next /\ b.seq < meta.next
    <2>1. \A b \in Named : b.seq \in Nat
      BY <1>1, NamesTyped DEF Batch
    <2> QED BY <1>1, <1>4, <2>1 DEF Used, SeqsOf
  <1>9. \A v \in verdicts : v.seq \in Nat /\ 0 < v.seq /\ v.seq < queue.next /\ v.seq < meta.next
    <2>1. \A v \in verdicts : v.seq \in Nat
      BY <1>1 DEF Types, SendTypes
    <2> QED BY <1>1, <1>4, <2>1 DEF Used, SeqsOf
  <1>10. \A p \in manifests : /\ p.parent \in Nat /\ p.parent < queue.next /\ p.root < queue.next
                              /\ p.root \in Nat /\ Through(p) \in Nat /\ Through(p) < queue.next
    <2>1. TAKE p \in manifests
    <2>2. /\ p.parent \in Nat /\ p.root \in Nat /\ p.root <= p.parent /\ p.parent < Through(p) /\ Through(p) \in Nat
          /\ \E c \in p.children : c.seq = Through(p)
          /\ p.children \subseteq Known
      BY <1>1, PlansOf
    <2>3. Through(p) < queue.next /\ queue.next \in Nat
      BY <1>1, <1>8, <2>2, QueueTyped DEF Named
    <2> QED BY <2>2, <2>3
  <1>11. \A b \in Known : b.seq > queue.acked => b \in queue.unacked
    BY <1>0, <1>1 DEF Memory
  <1>12. \A r \in Recs : r.intact
    BY <1>0, <1>1 DEF Kept
  <1> QED BY <1>2, <1>3, <1>4, <1>6, <1>7, <1>8, <1>9, <1>10, <1>11, <1>12

\* An append keeps what holds of the queue.
LEMMA AppendsKeepQueue ==
  ASSUME CollectorInv, NEW record, Appends(record)
  PROVE  /\ FileTypes' /\ FilesInOrder' /\ Used' /\ Identity' /\ Families' /\ Memory' /\ Kept'
         /\ Finished' /\ Undamaged'
  <1> DEFINE d == Descriptor(record)
             q == queue.next
  <1>0. /\ batcher = "on" /\ IsUp /\ ~queue.unhealthy /\ record \in RecordType /\ record.seq = q
        /\ Joins(record)
        /\ UNCHANGED <<manifests, senderVars, checkpoint, verdicts>>
        /\ faults \subseteq faults'
        /\ queue' \in QueueType /\ queue'.phase = queue.phase /\ queue'.acked = queue.acked
        /\ queue'.terminal = queue.terminal /\ queue'.repacks = queue.repacks /\ queue'.handed = queue.handed
        /\ queue'.next = q + 1 /\ queue'.active = record.intact
        /\ (record.intact => segments'[Len(segments')].last = record.seq)
        /\ \/ /\ record.intact /\ ~queue'.unhealthy /\ batcher' = "on"
              /\ queue'.unacked = queue.unacked \cup {d}
           \/ /\ queue'.unhealthy /\ batcher' = "off"
              /\ queue'.unacked = queue.unacked
    BY DEF Appends
  <1>1. /\ Types /\ FilesInOrder /\ Used /\ Identity /\ Families /\ Memory /\ Kept /\ Finished /\ Undamaged
    BY DEF CollectorInv
  <1>2. /\ MetaFits /\ q < meta'.next /\ queue'.reserved <= meta'.next
        /\ Settled' = Settled /\ Final' = Final
        /\ Children' = Children /\ IsUp' /\ Running' /\ Running /\ Low' = queue.acked /\ Low = queue.acked
        /\ d \in Batch /\ d.seq = q /\ d.root = q
        /\ Known' = Known \cup {d} /\ Named' = Named \cup {d}
    BY AppendedNames
  <1>3. /\ \A b \in Named : b.seq \in Nat /\ 0 < b.seq /\ b.seq < q /\ b.seq < meta.next
        /\ \A v \in verdicts : v.seq \in Nat /\ 0 < v.seq /\ v.seq < q /\ v.seq < meta.next
        /\ \A p \in manifests : /\ p.parent \in Nat /\ p.parent < q /\ p.root < q
                                /\ p.root \in Nat /\ Through(p) \in Nat /\ Through(p) < q
        /\ \A b \in Known : b.seq > queue.acked => b \in queue.unacked
        /\ \A r \in Recs : r.intact
    BY AppendedNames
  <1>4. /\ DOMAIN segments' = 1 .. Len(segments') /\ Len(segments') \in Nat \ {0}
        /\ Last(segments') = segments'[Len(segments')]
        /\ \A i \in DOMAIN segments :
              /\ i \in DOMAIN segments'
              /\ ToSet(segments[i].records) \subseteq ToSet(segments'[i].records)
              /\ segments[i].last \in Nat /\ segments'[i].last \in {segments[i].last, record.seq}
              /\ segments[i].last < record.seq
        /\ \A i \in DOMAIN segments' :
              /\ segments'[i].last \in Nat /\ segments'[i].last <= record.seq
              /\ \A r \in ToSet(segments'[i].records) :
                   r = record \/ (i \in DOMAIN segments /\ r \in ToSet(segments[i].records))
        /\ record \in ToSet(segments'[Len(segments')].records)
        /\ \A i \in DOMAIN segments' : record \in ToSet(segments'[i].records) => i = Len(segments')
        /\ Recs' = Recs \cup {record}
        /\ \A r \in Recs : r.seq \in Nat /\ r.seq < record.seq
        /\ FilesInOrder'
    BY <1>0, <1>1, JoinedOf
  <1>5. /\ q \in Nat \ {0} /\ queue.acked \in Nat /\ queue.acked < q /\ queue.handed \in Nat /\ queue.handed < q
        /\ meta' \in MetaType /\ meta'.next \in Nat /\ meta'.acked \in Nat /\ meta'.acked < q /\ meta'.acked < meta'.next
        /\ queue.acked <= meta'.acked /\ meta'.acked <= meta.acked /\ meta.acked \in Nat
        /\ \A n \in queue.terminal : n \in Nat /\ 0 < n /\ n < q
    BY <1>0, <1>1, <1>2, QueueTyped DEF Used, MetaFits, MetaType
  <1> HIDE DEF d, q
  <1>6. FileTypes'
    BY <1>0, <1>1, <1>5 DEF Types, FileTypes, MetaType, Joins
  <1>7. Used'
    <2>1. \A n \in SeqsOf(Named)' : n \in Nat /\ 0 < n /\ n < q + 1 /\ n < meta'.next
      <3>1. \A b \in Named : b.seq < meta'.next /\ b.seq < q + 1
        BY <1>2, <1>3, <1>5 DEF MetaFits, q
      <3>2. \A b \in Named' : b \in Named \/ b.seq = q
        BY <1>2
      <3>3. q < meta'.next /\ q < q + 1 /\ 0 < q
        BY <1>2, <1>5
      <3> QED BY <1>3, <1>5, <3>1, <3>2, <3>3 DEF SeqsOf
    <2>2. \A n \in SeqsOf(verdicts)' : n \in Nat /\ 0 < n /\ n < q + 1 /\ n < meta'.next
      <3>1. \A v \in verdicts : v.seq < meta'.next /\ v.seq < q + 1
        BY <1>2, <1>3, <1>5 DEF MetaFits, q
      <3> QED BY <1>0, <1>3, <3>1 DEF SeqsOf
    <2>3. \A i \in DOMAIN segments' : segments'[i].last < q + 1
      <3>1. \A i \in DOMAIN segments' : segments'[i].last \in Nat /\ segments'[i].last <= q
        BY <1>0, <1>4
      <3> QED BY <1>5, <3>1
    <2>4. \A n \in queue'.terminal : 0 < n /\ n < q + 1
      BY <1>0, <1>5
    <2>5. queue'.phase # "opening"
      BY <1>2 DEF IsUp
    <2>6. /\ queue.acked < q + 1 /\ queue.handed < q + 1 /\ meta'.acked < q + 1
      BY <1>5
    <2> QED BY <1>0, <1>2, <1>5, <2>1, <2>2, <2>3, <2>4, <2>5, <2>6 DEF Used
  <1>8. Identity'
    <2>1. \A b \in Named : b.seq # d.seq
      BY <1>2, <1>3, <1>5
    <2>2. \A v \in verdicts : v.seq # d.seq
      BY <1>2, <1>3, <1>5
    <2> QED BY <1>0, <1>1, <1>2, <2>1, <2>2 DEF Identity
  <1>9. Families'
    <2>1. \A p \in manifests : p.parent # d.seq
      BY <1>2, <1>3, <1>5
    <2> QED BY <1>0, <1>1, <1>2, <2>1 DEF Families
  <1>10. Parents(queue)' = Parents(queue) /\ q \notin Parents(queue)
    <2>1. queue.repacks \subseteq manifests
      BY <1>0, <1>1 DEF Memory
    <2>2. \A p \in queue.repacks : p.parent # q
      BY <1>3, <1>5, <2>1
    <2> QED BY <1>0, <2>2 DEF Parents
  <1>11. Memory'
    <2>1. queue'.unacked \subseteq {b \in Known' : b.seq > queue.acked}
      <3>1. queue.unacked \subseteq {b \in Known : b.seq > queue.acked}
        BY <1>0, <1>1 DEF Memory
      <3>2. d.seq > queue.acked
        BY <1>2, <1>5
      <3> QED BY <1>0, <1>2, <3>1, <3>2
    <2>2. ASSUME NEW b \in Known' \ queue'.unacked, b.seq > queue.acked
          PROVE  /\ queue'.unhealthy /\ \A c \in queue'.unacked : c.seq < b.seq
                 /\ b.seq \notin queue.terminal \cup Parents(queue)
      <3>1. b = d
        BY <1>0, <1>2, <1>3, <2>2
      <3>2. queue'.unhealthy /\ queue'.unacked = queue.unacked
        BY <1>0, <2>2, <3>1
      <3>3. \A c \in queue.unacked : c \in Known
        BY <1>0, <1>1 DEF Memory
      <3>4. \A c \in queue.unacked : c.seq < q
        BY <1>3, <3>3 DEF Named
      <3>5. q \notin queue.terminal
        BY <1>5
      <3> QED BY <1>2, <1>10, <3>1, <3>2, <3>4, <3>5
    <2> QED BY <1>0, <1>1, <1>2, <1>10, <2>1, <2>2 DEF Memory
  <1>12. Kept'
    <2>1. ASSUME NEW b \in queue.unacked PROVE KeptBy(segments', b)
      <3>1. b.seq \in Nat /\ b \in Known /\ b.seq < q
        BY <1>0, <1>1, <1>3 DEF Memory, Named
      <3>2. PICK i \in DOMAIN segments : /\ b.seq <= segments[i].last
                          /\ \E r \in ToSet(segments[i].records) : r.seq = b.root /\ r.intact
        BY <1>0, <1>1 DEF Kept, KeptBy
      <3>3. b.seq <= segments'[i].last
        BY <1>0, <1>4, <1>5, <3>1, <3>2
      <3> QED BY <1>4, <3>2, <3>3 DEF KeptBy
    <2>2. ASSUME record.intact PROVE KeptBy(segments', d)
      <3>1. Len(segments') \in DOMAIN segments' /\ record \in ToSet(segments'[Len(segments')].records)
        BY <1>4
      <3>2. d.seq <= segments'[Len(segments')].last
        BY <1>0, <1>2, <1>5, <2>2
      <3> QED BY <1>0, <1>2, <2>2, <3>1, <3>2 DEF KeptBy
    <2>3. \A b \in queue'.unacked : KeptBy(segments', b)
      BY <1>0, <2>1, <2>2
    <2>4. ASSUME NEW i \in DOMAIN segments', NEW r \in ToSet(segments'[i].records), r.intact
          PROVE  r.seq <= segments'[i].last
      <3>1. CASE r = record
        <4>1. i = Len(segments')
          BY <1>4, <3>1
        <4> QED BY <1>0, <1>5, <2>4, <3>1, <4>1
      <3>2. CASE i \in DOMAIN segments /\ r \in ToSet(segments[i].records)
        <4>1. r.seq <= segments[i].last /\ r \in Recs
          BY <1>0, <1>1, <2>4, <3>2, NamesTyped DEF Kept
        <4> QED BY <1>0, <1>4, <1>5, <3>2, <4>1
      <3> QED BY <1>4, <3>1, <3>2
    <2>5. queue'.active => segments' # <<>> /\ \A i \in DOMAIN segments' : segments'[i].last <= Last(segments').last
      <3>1. segments' # <<>>
        BY <1>4
      <3> QED BY <1>0, <1>4, <3>1
    <2>6. ASSUME NEW r \in Recs', ~r.intact
          PROVE  queue'.unhealthy /\ batcher' = "off" /\ \A s \in Recs' : s.seq <= r.seq
      <3>1. r = record
        BY <1>3, <1>4, <2>6
      <3> QED BY <1>0, <1>4, <1>5, <2>6, <3>1
    <2> QED BY <2>3, <2>4, <2>5, <2>6 DEF Kept
  <1>13. Finished'
    <2>1. ~(d.seq <= meta'.acked)
      BY <1>2, <1>5
    <2>2. d.seq \notin queue.terminal
      BY <1>2, <1>5
    <2>3. \A b \in Known : b.seq <= meta'.acked => b.seq <= meta.acked
      BY <1>3, <1>5 DEF Named
    <2>4. \A r \in Recs' : r.seq <= meta'.acked => r \in Recs /\ r.seq <= meta.acked
      BY <1>0, <1>4, <1>5
    <2> QED BY <1>0, <1>1, <1>2, <2>1, <2>2, <2>3, <2>4 DEF Finished
  <1>14. Undamaged'
    <2>1. SUFFICES ASSUME "damage" \notin faults
                   PROVE  /\ queue'.phase # "refused"
                          /\ \A r \in Recs' : ~r.intact => \A s \in Recs' : s.seq <= r.seq
                          /\ \A p \in manifests : Through(p) > queue.acked => \E i \in DOMAIN segments' : Guarded(p, i)'
      BY <1>0, <1>2 DEF Undamaged
    <2>2. ASSUME NEW p \in manifests, Through(p) > queue.acked
          PROVE  \E i \in DOMAIN segments' : Guarded(p, i)'
      <3>1. PICK i \in DOMAIN segments : Guarded(p, i)
        BY <1>1, <1>2, <2>1, <2>2 DEF Undamaged
      <3>2. i \in DOMAIN segments' /\ \E r \in ToSet(segments'[i].records) : r.seq = p.root /\ r.intact
        BY <1>4, <3>1 DEF Guarded
      <3>3. i < Len(segments')
        <4>1. DOMAIN segments = 1 .. Len(segments) /\ Len(segments) \in Nat
          BY <1>1 DEF Types, FileTypes
        <4>2. (queue.active /\ Len(segments') = Len(segments)) \/ Len(segments') = Len(segments) + 1
          BY <1>0 DEF Joins
        <4>3. queue.active => i < Len(segments)
          BY <3>1 DEF Guarded
        <4> QED BY <4>1, <4>2, <4>3
      <3>4. \/ Through(p) <= segments[i].last
            \/ /\ p.parent \in SeqsOf(queue.unacked)
               /\ \/ p \notin queue.repacks
                  \/ \E c \in p.children : c.seq > queue.acked /\ c \notin queue.unacked
        BY <1>0, <3>1 DEF Guarded
      <3>5. Through(p) <= segments[i].last => Through(p) <= segments'[i].last
        <4>1. segments'[i].last = segments[i].last \/ segments'[i].last = q
          BY <1>0, <1>4
        <4>2. Through(p) \in Nat /\ Through(p) < q
          BY <1>3
        <4> QED BY <1>5, <4>1, <4>2
      <3>6. SeqsOf(queue.unacked) \subseteq SeqsOf(queue'.unacked)
        BY <1>0 DEF SeqsOf
      <3>7. \A c \in p.children : c \notin queue.unacked => c \notin queue'.unacked
        <4>1. \A c \in p.children : c \in Named
          BY <1>1, PlansOf DEF Named
        <4>2. \A c \in p.children : c # d
          BY <1>2, <1>3, <1>5, <4>1
        <4> QED BY <1>0, <4>2
      <3> QED BY <1>0, <1>2, <3>2, <3>3, <3>4, <3>5, <3>6, <3>7 DEF Guarded
    <2>3. queue'.phase = "up"
      BY <1>2 DEF IsUp
    <2>4. \A r \in Recs' : ~r.intact => \A s \in Recs' : s.seq <= r.seq
      BY <1>12, <1>2 DEF Kept
    <2> QED BY <2>2, <2>3, <2>4
  <1> QED BY <1>4, <1>6, <1>7, <1>8, <1>9, <1>11, <1>12, <1>13, <1>14

\* The events of an appended record are new, and those before them are done or stored.
LEMMA AppendsKeepEvents ==
  ASSUME CollectorInv, NEW record, Appends(record)
  PROVE  Coverage' /\ Origins' /\ Once'
  <1> USE CollectorAssumption, QueueAssumption
  <1> DEFINE d == Descriptor(record)
             q == queue.next
  <1>0. /\ batcher = "on" /\ work # <<>> /\ IsUp /\ ~queue.unhealthy /\ ~TooLarge(Head(work))
        /\ record \in RecordType /\ record.seq = q /\ record.events = Head(work)
        /\ Joins(record)
        /\ UNCHANGED <<manifests, senderVars, checkpoint, dead, verdicts>>
        /\ faults \subseteq faults'
        /\ queue'.acked = queue.acked
        /\ queue'.active = record.intact
    BY DEF Appends
  <1>1. /\ Types /\ FilesInOrder /\ Used /\ Identity /\ Families /\ Memory /\ Kept /\ Finished /\ Coverage
        /\ Origins /\ Once
    BY DEF CollectorInv
  <1>2. /\ Settled' = Settled /\ Final' = Final /\ Stored' = Stored /\ Done' = Done
        /\ Children' = Children /\ Low' = queue.acked /\ Low = queue.acked
        /\ d \in Batch /\ d.seq = q /\ d.root = q /\ d.events = Head(work)
        /\ Known' = Known \cup {d}
        /\ \A b \in Named : b.seq \in Nat /\ b.seq < q
        /\ \A p \in manifests : p.root \in Nat /\ p.root < q
        /\ \A b \in Known : b.seq > queue.acked => b \in queue.unacked
        /\ \A r \in Recs : r.intact
    BY AppendedNames
  <1>3. /\ Recs' = Recs \cup {record} /\ record \notin Recs
        /\ \A r \in Recs : r.seq \in Nat /\ r.seq < record.seq
        /\ DOMAIN segments' = 1 .. Len(segments') /\ Len(segments') \in Nat \ {0}
        /\ Last(segments') = segments'[Len(segments')]
    BY <1>0, <1>1, JoinedOf
  <1>4. q \in Nat /\ queue.acked \in Nat /\ queue.acked < q
    BY <1>0, <1>1, QueueTyped DEF Used
  <1>5. /\ Head(work) = work[1] /\ 1 \in 1 .. Len(work) /\ Head(work) \subseteq InHand
        /\ Head(work) \subseteq 1 .. Events
    BY <1>0, <1>1, HandOf
  <1>6. /\ 1 .. readPos \subseteq Done \cup EventsOf(Recs) \cup InHand
        /\ readPos \in 0 .. Events /\ checkpoint \in 0 .. Events
        /\ \A r \in Recs : \A e \in r.events : e \in Nat /\ e <= readPos /\ \A h \in InHand : e < h
        /\ \A h \in InHand : h \in 1 .. Events /\ checkpoint < h /\ h <= readPos /\ h \notin Undecodable
        /\ \A i, k \in 1 .. Len(work) : i < k => \A a \in work[i], e \in work[k] : a < e
        /\ \A i \in 1 .. Len(work) : \A a \in work[i], e \in batch : a < e
    BY <1>0, OrderNow
  <1>7. Head(work) \cap Huge = {}
    BY <1>0 DEF TooLarge, RecordSize, QueueAssumption
  <1> HIDE DEF d, q
  \* What is in hand and not in the record comes after it.
  <1>8. ASSUME NEW x \in Head(work), NEW e \in InHand, e <= x PROVE e \in Head(work)
    <2>1. e \in Nat /\ x \in Nat
      BY <1>5, <1>6
    <2>2. e \notin batch
      <3>1. e \in batch => x < e
        BY <1>5, <1>6
      <3> QED BY <1>8, <2>1, <3>1
    <2>3. PICK k \in 1 .. Len(work) : e \in work[k]
      BY <1>1, <2>2, HandOf
    <2>4. CASE k = 1
      BY <1>5, <2>3, <2>4
    <2>5. CASE k # 1
      <3>1. 1 < k
        BY <2>3, <2>5
      <3>2. x < e
        BY <1>5, <1>6, <2>3, <3>1
      <3> QED BY <1>8, <2>1, <3>2
    <2> QED BY <2>4, <2>5
  <1>9. Coverage'
    <2>1. SUFFICES ASSUME NEW r \in Recs', Sound(r)', NEW x \in r.events, NEW e \in 1 .. x
                   PROVE  e \in Done \/ \E s \in Recs' : s.seq <= r.seq /\ e \in s.events
      BY <1>2 DEF Coverage
    <2>2. CASE r \in Recs
      <3>1. Sound(r)
        BY <1>2 DEF Sound
      <3>2. e \in Done \/ \E s \in Recs : s.seq <= r.seq /\ e \in s.events
        BY <1>1, <2>1, <2>2, <3>1 DEF Coverage
      <3> QED BY <1>3, <3>2
    <2>3. CASE r = record
      <3>1. x \in Head(work) /\ x \in InHand /\ x \in 1 .. Events /\ x <= readPos
        BY <1>0, <1>5, <1>6, <2>1, <2>3
      <3>2. e \in 1 .. readPos /\ e <= x
        BY <1>6, <2>1, <3>1
      <3>3. CASE e \in EventsOf(Recs)
        <4>1. PICK s \in Recs : e \in s.events
          BY <3>3 DEF EventsOf
        <4>2. s.seq <= record.seq
          BY <1>0, <1>3, <1>4
        <4> QED BY <1>3, <2>3, <4>1, <4>2
      <3>4. CASE e \in InHand
        <4>1. e \in record.events
          BY <1>0, <1>8, <3>1, <3>2, <3>4
        <4> QED BY <1>0, <1>3, <1>4, <2>3, <4>1
      <3> QED BY <1>6, <3>2, <3>3, <3>4
    <2> QED BY <1>3, <2>2, <2>3
  <1>10. Origins'
    <2>1. record.events \cap (Undecodable \cup Huge) = {}
      BY <1>0, <1>5, <1>6, <1>7
    <2>2. ASSUME NEW c \in Children PROVE c.root # record.seq
      <3>1. PICK p \in manifests : c \in p.children
        BY DEF Children
      <3>2. c.root = p.root
        BY <1>1, <3>1, PlansOf
      <3> QED BY <1>0, <1>2, <1>4, <3>2
    <2> QED BY <1>0, <1>1, <1>2, <1>3, <2>1, <2>2 DEF Origins, EventsOf
  <1>11. Once'
    <2>1. SUFFICES ASSUME SyncAlways, "damage" \notin faults PROVE
            /\ \A r \in Recs' : InDoubt(r)' => r.seq > queue.acked /\ Descriptor(r) \notin queue'.unacked
            /\ \A v \in Final : \A e \in v.events :
                 e <= checkpoint \/ \E r \in Recs' : r.intact /\ e \in r.events /\ ~InDoubt(r)'
            /\ \A v, w \in Final : v # w => v.events \cap w.events = {}
            /\ \A a, b \in Leaves' : a # b => a.events \cap b.events = {}
            /\ \A b \in Leaves', v \in Final : v.seq # b.seq => v.events \cap b.events = {}
            /\ Stored \cap dead = {}
      BY <1>0, <1>2 DEF Once
    <2>2. /\ \A r \in Recs : InDoubt(r) => r.seq > queue.acked /\ Descriptor(r) \notin queue.unacked
          /\ \A v \in Final : \A e \in v.events :
               e <= checkpoint \/ \E r \in Recs : r.intact /\ e \in r.events /\ ~InDoubt(r)
          /\ \A v, w \in Final : v # w => v.events \cap w.events = {}
          /\ \A a, b \in Leaves : a # b => a.events \cap b.events = {}
          /\ \A b \in Leaves, v \in Final : v.seq # b.seq => v.events \cap b.events = {}
          /\ Stored \cap dead = {}
      BY <1>1, <2>1 DEF Once
    \* A record in doubt was so before, or is one the queue does not know.
    <2>3. ASSUME NEW r \in Recs', InDoubt(r)'
          PROVE  /\ queue'.unacked = queue.unacked
                 /\ r = record \/ (r \in Recs /\ InDoubt(r))
      <3> DEFINE m == Len(segments')
      <3>1. PICK j \in DOMAIN segments'[m].records : j > queue'.synced /\ r = segments'[m].records[j]
        BY <1>3, <2>3 DEF InDoubt
      <3>2. segments'[m].records \in Seq(RecordType) /\ j \in 1 .. Len(segments'[m].records)
        <4>1. segments' \in Seq(SegmentType)
          BY <1>0 DEF Joins
        <4>2. segments'[m] \in SegmentType
          BY <1>3, <4>1
        <4>3. segments'[m].records \in Seq(RecordType)
          BY <4>2 DEF SegmentType
        <4> HIDE DEF m
        <4> QED BY <3>1, <4>3
      <3>3. CASE queue'.synced = Len(segments'[m].records)
        BY <3>1, <3>2, <3>3
      <3>4. CASE /\ queue'.unacked = queue.unacked
                 /\ queue'.synced = IF Len(segments') = Len(segments) THEN queue.synced ELSE 0
        <4>1. CASE m = Len(segments)
          <5>1. /\ queue.active /\ m # 0 /\ segments[m].records \in Seq(RecordType)
                /\ segments'[m].records = Append(segments[m].records, record)
            <6>1. m # Len(segments) + 1 /\ segments \in Seq(SegmentType)
              BY <1>1, <4>1 DEF Types, FileTypes
            <6>2. m \in 1 .. Len(segments)
              BY <1>3, <4>1
            <6>3. segments[m] \in SegmentType
              BY <6>1, <6>2
            <6> QED BY <1>0, <4>1, <6>1, <6>3 DEF Joins, SegmentType
          <5> DEFINE old == segments[m].records
          <5> HIDE DEF old
          <5>2. /\ Len(Append(old, record)) = Len(old) + 1 /\ Len(old) \in Nat
                /\ \A i \in 1 .. Len(old) : Append(old, record)[i] = old[i]
                /\ Append(old, record)[Len(old) + 1] = record
                /\ DOMAIN old = 1 .. Len(old)
            BY <1>0, <5>1, AppendProperties DEF old
          <5>3. j \in 1 .. Len(old) \/ j = Len(old) + 1
            BY <3>2, <5>1, <5>2 DEF old
          <5>4. CASE j = Len(old) + 1
            BY <3>1, <3>4, <5>1, <5>2, <5>4 DEF old
          <5>5. CASE j \in 1 .. Len(old)
            <6>1. r = old[j] /\ j \in DOMAIN old /\ j > queue.synced
              BY <3>1, <3>4, <4>1, <5>1, <5>2, <5>5 DEF old
            <6>2. r \in ToSet(segments[m].records) /\ m \in DOMAIN segments
              <7>1. segments \in Seq(SegmentType)
                BY <1>1 DEF Types, FileTypes
              <7>2. m \in DOMAIN segments
                BY <1>3, <4>1, <7>1
              <7> QED BY <5>1, <6>1, <7>2, ToSetOf DEF old
            <6>3. Last(segments).records = old
              BY <4>1 DEF Last, old
            <6> QED BY <1>1, <3>4, <5>1, <6>1, <6>2, <6>3, NamesTyped DEF InDoubt
          <5> QED BY <5>3, <5>4, <5>5
        <4>2. CASE m # Len(segments)
          <5>1. segments'[m].records = <<record>>
            BY <1>0, <4>2 DEF Joins
          <5> QED BY <3>1, <3>2, <3>4, <5>1
        <4> QED BY <4>1, <4>2
      <3> QED BY <2>1, <3>3, <3>4 DEF Appends
    <2>4. ASSUME NEW r \in Recs', InDoubt(r)'
          PROVE  r.seq > queue.acked /\ Descriptor(r) \notin queue'.unacked
      <3>1. CASE r = record
        <4>1. \A b \in queue.unacked : b \in Named
          BY <1>0, <1>1 DEF Memory, Named
        <4>2. d \notin queue.unacked
          BY <1>2, <1>4, <4>1
        <4> QED BY <1>0, <1>4, <2>3, <2>4, <3>1, <4>2 DEF d
      <3>2. CASE r \in Recs /\ InDoubt(r)
        BY <2>2, <2>3, <2>4, <3>2
      <3> QED BY <2>3, <2>4, <3>1, <3>2
    <2>5. \A r \in Recs : ~InDoubt(r) => ~InDoubt(r)'
      BY <1>3, <2>3
    <2>6. \A v \in Final : \A e \in v.events :
            e <= checkpoint \/ \E r \in Recs' : r.intact /\ e \in r.events /\ ~InDoubt(r)'
      BY <1>3, <2>2, <2>5
    <2>7. Leaves' \subseteq Leaves \cup {d}
      BY <1>0, <1>2 DEF Leaves
    <2>8. ASSUME NEW v \in Final PROVE v.events \cap d.events = {}
      <3>1. ASSUME NEW e \in v.events, e \in Head(work) PROVE FALSE
        <4>1. checkpoint < e /\ e \in Nat /\ \A r \in Recs : e \notin r.events
          <5>1. e \in InHand /\ e \in Nat
            BY <1>5, <3>1
          <5>2. \A r \in Recs : \A x \in r.events : x \in Nat /\ x < e
            BY <1>6, <5>1
          <5> QED BY <1>6, <5>1, <5>2
        <4>2. ~(e <= checkpoint)
          BY <1>6, <4>1
        <4> QED BY <2>2, <3>1, <4>1, <4>2
      <3> QED BY <1>2, <3>1
    <2>9. ASSUME NEW b \in Leaves PROVE b.events \cap d.events = {}
      <3>1. b \in queue.unacked
        BY <1>2 DEF Leaves
      <3>2. PICK r \in Recs : b.events \subseteq r.events
        BY <1>0, <1>1, <3>1, RootOf
      <3>3. ASSUME NEW e \in b.events, e \in Head(work) PROVE FALSE
        <4>1. e \in r.events /\ e \in InHand /\ e \in Nat
          BY <1>5, <3>2, <3>3
        <4>2. e < e
          BY <1>6, <4>1
        <4> QED BY <4>1, <4>2
      <3> QED BY <1>2, <3>3
    <2>10. \A a, b \in Leaves' : a # b => a.events \cap b.events = {}
      BY <2>2, <2>7, <2>9
    <2>11. \A b \in Leaves', v \in Final : v.seq # b.seq => v.events \cap b.events = {}
      BY <2>2, <2>7, <2>8
    <2> QED BY <2>2, <2>4, <2>6, <2>10, <2>11
  <1> QED BY <1>9, <1>10, <1>11

\* The batcher's next batch is stored.
LEMMA FlushAppendsKeeps ==
  ASSUME CollectorInv, FlushAppends
  PROVE  CollectorInv'
  <1> USE CollectorAssumption, QueueAssumption
  <1> DEFINE record == [seq |-> queue.next, made |-> epoch, events |-> Head(work), intact |-> TRUE]
             files == Written(segments, queue.active, record)
  <1>0. /\ batcher = "on" /\ work # <<>> /\ IsUp /\ ~queue.unhealthy /\ ~TooLarge(Head(work))
        /\ meta' = (IF Allocated.reserved = queue.reserved THEN meta ELSE MetaOf(Allocated))
        /\ segments' = files
        /\ queue' = [Allocated EXCEPT
                      !.active = TRUE,
                      !.synced = IF SyncAlways THEN Len(Last(files).records)
                                 ELSE IF Len(files) = Len(segments) THEN @ ELSE 0,
                      !.unacked = @ \cup {Descriptor(record)}]
        /\ work' = Tail(work)
        /\ UNCHANGED <<manifests, senderVars, verdicts, epoch>>
        /\ UNCHANGED <<readPos, batch, batcher, checkpoint, dead, faults>>
    BY DEF FlushAppends, Flushing, AppendBatch, CanAppend, NoFault
  <1>1. Types /\ FilesInOrder /\ Used /\ Kept
    BY DEF CollectorInv
  <1>2. /\ Head(work) = work[1] /\ 1 \in 1 .. Len(work) /\ Head(work) \subseteq InHand
        /\ Head(work) \subseteq 1 .. Events /\ Len(work) \in Nat
        /\ work' \in Seq(Chunk) /\ Len(work') = Len(work) - 1
        /\ \A i \in 1 .. Len(work) - 1 : work'[i] = work[i + 1]
    BY <1>0, <1>1, HandOf
  <1>3. /\ record \in RecordType /\ record.seq = queue.next /\ record.events = Head(work) /\ record.intact
        /\ queue \in QueueType /\ queue.next \in Nat \ {0} /\ epoch \in Nat /\ queue.unacked \subseteq Batch
    <2>1. queue \in QueueType /\ queue.next \in Nat \ {0} /\ epoch \in Nat /\ queue.unacked \subseteq Batch
      BY <1>1, QueueTyped DEF Types, SendTypes
    <2> QED BY <1>2, <2>1 DEF RecordType
  <1> HIDE DEF record
  <1>4. Joins(record) /\ segments'[Len(segments')].last = record.seq
    BY <1>0, <1>1, <1>3, WrittenJoins
  <1>5. /\ Last(files).records = segments'[Len(segments')].records
        /\ Len(segments'[Len(segments')].records) \in Nat
    <2>1. /\ Last(segments') = segments'[Len(segments')] /\ Len(segments') \in Nat \ {0}
          /\ DOMAIN segments' = 1 .. Len(segments')
      BY <1>0, <1>1, <1>3, <1>4, JoinedOf
    <2>2. segments' \in Seq(SegmentType)
      BY <1>4 DEF Joins
    <2>3. segments'[Len(segments')] \in SegmentType
      BY <2>1, <2>2
    <2>4. segments'[Len(segments')].records \in Seq(RecordType)
      BY <2>3 DEF SegmentType
    <2> QED BY <1>0, <2>1, <2>4
  <1>6. /\ Allocated = [queue EXCEPT !.next = queue.next + 1, !.reserved = Allocated.reserved]
        /\ Allocated.reserved \in Nat
    BY <1>0, ReservedOf
  <1>7. Descriptor(record) \in Batch
    BY <1>3 DEF Descriptor, RecordType, Batch
  <1> HIDE DEF files
  <1>8. PICK n \in Nat : /\ queue' = [queue EXCEPT !.next = queue.next + 1, !.reserved = Allocated.reserved,
                                          !.active = TRUE, !.synced = n,
                                          !.unacked = queue.unacked \cup {Descriptor(record)}]
                         /\ SyncAlways => n = Len(segments'[Len(segments')].records)
    <2> DEFINE n == IF SyncAlways THEN Len(Last(files).records)
                    ELSE IF Len(files) = Len(segments) THEN queue.synced ELSE 0
    <2>1. queue.synced \in Nat /\ Allocated.synced = queue.synced /\ Allocated.unacked = queue.unacked
      BY <1>3, <1>6 DEF QueueType
    <2>2. n \in Nat /\ (SyncAlways => n = Len(segments'[Len(segments')].records))
      BY <1>5, <2>1
    <2>3. queue' = [Allocated EXCEPT !.active = TRUE, !.synced = n,
                                     !.unacked = queue.unacked \cup {Descriptor(record)}]
      BY <1>0, <2>1
    <2> HIDE DEF n
    <2>4. queue' = [queue EXCEPT !.next = queue.next + 1, !.reserved = Allocated.reserved,
                                          !.active = TRUE, !.synced = n,
                                          !.unacked = queue.unacked \cup {Descriptor(record)}]
      BY <1>3, <1>6, <2>3 DEF QueueType
    <2> QED BY <2>2, <2>4
  <1>9. Appends(record)
    <2>1. queue.unacked \cup {Descriptor(record)} \subseteq Batch /\ queue.next + 1 \in Nat \ {0}
      BY <1>3, <1>7
    <2>2. queue' \in QueueType
      BY <1>3, <1>6, <1>8, <2>1 DEF QueueType
    <2>3. /\ queue'.phase = queue.phase /\ queue'.acked = queue.acked
          /\ queue'.terminal = queue.terminal /\ queue'.repacks = queue.repacks /\ queue'.handed = queue.handed
          /\ queue'.next = queue.next + 1 /\ queue'.reserved = Allocated.reserved
          /\ queue'.active = TRUE /\ queue'.unhealthy = queue.unhealthy
          /\ queue'.unacked = queue.unacked \cup {Descriptor(record)} /\ queue'.synced = n
      BY <1>3, <1>8 DEF QueueType
    <2>4. faults \subseteq faults' /\ faults' \subseteq Faults
      BY <1>0, <1>1 DEF Types, SendTypes
    <2> QED BY <1>0, <1>3, <1>4, <1>8, <2>2, <2>3, <2>4 DEF Appends
  <1>10. /\ SendTypes' /\ Shut' /\ Sending' /\ Past' /\ References' /\ Done' = Done
    BY <1>9, AppendedNames
  <1>11. /\ FileTypes' /\ FilesInOrder' /\ Used' /\ Identity' /\ Families' /\ Memory' /\ Kept'
         /\ Finished' /\ Undamaged'
    BY <1>9, AppendsKeepQueue
  <1>12. Coverage' /\ Origins' /\ Once'
    BY <1>9, AppendsKeepEvents
  <1>13. Types'
    <2>1. PipeTypes'
      BY <1>0, <1>1, <1>2 DEF Types, PipeTypes
    <2>2. queue' \in QueueType
      BY <1>9 DEF Appends
    <2> QED BY <1>10, <1>11, <2>1, <2>2 DEF Types
  <1>14. Dropping'
    BY <1>0 DEF Dropping
  <1>15. Recs' = Recs \cup {record}
    BY <1>0, <1>1, <1>3, <1>4, JoinedOf
  <1>16. \A e : e \in InHand <=> e \in Head(work) \/ e \in InHand'
    <2>1. \A x : x \in ToSet(work') <=> \E i \in 1 .. Len(work') : x = work'[i]
      BY <1>2, ToSetOf
    <2>2. \A e : e \in InHand' <=> e \in batch \/ \E i \in 1 .. Len(work) - 1 : e \in work[i + 1]
      BY <1>0, <1>2, <2>1 DEF InHand
    <2>3. ASSUME NEW e \in InHand' PROVE e \in InHand
      <3>1. ASSUME NEW i \in 1 .. Len(work) - 1, e \in work[i + 1] PROVE e \in InHand
        <4>1. i + 1 \in 1 .. Len(work)
          BY <1>2
        <4> QED BY <1>1, <3>1, <4>1, HandOf
      <3> QED BY <1>1, <2>2, <3>1, HandOf
    <2>4. ASSUME NEW e \in InHand, e \notin batch PROVE e \in Head(work) \/ e \in InHand'
      <3>1. PICK i \in 1 .. Len(work) : e \in work[i]
        BY <1>1, <2>4, HandOf
      <3>2. CASE i = 1
        BY <1>2, <3>1, <3>2
      <3>3. CASE i # 1
        <4>1. i - 1 \in 1 .. Len(work) - 1 /\ (i - 1) + 1 = i
          BY <1>2, <3>3
        <4> QED BY <2>2, <3>1, <4>1
      <3> QED BY <3>2, <3>3
    <2> QED BY <1>2, <2>2, <2>3, <2>4
  <1>17. \A d \in Head(work), h \in InHand' : d < h
    <2>1. \A x : x \in ToSet(work') <=> \E i \in 1 .. Len(work') : x = work'[i]
      BY <1>2, ToSetOf
    <2>2. \A d \in Head(work), h \in batch : d < h
      BY <1>0, <1>2, OrderNow
    <2>3. ASSUME NEW i \in 1 .. Len(work'), NEW h \in work'[i], NEW d \in Head(work) PROVE d < h
      <3>1. i + 1 \in 1 .. Len(work) /\ h \in work[i + 1] /\ 1 < i + 1
        BY <1>2
      <3> QED BY <1>0, <1>2, <3>1, OrderNow
    <2> QED BY <1>0, <2>1, <2>2, <2>3 DEF InHand
  <1>18. InOrder'
    <2>1. EventsOf(Recs)' = EventsOf(Recs) \cup Head(work)
      BY <1>3, <1>15 DEF EventsOf
    <2>2. 1 .. readPos' \subseteq Done \cup EventsOf(Recs)' \cup InHand'
      BY <1>0, <1>16, <2>1, OrderNow
    <2>3. checkpoint' <= readPos'
      BY <1>0, OrderNow
    <2>4. \A r \in Recs' : \A e \in r.events : e <= readPos' /\ \A h \in InHand' : e < h
      <3>1. \A r \in Recs : \A e \in r.events : e <= readPos' /\ \A h \in InHand' : e < h
        BY <1>0, <1>16, OrderNow
      <3>2. \A e \in Head(work) : e <= readPos' /\ \A h \in InHand' : e < h
        BY <1>0, <1>2, <1>17, OrderNow
      <3> QED BY <1>3, <1>15, <3>1, <3>2
    <2>5. \A h \in InHand' : checkpoint' < h /\ h <= readPos' /\ h \notin Undecodable
      BY <1>0, <1>16, OrderNow
    <2>6. ASSUME NEW i \in DOMAIN work', NEW k \in DOMAIN work', i < k
          PROVE  \A d \in work'[i], e \in work'[k] : d < e
      <3>1. i + 1 \in 1 .. Len(work) /\ k + 1 \in 1 .. Len(work) /\ i + 1 < k + 1
            /\ work'[i] = work[i + 1] /\ work'[k] = work[k + 1]
        BY <1>2, <2>6
      <3> QED BY <1>0, <3>1, OrderNow
    <2>7. ASSUME NEW i \in DOMAIN work' PROVE \A d \in work'[i], e \in batch : d < e
      <3>1. i + 1 \in 1 .. Len(work) /\ work'[i] = work[i + 1]
        BY <1>2
      <3> QED BY <1>0, <3>1, OrderNow
    <2> QED BY <1>0, <1>10, <2>2, <2>3, <2>4, <2>5, <2>6, <2>7 DEF InOrder
  <1> QED BY <1>10, <1>11, <1>12, <1>13, <1>14, <1>18 DEF CollectorInv

\* The daemon stops: nothing is in hand any more.
LEMMA NothingInHand ==
  ASSUME batcher' = "off", batch' = {}, work' = <<>>, readPos' \in 0 .. Events,
         checkpoint' \in 0 .. Events, dead' \subseteq 1 .. Events
  PROVE  PipeTypes' /\ InOrder' /\ Dropping'
  <1>1. <<>> \in Seq(Chunk)
    OBVIOUS
  <1> QED BY <1>1 DEF PipeTypes, InOrder, Dropping

\* A write that fails leaves a record, whole or torn, that the queue does not know.
LEMMA FailsToWriteKeeps ==
  ASSUME CollectorInv, FlushFails, NEW intact \in BOOLEAN, AppendFailsToWrite(Head(work), epoch, intact)
  PROVE  CollectorInv'
  <1> USE CollectorAssumption, QueueAssumption
  <1> DEFINE record == [seq |-> queue.next, made |-> epoch, events |-> Head(work), intact |-> intact]
             files == Written(segments, queue.active, record)
  <1>0. /\ batcher = "on" /\ work # <<>>
        /\ work' = <<>> /\ batch' = {} /\ batcher' = "off"
        /\ UNCHANGED <<senderVars, readPos, checkpoint, dead, verdicts, epoch>>
        /\ Fault("append")
    BY DEF FlushFails, Flushing
  <1>1. /\ IsUp /\ ~queue.unhealthy /\ ~TooLarge(Head(work))
        /\ meta' = (IF Allocated.reserved = queue.reserved THEN meta ELSE MetaOf(Allocated))
        /\ segments' = IF intact \/ Len(files) # Len(segments) THEN files
                       ELSE [files EXCEPT ![Len(files)].last = Last(segments).last]
        /\ queue' = [Allocated EXCEPT !.active = intact,
                                      !.synced = IF Len(segments') = Len(segments) THEN @ ELSE 0,
                                      !.unhealthy = TRUE]
        /\ UNCHANGED <<manifests, quarantined>>
    BY DEF AppendFailsToWrite, CanAppend
  <1>2. Types /\ FilesInOrder /\ Used /\ Kept
    BY DEF CollectorInv
  <1>3. Head(work) \subseteq 1 .. Events
    BY <1>0, <1>2, HandOf
  <1>4. /\ record \in RecordType /\ record.seq = queue.next /\ record.events = Head(work) /\ record.intact = intact
        /\ queue \in QueueType /\ queue.next \in Nat \ {0} /\ epoch \in Nat
    <2>1. queue \in QueueType /\ queue.next \in Nat \ {0} /\ epoch \in Nat
      BY <1>2, QueueTyped DEF Types, SendTypes
    <2> QED BY <1>3, <2>1 DEF RecordType
  <1> HIDE DEF record
  <1>5. Joins(record) /\ (record.intact => segments'[Len(segments')].last = record.seq)
    BY <1>1, <1>2, <1>4, WrittenJoins
  <1> HIDE DEF files
  <1>6. /\ Allocated = [queue EXCEPT !.next = queue.next + 1, !.reserved = Allocated.reserved]
        /\ Allocated.reserved \in Nat
    BY <1>1, ReservedOf
  <1>7. PICK n \in Nat : /\ queue' = [queue EXCEPT !.next = queue.next + 1, !.reserved = Allocated.reserved,
                                                   !.active = intact, !.synced = n, !.unhealthy = TRUE]
                         /\ n = IF Len(segments') = Len(segments) THEN queue.synced ELSE 0
    <2> DEFINE n == IF Len(segments') = Len(segments) THEN queue.synced ELSE 0
    <2>1. queue.synced \in Nat /\ Allocated.synced = queue.synced
      BY <1>4, <1>6 DEF QueueType
    <2>2. n \in Nat
      BY <2>1
    <2>3. queue' = [Allocated EXCEPT !.active = intact, !.synced = n, !.unhealthy = TRUE]
      BY <1>1, <2>1
    <2>4. n = IF Len(segments') = Len(segments) THEN queue.synced ELSE 0
      OBVIOUS
    <2> HIDE DEF n
    <2>5. queue' = [queue EXCEPT !.next = queue.next + 1, !.reserved = Allocated.reserved,
                                 !.active = intact, !.synced = n, !.unhealthy = TRUE]
      BY <1>4, <1>6, <2>3 DEF QueueType
    <2> QED BY <2>2, <2>4, <2>5
  <1>8. Appends(record)
    <2>1. queue.next + 1 \in Nat \ {0}
      BY <1>4
    <2>2. queue' \in QueueType
      BY <1>4, <1>6, <1>7, <2>1 DEF QueueType
    <2>3. /\ queue'.phase = queue.phase /\ queue'.acked = queue.acked
          /\ queue'.terminal = queue.terminal /\ queue'.repacks = queue.repacks /\ queue'.handed = queue.handed
          /\ queue'.next = queue.next + 1 /\ queue'.reserved = Allocated.reserved
          /\ queue'.active = intact /\ queue'.unhealthy = TRUE
          /\ queue'.unacked = queue.unacked /\ queue'.synced = n
      BY <1>4, <1>7 DEF QueueType
    <2>4. faults \subseteq faults' /\ faults' \subseteq Faults
      BY <1>0, <1>2 DEF Types, SendTypes, Fault
    <2> QED BY <1>0, <1>1, <1>4, <1>5, <1>7, <2>2, <2>3, <2>4 DEF Appends
  <1>9. /\ SendTypes' /\ Shut' /\ Sending' /\ Past' /\ References'
    BY <1>8, AppendedNames
  <1>10. /\ FileTypes' /\ FilesInOrder' /\ Used' /\ Identity' /\ Families' /\ Memory' /\ Kept'
         /\ Finished' /\ Undamaged'
    BY <1>8, AppendsKeepQueue
  <1>11. Coverage' /\ Origins' /\ Once'
    BY <1>8, AppendsKeepEvents
  <1>12. PipeTypes' /\ InOrder' /\ Dropping'
    <2>1. readPos' \in 0 .. Events /\ checkpoint' \in 0 .. Events /\ dead' \subseteq 1 .. Events
      BY <1>0, <1>2 DEF Types, PipeTypes
    <2> QED BY <1>0, <2>1, NothingInHand
  <1>13. Types'
    BY <1>8, <1>9, <1>10, <1>12 DEF Types, Appends
  <1> QED BY <1>9, <1>10, <1>11, <1>12, <1>13 DEF CollectorInv

\* A sequence that could not be reserved is burned.
LEMMA FailsToReserveKeeps ==
  ASSUME CollectorInv, FlushFails, AppendFailsToReserve(Head(work))
  PROVE  CollectorInv'
  <1> USE CollectorAssumption, QueueAssumption
  <1>0. /\ work' = <<>> /\ batch' = {} /\ batcher' = "off" /\ batcher = "on"
        /\ UNCHANGED <<senderVars, readPos, checkpoint, dead, verdicts, epoch>>
        /\ Fault("append")
        /\ IsUp /\ ~queue.unhealthy
        /\ meta' \in {meta, MetaOf(Allocated)}
        /\ queue' = [queue EXCEPT !.next = @ + 1, !.active = FALSE, !.synced = 0]
        /\ UNCHANGED <<segments, manifests, quarantined>>
    BY DEF FlushFails, Flushing, AppendFailsToReserve, CanAppend
  <1>1. /\ Types /\ FilesInOrder /\ Used /\ Identity /\ Families /\ Memory /\ Kept /\ Finished
        /\ Coverage /\ References /\ Undamaged /\ Origins /\ Once
    BY DEF CollectorInv
  <1>2. /\ queue \in QueueType /\ queue.next \in Nat \ {0} /\ queue.acked \in Nat /\ queue.handed \in Nat
        /\ queue.acked < queue.next /\ queue.handed < queue.next /\ meta.acked \in Nat
        /\ \A n \in queue.terminal : n \in Nat /\ 0 < n /\ n < queue.next
    BY <1>0, <1>1, QueueTyped DEF Types, Used
  <1>3. /\ queue' \in QueueType /\ queue'.phase = queue.phase /\ queue'.next = queue.next + 1
        /\ queue'.reserved = queue.reserved /\ queue'.acked = queue.acked /\ queue'.terminal = queue.terminal
        /\ queue'.repacks = queue.repacks /\ queue'.handed = queue.handed /\ queue'.unacked = queue.unacked
        /\ queue'.active = FALSE /\ queue'.unhealthy = queue.unhealthy
    <2>1. queue.next + 1 \in Nat \ {0}
      BY <1>2
    <2> QED BY <1>0, <1>2, <2>1 DEF QueueType
  <1>4. MetaFits
    BY <1>0, ReservedOf
  <1>5. faults \subseteq faults' /\ faults' \subseteq Faults
    BY <1>0, <1>1 DEF Types, SendTypes, Fault
  <1>6. /\ SendTypes' /\ Shut' /\ Sending' /\ Past' /\ References'
        /\ Final' = Final /\ Settled' = Settled /\ Stored' = Stored /\ Done' = Done
        /\ Children' = Children /\ IsUp' /\ Running' /\ Running /\ Low' = queue.acked /\ Low = queue.acked
    <2>1. \A b \in queue'.unacked \ queue.unacked : b.seq = queue.next
      BY <1>3
    <2> QED BY <1>0, <1>3, <1>4, <1>5, <2>1, AppendFrame
  <1>7. Recs' = Recs /\ Known' = Known /\ Named' = Named
    BY <1>0, <1>6 DEF Recs, RecsOf, Known, Named, senderVars
  <1>8. PipeTypes' /\ InOrder' /\ Dropping'
    <2>1. readPos' \in 0 .. Events /\ checkpoint' \in 0 .. Events /\ dead' \subseteq 1 .. Events
      BY <1>0, <1>1 DEF Types, PipeTypes
    <2> QED BY <1>0, <2>1, NothingInHand
  <1>9. Types'
    <2>1. FileTypes'
      BY <1>0, <1>1, <1>4 DEF Types, FileTypes, MetaFits, MetaType
    <2> QED BY <1>3, <1>6, <1>8, <2>1 DEF Types
  <1>10. FilesInOrder'
    BY <1>0, <1>1 DEF FilesInOrder, SegmentInOrder
  <1>11. Used'
    <2>1. \A n \in SeqsOf(Named) \cup SeqsOf(verdicts) : n \in Nat /\ 0 < n /\ n < queue.next /\ n < meta.next
      <3>1. \A v \in verdicts : v.seq \in Nat
        BY <1>1 DEF Types, SendTypes
      <3>2. \A b \in Named : b.seq \in Nat
        BY <1>1, NamesTyped DEF Batch
      <3>3. \A n \in SeqsOf(Named) \cup SeqsOf(verdicts) : n \in Nat
        BY <3>1, <3>2 DEF SeqsOf
      <3> QED BY <1>1, <1>6, <3>3 DEF Used
    <2>2. \A n \in SeqsOf(Named)' \cup SeqsOf(verdicts)' : 0 < n /\ n < queue'.next /\ n < meta'.next
      <3>1. SeqsOf(Named)' \cup SeqsOf(verdicts)' = SeqsOf(Named) \cup SeqsOf(verdicts)
        BY <1>0, <1>7 DEF SeqsOf
      <3>2. \A n \in Nat : n < queue.next => n < queue'.next
        BY <1>2, <1>3
      <3> QED BY <1>4, <2>1, <3>1, <3>2 DEF MetaFits
    <2>3. \A i \in DOMAIN segments : segments[i].last \in Nat /\ segments[i].last < queue.next
      BY <1>0, <1>1, NamesTyped DEF Used, SegmentType
    <2>4. \A n \in Nat : n < queue.next => n < queue.next + 1
      BY <1>2
    <2>5. meta'.acked < queue.next /\ meta'.acked \in Nat /\ meta'.acked < meta'.next /\ queue.acked <= meta'.acked
          /\ queue.reserved <= meta'.next
      BY <1>4 DEF MetaFits, MetaType
    <2>6. queue'.phase = "up" /\ queue.phase = "up"
      BY <1>3, <1>6 DEF IsUp
    <2>7. \A i \in DOMAIN segments' : segments'[i].last < queue'.next
      BY <1>0, <1>3, <2>3, <2>4
    <2>8. \A n \in queue'.terminal : 0 < n /\ n < queue'.next
      BY <1>2, <1>3, <2>4
    <2> QED BY <1>2, <1>3, <2>2, <2>4, <2>5, <2>6, <2>7, <2>8 DEF Used
  <1>12. Identity' /\ Families'
    BY <1>0, <1>1, <1>7 DEF Identity, Families
  <1>13. Parents(queue)' = Parents(queue)
    BY <1>3 DEF Parents
  <1>14. Memory'
    BY <1>0, <1>1, <1>3, <1>6, <1>7, <1>13 DEF Memory
  <1>15. Kept'
    BY <1>0, <1>1, <1>3, <1>7 DEF Kept, KeptBy
  <1>16. Finished'
    <2>1. \A b \in Known : b.seq <= meta'.acked => b.seq <= meta.acked
      <3>1. \A b \in Known : b.seq \in Nat
        BY <1>1, NamesTyped DEF Batch
      <3>2. meta'.acked \in Nat /\ meta'.acked <= meta.acked
        BY <1>4 DEF MetaFits, MetaType
      <3> QED BY <1>2, <3>1, <3>2
    <2>2. \A r \in Recs : r.seq <= meta'.acked => r.seq <= meta.acked
      <3>1. \A r \in Recs : r.seq \in Nat
        BY <1>1, NamesTyped DEF RecordType
      <3>2. meta'.acked \in Nat /\ meta'.acked <= meta.acked
        BY <1>4 DEF MetaFits, MetaType
      <3> QED BY <1>2, <3>1, <3>2
    <2> QED BY <1>0, <1>1, <1>3, <1>6, <1>7, <2>1, <2>2 DEF Finished
  <1>17. Coverage'
    BY <1>1, <1>6, <1>7 DEF Coverage, Sound
  <1>18. Undamaged'
    <2>1. queue'.phase = "up"
      BY <1>6 DEF IsUp
    <2>2. \A p \in manifests, i \in DOMAIN segments : Guarded(p, i) => Guarded(p, i)'
      BY <1>0, <1>3, <1>6 DEF Guarded
    <2> QED BY <1>0, <1>1, <1>5, <1>6, <1>7, <2>1, <2>2 DEF Undamaged
  <1>19. Origins'
    BY <1>0, <1>1, <1>6, <1>7 DEF Origins, EventsOf
  <1>20. Once'
    <2>1. Leaves' = Leaves
      BY <1>0, <1>6, <1>7 DEF Leaves
    <2>2. \A r : ~InDoubt(r)'
      BY <1>3 DEF InDoubt
    <2> QED BY <1>0, <1>1, <1>5, <1>6, <1>7, <2>1, <2>2 DEF Once
  <1> QED BY <1>6, <1>8, <1>9, <1>10, <1>11, <1>12, <1>14, <1>15, <1>16, <1>17, <1>18, <1>19, <1>20
          DEF CollectorInv

\* A failed append stops the daemon.
LEMMA FlushFailsKeeps ==
  ASSUME CollectorInv, FlushFails
  PROVE  CollectorInv'
  BY FailsToWriteKeeps, FailsToReserveKeeps DEF FlushFails
===============================================================================
