---------------------------- MODULE Collector_proofs ----------------------------
(***************************************************************************)
(* What holds of the collector for every source, batch and queue size, any *)
(* number of restarts and every combination of the failures modelled: the  *)
(* invariant of CollectorSteps_proofs through losses of power, damage,     *)
(* recovery and repackings, and the theorems that follow from it.          *)
(***************************************************************************)
EXTENDS CollectorSteps_proofs

-----------------------------------------------------------------------------
(* Startup and the end of the process.                                      *)

\* A step that leaves the queue closed, or not yet recovered.
Closes ==
  /\ UNCHANGED <<meta, manifests, checkpoint, dead, verdicts>>
  /\ epoch' \in Nat /\ faults \subseteq faults' /\ faults' \subseteq Faults
  /\ readPos' \in 0 .. Events /\ batch' = {} /\ work' = <<>> /\ batcher' = "off"
  /\ connected' = FALSE /\ inflight' = {} /\ answered' = {} /\ outcome' = NoOutcome
  /\ queue' \in QueueType /\ queue'.phase # "up"
  /\ queue' = [ClosedQueue EXCEPT !.phase = queue'.phase, !.next = queue'.next, !.acked = queue'.acked]
  /\ queue'.phase = "opening" => queue'.next = meta.next /\ queue'.acked = meta.acked

\* The files after such a step hold what they held, or less: no gap opens below a
\* sound record, and without damage nothing is lost but what was in doubt.
Shrinks ==
  /\ segments' \in Seq(SegmentType) /\ FilesInOrder'
  /\ \A r \in Recs' : /\ r.intact => r \in Recs
                      /\ \E s \in Recs : s.seq = r.seq /\ s.made = r.made /\ s.events = r.events
  /\ \A r \in Recs' : Sound(r)' => \A s \in Recs : s.seq <= r.seq => s \in Recs'
  /\ "damage" \notin faults' =>
       /\ queue'.phase # "refused"
       /\ \A r \in Recs' : ~r.intact => \A s \in Recs' : s.seq <= r.seq
       /\ \A i \in DOMAIN segments : \A r \in ToSet(segments[i].records) :
             r.intact /\ (queue.active => i < Len(segments)) => r \in Recs'
       /\ SyncAlways => \A r \in Recs : r.intact /\ ~InDoubt(r) => r \in Recs'

\* Such a step keeps everything.
LEMMA ClosesKeeps ==
  ASSUME CollectorInv, Closes, Shrinks
  PROVE  CollectorInv'
  <1>1. /\ Types /\ Used /\ Identity /\ Families /\ Finished /\ Coverage /\ Past /\ References
        /\ Undamaged /\ Origins /\ Once
    BY DEF CollectorInv
  <1>2. /\ UNCHANGED <<meta, manifests, checkpoint, dead, verdicts>>
        /\ faults \subseteq faults' /\ batcher' = "off" /\ inflight' = {} /\ ~IsUp'
    BY DEF Closes, IsUp
  <1>3. /\ \A r \in Recs' : /\ r.intact => r \in Recs
                            /\ \E s \in Recs : s.seq = r.seq /\ s.made = r.made /\ s.events = r.events
    BY DEF Shrinks
  <1>4. Types'
    <2>1. FileTypes'
      BY <1>1, <1>2 DEF Types, FileTypes, Shrinks
    <2>2. PipeTypes'
      <3>1. <<>> \in Seq(Chunk)
        OBVIOUS
      <3> QED BY <1>1, <3>1 DEF Types, PipeTypes, Closes
    <2>3. SendTypes'
      <3>1. IsFiniteSet({}) /\ Cardinality({}) = 0 /\ MaxInFlight \in Nat
        BY FS_EmptySet, CollectorAssumption DEF CollectorAssumption
      <3>2. NoOutcome \in [pc : {"none", "checkpoint", "ack"}, seq : Nat, cumulative : BOOLEAN]
        BY DEF NoOutcome
      <3>3. verdicts' \subseteq [seq : Nat, made : Nat, events : SUBSET (1 .. Events), verdict : Verdicts]
        BY <1>1, <1>2 DEF Types, SendTypes
      <3>4. /\ connected' = FALSE /\ inflight' = {} /\ answered' = {} /\ outcome' = NoOutcome
            /\ epoch' \in Nat /\ faults' \subseteq Faults
        BY DEF Closes
      <3>5. answered' \subseteq SeqsOf(inflight') /\ inflight' \subseteq Batch
        BY <3>4
      <3>6. IsFiniteSet(inflight') /\ Cardinality(inflight') <= MaxInFlight
        BY <3>1, <3>4
      <3> QED BY <3>2, <3>3, <3>4, <3>5, <3>6 DEF SendTypes
    <2> QED BY <2>1, <2>2, <2>3 DEF Types, Closes
  <1>5. FilesInOrder'
    BY DEF Shrinks
  <1>6. Children' = Children /\ Final' = Final /\ Settled' = Settled /\ Stored' = Stored
    BY <1>2 DEF Children, Final, Settled, Stored
  <1>7. Known' \subseteq Known
    <2>1. ASSUME NEW r \in Recs' PROVE \E s \in Recs : Descriptor(r) = Descriptor(s)
      BY <1>3 DEF Descriptor
    <2> QED BY <1>6, <2>1 DEF Known
  <1>8. Named' \subseteq Named
    BY <1>2, <1>7 DEF Named
  <1>9. meta.next \in Nat /\ meta.acked \in Nat /\ queue.acked \in Nat /\ \A b \in Known : b.seq \in Nat
    BY <1>1, QueueTyped, NamesTyped DEF Batch
  <1>10. Low' = meta.acked /\ Low \in Nat /\ Low <= meta.acked
    <2>1. Low' = meta.acked
      BY <1>2 DEF Closes, Low, Running
    <2>2. Low = queue.acked \/ Low = meta.acked
      BY DEF Low
    <2>3. Running => queue.acked <= meta.acked
      BY <1>1, <1>9 DEF Used, Running, IsUp
    <2> QED BY <1>9, <2>1, <2>2, <2>3 DEF Low
  <1>11. Used'
    <2>1. \A n \in SeqsOf(Named') \cup SeqsOf(verdicts') : 0 < n /\ n < meta.next
      BY <1>1, <1>2, <1>8 DEF Used, SeqsOf
    <2>2. Running' => queue'.phase = "opening"
      BY DEF Closes, Running
    <2>3. meta'.acked < meta'.next
      BY <1>1, <1>2 DEF Used
    <2> QED BY <1>2, <2>1, <2>2, <2>3 DEF Used, Closes
  <1>12. Identity'
    BY <1>1, <1>2, <1>8 DEF Identity
  <1>13. Families'
    BY <1>1, <1>2, <1>7 DEF Families
  <1>14. Shut'
    BY <1>2 DEF Shut, Closes
  <1>15. Memory' /\ Kept' /\ Sending'
    BY <1>2 DEF Memory, Kept, Sending
  <1>16. Finished'
    <2>1. \A r \in Recs' : r.seq <= meta'.acked => r.events \subseteq 1 .. checkpoint'
      BY <1>1, <1>2, <1>3 DEF Finished
    <2> QED BY <1>1, <1>2, <1>6, <1>7, <2>1 DEF Finished
  <1>17. Coverage'
    <2>1. Done' = Done
      BY <1>2, <1>6 DEF Done
    <2>2. ASSUME NEW r \in Recs', Sound(r)'
          PROVE  \A x \in r.events : \A e \in 1 .. x : e \in Done \/ \E s \in Recs' : s.seq <= r.seq /\ e \in s.events
      <3>1. \A s \in Recs : s.seq <= r.seq => s \in Recs'
        BY <2>2 DEF Shrinks
      <3>2. r.seq \in Nat /\ r.intact
        <4>1. r.seq \in Nat
          BY <1>1, <1>3, NamesTyped DEF RecordType
        <4> QED BY <2>2, <4>1 DEF Sound
      <3>3. r \in Recs
        BY <1>3, <3>2
      <3>4. Sound(r)
        BY <2>2, <3>1 DEF Sound
      <3> QED BY <1>1, <3>1, <3>3, <3>4 DEF Coverage
    <2> QED BY <2>1, <2>2 DEF Coverage
  <1>18. InOrder' /\ Dropping'
    BY DEF InOrder, Dropping, Closes
  <1>19. Past'
    BY <1>1, <1>2, <1>6 DEF Past
  <1>20. References'
    BY <1>1, <1>2 DEF References, Matched
  <1>21. Undamaged'
    <2>1. SUFFICES ASSUME "damage" \notin faults' PROVE Undamaged'
      BY DEF Undamaged
    <2>2. "damage" \notin faults
      BY <1>2, <2>1
    <2>3. /\ queue'.phase # "refused"
          /\ \A r \in Recs' : ~r.intact => \A s \in Recs' : s.seq <= r.seq
          /\ \A i \in DOMAIN segments : \A r \in ToSet(segments[i].records) :
                r.intact /\ (queue.active => i < Len(segments)) => r \in Recs'
      BY <2>1 DEF Shrinks
    <2>4. ASSUME NEW p \in manifests, Through(p) > meta.acked
          PROVE  \E i \in DOMAIN segments' : Guarded(p, i)'
      <3>1. Through(p) > Low
        <4>1. Through(p) \in Nat
          BY <1>1, PlansOf
        <4> QED BY <1>9, <1>10, <2>4, <4>1
      <3>2. PICK i \in DOMAIN segments : Guarded(p, i)
        BY <1>1, <2>2, <3>1 DEF Undamaged
      <3>3. PICK r \in ToSet(segments[i].records) : r.seq = p.root /\ r.intact
        BY <3>2 DEF Guarded
      <3>4. r \in Recs'
        BY <2>3, <3>2, <3>3 DEF Guarded
      <3>5. PICK k \in DOMAIN segments' : r \in ToSet(segments'[k].records)
        BY <3>4 DEF Recs, RecsOf
      <3>6. queue'.active = FALSE
        BY DEF Closes, ClosedQueue
      <3> QED BY <1>2, <3>3, <3>5, <3>6 DEF Guarded
    <2> QED BY <1>2, <1>10, <2>3, <2>4 DEF Undamaged
  <1>22. Origins'
    BY <1>1, <1>2, <1>3, <1>6 DEF Origins
  <1>23. Once'
    <2>1. SUFFICES ASSUME SyncAlways, "damage" \notin faults' PROVE Once'
      BY DEF Once
    <2>2. "damage" \notin faults
      BY <1>2, <2>1
    <2>3. \A r \in Recs : r.intact /\ ~InDoubt(r) => r \in Recs'
      BY <2>1 DEF Shrinks
    <2>4. \A r : ~InDoubt(r)'
      BY DEF InDoubt, Closes, ClosedQueue
    <2>5. Leaves' \subseteq Leaves
      BY <1>2, <1>7, <1>9, <1>10 DEF Leaves
    <2>6. /\ \A v \in Final : \A e \in v.events :
               e <= checkpoint \/ \E r \in Recs : r.intact /\ e \in r.events /\ ~InDoubt(r)
          /\ \A v, w \in Final : v # w => v.events \cap w.events = {}
          /\ \A a, b \in Leaves : a # b => a.events \cap b.events = {}
          /\ \A b \in Leaves, v \in Final : v.seq # b.seq => v.events \cap b.events = {}
          /\ Stored \cap dead = {}
      BY <1>1, <2>1, <2>2 DEF Once
    <2> QED BY <1>2, <1>6, <2>3, <2>4, <2>5, <2>6 DEF Once
  <1> QED BY <1>4, <1>5, <1>11, <1>12, <1>13, <1>14, <1>15, <1>16, <1>17, <1>18, <1>19, <1>20, <1>21,
             <1>22, <1>23 DEF CollectorInv

\* Nothing runs on a queue that is not up.
LEMMA Idle ==
  ASSUME CollectorInv, ~IsUp
  PROVE  /\ connected = FALSE /\ inflight = {} /\ answered = {} /\ outcome = NoOutcome
         /\ batcher = "off" /\ batch = {} /\ work = <<>>
         /\ queue = [ClosedQueue EXCEPT !.phase = queue.phase, !.next = queue.next, !.acked = queue.acked]
         /\ queue.active = FALSE
  <1>1. Types /\ Shut /\ Dropping
    BY DEF CollectorInv
  <1>2. connected \in BOOLEAN /\ answered \subseteq SeqsOf(inflight)
    BY <1>1 DEF Types, SendTypes
  <1>3. ~connected /\ batcher = "off"
    BY <1>1 DEF Shut
  <1>4. inflight = {} /\ outcome = NoOutcome
    BY <1>1, <1>3 DEF Shut
  <1>5. answered = {}
    BY <1>2, <1>4 DEF SeqsOf
  <1>6. batch = {} /\ work = <<>>
    BY <1>1, <1>3 DEF Dropping
  <1>7. queue = [ClosedQueue EXCEPT !.phase = queue.phase, !.next = queue.next, !.acked = queue.acked]
    BY <1>1 DEF Shut, IsUp
  <1>8. queue.active = FALSE
    BY <1>7 DEF ClosedQueue
  <1>9. connected = FALSE
    BY <1>2, <1>3
  <1> QED BY <1>3, <1>4, <1>5, <1>6, <1>7, <1>8, <1>9

\* A step that leaves the segments alone.
LEMMA SameFilesShrink ==
  ASSUME CollectorInv, segments' = segments, faults \subseteq faults',
         "damage" \notin faults' => queue'.phase # "refused"
  PROVE  Shrinks
  <1>1. Types /\ FilesInOrder /\ Undamaged
    BY DEF CollectorInv
  <1>2. Recs' = Recs
    BY DEF Recs, RecsOf
  <1>3. segments \in Seq(SegmentType)
    BY <1>1 DEF Types, FileTypes
  <1>4. FilesInOrder'
    BY <1>1 DEF FilesInOrder
  <1>5. \A i \in DOMAIN segments : \A r \in ToSet(segments[i].records) : r \in Recs
    BY DEF Recs, RecsOf
  <1>6. "damage" \notin faults' => \A r \in Recs : ~r.intact => \A s \in Recs : s.seq <= r.seq
    BY <1>1 DEF Undamaged
  <1> QED BY <1>2, <1>3, <1>4, <1>5, <1>6 DEF Shrinks

\* The closed queue of a process that starts or is gone.
ClosedAs(phase, next, acked) == [ClosedQueue EXCEPT !.phase = phase, !.next = next, !.acked = acked]

\* A closed queue is a queue, with the sequence numbers its metadata gives it.
LEMMA ClosedTyped ==
  ASSUME NEW phase \in {"down", "opening", "refused"}, NEW next \in Nat \ {0}, NEW acked \in Nat
  PROVE  /\ ClosedAs(phase, next, acked) \in QueueType
         /\ ClosedAs(phase, next, acked).phase = phase
         /\ ClosedAs(phase, next, acked).next = next
         /\ ClosedAs(phase, next, acked).acked = acked
  BY DEF ClosedAs, ClosedQueue, QueueType, PlanType, Batch

\* The queue opens on what the last process left; its references are met unless
\* files were damaged.
LEMMA OpenKeeps ==
  ASSUME CollectorInv, Open
  PROVE  CollectorInv'
  <1>0. /\ OpenQueue /\ epoch' = epoch + 1 /\ faults' = faults
        /\ UNCHANGED <<readPos, batch, work, batcher, checkpoint, dead, verdicts>>
        /\ UNCHANGED <<connected, inflight, answered, outcome>>
    BY DEF Open, NoFault, pipelineVars, senderVars
  <1>1. Types /\ References
    BY DEF CollectorInv
  <1>2. /\ queue.phase = "down" /\ UNCHANGED <<meta, segments, manifests>>
        /\ queue' = [ClosedQueue EXCEPT
                       !.phase = IF \A ref \in meta.refs :
                                       \/ ref.through <= meta.acked
                                       \/ \E plan \in manifests :
                                             plan.parent = ref.parent /\ Through(plan) = ref.through
                                 THEN "opening" ELSE "refused",
                       !.next = meta.next, !.acked = meta.acked]
    BY <1>0 DEF OpenQueue, fileVars
  <1>3. \A ref \in meta.refs : \/ ref.through <= meta.acked
                               \/ \E plan \in manifests : plan.parent = ref.parent /\ Through(plan) = ref.through
    BY <1>1 DEF References, Matched
  <1>4. queue' = [ClosedQueue EXCEPT !.phase = "opening", !.next = meta.next, !.acked = meta.acked]
    BY <1>2, <1>3
  <1>5. meta.next \in Nat \ {0} /\ meta.acked \in Nat
    BY <1>1, QueueTyped
  <1>6. /\ queue' \in QueueType /\ queue'.phase = "opening" /\ queue'.next = meta.next /\ queue'.acked = meta.acked
        /\ queue' = [ClosedQueue EXCEPT !.phase = queue'.phase, !.next = queue'.next, !.acked = queue'.acked]
    <2>1. queue' = ClosedAs("opening", meta.next, meta.acked)
      BY <1>4 DEF ClosedAs
    <2>2. queue' \in QueueType /\ queue'.phase = "opening" /\ queue'.next = meta.next /\ queue'.acked = meta.acked
      BY <1>5, <2>1, ClosedTyped
    <2> QED BY <1>4, <2>2
  <1>7. /\ connected = FALSE /\ inflight = {} /\ answered = {} /\ outcome = NoOutcome
        /\ batcher = "off" /\ batch = {} /\ work = <<>>
    BY <1>2, Idle DEF IsUp
  <1>8. epoch' \in Nat /\ faults' \subseteq Faults /\ readPos' \in 0 .. Events
    BY <1>0, <1>1 DEF Types, SendTypes, PipeTypes
  <1>9. Closes
    BY <1>0, <1>2, <1>6, <1>7, <1>8 DEF Closes
  <1>10. Shrinks
    BY <1>0, <1>2, <1>6, SameFilesShrink
  <1> QED BY <1>9, <1>10, ClosesKeeps

\* A queue that never opened.
LEMMA ClosedSame == ClosedQueue = [ClosedQueue EXCEPT !.phase = "down", !.next = 1, !.acked = 0]
  <1> DEFINE f == [ClosedQueue EXCEPT !.phase = "down", !.next = 1, !.acked = 0]
  <1>1. DOMAIN f = DOMAIN ClosedQueue
    BY DEF ClosedQueue
  <1>2. \A x \in DOMAIN ClosedQueue : f[x] = ClosedQueue[x]
    <2>1. /\ f.phase = "down" /\ f.next = 1 /\ f.acked = 0
          /\ ClosedQueue.phase = "down" /\ ClosedQueue.next = 1 /\ ClosedQueue.acked = 0
      BY DEF ClosedQueue
    <2>2. \A x \in DOMAIN ClosedQueue : x \notin {"phase", "next", "acked"} => f[x] = ClosedQueue[x]
      OBVIOUS
    <2> HIDE DEF f
    <2> QED BY <2>1, <2>2
  <1>3. /\ f = [x \in DOMAIN f |-> f[x]]
        /\ ClosedQueue = [x \in DOMAIN ClosedQueue |-> ClosedQueue[x]]
    BY DEF ClosedQueue
  <1> HIDE DEF f
  <1>4. f = ClosedQueue
    BY <1>1, <1>2, <1>3
  <1> QED BY <1>4 DEF f

\* A process that is gone leaves its files.
LEMMA GoneCloses ==
  ASSUME CollectorInv, Forget, queue' = ClosedQueue, UNCHANGED <<meta, manifests>>,
         NoFault \/ \E kind \in Faults : Fault(kind)
  PROVE  Closes
  <1>1. Types
    BY DEF CollectorInv
  <1>2. faults \subseteq faults' /\ faults' \subseteq Faults
    BY <1>1, FaultsGrow
  <1>4. /\ queue' \in QueueType /\ queue'.phase = "down"
        /\ queue' = [ClosedQueue EXCEPT !.phase = queue'.phase, !.next = queue'.next, !.acked = queue'.acked]
    <2>1. queue' = ClosedAs("down", 1, 0)
      BY ClosedSame DEF ClosedAs
    <2>2. queue' \in QueueType /\ queue'.phase = "down" /\ queue'.next = 1 /\ queue'.acked = 0
      BY <2>1, ClosedTyped
    <2> QED BY ClosedSame, <2>2
  <1>5. epoch \in Nat /\ 0 \in 0 .. Events
    BY <1>1, CollectorAssumption DEF Types, SendTypes, CollectorAssumption
  <1> QED BY <1>2, <1>4, <1>5 DEF Closes, Forget

\* A daemon that exits, or dies, leaves its files as they are.
LEMMA ExitKeeps ==
  ASSUME CollectorInv, Exit
  PROVE  CollectorInv'
  <1>1. /\ Forget /\ faults' = faults /\ queue' = ClosedQueue /\ UNCHANGED <<meta, segments, manifests>>
    BY DEF Exit, ProcessDies, NoFault, fileVars
  <1>2. Closes
    BY <1>1, GoneCloses DEF Exit
  <1>3. queue'.phase # "refused"
    BY <1>1 DEF ClosedQueue
  <1> QED BY <1>1, <1>2, <1>3, SameFilesShrink, ClosesKeeps

\* A process that dies leaves them too.
LEMMA DeathKeeps ==
  ASSUME CollectorInv, ProcessDies, Fault("crash"), Forget
  PROVE  CollectorInv'
  <1>1. /\ faults \subseteq faults' /\ queue' = ClosedQueue /\ UNCHANGED <<meta, segments, manifests>>
        /\ "crash" \in Faults
    BY DEF ProcessDies, Fault, fileVars
  <1>2. Closes
    BY <1>1, GoneCloses
  <1>3. queue'.phase # "refused"
    BY <1>1 DEF ClosedQueue
  <1> QED BY <1>1, <1>2, <1>3, SameFilesShrink, ClosesKeeps

\* The files after a step as a part of those before it: g is the place a segment
\* had, and a record is the one it was or a torn one.
Embeds(g) ==
  /\ segments' \in Seq(SegmentType)
  /\ \A m \in DOMAIN segments' :
       /\ g[m] \in DOMAIN segments /\ segments'[m].first = segments[g[m]].first
       /\ segments'[m].records # <<>>
       /\ \A j \in DOMAIN segments'[m].records :
            /\ j \in DOMAIN segments[g[m]].records
            /\ segments'[m].records[j].seq = segments[g[m]].records[j].seq
            /\ segments'[m].records[j].made = segments[g[m]].records[j].made
            /\ segments'[m].records[j].events = segments[g[m]].records[j].events
            /\ segments'[m].records[j].intact => segments'[m].records[j] = segments[g[m]].records[j]
  /\ \A m, n \in DOMAIN segments' : m < n => g[m] < g[n]

\* Such files are in order.
LEMMA EmbedsOrdered ==
  ASSUME CollectorInv, NEW g, Embeds(g)
  PROVE  /\ FilesInOrder'
         /\ \A r \in Recs' : /\ r.intact => r \in Recs
                             /\ \E s \in Recs : s.seq = r.seq /\ s.made = r.made /\ s.events = r.events
         /\ Recs' \subseteq RecordType
  <1>1. Types /\ FilesInOrder
    BY DEF CollectorInv
  <1>2. segments' \in Seq(SegmentType)
    BY DEF Embeds
  <1>3. \A m \in DOMAIN segments' : /\ segments'[m] \in SegmentType /\ segments'[m].records \in Seq(RecordType)
                                    /\ g[m] \in DOMAIN segments
    <2>1. \A m \in DOMAIN segments' : segments'[m] \in SegmentType
      BY <1>2
    <2> QED BY <2>1 DEF SegmentType, Embeds
  <1>4. ASSUME NEW m \in DOMAIN segments', NEW r \in ToSet(segments'[m].records)
        PROVE  /\ \E s \in ToSet(segments[g[m]].records) :
                     s.seq = r.seq /\ s.made = r.made /\ s.events = r.events /\ (r.intact => r = s)
               /\ r \in RecordType
    <2>1. ToSet(segments'[m].records) \subseteq RecordType
          /\ \E j \in DOMAIN segments'[m].records : r = segments'[m].records[j]
      BY <1>3, <1>4, ToSetOf
    <2>2. PICK j \in DOMAIN segments'[m].records : r = segments'[m].records[j]
      BY <2>1
    <2>3. /\ j \in DOMAIN segments[g[m]].records
          /\ r.seq = segments[g[m]].records[j].seq /\ r.made = segments[g[m]].records[j].made
          /\ r.events = segments[g[m]].records[j].events
          /\ r.intact => r = segments[g[m]].records[j]
      BY <2>2 DEF Embeds
    <2>4. segments[g[m]].records[j] \in ToSet(segments[g[m]].records)
      <3>1. segments[g[m]].records \in Seq(RecordType)
        BY <1>1, <1>3, NamesTyped
      <3> QED BY <2>3, <3>1, ToSetOf
    <2> QED BY <2>1, <2>3, <2>4
  <1>5. \A r : r \in Recs' <=> \E m \in DOMAIN segments' : r \in ToSet(segments'[m].records)
    BY DEF Recs, RecsOf
  <1>6. \A r : r \in Recs <=> \E i \in DOMAIN segments : r \in ToSet(segments[i].records)
    BY DEF Recs, RecsOf
  <1>7. ASSUME NEW r \in Recs'
        PROVE  /\ r.intact => r \in Recs
               /\ \E s \in Recs : s.seq = r.seq /\ s.made = r.made /\ s.events = r.events
               /\ r \in RecordType
    <2>1. PICK m \in DOMAIN segments' : r \in ToSet(segments'[m].records)
      BY <1>5
    <2>2. PICK s \in ToSet(segments[g[m]].records) :
              s.seq = r.seq /\ s.made = r.made /\ s.events = r.events /\ (r.intact => r = s)
      BY <1>4, <2>1
    <2>3. s \in Recs
      BY <1>3, <1>6
    <2> QED BY <1>4, <2>1, <2>2, <2>3
  <1>8. ASSUME NEW m \in DOMAIN segments' PROVE SegmentInOrder(segments'[m])
    <2>1. SegmentInOrder(segments[g[m]])
      BY <1>1, <1>3 DEF FilesInOrder
    <2>2. /\ segments'[m].first = segments[g[m]].first
          /\ segments'[m].records # <<>>
          /\ \A j \in DOMAIN segments'[m].records :
               /\ j \in DOMAIN segments[g[m]].records
               /\ segments'[m].records[j].seq = segments[g[m]].records[j].seq
      BY DEF Embeds
    <2> QED BY <2>1, <2>2 DEF SegmentInOrder
  <1>9. ASSUME NEW m \in DOMAIN segments', NEW n \in DOMAIN segments', m < n,
               NEW r \in ToSet(segments'[m].records), NEW s \in ToSet(segments'[n].records)
        PROVE  r.seq < s.seq
    <2>1. g[m] < g[n] /\ g[m] \in DOMAIN segments /\ g[n] \in DOMAIN segments
      BY <1>3, <1>9 DEF Embeds
    <2>2. PICK q \in ToSet(segments[g[m]].records) : q.seq = r.seq
      BY <1>4
    <2>3. PICK t \in ToSet(segments[g[n]].records) : t.seq = s.seq
      BY <1>4
    <2> QED BY <1>1, <2>1, <2>2, <2>3 DEF FilesInOrder
  <1>10. FilesInOrder'
    BY <1>8, <1>9 DEF FilesInOrder, SegmentInOrder
  <1> QED BY <1>7, <1>10

\* A damaged record keeps its place.
LEMMA MediaDamageKeeps ==
  ASSUME CollectorInv, MediaDamage
  PROVE  CollectorInv'
  <1>0. /\ Damage /\ Fault("damage")
        /\ UNCHANGED <<readPos, batch, work, batcher, checkpoint, dead, verdicts, epoch>>
        /\ UNCHANGED <<connected, inflight, answered, outcome>>
    BY DEF MediaDamage, pipelineVars, senderVars
  <1>1. Types
    BY DEF CollectorInv
  <1>2. queue.phase = "down" /\ UNCHANGED <<meta, manifests, queue>>
    BY <1>0 DEF Damage
  <1>3. PICK i \in DOMAIN segments : \E j \in DOMAIN segments[i].records :
            segments' = [segments EXCEPT ![i].records[j].intact = FALSE]
    BY <1>0 DEF Damage
  <1>4. PICK j \in DOMAIN segments[i].records : segments' = [segments EXCEPT ![i].records[j].intact = FALSE]
    BY <1>3
  <1>5. /\ segments \in Seq(SegmentType) /\ DOMAIN segments = 1 .. Len(segments)
        /\ \A m \in DOMAIN segments : /\ segments[m] \in SegmentType /\ segments[m].records \in Seq(RecordType)
    BY <1>1, NamesTyped DEF Types, FileTypes
  <1> DEFINE old == segments[i].records[j]
             d == [old EXCEPT !.intact = FALSE]
             rs == [segments[i].records EXCEPT ![j] = d]
  <1>6. old \in RecordType
    BY <1>5
  <1>7. /\ d \in RecordType /\ d.seq = old.seq /\ d.made = old.made /\ d.events = old.events /\ ~d.intact
    BY <1>6 DEF RecordType
  <1>8. segments' = [segments EXCEPT ![i] = [segments[i] EXCEPT !.records = rs]]
    BY <1>4
  <1> HIDE DEF d
  <1>9. rs \in Seq(RecordType) /\ DOMAIN rs = DOMAIN segments[i].records
        /\ rs[j] = d /\ \A k \in DOMAIN rs : k # j => rs[k] = segments[i].records[k]
    BY <1>5, <1>7
  <1> HIDE DEF rs
  <1>10. /\ [segments[i] EXCEPT !.records = rs] \in SegmentType
         /\ [segments[i] EXCEPT !.records = rs].records = rs
         /\ [segments[i] EXCEPT !.records = rs].first = segments[i].first
    <2>1. segments[i] \in SegmentType
      BY <1>5
    <2> QED BY <1>9, <2>1 DEF SegmentType
  <1>11. /\ segments' \in Seq(SegmentType) /\ DOMAIN segments' = DOMAIN segments
         /\ segments'[i] = [segments[i] EXCEPT !.records = rs]
         /\ \A m \in DOMAIN segments : m # i => segments'[m] = segments[m]
    BY <1>5, <1>8, <1>10
  <1>12. segments'[i].records = rs /\ segments'[i].first = segments[i].first
    BY <1>10, <1>11
  <1> DEFINE g == [m \in DOMAIN segments |-> m]
  <1>13. Embeds(g)
    <2>1. ASSUME NEW m \in DOMAIN segments' PROVE
            /\ g[m] = m /\ m \in DOMAIN segments /\ segments'[m].first = segments[m].first
            /\ segments'[m].records # <<>>
            /\ \A k \in DOMAIN segments'[m].records :
                 /\ k \in DOMAIN segments[m].records
                 /\ segments'[m].records[k].seq = segments[m].records[k].seq
                 /\ segments'[m].records[k].made = segments[m].records[k].made
                 /\ segments'[m].records[k].events = segments[m].records[k].events
                 /\ segments'[m].records[k].intact => segments'[m].records[k] = segments[m].records[k]
      <3>1. g[m] = m /\ m \in DOMAIN segments
        BY <1>11, <2>1
      <3>2. segments[m].records # <<>>
        BY <3>1 DEF CollectorInv, FilesInOrder, SegmentInOrder
      <3>3. CASE m # i
        BY <1>11, <3>1, <3>2, <3>3
      <3>4. CASE m = i
        <4>1. rs # <<>>
          BY <1>5, <1>9
        <4> QED BY <1>7, <1>9, <1>12, <3>1, <3>4, <4>1
      <3> QED BY <3>3, <3>4
    <2>2. \A m, n \in DOMAIN segments' : m < n => g[m] < g[n]
      BY <2>1
    <2> HIDE DEF g
    <2> QED BY <1>11, <2>1, <2>2 DEF Embeds
  <1> HIDE DEF g
  <1>14. FilesInOrder' /\ \A r \in Recs' : /\ r.intact => r \in Recs
                               /\ \E s \in Recs : s.seq = r.seq /\ s.made = r.made /\ s.events = r.events
    BY <1>13, EmbedsOrdered
  <1>15. ASSUME NEW r \in Recs', Sound(r)', NEW s \in Recs, s.seq <= r.seq PROVE s \in Recs'
    <2>1. PICK m \in DOMAIN segments : s \in ToSet(segments[m].records)
      BY DEF Recs, RecsOf
    <2>2. PICK k \in DOMAIN segments[m].records : s = segments[m].records[k]
      <3>1. segments[m].records \in Seq(RecordType)
        BY <1>5
      <3> QED BY <2>1, <3>1, ToSetOf
    <2>3. \A n \in DOMAIN segments' : \A l \in DOMAIN segments'[n].records : segments'[n].records[l] \in Recs'
      <3>1. ASSUME NEW n \in DOMAIN segments', NEW l \in DOMAIN segments'[n].records
            PROVE  segments'[n].records[l] \in Recs'
        <4>1. segments'[n].records \in Seq(RecordType)
          BY <1>5, <1>9, <1>11, <1>12
        <4>2. segments'[n].records[l] \in ToSet(segments'[n].records)
          BY <4>1, ToSetOf
        <4> QED BY <4>2 DEF Recs, RecsOf
      <3> QED BY <3>1
    <2>4. CASE m = i /\ k = j
      <3>1. d \in Recs'
        BY <1>9, <1>11, <1>12, <2>3
      <3>2. d.seq <= r.seq
        BY <1>7, <1>15, <2>2, <2>4
      <3> QED BY <1>7, <1>15, <3>1, <3>2 DEF Sound
    <2>5. CASE m = i /\ k # j
      <3>1. segments'[i].records[k] = s /\ k \in DOMAIN segments'[i].records
        BY <1>9, <1>12, <2>2, <2>5
      <3> QED BY <1>11, <2>3, <3>1
    <2>6. CASE m # i
      <3>1. segments'[m] = segments[m] /\ m \in DOMAIN segments'
        BY <1>11, <2>6
      <3> QED BY <2>2, <2>3, <3>1
    <2> QED BY <2>4, <2>5, <2>6
  <1>16. "damage" \in faults' /\ faults \subseteq faults' /\ faults' \subseteq Faults
    BY <1>0, <1>1 DEF Fault, Types, SendTypes
  <1>17. Shrinks
    BY <1>11, <1>14, <1>15, <1>16 DEF Shrinks
  <1>18. Closes
    <2>1. /\ connected = FALSE /\ inflight = {} /\ answered = {} /\ outcome = NoOutcome
          /\ batcher = "off" /\ batch = {} /\ work = <<>>
          /\ queue = [ClosedQueue EXCEPT !.phase = queue.phase, !.next = queue.next, !.acked = queue.acked]
      BY <1>2, Idle DEF IsUp
    <2>2. queue \in QueueType /\ epoch \in Nat /\ readPos \in 0 .. Events
      BY <1>1 DEF Types, SendTypes, PipeTypes
    <2> QED BY <1>0, <1>2, <1>16, <2>1, <2>2 DEF Closes
  <1> QED BY <1>17, <1>18, ClosesKeeps

\* Of two records, the one in front has the lower sequence.
LEMMA PlacesOrdered ==
  ASSUME Types, FilesInOrder, NEW i \in DOMAIN segments, NEW k \in DOMAIN segments,
         NEW j \in DOMAIN segments[i].records, NEW l \in DOMAIN segments[k].records,
         i < k \/ (i = k /\ j < l)
  PROVE  segments[i].records[j].seq < segments[k].records[l].seq
  <1>1. /\ segments[i].records \in Seq(RecordType) /\ segments[k].records \in Seq(RecordType)
    BY NamesTyped
  <1>2. /\ segments[i].records[j] \in ToSet(segments[i].records)
        /\ segments[k].records[l] \in ToSet(segments[k].records)
    BY <1>1, ToSetOf
  <1>3. CASE i < k
    BY <1>2, <1>3 DEF FilesInOrder
  <1>4. CASE i = k /\ j < l
    <2>1. SegmentInOrder(segments[i])
      BY DEF FilesInOrder
    <2> QED BY <1>4, <2>1 DEF SegmentInOrder
  <1> QED BY <1>3, <1>4

\* What an interrupted write leaves of a record.
Torn(record) == [record EXCEPT !.intact = FALSE]

\* The last segment loses its records behind the first k; the next one may be left
\* torn.
Cut(left, k) ==
  /\ segments # <<>> /\ k \in 0 .. Len(Last(segments).records)
  /\ left \in Seq(RecordType) /\ Len(left) \in {k, k + 1} /\ Len(left) <= Len(Last(segments).records)
  /\ \A j \in 1 .. k : left[j] = Last(segments).records[j]
  /\ Len(left) = k + 1 =>
       left[k + 1] = Torn(Last(segments).records[k + 1])
  /\ segments' \in Seq(SegmentType)
  /\ Len(segments') = IF left = <<>> THEN Len(segments) - 1 ELSE Len(segments)
  /\ \A i \in 1 .. Len(segments) - 1 : segments'[i] = segments[i]
  /\ left # <<>> =>
       /\ segments'[Len(segments)].records = left
       /\ segments'[Len(segments)].first = Last(segments).first

\* What is left of it.
LEMMA CutOf ==
  ASSUME CollectorInv, NEW left, NEW k, Cut(left, k)
  PROVE  /\ FilesInOrder'
         /\ \A r \in Recs' : /\ r.intact => r \in Recs
                             /\ \E s \in Recs : s.seq = r.seq /\ s.made = r.made /\ s.events = r.events
         /\ \A r \in Recs' : Sound(r)' => \A s \in Recs : s.seq <= r.seq => s \in Recs'
         /\ \A r \in Recs' : r \in Recs \/ \A s \in Recs' : s.seq <= r.seq
         /\ \A i \in DOMAIN segments : i < Len(segments) => ToSet(segments[i].records) \subseteq Recs'
         /\ \A j \in 1 .. k : Last(segments).records[j] \in Recs'
  <1>1. Types /\ FilesInOrder
    BY DEF CollectorInv
  <1> DEFINE L == Len(segments)
  <1>2. /\ segments \in Seq(SegmentType) /\ DOMAIN segments = 1 .. L
        /\ \A m \in DOMAIN segments : segments[m] \in SegmentType /\ segments[m].records \in Seq(RecordType)
    BY <1>1, NamesTyped DEF Types, FileTypes
  <1>3. L \in Nat \ {0} /\ L \in DOMAIN segments /\ Last(segments) = segments[L]
    <2>1. segments # <<>>
      BY DEF Cut
    <2> QED BY <1>2, <2>1 DEF Last
  <1> DEFINE records == segments[L].records
  <1>4. records \in Seq(RecordType) /\ DOMAIN records = 1 .. Len(records) /\ Len(records) \in Nat
    BY <1>2, <1>3
  <1>5. /\ k \in Nat /\ k <= Len(records)
        /\ left \in Seq(RecordType) /\ (Len(left) = k \/ Len(left) = k + 1) /\ Len(left) <= Len(records)
        /\ \A j \in 1 .. k : left[j] = records[j]
        /\ Len(left) = k + 1 => left[k + 1] = Torn(records[k + 1])
        /\ segments' \in Seq(SegmentType)
        /\ Len(segments') = IF left = <<>> THEN L - 1 ELSE L
        /\ \A i \in 1 .. L - 1 : segments'[i] = segments[i]
        /\ left # <<>> => segments'[L].records = left /\ segments'[L].first = segments[L].first
    BY <1>3, <1>4 DEF Cut
  <1> HIDE DEF L
  <1>0. /\ k \in Nat /\ k <= Len(records) /\ (Len(left) = k \/ Len(left) = k + 1) /\ Len(left) <= Len(records)
        /\ Len(segments') = IF left = <<>> THEN L - 1 ELSE L
        /\ left \in Seq(RecordType) /\ segments' \in Seq(SegmentType)
    BY <1>5
  <1>6. DOMAIN segments' = 1 .. Len(segments') /\ DOMAIN left = 1 .. Len(left)
    BY <1>5
  <1>7. ASSUME NEW m \in DOMAIN segments'
        PROVE  /\ m \in DOMAIN segments /\ (m = L => left # <<>>)
               /\ m # L => m < L /\ segments'[m] = segments[m]
    <2>1. m \in 1 .. L /\ (m = L => left # <<>>)
      BY <1>0, <1>3
    <2>2. m # L => m \in 1 .. L - 1
      BY <1>3, <2>1
    <2> QED BY <1>2, <1>3, <1>5, <2>1, <2>2
  <1>8. ASSUME NEW j \in DOMAIN left
        PROVE  /\ j \in DOMAIN records
               /\ left[j].seq = records[j].seq /\ left[j].made = records[j].made
               /\ left[j].events = records[j].events
               /\ j <= k => left[j] = records[j]
               /\ left[j].intact => left[j] = records[j] /\ j <= k
               /\ ~(j <= k) => j = Len(left)
    <2>1. j \in 1 .. Len(records) /\ j \in Nat /\ (j <= k \/ j = k + 1)
      BY <1>0, <1>4
    <2>2. CASE j <= k
      <3>1. j \in 1 .. k
        BY <1>5, <2>1, <2>2
      <3> QED BY <1>4, <1>5, <2>1, <2>2, <3>1
    <2>3. CASE j = k + 1
      <3>1. Len(left) = k + 1 /\ ~(j <= k)
        BY <1>0, <2>3
      <3>2. left[j] = Torn(records[j]) /\ records[j] \in RecordType
        BY <1>4, <1>5, <2>1, <2>3, <3>1
      <3> QED BY <1>4, <2>1, <2>3, <3>1, <3>2 DEF RecordType, Torn
    <2> QED BY <2>1, <2>2, <2>3
  <1> DEFINE g == [m \in DOMAIN segments |-> m]
  <1>9. Embeds(g)
    <2>1. ASSUME NEW m \in DOMAIN segments' PROVE
            /\ g[m] = m /\ m \in DOMAIN segments /\ segments'[m].first = segments[m].first
            /\ segments'[m].records # <<>>
            /\ \A l \in DOMAIN segments'[m].records :
                 /\ l \in DOMAIN segments[m].records
                 /\ segments'[m].records[l].seq = segments[m].records[l].seq
                 /\ segments'[m].records[l].made = segments[m].records[l].made
                 /\ segments'[m].records[l].events = segments[m].records[l].events
                 /\ segments'[m].records[l].intact => segments'[m].records[l] = segments[m].records[l]
      <3>1. m \in DOMAIN segments /\ g[m] = m
        BY <1>7
      <3>2. CASE m # L
        <4>1. segments'[m] = segments[m]
          BY <1>7, <3>2
        <4>2. segments[m].records # <<>>
          BY <1>1, <3>1 DEF FilesInOrder, SegmentInOrder
        <4> QED BY <3>1, <4>1, <4>2
      <3>3. CASE m = L
        <4>1. segments'[m].records = left /\ segments'[m].first = segments[m].first /\ left # <<>>
          BY <1>5, <1>7, <3>3
        <4> QED BY <1>8, <3>1, <3>3, <4>1
      <3> QED BY <3>2, <3>3
    <2>2. \A m, n \in DOMAIN segments' : m < n => g[m] < g[n]
      BY <2>1
    <2> HIDE DEF g
    <2> QED BY <1>5, <2>1, <2>2 DEF Embeds
  <1> HIDE DEF g
  <1>10. FilesInOrder' /\ \A r \in Recs' : /\ r.intact => r \in Recs
                               /\ \E s \in Recs : s.seq = r.seq /\ s.made = r.made /\ s.events = r.events
    BY <1>9, EmbedsOrdered
  <1>11. \A r : r \in Recs' <=> \E m \in DOMAIN segments' : r \in ToSet(segments'[m].records)
    BY DEF Recs, RecsOf
  <1>12. \A i \in DOMAIN segments : i < L => i \in DOMAIN segments' /\ ToSet(segments[i].records) \subseteq Recs'
    <2>1. ASSUME NEW i \in DOMAIN segments, i < L PROVE i \in DOMAIN segments' /\ segments'[i] = segments[i]
      <3>1. i \in 1 .. L - 1 /\ i \in 1 .. Len(segments')
        BY <1>2, <1>3, <1>5, <2>1
      <3> QED BY <1>5, <1>6, <3>1
    <2> QED BY <1>11, <2>1
  <1>13. \A j \in 1 .. k : records[j] \in Recs'
    <2>1. ASSUME NEW j \in 1 .. k PROVE records[j] \in Recs'
      <3>1. j \in 1 .. Len(left) /\ left # <<>>
        <4>1. j \in 1 .. Len(left)
          BY <1>5
        <4> QED BY <1>5, <4>1
      <3>2. L \in DOMAIN segments' /\ segments'[L].records = left
        BY <1>3, <1>5, <1>6, <3>1
      <3>3. left[j] \in ToSet(left) /\ left[j] = records[j]
        BY <1>5, <3>1, ToSetOf
      <3> QED BY <1>11, <3>2, <3>3
    <2> QED BY <2>1
  <1>14. ASSUME NEW r \in Recs'
         PROVE  \E m \in DOMAIN segments' : \E l \in DOMAIN segments'[m].records : r = segments'[m].records[l]
    <2>1. PICK m \in DOMAIN segments' : r \in ToSet(segments'[m].records)
      BY <1>11
    <2>2. segments'[m].records \in Seq(RecordType)
      <3>1. segments'[m] \in SegmentType
        BY <1>5
      <3> QED BY <3>1 DEF SegmentType
    <2> QED BY <2>1, <2>2, ToSetOf
  <1>15. ASSUME NEW r \in Recs', Sound(r)', NEW s \in Recs, s.seq <= r.seq PROVE s \in Recs'
    <2>1. PICK i \in DOMAIN segments : s \in ToSet(segments[i].records)
      BY DEF Recs, RecsOf
    <2>2. PICK j \in DOMAIN segments[i].records : s = segments[i].records[j]
      BY <1>2, <2>1, ToSetOf
    <2>3. PICK m \in DOMAIN segments' : \E l \in DOMAIN segments'[m].records : r = segments'[m].records[l]
      BY <1>14
    <2>4. PICK l \in DOMAIN segments'[m].records : r = segments'[m].records[l]
      BY <2>3
    <2>5. r.seq \in Nat /\ s.seq \in Nat
      BY <1>1, <1>10, NamesTyped DEF RecordType
    <2>6. r.intact
      BY <1>15, <2>5 DEF Sound
    <2>7. SUFFICES ASSUME ~(i < L) PROVE s \in Recs'
      BY <1>12, <2>1
    <2>8. i = L
      BY <1>2, <1>3, <2>7
    <2>9. m = L
      <3>1. SUFFICES ASSUME m # L PROVE FALSE
        OBVIOUS
      <3>2. m < L /\ segments'[m] = segments[m] /\ m \in DOMAIN segments
        BY <1>7, <3>1
      <3>3. r.seq < s.seq
        BY <1>1, <2>2, <2>4, <2>8, <3>2, PlacesOrdered
      <3> QED BY <1>15, <2>5, <3>3
    <2>10. l \in DOMAIN left /\ r = left[l]
      BY <1>5, <1>7, <2>4, <2>9
    <2>11. l <= k /\ r = records[l] /\ l \in DOMAIN records
      BY <1>8, <2>6, <2>10
    <2>12. ~(l < j)
      <3>1. SUFFICES ASSUME l < j PROVE FALSE
        OBVIOUS
      <3>2. r.seq < s.seq
        BY <1>1, <1>3, <2>2, <2>8, <2>11, <3>1, PlacesOrdered
      <3> QED BY <1>15, <2>5, <3>2
    <2>13. j \in 1 .. k
      BY <1>4, <1>5, <2>2, <2>8, <2>11, <2>12
    <2> QED BY <1>13, <2>2, <2>8, <2>13
  <1>16. ASSUME NEW r \in Recs', r \notin Recs, NEW s \in Recs' PROVE s.seq <= r.seq
    <2>1. PICK m \in DOMAIN segments' : \E l \in DOMAIN segments'[m].records : r = segments'[m].records[l]
      BY <1>14
    <2>2. PICK l \in DOMAIN segments'[m].records : r = segments'[m].records[l]
      BY <2>1
    <2>3. PICK n \in DOMAIN segments' : \E h \in DOMAIN segments'[n].records : s = segments'[n].records[h]
      BY <1>14
    <2>4. PICK h \in DOMAIN segments'[n].records : s = segments'[n].records[h]
      BY <2>3
    <2>5. \A i \in DOMAIN segments : \A j \in DOMAIN segments[i].records : segments[i].records[j] \in Recs
      <3>1. ASSUME NEW i \in DOMAIN segments, NEW j \in DOMAIN segments[i].records
            PROVE  segments[i].records[j] \in ToSet(segments[i].records)
        BY <1>2, ToSetOf
      <3> QED BY <3>1 DEF Recs, RecsOf
    <2>6. m = L
      <3>1. SUFFICES ASSUME m # L PROVE FALSE
        OBVIOUS
      <3>2. segments'[m] = segments[m] /\ m \in DOMAIN segments
        BY <1>7, <3>1
      <3> QED BY <1>16, <2>2, <2>5, <3>2
    <2>7. l \in DOMAIN left /\ r = left[l]
      BY <1>5, <1>7, <2>2, <2>6
    <2>8. ~(l <= k)
      <3>1. SUFFICES ASSUME l <= k PROVE FALSE
        OBVIOUS
      <3>2. r = segments[L].records[l] /\ l \in DOMAIN segments[L].records
        BY <1>8, <2>7, <3>1
      <3> QED BY <1>3, <1>16, <2>5, <3>2
    <2>9. l = Len(left)
      BY <1>8, <2>7, <2>8
    <2>10. r.seq \in Nat /\ s.seq \in Nat
      BY <1>1, <1>10, NamesTyped DEF RecordType
    <2>11. n \in DOMAIN segments /\ m \in DOMAIN segments /\ (n < L \/ n = L)
      BY <1>7
    <2>12. r.seq = segments[L].records[l].seq /\ l \in DOMAIN segments[L].records
      BY <1>8, <2>7
    <2>13. CASE n < L
      <3>1. segments'[n] = segments[n]
        BY <1>3, <1>7, <2>13
      <3>2. s.seq < r.seq
        BY <1>1, <1>3, <2>4, <2>11, <2>12, <2>13, <3>1, PlacesOrdered
      <3> QED BY <2>10, <3>2
    <2>14. CASE n = L
      <3>1. h \in DOMAIN left /\ s = left[h]
        BY <1>5, <1>7, <2>4, <2>14
      <3>2. s.seq = segments[L].records[h].seq /\ h \in DOMAIN segments[L].records
        BY <1>8, <3>1
      <3>3. h = l \/ h < l
        BY <1>6, <2>9, <3>1
      <3>4. h < l => s.seq < r.seq
        BY <1>1, <1>3, <2>12, <3>2, PlacesOrdered
      <3> QED BY <2>7, <2>10, <3>1, <3>3, <3>4
    <2> QED BY <2>11, <2>13, <2>14
  <1>17. \A i \in DOMAIN segments : i < Len(segments) => ToSet(segments[i].records) \subseteq Recs'
    BY <1>12 DEF L
  <1> QED BY <1>3, <1>10, <1>13, <1>15, <1>16, <1>17

\* All but the last segment.
LEMMA FrontOf ==
  ASSUME Types, segments # <<>>
  PROVE  /\ Front(segments) \in Seq(SegmentType) /\ Len(Front(segments)) = Len(segments) - 1
         /\ \A i \in 1 .. Len(segments) - 1 : Front(segments)[i] = segments[i]
         /\ Last(segments) = segments[Len(segments)] /\ Last(segments) \in SegmentType
         /\ Len(segments) \in Nat \ {0}
  <1> DEFINE n == Len(segments)
  <1>1. segments \in Seq(SegmentType) /\ n \in Nat \ {0} /\ segments[n] \in SegmentType
    BY DEF Types, FileTypes
  <1>2. /\ SubSeq(segments, 1, n - 1) \in Seq(SegmentType) /\ Len(SubSeq(segments, 1, n - 1)) = n - 1
        /\ \A i \in 1 .. n - 1 : SubSeq(segments, 1, n - 1)[i] = segments[i]
    <2>1. 1 \in 1 .. n + 1 /\ n - 1 \in 1 - 1 .. n
      BY <1>1
    <2>2. \A i \in 1 .. n - 1 : 1 + i - 1 = i /\ segments[i] \in SegmentType
      BY <1>1
    <2>3. (n - 1) - 1 + 1 = n - 1
      BY <1>1
    <2> QED BY <1>1, <2>1, <2>2, <2>3, SubSeqProperties
  <1> QED BY <1>1, <1>2 DEF Front, Last

\* The first k records, and one more that may be torn.
LEMMA TornOf ==
  ASSUME NEW records \in Seq(RecordType), NEW k \in 0 .. Len(records) - 1, NEW left,
         \/ left = SubSeq(records, 1, k) \o <<Torn(records[k + 1])>>
         \/ left = SubSeq(records, 1, k) \o <<>>
  PROVE  /\ left \in Seq(RecordType) /\ Len(left) \in {k, k + 1} /\ Len(left) <= Len(records)
         /\ \A j \in 1 .. k : left[j] = records[j]
         /\ Len(left) = k + 1 => left[k + 1] = Torn(records[k + 1])
  <1> DEFINE s == SubSeq(records, 1, k)
             d == Torn(records[k + 1])
  <1>1. k \in Nat /\ Len(records) \in Nat /\ k + 1 <= Len(records) /\ k + 1 \in 1 .. Len(records)
    OBVIOUS
  <1>2. d \in RecordType
    <2>1. records[k + 1] \in RecordType
      BY <1>1
    <2> QED BY <2>1 DEF RecordType, Torn
  <1>3. s \in Seq(RecordType) /\ Len(s) = k /\ \A j \in 1 .. k : s[j] = records[j]
    <2>1. \A j \in 1 .. k : records[j] \in RecordType /\ 1 + j - 1 = j
      BY <1>1
    <2>2. k - 1 + 1 = k
      BY <1>1
    <2> QED BY <1>1, <2>1, <2>2, SubSeqProperties
  <1> HIDE DEF s, d
  <1>4. CASE left = SubSeq(records, 1, k) \o <<Torn(records[k + 1])>>
    <2>1. left = s \o <<d>>
      BY <1>4 DEF s, d
    <2>2. <<d>> \in Seq(RecordType) /\ Len(<<d>>) = 1 /\ <<d>>[1] = d
      BY <1>2
    <2> DEFINE t == <<d>>
    <2> HIDE DEF t
    <2>3. /\ s \o t \in Seq(RecordType) /\ Len(s \o t) = k + 1
          /\ \A i \in 1 .. k + 1 : (s \o t)[i] = IF i <= k THEN s[i] ELSE t[i - k]
      BY <1>3, <2>2, ConcatProperties DEF t
    <2>4. (s \o t)[k + 1] = d
      <3>1. k + 1 \in 1 .. k + 1 /\ ~(k + 1 <= k) /\ k + 1 - k = 1
        BY <1>1
      <3> QED BY <2>2, <2>3, <3>1 DEF t
    <2>5. \A j \in 1 .. k : j \in 1 .. k + 1 /\ j <= k
      BY <1>1
    <2> QED BY <1>1, <1>3, <2>1, <2>3, <2>4, <2>5 DEF t, d
  <1>5. CASE left = SubSeq(records, 1, k) \o <<>>
    <2>1. left = s \o <<>>
      BY <1>5 DEF s
    <2>2. left = s
      BY <1>3, <2>1
    <2>3. k # k + 1
      BY <1>1
    <2> QED BY <1>1, <1>3, <2>2, <2>3
  <1> QED BY <1>4, <1>5

\* Power that is lost takes records of the active segment that were not synced.
LEMMA PowerLostKeeps ==
  ASSUME CollectorInv, PowerLost, Fault("power"), Forget
  PROVE  CollectorInv'
  <1>0. Types /\ FilesInOrder /\ Shut /\ Kept /\ Undamaged /\ Once
    BY DEF CollectorInv
  <1>1. /\ queue.active /\ queue' = ClosedQueue /\ UNCHANGED <<meta, manifests>>
    BY DEF PowerLost
  <1>2. IsUp /\ segments # <<>>
    <2>1. IsUp
      BY <1>1, Idle DEF CollectorInv
    <2> QED BY <1>0, <1>1, <2>1 DEF Kept
  <1>3. /\ Front(segments) \in Seq(SegmentType) /\ Len(Front(segments)) = Len(segments) - 1
        /\ \A i \in 1 .. Len(segments) - 1 : Front(segments)[i] = segments[i]
        /\ Last(segments) = segments[Len(segments)] /\ Last(segments) \in SegmentType
        /\ Len(segments) \in Nat \ {0}
    BY <1>0, <1>2, FrontOf
  <1> DEFINE records == Last(segments).records
  <1>4. records \in Seq(RecordType) /\ queue.synced \in Nat
    BY <1>0, <1>3, QueueTyped DEF SegmentType
  <1>5. PICK k \in queue.synced .. Len(records) - 1 : \E torn \in BOOLEAN :
          LET left == SubSeq(records, 1, k) \o
                      (IF torn THEN <<[records[k + 1] EXCEPT !.intact = FALSE]>> ELSE <<>>)
          IN segments' = IF left = <<>> THEN Front(segments)
                         ELSE Append(Front(segments), [Last(segments) EXCEPT !.records = left])
    BY DEF PowerLost
  <1>6. PICK torn \in BOOLEAN :
          LET left == SubSeq(records, 1, k) \o
                      (IF torn THEN <<[records[k + 1] EXCEPT !.intact = FALSE]>> ELSE <<>>)
          IN segments' = IF left = <<>> THEN Front(segments)
                         ELSE Append(Front(segments), [Last(segments) EXCEPT !.records = left])
    BY <1>5
  <1> DEFINE left == SubSeq(records, 1, k) \o
                       (IF torn THEN <<[records[k + 1] EXCEPT !.intact = FALSE]>> ELSE <<>>)
             cut == [Last(segments) EXCEPT !.records = left]
  <1>7. segments' = IF left = <<>> THEN Front(segments) ELSE Append(Front(segments), cut)
    BY <1>6
  <1>8. k \in 0 .. Len(records) - 1 /\ queue.synced <= k
    BY <1>4, <1>5
  <1>9. /\ left \in Seq(RecordType) /\ Len(left) \in {k, k + 1} /\ Len(left) <= Len(records)
        /\ \A j \in 1 .. k : left[j] = records[j]
        /\ Len(left) = k + 1 => left[k + 1] = Torn(records[k + 1])
    <2> HIDE DEF records
    <2>1. \/ left = SubSeq(records, 1, k) \o <<Torn(records[k + 1])>>
          \/ left = SubSeq(records, 1, k) \o <<>>
      BY <1>6 DEF Torn
    <2> HIDE DEF left
    <2> QED BY <1>4, <1>8, <2>1, TornOf
  <1> HIDE DEF left
  <1>10. cut \in SegmentType /\ cut.records = left /\ cut.first = Last(segments).first
    BY <1>3, <1>9 DEF SegmentType
  <1> HIDE DEF cut
  <1>11. Cut(left, k)
    <2>1. CASE left = <<>>
      <3>1. segments' = Front(segments)
        BY <1>7, <2>1
      <3>2. k \in 0 .. Len(records)
        BY <1>4, <1>8
      <3> QED BY <1>2, <1>3, <1>9, <2>1, <3>1, <3>2 DEF Cut
    <2>2. CASE left # <<>>
      <3>1. segments' = Append(Front(segments), cut)
        BY <1>7, <2>2
      <3> DEFINE f == Front(segments)
      <3> HIDE DEF f
      <3>2. /\ f \in Seq(SegmentType) /\ Len(f) = Len(segments) - 1
            /\ \A i \in 1 .. Len(segments) - 1 : f[i] = segments[i]
        BY <1>3 DEF f
      <3>3. /\ Append(f, cut) \in Seq(SegmentType) /\ Len(Append(f, cut)) = Len(f) + 1
            /\ \A i \in 1 .. Len(f) : Append(f, cut)[i] = f[i]
            /\ Append(f, cut)[Len(f) + 1] = cut
        BY <1>10, <3>2, AppendProperties
      <3>4. Len(f) + 1 = Len(segments)
        BY <1>3, <3>2
      <3>5. /\ segments' \in Seq(SegmentType) /\ Len(segments') = Len(segments)
            /\ \A i \in 1 .. Len(segments) - 1 : segments'[i] = segments[i]
            /\ segments'[Len(segments)] = cut
        BY <3>1, <3>2, <3>3, <3>4 DEF f
      <3>6. k \in 0 .. Len(records)
        BY <1>4, <1>8
      <3> QED BY <1>2, <1>3, <1>9, <1>10, <2>2, <3>5, <3>6 DEF Cut
    <2> QED BY <2>1, <2>2
  <1>12. /\ FilesInOrder'
         /\ \A r \in Recs' : /\ r.intact => r \in Recs
                             /\ \E s \in Recs : s.seq = r.seq /\ s.made = r.made /\ s.events = r.events
         /\ \A r \in Recs' : Sound(r)' => \A s \in Recs : s.seq <= r.seq => s \in Recs'
         /\ \A r \in Recs' : r \in Recs \/ \A s \in Recs' : s.seq <= r.seq
         /\ \A i \in DOMAIN segments : i < Len(segments) => ToSet(segments[i].records) \subseteq Recs'
         /\ \A j \in 1 .. k : records[j] \in Recs'
    BY <1>11, CutOf
  <1>13. segments' \in Seq(SegmentType)
    BY <1>11 DEF Cut
  <1>14. faults \subseteq faults' /\ "power" \in Faults
    BY DEF Fault
  <1>15. Closes
    BY <1>1, <1>14, GoneCloses
  <1>16. Shrinks
    <2>1. ASSUME "damage" \notin faults'
          PROVE  /\ queue'.phase # "refused"
                 /\ \A r \in Recs' : ~r.intact => \A s \in Recs' : s.seq <= r.seq
                 /\ \A i \in DOMAIN segments : \A r \in ToSet(segments[i].records) :
                       r.intact /\ (queue.active => i < Len(segments)) => r \in Recs'
                 /\ SyncAlways => \A r \in Recs : r.intact /\ ~InDoubt(r) => r \in Recs'
      <3>1. queue'.phase # "refused"
        BY <1>1 DEF ClosedQueue
      <3>2. ASSUME NEW r \in Recs', ~r.intact, NEW s \in Recs' PROVE s.seq <= r.seq
        <4>1. SUFFICES ASSUME r \in Recs PROVE s.seq <= r.seq
          BY <1>12
        <4>2. PICK q \in Recs : q.seq = s.seq
          BY <1>12
        <4> QED BY <1>0, <1>14, <2>1, <3>2, <4>1, <4>2 DEF Undamaged
      <3>3. ASSUME NEW r \in Recs, ~InDoubt(r) PROVE r \in Recs'
        <4>1. PICK i \in DOMAIN segments : r \in ToSet(segments[i].records)
          BY DEF Recs, RecsOf
        <4>2. CASE i < Len(segments)
          BY <1>12, <4>1, <4>2
        <4>3. CASE ~(i < Len(segments))
          <5>1. i = Len(segments)
            BY <1>0, <4>3 DEF Types, FileTypes
          <5>2. PICK j \in DOMAIN records : r = records[j]
            BY <1>3, <1>4, <4>1, <5>1, ToSetOf
          <5>3. j \in Nat /\ j >= 1 /\ ~(j > queue.synced)
            BY <1>1, <1>4, <3>3, <5>2 DEF InDoubt
          <5>4. j \in 1 .. k
            BY <1>4, <1>8, <5>3
          <5> QED BY <1>12, <5>2, <5>4
        <4> QED BY <4>2, <4>3
      <3> QED BY <1>1, <1>12, <3>1, <3>2, <3>3
    <2> QED BY <1>12, <1>13, <2>1 DEF Shrinks
  <1> QED BY <1>15, <1>16, ClosesKeeps

\* A process or a machine that dies.
LEMMA CrashKeeps ==
  ASSUME CollectorInv, Crash
  PROVE  CollectorInv'
  BY DeathKeeps, PowerLostKeeps DEF Crash

-----------------------------------------------------------------------------
(* Recovery.                                                                *)

\* No file names a sequence that is still to be given out.
LEMMA FloorBelow ==
  ASSUME CollectorInv
  PROVE  SequenceFloor \in Nat /\ SequenceFloor < meta.next
  <1>1. Types /\ FilesInOrder /\ Used
    BY DEF CollectorInv
  <1> DEFINE S == {segments[i].first + Len(segments[i].records) - 1 : i \in DOMAIN segments}
  <1>2. meta.next \in Nat \ {0}
    BY <1>1, QueueTyped
  <1>3. ASSUME NEW i \in DOMAIN segments
        PROVE  LET n == segments[i].first + Len(segments[i].records) - 1
               IN n \in Nat /\ n <= meta.next - 1
    <2>1. segments[i].records \in Seq(RecordType) /\ segments[i] \in SegmentType
      BY <1>1, NamesTyped
    <2>2. SegmentInOrder(segments[i])
      BY <1>1 DEF FilesInOrder
    <2> DEFINE l == Len(segments[i].records)
    <2>3. l \in Nat \ {0} /\ l \in DOMAIN segments[i].records /\ segments[i].first \in Nat
      BY <2>1, <2>2 DEF SegmentInOrder, SegmentType
    <2> DEFINE r == segments[i].records[l]
    <2>4. segments[i].first + l - 1 <= r.seq
      BY <2>2, <2>3 DEF SegmentInOrder
    <2>5. r \in Recs
      <3>1. r \in ToSet(segments[i].records)
        BY <2>1, <2>3, ToSetOf
      <3> QED BY <3>1 DEF Recs, RecsOf
    <2>6. Descriptor(r) \in Known /\ Descriptor(r).seq = r.seq /\ r.seq \in Nat
      BY <1>1, <2>5, NamesTyped DEF RecordType
    <2>7. r.seq < meta.next
      BY <1>1, <2>6 DEF Used, Named, SeqsOf
    <2> HIDE DEF r, l
    <2>8. segments[i].first + l - 1 \in Nat /\ segments[i].first + l - 1 <= meta.next - 1
      BY <1>2, <2>3, <2>4, <2>6, <2>7
    <2> QED BY <2>8 DEF l
  <1>4. S \in SUBSET Nat /\ meta.next - 1 \in Nat /\ \A n \in S : n <= meta.next - 1
    BY <1>2, <1>3
  <1>5. SequenceFloor = MaxOf(S, 0)
    BY DEF SequenceFloor
  <1> HIDE DEF S
  <1>6. CASE S = {}
    <2>1. SequenceFloor = 0
      BY <1>5, <1>6, MaxOfNone
    <2> QED BY <1>2, <2>1
  <1>7. CASE S # {}
    <2>1. MaxOf(S, 0) \in S
      BY <1>4, <1>7, MaxOfGreatest
    <2>2. SequenceFloor \in Nat /\ SequenceFloor <= meta.next - 1
      BY <1>4, <1>5, <2>1
    <2> QED BY <1>2, <2>2
  <1> QED BY <1>6, <1>7

\* Recovery does not move the next sequence.
LEMMA FlooredSame ==
  ASSUME CollectorInv, queue.phase = "opening"
  PROVE  Floored(queue) = queue /\ queue.next = meta.next /\ queue.acked = meta.acked
  <1>1. queue \in QueueType /\ queue.next \in Nat
    BY QueueTyped DEF CollectorInv, Types
  <1>2. queue.next = meta.next /\ queue.acked = meta.acked
    BY DEF CollectorInv, Used
  <1>3. Larger(queue.next, SequenceFloor + 1) = queue.next
    BY <1>1, <1>2, FloorBelow DEF Larger
  <1>4. Floored(queue) = [queue EXCEPT !.next = queue.next]
    BY <1>3 DEF Floored
  <1> QED BY <1>1, <1>2, <1>4 DEF QueueType

\* The first segment with a damaged record.
LEMMA FirstCorruptOf ==
  ASSUME Types, FirstCorrupt # 0
  PROVE  /\ FirstCorrupt \in DOMAIN segments
         /\ \E j \in DOMAIN segments[FirstCorrupt].records : ~segments[FirstCorrupt].records[j].intact
         /\ \A i \in DOMAIN segments : i < FirstCorrupt =>
               \A r \in ToSet(segments[i].records) : r.intact
  <1> DEFINE corrupt == {i \in DOMAIN segments : Corrupt(segments[i])}
  <1>1. corrupt # {} /\ FirstCorrupt = CHOOSE i \in corrupt : \A j \in corrupt : i <= j
    BY DEF FirstCorrupt
  <1>2. corrupt \in SUBSET Nat
    BY NamesTyped
  <1>3. \E i \in corrupt : \A j \in corrupt : i <= j
    BY <1>1, <1>2, LeastOf
  <1>4. FirstCorrupt \in corrupt /\ \A j \in corrupt : FirstCorrupt <= j
    BY <1>1, <1>3
  <1>5. FirstCorrupt \in DOMAIN segments /\ Corrupt(segments[FirstCorrupt])
    BY <1>4
  <1>6. \E j \in DOMAIN segments[FirstCorrupt].records : ~segments[FirstCorrupt].records[j].intact
    <2>1. segments[FirstCorrupt].records \in Seq(RecordType)
      BY <1>5, NamesTyped
    <2> QED BY <1>5, <2>1, ToSetOf DEF Corrupt
  <1>7. ASSUME NEW i \in DOMAIN segments, i < FirstCorrupt, NEW r \in ToSet(segments[i].records)
        PROVE  r.intact
    <2>1. i \notin corrupt
      <3>1. i \in Nat /\ FirstCorrupt \in Nat
        BY <1>5, NamesTyped
      <3> QED BY <1>4, <1>7, <3>1
    <2> QED BY <1>7, <2>1 DEF Corrupt
  <1> QED BY <1>5, <1>6, <1>7

\* A queue that opens goes on opening.
LEMMA OpeningCloses ==
  ASSUME CollectorInv, queue.phase = "opening", queue' = queue, UNCHANGED <<meta, manifests>>,
         UNCHANGED <<pipelineVars, checkpoint, dead, senderVars, verdicts, epoch>>, NoFault
  PROVE  Closes
  <1>1. Types
    BY DEF CollectorInv
  <1>2. /\ connected = FALSE /\ inflight = {} /\ answered = {} /\ outcome = NoOutcome
        /\ batcher = "off" /\ batch = {} /\ work = <<>>
        /\ queue = [ClosedQueue EXCEPT !.phase = queue.phase, !.next = queue.next, !.acked = queue.acked]
    BY Idle DEF IsUp
  <1>3. queue \in QueueType /\ epoch \in Nat /\ readPos \in 0 .. Events /\ faults \subseteq Faults
    BY <1>1 DEF Types, SendTypes, PipeTypes
  <1>4. queue.next = meta.next /\ queue.acked = meta.acked
    BY FlooredSame
  <1>5. /\ UNCHANGED <<readPos, batch, work, batcher, checkpoint, dead, verdicts, epoch, faults>>
        /\ UNCHANGED <<connected, inflight, answered, outcome>>
    BY DEF pipelineVars, senderVars, NoFault
  <1> QED BY <1>2, <1>3, <1>4, <1>5 DEF Closes

\* The files without one segment.
LEMMA RemovedOf ==
  ASSUME Types, NEW i \in DOMAIN segments, NEW files, files = RemoveAt(segments, i)
  PROVE  /\ files \in Seq(SegmentType) /\ Len(files) = Len(segments) - 1
         /\ \A m \in DOMAIN files : m < i => m \in DOMAIN segments /\ files[m] = segments[m]
         /\ \A m \in DOMAIN files : ~(m < i) => m + 1 \in DOMAIN segments /\ files[m] = segments[m + 1]
         /\ \A m \in DOMAIN segments : m < i => m \in DOMAIN files /\ files[m] = segments[m]
         /\ \A m \in DOMAIN segments : i < m => m - 1 \in DOMAIN files /\ files[m - 1] = segments[m]
  <1> DEFINE L == Len(segments)
             a == SubSeq(segments, 1, i - 1)
             b == SubSeq(segments, i + 1, L)
  <1>1. /\ segments \in Seq(SegmentType) /\ DOMAIN segments = 1 .. L /\ L \in Nat
        /\ i \in Nat /\ 1 <= i /\ i <= L /\ \A m \in 1 .. L : segments[m] \in SegmentType
    BY DEF Types, FileTypes
  <1>2. files = a \o b
    BY DEF RemoveAt
  <1>3. a \in Seq(SegmentType) /\ Len(a) = i - 1 /\ \A m \in 1 .. i - 1 : a[m] = segments[m]
    <2>1. \A m \in 1 .. i - 1 : m \in 1 .. L /\ 1 + m - 1 = m
      BY <1>1
    <2>2. \A m \in 1 .. i - 1 : segments[m] \in SegmentType
      BY <1>1, <2>1
    <2>3. i - 1 \in Int /\ i - 1 - 1 + 1 = i - 1 /\ (~(1 <= i - 1) => i - 1 = 0)
      BY <1>1
    <2> QED BY <2>1, <2>2, <2>3, SubSeqProperties
  <1>4. b \in Seq(SegmentType) /\ Len(b) = L - i /\ \A m \in 1 .. L - i : b[m] = segments[m + i]
    <2>1. \A m \in i + 1 .. L : m \in 1 .. L
      BY <1>1
    <2>2. \A m \in i + 1 .. L : segments[m] \in SegmentType
      BY <1>1, <2>1
    <2>3. /\ i + 1 \in Int /\ L \in Int /\ L - (i + 1) + 1 = L - i /\ (~(i + 1 <= L) => L - i = 0)
          /\ \A m \in 1 .. L - i : i + 1 + m - 1 = m + i
      BY <1>1
    <2>4. /\ b \in Seq(SegmentType)
          /\ Len(b) = IF i + 1 <= L THEN L - (i + 1) + 1 ELSE 0
          /\ \A m \in 1 .. L - (i + 1) + 1 : b[m] = segments[i + 1 + m - 1]
      BY <2>2, <2>3, SubSeqProperties
    <2> HIDE DEF b, L
    <2>5. Len(b) = L - i
      BY <2>3, <2>4
    <2>6. ASSUME NEW m \in 1 .. L - i PROVE b[m] = segments[m + i]
      <3>1. m \in 1 .. L - (i + 1) + 1 /\ i + 1 + m - 1 = m + i
        BY <2>3
      <3> QED BY <2>4, <3>1
    <2> QED BY <2>4, <2>5, <2>6
  <1> HIDE DEF a, b, L
  <1>5. /\ files \in Seq(SegmentType) /\ Len(files) = (i - 1) + (L - i)
        /\ \A m \in 1 .. (i - 1) + (L - i) : files[m] = IF m <= i - 1 THEN a[m] ELSE b[m - (i - 1)]
    BY <1>2, <1>3, <1>4, ConcatProperties
  <1>6. (i - 1) + (L - i) = L - 1
    BY <1>1
  <1>7. ASSUME NEW m \in 1 .. L - 1
        PROVE  /\ m < i => m \in 1 .. L /\ files[m] = segments[m]
               /\ ~(m < i) => m + 1 \in 1 .. L /\ files[m] = segments[m + 1]
    <2>1. CASE m < i
      <3>1. m <= i - 1 /\ m \in 1 .. i - 1 /\ m \in 1 .. L
        BY <1>1, <2>1
      <3> QED BY <1>3, <1>5, <1>6, <2>1, <3>1
    <2>2. CASE ~(m < i)
      <3>1. /\ ~(m <= i - 1) /\ m - (i - 1) \in 1 .. L - i /\ m - (i - 1) + i = m + 1 /\ m + 1 \in 1 .. L
        BY <1>1, <2>2
      <3> QED BY <1>4, <1>5, <1>6, <2>2, <3>1
    <2> QED BY <2>1, <2>2
  <1>8. Len(files) = L - 1
    BY <1>5, <1>6
  <1>9. DOMAIN files = 1 .. L - 1
    BY <1>5, <1>8
  <1>10. ASSUME NEW m \in 1 .. L
         PROVE  /\ m < i => m \in 1 .. L - 1
                /\ i < m => m - 1 \in 1 .. L - 1 /\ ~(m - 1 < i) /\ (m - 1) + 1 = m
    BY <1>1
  <1>11. \A m \in DOMAIN segments : m < i => m \in DOMAIN files /\ files[m] = segments[m]
    BY <1>1, <1>7, <1>9, <1>10
  <1>12. \A m \in DOMAIN segments : i < m => m - 1 \in DOMAIN files /\ files[m - 1] = segments[m]
    BY <1>1, <1>7, <1>9, <1>10
  <1> QED BY <1>1, <1>5, <1>7, <1>8, <1>9, <1>11, <1>12 DEF L

\* The damaged tail goes, from the damaged record on.
LEMMA QuarantineTailKeeps ==
  ASSUME CollectorInv, QuarantineTail,
         UNCHANGED <<pipelineVars, checkpoint, dead, senderVars, verdicts, epoch>>, NoFault
  PROVE  CollectorInv'
  <1>1. Types /\ FilesInOrder /\ Undamaged
    BY DEF CollectorInv
  <1> DEFINE L == Len(segments)
  <1>2. /\ queue.phase = "opening" /\ FirstCorrupt # 0 /\ FirstCorrupt = L
        /\ queue' = Floored(queue) /\ (queue'.next = queue.next => meta' = meta)
        /\ manifests' = manifests
        /\ segments' = IF Repaired(segments[L]) = <<>> THEN RemoveAt(segments, L)
                       ELSE [segments EXCEPT ![L].records = Repaired(segments[L])]
    BY DEF QuarantineTail, CutTail
  <1>3. queue' = queue /\ meta' = meta
    BY <1>2, FlooredSame
  <1>4. /\ L \in DOMAIN segments
        /\ \E j \in DOMAIN segments[L].records : ~segments[L].records[j].intact
    BY <1>1, <1>2, FirstCorruptOf
  <1>5. /\ segments \in Seq(SegmentType) /\ DOMAIN segments = 1 .. L /\ L \in Nat \ {0} /\ segments # <<>>
        /\ segments[L] \in SegmentType /\ Last(segments) = segments[L]
    BY <1>1, <1>4, NamesTyped DEF Types, FileTypes, Last
  <1> DEFINE records == segments[L].records
  <1>6. records \in Seq(RecordType) /\ Len(records) \in Nat /\ DOMAIN records = 1 .. Len(records)
    BY <1>5 DEF SegmentType
  <1> DEFINE First(i) == ~records[i].intact /\ \A j \in 1 .. i - 1 : records[j].intact
             bad == CHOOSE i \in DOMAIN records : First(i)
  <1>7. bad \in DOMAIN records /\ First(bad)
    <2>1. \E i \in DOMAIN records : First(i)
      <3> DEFINE T == {i \in DOMAIN records : ~records[i].intact}
      <3>1. T \in SUBSET Nat /\ T # {}
        BY <1>4, <1>6
      <3>2. PICK i \in T : \A t \in T : i <= t
        BY <3>1, LeastOf
      <3>3. ASSUME NEW j \in 1 .. i - 1 PROVE records[j].intact
        <4>1. j \in DOMAIN records /\ ~(i <= j)
          BY <1>6, <3>2
        <4> QED BY <3>2, <4>1
      <3> QED BY <3>2, <3>3
    <2> QED BY <2>1
  <1>8. Repaired(segments[L]) = SubSeq(records, 1, bad - 1)
    BY DEF Repaired
  <1> HIDE DEF bad, L
  <1> DEFINE k == bad - 1
             left == SubSeq(records, 1, k)
  <1>9. k \in Nat /\ k <= Len(records) /\ k + 1 = bad /\ bad \in 1 .. Len(records)
    BY <1>6, <1>7
  <1>10. left \in Seq(RecordType) /\ Len(left) = k /\ \A j \in 1 .. k : left[j] = records[j]
    <2> HIDE DEF k
    <2>1. \A j \in 1 .. k : records[j] \in RecordType /\ 1 + j - 1 = j
      BY <1>6, <1>9
    <2>2. k - 1 + 1 = k /\ k \in Int
      BY <1>9
    <2> HIDE DEF records
    <2> QED BY <1>9, <2>1, <2>2, SubSeqProperties
  <1> HIDE DEF left, k
  <1>11. Cut(left, k)
    <2>1. k \in 0 .. Len(records) /\ Len(left) \in {k, k + 1} /\ Len(left) <= Len(records) /\ Len(left) # k + 1
      BY <1>6, <1>9, <1>10
    <2>2. /\ segments' \in Seq(SegmentType)
          /\ Len(segments') = IF left = <<>> THEN L - 1 ELSE L
          /\ \A i \in 1 .. L - 1 : segments'[i] = segments[i]
          /\ left # <<>> => segments'[L].records = left /\ segments'[L].first = segments[L].first
      <3>1. CASE left = <<>>
        <4>1. segments' = RemoveAt(segments, L)
          BY <1>2, <1>8, <3>1 DEF left, k, L
        <4>2. /\ segments' \in Seq(SegmentType) /\ Len(segments') = L - 1
              /\ \A m \in DOMAIN segments : m < L => segments'[m] = segments[m]
          BY <1>1, <1>4, <4>1, RemovedOf DEF L
        <4>3. \A i \in 1 .. L - 1 : i \in DOMAIN segments /\ i < L
          BY <1>5
        <4> QED BY <3>1, <4>2, <4>3
      <3>2. CASE left # <<>>
        <4> DEFINE cut == [segments[L] EXCEPT !.records = left]
        <4>1. segments' = [segments EXCEPT ![L] = cut]
          BY <1>2, <1>8, <3>2 DEF left, k, L
        <4>2. cut \in SegmentType /\ cut.records = left /\ cut.first = segments[L].first
          BY <1>5, <1>10 DEF SegmentType
        <4> HIDE DEF cut
        <4>3. L \in 1 .. Len(segments) /\ Len(segments) = L
          BY <1>5 DEF L
        <4>4. /\ segments' \in Seq(SegmentType) /\ Len(segments') = L /\ segments'[L] = cut
              /\ \A i \in 1 .. L - 1 : segments'[i] = segments[i]
          BY <1>5, <4>1, <4>2, <4>3
        <4> QED BY <3>2, <4>2, <4>4
      <3> QED BY <3>1, <3>2
    <2> QED BY <1>5, <1>10, <2>1, <2>2 DEF Cut, L
  <1>12. /\ FilesInOrder'
         /\ \A r \in Recs' : /\ r.intact => r \in Recs
                             /\ \E s \in Recs : s.seq = r.seq /\ s.made = r.made /\ s.events = r.events
         /\ \A r \in Recs' : Sound(r)' => \A s \in Recs : s.seq <= r.seq => s \in Recs'
         /\ \A r \in Recs' : r \in Recs \/ \A s \in Recs' : s.seq <= r.seq
         /\ \A i \in DOMAIN segments : i < L => ToSet(segments[i].records) \subseteq Recs'
         /\ \A j \in 1 .. k : records[j] \in Recs'
    BY <1>5, <1>11, CutOf DEF L
  <1>13. faults' = faults
    BY DEF NoFault
  <1>14. Closes
    BY <1>2, <1>3, OpeningCloses
  <1>15. Shrinks
    <2>1. ASSUME "damage" \notin faults
          PROVE  /\ queue'.phase # "refused"
                 /\ \A r \in Recs' : ~r.intact => \A s \in Recs' : s.seq <= r.seq
                 /\ \A r \in Recs : r.intact => r \in Recs'
      <3>1. queue'.phase # "refused"
        BY <1>2, <1>3
      <3>2. ASSUME NEW r \in Recs', ~r.intact, NEW s \in Recs' PROVE s.seq <= r.seq
        <4>1. SUFFICES ASSUME r \in Recs PROVE s.seq <= r.seq
          BY <1>12
        <4>2. PICK q \in Recs : q.seq = s.seq
          BY <1>12
        <4> QED BY <1>1, <2>1, <3>2, <4>1, <4>2 DEF Undamaged
      <3>3. ASSUME NEW r \in Recs, r.intact PROVE r \in Recs'
        <4>1. PICK i \in DOMAIN segments : r \in ToSet(segments[i].records)
          BY DEF Recs, RecsOf
        <4>2. CASE i < L
          BY <1>12, <4>1, <4>2
        <4>3. CASE ~(i < L)
          <5>1. i = L
            BY <1>5, <4>3
          <5>2. PICK j \in DOMAIN records : r = records[j]
            BY <1>6, <4>1, <5>1, ToSetOf
          <5>3. j # bad
            BY <1>7, <3>3, <5>2
          <5>4. ~(bad < j)
            <6>1. SUFFICES ASSUME bad < j PROVE FALSE
              OBVIOUS
            <6>2. records[bad].seq < r.seq
              BY <1>1, <1>4, <1>7, <5>2, <6>1, PlacesOrdered DEF L
            <6>3. records[bad] \in Recs
              <7>1. records[bad] \in ToSet(records)
                BY <1>6, <1>7, ToSetOf
              <7> QED BY <1>4, <7>1 DEF Recs, RecsOf, L
            <6>4. r.seq <= records[bad].seq
              BY <1>1, <1>7, <2>1, <6>3 DEF Undamaged
            <6>5. r.seq \in Nat /\ records[bad].seq \in Nat
              BY <1>1, <6>3, NamesTyped DEF RecordType
            <6> QED BY <6>2, <6>4, <6>5
          <5>5. j \in 1 .. k
            BY <1>6, <1>9, <5>3, <5>4
          <5> QED BY <1>12, <5>2, <5>5
        <4> QED BY <4>2, <4>3
      <3> QED BY <3>1, <3>2, <3>3
    <2>2. \A i \in DOMAIN segments : \A r \in ToSet(segments[i].records) : r \in Recs
      BY DEF Recs, RecsOf
    <2>3. segments' \in Seq(SegmentType)
      BY <1>11 DEF Cut
    <2> QED BY <1>12, <1>13, <2>1, <2>2, <2>3 DEF Shrinks
  <1> QED BY <1>14, <1>15, ClosesKeeps

\* A segment behind a damaged record goes.
LEMMA QuarantineSuccessorKeeps ==
  ASSUME CollectorInv, QuarantineSuccessor,
         UNCHANGED <<pipelineVars, checkpoint, dead, senderVars, verdicts, epoch>>, NoFault
  PROVE  CollectorInv'
  <1>1. Types /\ FilesInOrder /\ Undamaged
    BY DEF CollectorInv
  <1> DEFINE f == FirstCorrupt
             i == f + 1
  <1>2. /\ queue.phase = "opening" /\ FirstCorrupt # 0 /\ f < Len(segments)
        /\ queue' = Floored(queue) /\ (queue'.next = queue.next => meta' = meta)
        /\ manifests' = manifests
        /\ segments' = RemoveAt(segments, i)
    BY DEF QuarantineSuccessor
  <1>3. queue' = queue /\ meta' = meta
    BY <1>2, FlooredSame
  <1>4. /\ f \in DOMAIN segments
        /\ \E j \in DOMAIN segments[f].records : ~segments[f].records[j].intact
    BY <1>1, <1>2, FirstCorruptOf
  <1> HIDE DEF f
  <1>5. /\ segments \in Seq(SegmentType) /\ DOMAIN segments = 1 .. Len(segments)
        /\ \A m \in DOMAIN segments : segments[m].records \in Seq(RecordType)
    BY <1>1, NamesTyped DEF Types, FileTypes
  <1>6. i \in DOMAIN segments /\ i \in Nat /\ f \in Nat /\ f < i
    BY <1>2, <1>4, <1>5
  <1>7. /\ segments' \in Seq(SegmentType) /\ Len(segments') = Len(segments) - 1
        /\ \A m \in DOMAIN segments' : m < i => m \in DOMAIN segments /\ segments'[m] = segments[m]
        /\ \A m \in DOMAIN segments' : ~(m < i) => m + 1 \in DOMAIN segments /\ segments'[m] = segments[m + 1]
        /\ \A m \in DOMAIN segments : m < i => m \in DOMAIN segments' /\ segments'[m] = segments[m]
        /\ \A m \in DOMAIN segments : i < m => m - 1 \in DOMAIN segments' /\ segments'[m - 1] = segments[m]
    BY <1>1, <1>2, <1>6, RemovedOf
  <1> DEFINE g == [m \in DOMAIN segments' |-> IF m < i THEN m ELSE m + 1]
  <1>8. Embeds(g)
    <2>1. ASSUME NEW m \in DOMAIN segments' PROVE
            /\ g[m] = (IF m < i THEN m ELSE m + 1) /\ g[m] \in DOMAIN segments /\ segments'[m] = segments[g[m]]
      BY <1>7
    <2>2. \A m \in DOMAIN segments' : m \in Nat
      BY <1>7
    <2>3. \A m, n \in DOMAIN segments' : m < n => g[m] < g[n]
      <3>1. SUFFICES ASSUME NEW m \in DOMAIN segments', NEW n \in DOMAIN segments', m < n PROVE g[m] < g[n]
        OBVIOUS
      <3>2. m \in Nat /\ n \in Nat /\ g[m] = (IF m < i THEN m ELSE m + 1) /\ g[n] = (IF n < i THEN n ELSE n + 1)
        BY <2>1, <2>2
      <3> HIDE DEF i
      <3> QED BY <1>6, <3>1, <3>2
    <2> HIDE DEF g
    <2>4. \A m \in DOMAIN segments' : segments'[m].records # <<>>
      BY <1>1, <2>1 DEF FilesInOrder, SegmentInOrder
    <2> QED BY <1>7, <2>1, <2>3, <2>4 DEF Embeds
  <1> HIDE DEF g
  <1>9. FilesInOrder' /\ \A r \in Recs' : /\ r.intact => r \in Recs
                              /\ \E s \in Recs : s.seq = r.seq /\ s.made = r.made /\ s.events = r.events
    BY <1>8, EmbedsOrdered
  <1> HIDE DEF i
  <1>10. PICK j \in DOMAIN segments[f].records : ~segments[f].records[j].intact
    BY <1>4
  <1> DEFINE c == segments[f].records[j]
  <1>11. c \in ToSet(segments[f].records)
    BY <1>4, <1>5, ToSetOf
  <1>12. c \in Recs /\ c \in Recs' /\ ~c.intact
    <2>1. f \in DOMAIN segments' /\ segments'[f] = segments[f]
      BY <1>4, <1>6, <1>7
    <2> QED BY <1>4, <1>10, <1>11, <2>1 DEF Recs, RecsOf
  <1>13. \A m \in DOMAIN segments : \A r \in ToSet(segments[m].records) :
            (m < i \/ i < m) => r \in Recs'
    BY <1>7 DEF Recs, RecsOf
  <1> HIDE DEF c
  <1>14. \A s \in ToSet(segments[i].records) : c.seq < s.seq
    BY <1>1, <1>4, <1>6, <1>11 DEF FilesInOrder
  <1>15. \A s \in Recs : s.seq \in Nat
    BY <1>1, NamesTyped DEF RecordType
  <1>16. ASSUME NEW r \in Recs', Sound(r)', NEW s \in Recs, s.seq <= r.seq PROVE s \in Recs'
    <2>1. PICK m \in DOMAIN segments : s \in ToSet(segments[m].records)
      BY DEF Recs, RecsOf
    <2>2. r.seq \in Nat /\ s.seq \in Nat /\ c.seq \in Nat
      BY <1>9, <1>12, <1>15
    <2>3. ~(c.seq <= r.seq)
      BY <1>12, <1>16 DEF Sound
    <2>4. ~(c.seq < s.seq)
      BY <1>16, <2>2, <2>3
    <2>5. m # i
      BY <1>14, <2>1, <2>4
    <2>6. m < i \/ i < m
      BY <1>5, <1>6, <2>5
    <2> QED BY <1>13, <2>1, <2>6
  <1>17. "damage" \in faults
    <2>1. SUFFICES ASSUME "damage" \notin faults PROVE FALSE
      OBVIOUS
    <2>2. segments[i].records # <<>> /\ segments[i].records \in Seq(RecordType)
      BY <1>1, <1>5, <1>6 DEF FilesInOrder, SegmentInOrder
    <2>3. PICK s \in ToSet(segments[i].records) : TRUE
      BY <2>2, ToSetOf
    <2>4. s \in Recs /\ c.seq < s.seq
      BY <1>6, <1>14 DEF Recs, RecsOf
    <2>5. s.seq <= c.seq
      BY <1>1, <1>12, <2>1, <2>4 DEF Undamaged
    <2> QED BY <1>12, <1>15, <2>4, <2>5
  <1>18. faults' = faults
    BY DEF NoFault
  <1>19. Closes
    BY <1>2, <1>3, OpeningCloses
  <1>20. Shrinks
    BY <1>7, <1>9, <1>16, <1>17, <1>18 DEF Shrinks
  <1> QED BY <1>19, <1>20, ClosesKeeps

\* Recovery quarantines one file at a time.
LEMMA QuarantineKeeps ==
  ASSUME CollectorInv, Quarantine
  PROVE  CollectorInv'
  BY QuarantineTailKeeps, QuarantineSuccessorKeeps DEF Quarantine

\* The last sequence a recovered segment is kept for.
LEMMA RecoveredLast ==
  ASSUME CollectorInv, queue.phase = "opening", NEW plans, plans \subseteq manifests,
         NEW i \in DOMAIN segments, NEW file, file = RecoveredFiles(plans)[i]
  PROVE  /\ file \in SegmentType /\ file.first = segments[i].first /\ file.records = segments[i].records
         /\ file.last < meta.next
         /\ \A r \in ToSet(segments[i].records) : r.seq <= file.last
         /\ \A p \in plans : (\E r \in ToSet(segments[i].records) : r.seq = p.root) => Through(p) <= file.last
  <1>1. Types /\ FilesInOrder /\ Used /\ Families
    BY DEF CollectorInv
  <1>2. /\ segments[i] \in SegmentType /\ segments[i].records \in Seq(RecordType)
        /\ ToSet(segments[i].records) \subseteq RecordType
        /\ segments[i].records # <<>>
    BY <1>1, NamesTyped DEF FilesInOrder, SegmentInOrder
  <1>3. meta.next \in Nat \ {0}
    BY <1>1, QueueTyped
  <1> DEFINE records == segments[i].records
             held == {record.seq : record \in ToSet(records)}
             S == {Through(plan) : plan \in {p \in plans : p.root \in held}} \cup {Last(records).seq}
  <1>4. \A r \in ToSet(records) : r.seq \in Nat /\ r.seq < meta.next
    <2>1. SUFFICES ASSUME NEW r \in ToSet(records) PROVE r.seq \in Nat /\ r.seq < meta.next
      OBVIOUS
    <2>2. r \in Recs
      BY DEF Recs, RecsOf
    <2>3. Descriptor(r) \in Known /\ Descriptor(r).seq = r.seq /\ r.seq \in Nat
      BY <1>1, <2>2, NamesTyped DEF RecordType
    <2> QED BY <1>1, <2>3 DEF Used, Named, SeqsOf
  <1>5. \A p \in plans : Through(p) \in Nat /\ Through(p) < meta.next
    BY <1>1, PlansOf
  <1>6. Len(records) \in DOMAIN records /\ Last(records) = records[Len(records)]
        /\ Last(records) \in ToSet(records)
    <2>1. Len(records) \in 1 .. Len(records)
      BY <1>2
    <2> QED BY <1>2, <2>1, ToSetOf DEF Last
  <1>7. S \in SUBSET Nat /\ meta.next - 1 \in Nat /\ \A n \in S : n <= meta.next - 1
    <2>1. \A n \in S : n \in Nat /\ n < meta.next
      BY <1>4, <1>5, <1>6
    <2> HIDE DEF S
    <2> QED BY <1>3, <2>1
  <1>8. file = [segments[i] EXCEPT !.last = MaxOf(S, 0)]
    BY DEF RecoveredFiles
  <1>9. Last(records).seq \in S /\ \A p \in plans : p.root \in held => Through(p) \in S
    OBVIOUS
  <1> HIDE DEF S
  <1>10. MaxOf(S, 0) \in S /\ \A n \in S : n <= MaxOf(S, 0)
    BY <1>7, <1>9, MaxOfGreatest
  <1>11. MaxOf(S, 0) \in Nat /\ MaxOf(S, 0) <= meta.next - 1
    BY <1>7, <1>10
  <1>12. file \in SegmentType /\ file.first = segments[i].first /\ file.records = segments[i].records
         /\ file.last = MaxOf(S, 0)
    BY <1>2, <1>8, <1>11 DEF SegmentType
  <1>13. file.last < meta.next
    BY <1>3, <1>11, <1>12
  <1>14. ASSUME NEW r \in ToSet(records) PROVE r.seq <= file.last
    <2>1. PICK j \in DOMAIN records : r = records[j]
      BY <1>2, ToSetOf
    <2>2. j = Len(records) \/ j < Len(records)
      BY <1>2
    <2>3. j < Len(records) => r.seq < Last(records).seq
      BY <1>1, <1>6, <2>1, PlacesOrdered
    <2>4. r.seq \in Nat /\ Last(records).seq \in Nat /\ r.seq <= Last(records).seq
      BY <1>4, <1>6, <2>1, <2>2, <2>3
    <2>5. Last(records).seq <= file.last
      BY <1>9, <1>10, <1>12
    <2> QED BY <1>11, <1>12, <2>4, <2>5
  <1>15. ASSUME NEW p \in plans, NEW r \in ToSet(records), r.seq = p.root PROVE Through(p) <= file.last
    BY <1>9, <1>10, <1>12, <1>15
  <1> QED BY <1>12, <1>13, <1>14, <1>15

\* No record is damaged once recovery gets to rebuild the queue.
LEMMA NoneCorrupt ==
  ASSUME Types, FirstCorrupt = 0
  PROVE  \A r \in Recs : r.intact
  <1> DEFINE corrupt == {i \in DOMAIN segments : Corrupt(segments[i])}
  <1>1. corrupt \in SUBSET Nat /\ 0 \notin corrupt
    BY NamesTyped
  <1>2. FirstCorrupt = IF corrupt = {} THEN 0 ELSE CHOOSE i \in corrupt : \A j \in corrupt : i <= j
    BY DEF FirstCorrupt
  <1>3. corrupt = {}
    <2>1. SUFFICES ASSUME corrupt # {} PROVE FALSE
      OBVIOUS
    <2>2. \E i \in corrupt : \A j \in corrupt : i <= j
      BY <1>1, <2>1, LeastOf
    <2>3. FirstCorrupt \in corrupt
      BY <1>2, <2>1, <2>2
    <2> QED BY <1>1, <2>3
  <1> QED BY <1>3 DEF Corrupt, Recs, RecsOf

\* What recovery makes of the queue.
Plans == Unfinished(manifests, queue.acked)

\* What a recovery that completes leaves: the known batches past the acknowledged
\* sequence wait again, and the repack plans that are not finished are kept.
LEMMA RecoveredOf ==
  ASSUME CollectorInv, Recover, \A plan \in Plans : HasRecord(segments, plan.root)
  PROVE  /\ queue.phase = "opening" /\ queue.acked = meta.acked /\ queue.next = meta.next
         /\ \A r \in Recs : r.intact
         /\ queue' \in QueueType /\ queue'.phase = "up" /\ queue'.next = meta.next /\ queue'.reserved = 0
         /\ queue'.acked = meta.acked /\ queue'.unacked = {b \in Known : b.seq > meta.acked}
         /\ queue'.terminal = {} /\ queue'.repacks = Plans /\ queue'.active = FALSE
         /\ queue'.handed = 0 /\ queue'.unhealthy = FALSE
         /\ manifests' = Plans
         /\ meta' \in MetaType /\ meta'.next = meta.next /\ meta'.acked = meta.acked
         /\ \A ref \in meta'.refs : \/ ref.through <= meta.acked
                                    \/ \E p \in Plans : p.parent = ref.parent /\ Through(p) = ref.through
  <1> DEFINE plans == Plans
             state == RecoveredQueue(plans)
             batches == {Descriptor(record) : record \in Recs} \cup UNION {plan.children : plan \in plans}
  <1>1. Types /\ Used /\ Families /\ References
    BY DEF CollectorInv
  <1>2. /\ queue.phase = "opening" /\ FirstCorrupt = 0
        /\ queue' = state /\ manifests' = plans
        /\ meta' = IF state.next = queue.next /\ plans = {} THEN meta ELSE MetaOf(state)
    BY DEF Recover, Plans
  <1>3. Floored(queue) = queue /\ queue.next = meta.next /\ queue.acked = meta.acked
    BY <1>2, FlooredSame
  <1>4. /\ meta.next \in Nat \ {0} /\ meta.acked \in Nat /\ queue.unacked \subseteq Batch /\ queue \in QueueType
        /\ Known \subseteq Batch
    BY <1>1, QueueTyped, NamesTyped DEF Types
  <1>5. /\ queue.reserved = 0 /\ queue.terminal = {} /\ queue.active = FALSE /\ queue.handed = 0
        /\ queue.unhealthy = FALSE
    <2>1. queue = [ClosedQueue EXCEPT !.phase = queue.phase, !.next = queue.next, !.acked = queue.acked]
      BY <1>2, Idle DEF IsUp
    <2> QED BY <2>1 DEF ClosedQueue
  <1>6. /\ plans \subseteq manifests /\ plans \subseteq PlanType
        /\ \A p \in plans : Through(p) \in Nat /\ Through(p) < meta.next /\ Through(p) > meta.acked
        /\ \A p \in manifests : Through(p) \in Nat /\ (p \in plans \/ Through(p) <= meta.acked)
    BY <1>1, <1>3, <1>4, PlansOf DEF Plans, Unfinished
  <1> HIDE DEF plans
  <1>7. Larger(Floored(queue).next, 1 + MaxOf({Through(plan) : plan \in plans}, 0)) = meta.next
    <2> DEFINE S == {Through(plan) : plan \in plans}
    <2>1. S \in SUBSET Nat /\ meta.next - 1 \in Nat /\ \A n \in S : n <= meta.next - 1
      BY <1>4, <1>6
    <2> HIDE DEF S
    <2>2. MaxOf(S, 0) \in Nat /\ MaxOf(S, 0) <= meta.next - 1
      <3>1. CASE S = {}
        <4>1. MaxOf(S, 0) = 0
          BY <3>1, MaxOfNone
        <4> QED BY <2>1, <4>1
      <3>2. CASE S # {}
        <4>1. MaxOf(S, 0) \in S
          BY <2>1, <3>2, MaxOfGreatest
        <4> QED BY <2>1, <4>1
      <3> QED BY <3>1, <3>2
    <2>3. Larger(meta.next, 1 + MaxOf(S, 0)) = meta.next
      BY <1>4, <2>2 DEF Larger
    <2> QED BY <1>3, <2>3 DEF S
  <1>8. {b \in batches : b.seq > queue.acked} = {b \in Known : b.seq > meta.acked}
    <2>1. batches \subseteq Known
      BY <1>6 DEF Known, Children
    <2>2. ASSUME NEW b \in Known, b.seq > meta.acked PROVE b \in batches
      <3>1. CASE \E p \in manifests : b \in p.children
        <4>1. PICK p \in manifests : b \in p.children
          BY <3>1
        <4>2. b.seq <= Through(p) /\ b.seq \in Nat /\ Through(p) \in Nat
          BY <1>1, <4>1, PlansOf
        <4>3. ~(Through(p) <= meta.acked)
          BY <1>4, <2>2, <4>2
        <4>4. p \in plans
          BY <1>6, <4>1, <4>3
        <4> QED BY <4>1, <4>4
      <3> QED BY <3>1, KnownFrom
    <2> QED BY <1>3, <2>1, <2>2
  <1>9. state = [queue EXCEPT !.phase = "up", !.next = meta.next, !.repacks = plans,
                              !.unacked = {b \in Known : b.seq > meta.acked}]
    BY <1>7, <1>8 DEF RecoveredQueue, Recs, RecsOf
  <1>10. {b \in Known : b.seq > meta.acked} \subseteq Batch
    BY <1>4
  <1> DEFINE unacked == {b \in Known : b.seq > meta.acked}
  <1> HIDE DEF state, batches, unacked
  <1>11. state = [queue EXCEPT !.phase = "up", !.next = meta.next, !.repacks = plans, !.unacked = unacked]
    BY <1>9 DEF unacked
  <1>12. unacked \subseteq Batch
    BY <1>10 DEF unacked
  <1>13. /\ state \in QueueType /\ state.phase = "up" /\ state.next = meta.next /\ state.reserved = 0
         /\ state.acked = meta.acked /\ state.unacked = unacked
         /\ state.terminal = {} /\ state.repacks = plans /\ state.active = FALSE
         /\ state.handed = 0 /\ state.unhealthy = FALSE
    BY <1>3, <1>4, <1>5, <1>6, <1>11, <1>12 DEF QueueType
  <1>14. CASE state.next = queue.next /\ plans = {}
    <2>1. meta' = meta
      BY <1>2, <1>14
    <2>2. meta \in MetaType
      BY <1>1 DEF Types, FileTypes, MetaType
    <2>3. \A ref \in meta.refs : ref.through <= meta.acked
      <3>1. SUFFICES ASSUME NEW ref \in meta.refs, Matched(ref) PROVE ref.through <= meta.acked
        BY <1>1 DEF References
      <3>2. PICK p \in manifests : Through(p) = ref.through
        BY <3>1 DEF Matched
      <3>3. Through(p) <= meta.acked
        BY <1>6, <1>14
      <3> QED BY <3>2, <3>3
    <2> QED BY <1>2, <1>3, <1>1, <1>13, <2>1, <2>2, <2>3, NoneCorrupt DEF unacked, plans
  <1>15. CASE ~(state.next = queue.next /\ plans = {})
    <2>1. meta' = MetaOf(state)
      BY <1>2, <1>15
    <2>2. /\ MetaOf(state) \in MetaType /\ MetaOf(state).acked = meta.acked
          /\ \A ref \in MetaOf(state).refs : \E p \in plans : p.parent = ref.parent /\ Through(p) = ref.through
      <3>1. /\ state.next \in Nat \ {0} /\ state.reserved \in Nat /\ state.acked \in Nat
            /\ state.repacks \subseteq PlanType /\ \A p \in state.repacks : Through(p) \in Nat
        BY <1>4, <1>6, <1>13
      <3> QED BY <1>13, <3>1, MetaWritten
    <2>3. MetaOf(state).next = meta.next
      <3>1. Larger(meta.next, 0) = meta.next
        BY <1>4 DEF Larger
      <3> QED BY <1>13, <3>1 DEF MetaOf
    <2> QED BY <1>1, <1>2, <1>3, <1>13, <2>1, <2>2, <2>3, NoneCorrupt DEF unacked, plans
  <1> QED BY <1>14, <1>15

\* What recovery leaves of the files.
LEMMA RecoveredFilesOf ==
  ASSUME CollectorInv, Recover, \A plan \in Plans : HasRecord(segments, plan.root)
  PROVE  /\ segments' \in Seq(SegmentType) /\ FilesInOrder'
         /\ \A m \in DOMAIN segments' :
               /\ segments'[m].last < meta.next
               /\ \A r \in ToSet(segments'[m].records) : r.seq <= segments'[m].last
         /\ Recs' \subseteq Recs /\ Children' \subseteq Children /\ Known' \subseteq Known
         /\ \A r \in Recs : r \in Recs' \/ r.seq <= meta.acked
         /\ \A b \in Known : b.seq > meta.acked => b \in Known'
         /\ \A p \in Plans : \E m \in DOMAIN segments' :
               /\ Through(p) <= segments'[m].last
               /\ \E r \in ToSet(segments'[m].records) : r.seq = p.root /\ r.intact
         /\ \A r \in Recs : r.seq > meta.acked => \E m \in DOMAIN segments' :
               r \in ToSet(segments'[m].records) /\ r.seq <= segments'[m].last
  <1>1. Types /\ FilesInOrder /\ Used /\ Families
    BY DEF CollectorInv
  <1>2. /\ queue.phase = "opening" /\ queue.acked = meta.acked /\ manifests' = Plans
        /\ meta.acked \in Nat
    BY <1>1, RecoveredOf, QueueTyped
  <1> DEFINE files == RecoveredFiles(Plans)
             L == Len(segments)
             n == Reclaimable(files, FALSE, meta.acked)
  <1>3. /\ Plans \subseteq manifests /\ \A p \in Plans : Through(p) \in Nat /\ Through(p) > meta.acked
        /\ \A p \in manifests : Through(p) \in Nat /\ (p \in Plans \/ Through(p) <= meta.acked)
    BY <1>1, <1>2, PlansOf DEF Plans, Unfinished
  <1>4. segments' = SubSeq(files, 1 + n, Len(files))
    BY <1>2 DEF Recover, Plans
  <1>5. /\ segments \in Seq(SegmentType) /\ DOMAIN segments = 1 .. L /\ L \in Nat
        /\ \A i \in 1 .. L : segments[i].records \in Seq(RecordType)
    BY <1>1, NamesTyped DEF Types, FileTypes
  <1>6. DOMAIN files = DOMAIN segments
    BY DEF RecoveredFiles
  <1>7. ASSUME NEW i \in DOMAIN segments
        PROVE  /\ files[i] \in SegmentType /\ files[i].first = segments[i].first
               /\ files[i].records = segments[i].records
               /\ files[i].last < meta.next
               /\ \A r \in ToSet(segments[i].records) : r.seq <= files[i].last
               /\ \A p \in Plans : (\E r \in ToSet(segments[i].records) : r.seq = p.root) => Through(p) <= files[i].last
    BY <1>2, <1>3, RecoveredLast
  <1>8. files \in Seq(SegmentType) /\ Len(files) = L
    <2>1. files = [i \in 1 .. L |-> files[i]]
      BY <1>5 DEF RecoveredFiles
    <2>2. \A i \in 1 .. L : files[i] \in SegmentType
      BY <1>5, <1>7
    <2> HIDE DEF files, L
    <2>3. [i \in 1 .. L |-> files[i]] \in Seq(SegmentType)
      BY <1>5, <2>2
    <2>4. files \in Seq(SegmentType)
      BY <2>1, <2>3
    <2>5. DOMAIN files = 1 .. L
      BY <1>5, <1>6
    <2> QED BY <1>5, <2>4, <2>5
  <1>9. /\ n \in 0 .. L /\ \A i \in 1 .. n : files[i].last <= meta.acked
    <2> HIDE DEF files
    <2>1. Len(files) \in Nat
      BY <1>5, <1>8
    <2> QED BY <1>8, <2>1, ReclaimableOf
  <1> HIDE DEF files, n, L
  <1>10. /\ segments' \in Seq(SegmentType) /\ Len(segments') = L - n
         /\ \A m \in 1 .. L - n : segments'[m] = files[m + n]
    <2>1. \A i \in 1 + n .. L : i \in 1 .. L
      BY <1>5, <1>9
    <2>2. \A i \in 1 + n .. L : files[i] \in SegmentType
      BY <1>5, <1>7, <2>1
    <2>3. 1 + n \in Int /\ L \in Int /\ L - (1 + n) + 1 = L - n /\ (~(1 + n <= L) => L - n = 0)
          /\ \A m \in 1 .. L - n : 1 + n + m - 1 = m + n
      BY <1>5, <1>9
    <2>4. /\ segments' \in Seq(SegmentType)
          /\ Len(segments') = IF 1 + n <= L THEN L - (1 + n) + 1 ELSE 0
          /\ \A m \in 1 .. L - (1 + n) + 1 : segments'[m] = files[1 + n + m - 1]
      BY <1>4, <1>8, <2>2, <2>3, SubSeqProperties
    <2>5. Len(segments') = L - n
      BY <2>3, <2>4
    <2>6. ASSUME NEW m \in 1 .. L - n PROVE segments'[m] = files[m + n]
      <3>1. m \in 1 .. L - (1 + n) + 1 /\ 1 + n + m - 1 = m + n
        BY <2>3
      <3> QED BY <2>4, <3>1
    <2> QED BY <2>4, <2>5, <2>6
  <1>11. DOMAIN segments' = 1 .. L - n
    BY <1>10
  <1>12. ASSUME NEW m \in DOMAIN segments'
         PROVE  m + n \in DOMAIN segments /\ segments'[m] = files[m + n]
    <2>1. m + n \in 1 .. L
      BY <1>5, <1>9, <1>11
    <2> QED BY <1>5, <1>10, <1>11, <2>1
  <1>13. ASSUME NEW i \in DOMAIN segments, ~(files[i].last <= meta.acked)
         PROVE  i - n \in DOMAIN segments' /\ segments'[i - n] = files[i]
    <2>1. i \in 1 .. L /\ i \notin 1 .. n
      BY <1>5, <1>9, <1>13
    <2>2. i - n \in 1 .. L - n /\ (i - n) + n = i
      BY <1>5, <1>9, <2>1
    <2> QED BY <1>10, <1>11, <2>2
  <1> DEFINE g == [m \in DOMAIN segments' |-> m + n]
  <1>14. Embeds(g)
    <2>1. ASSUME NEW m \in DOMAIN segments' PROVE
            /\ g[m] = m + n /\ g[m] \in DOMAIN segments
            /\ segments'[m].first = segments[g[m]].first /\ segments'[m].records = segments[g[m]].records
            /\ m \in Nat
      BY <1>7, <1>11, <1>12
    <2>2. \A m, k \in DOMAIN segments' : m < k => g[m] < g[k]
      <3>1. SUFFICES ASSUME NEW m \in DOMAIN segments', NEW k \in DOMAIN segments', m < k PROVE g[m] < g[k]
        OBVIOUS
      <3>2. m \in Nat /\ k \in Nat /\ g[m] = m + n /\ g[k] = k + n /\ n \in Nat
        BY <1>9, <2>1
      <3> QED BY <3>1, <3>2
    <2> HIDE DEF g
    <2>3. \A m \in DOMAIN segments' : segments'[m].records # <<>>
      BY <1>1, <2>1 DEF FilesInOrder, SegmentInOrder
    <2> QED BY <1>10, <2>1, <2>2, <2>3 DEF Embeds
  <1> HIDE DEF g
  <1>15. FilesInOrder'
    BY <1>14, EmbedsOrdered
  <1>16. ASSUME NEW m \in DOMAIN segments'
         PROVE  /\ segments'[m].last < meta.next
                /\ \A r \in ToSet(segments'[m].records) : r.seq <= segments'[m].last
    BY <1>7, <1>12
  <1>17. Recs' \subseteq Recs
    BY <1>7, <1>12 DEF Recs, RecsOf
  <1>18. \A i \in DOMAIN segments : files[i].last \in Nat
    BY <1>7 DEF SegmentType
  <1>19. ASSUME NEW r \in Recs, r.seq > meta.acked
         PROVE  \E m \in DOMAIN segments' : r \in ToSet(segments'[m].records) /\ r.seq <= segments'[m].last
    <2>1. PICK i \in DOMAIN segments : r \in ToSet(segments[i].records)
      BY DEF Recs, RecsOf
    <2>2. r.seq <= files[i].last /\ r.seq \in Nat
      BY <1>1, <1>7, <2>1, NamesTyped DEF RecordType
    <2>3. ~(files[i].last <= meta.acked)
      BY <1>2, <1>18, <1>19, <2>2
    <2> QED BY <1>7, <1>13, <2>1, <2>2, <2>3
  <1>20. ASSUME NEW r \in Recs PROVE r \in Recs' \/ r.seq <= meta.acked
    <2>1. r.seq \in Nat
      BY <1>1, NamesTyped DEF RecordType
    <2>2. CASE r.seq > meta.acked
      BY <1>19, <2>2 DEF Recs, RecsOf
    <2> QED BY <1>2, <2>1, <2>2
  <1>21. ASSUME NEW p \in Plans
         PROVE  \E m \in DOMAIN segments' :
                   /\ Through(p) <= segments'[m].last
                   /\ \E r \in ToSet(segments'[m].records) : r.seq = p.root /\ r.intact
    <2>1. HasRecord(segments, p.root)
      OBVIOUS
    <2>2. PICK i \in DOMAIN segments : \E r \in ToSet(segments[i].records) : r.seq = p.root /\ r.intact
      BY <2>1 DEF HasRecord
    <2>3. Through(p) <= files[i].last
      BY <1>7, <2>2
    <2>4. ~(files[i].last <= meta.acked)
      BY <1>2, <1>3, <1>18, <2>3
    <2> QED BY <1>7, <1>13, <2>2, <2>3, <2>4
  <1>22. Children' \subseteq Children
    BY <1>2, <1>3 DEF Children
  <1>23. Known' \subseteq Known
    BY <1>17, <1>22 DEF Known
  <1>24. ASSUME NEW b \in Known, b.seq > meta.acked PROVE b \in Known'
    <2>1. CASE \E r \in Recs : b = Descriptor(r)
      <3>1. PICK r \in Recs : b = Descriptor(r)
        BY <2>1
      <3>2. r.seq = b.seq /\ r.seq \in Nat
        BY <1>1, <3>1, NamesTyped DEF RecordType
      <3>3. r \in Recs'
        BY <1>2, <1>20, <1>24, <3>2
      <3> QED BY <3>1, <3>3 DEF Known
    <2>2. CASE \E p \in manifests : b \in p.children
      <3>1. PICK p \in manifests : b \in p.children
        BY <2>2
      <3>2. b.seq <= Through(p) /\ b.seq \in Nat /\ Through(p) \in Nat
        BY <1>1, <3>1, PlansOf
      <3>3. ~(Through(p) <= meta.acked)
        BY <1>2, <1>24, <3>2
      <3>4. p \in Plans
        BY <1>3, <3>1, <3>3
      <3> QED BY <1>2, <3>1, <3>4 DEF Known, Children
    <2> QED BY <2>1, <2>2, KnownFrom
  <1> QED BY <1>10, <1>15, <1>16, <1>17, <1>19, <1>20, <1>21, <1>22, <1>23, <1>24

\* The furthest position of what the queue holds.
LEMMA MarkOf ==
  ASSUME NEW state, \A b \in state.unacked : b.events \subseteq 1 .. Events
  PROVE  /\ PendingMark(state) \in 0 .. Events
         /\ \A b \in state.unacked : \A e \in b.events : e <= PendingMark(state)
         /\ PendingMark(state) = 0 \/ \E b \in state.unacked : PendingMark(state) \in b.events
  <1> DEFINE S == UNION {b.events : b \in state.unacked}
  <1>1. S \in SUBSET Nat /\ \A n \in S : n \in 1 .. Events
    OBVIOUS
  <1>2. Events \in Nat
    BY CollectorAssumption DEF CollectorAssumption
  <1>3. PendingMark(state) = MaxOf(S, 0)
    BY DEF PendingMark
  <1>4. \A e : e \in S <=> \E b \in state.unacked : e \in b.events
    OBVIOUS
  <1> HIDE DEF S
  <1>5. CASE S = {}
    <2>1. PendingMark(state) = 0
      BY <1>3, <1>5, MaxOfNone
    <2> QED BY <1>2, <1>4, <1>5, <2>1
  <1>6. CASE S # {}
    <2>1. \A n \in S : n <= Events
      BY <1>1
    <2>2. MaxOf(S, 0) \in S /\ \A n \in S : n <= MaxOf(S, 0)
      BY <1>1, <1>2, <1>6, <2>1, MaxOfGreatest
    <2>3. PendingMark(state) \in 1 .. Events
      BY <1>1, <1>3, <2>2
    <2> QED BY <1>2, <1>3, <1>4, <2>2, <2>3
  <1> QED BY <1>5, <1>6

\* A batch that the files name lies in a record of theirs.
LEMMA RecordOf ==
  ASSUME CollectorInv, NEW b \in Known, NEW r \in Recs, r.seq = b.root
  PROVE  b.events \subseteq r.events
  <1>1. Types /\ FilesInOrder /\ Origins
    BY DEF CollectorInv
  <1>2. CASE \E s \in Recs : b = Descriptor(s)
    <2>1. PICK s \in Recs : b = Descriptor(s)
      BY <1>2
    <2>2. b.root = s.seq /\ b.events = s.events
      BY <1>1, <2>1, NamesTyped
    <2>3. r = s
      BY <1>1, <2>2, RecordsApart DEF Recs, RecsOf
    <2> QED BY <2>2, <2>3
  <1>3. CASE \E p \in manifests : b \in p.children
    BY <1>1, <1>3 DEF Origins, Children
  <1> QED BY <1>2, <1>3, KnownFrom

\* A queue whose record of a plan is missing stays closed; files were damaged.
LEMMA RefusedKeeps ==
  ASSUME CollectorInv, Start, ~\A plan \in Plans : HasRecord(segments, plan.root)
  PROVE  CollectorInv'
  <1>0. /\ Recover /\ UNCHANGED <<batch, work, checkpoint, dead, verdicts, epoch, faults>>
        /\ UNCHANGED <<connected, inflight, answered, outcome>>
        /\ readPos' = Larger(checkpoint, PendingMark(queue'))
        /\ batcher' = IF queue'.phase = "up" THEN "on" ELSE "off"
    BY DEF Start, NoFault, senderVars
  <1>1. Types /\ Used /\ Families /\ Undamaged
    BY DEF CollectorInv
  <1>2. /\ queue.phase = "opening" /\ queue' = [queue EXCEPT !.phase = "refused"]
        /\ UNCHANGED <<meta, segments, manifests>>
    BY <1>0 DEF Recover, Plans
  <1>3. /\ connected = FALSE /\ inflight = {} /\ answered = {} /\ outcome = NoOutcome
        /\ batch = {} /\ work = <<>>
        /\ queue = [ClosedQueue EXCEPT !.phase = queue.phase, !.next = queue.next, !.acked = queue.acked]
    BY <1>2, Idle DEF IsUp
  <1>4. queue.next \in Nat \ {0} /\ queue.acked \in Nat /\ queue \in QueueType
    BY <1>1, QueueTyped DEF Types
  <1>5. /\ queue' \in QueueType /\ queue'.phase = "refused" /\ queue'.unacked = {}
        /\ queue' = [ClosedQueue EXCEPT !.phase = queue'.phase, !.next = queue'.next, !.acked = queue'.acked]
    <2>1. /\ queue' \in QueueType /\ queue'.phase = "refused" /\ queue'.next = queue.next /\ queue'.acked = queue.acked
      BY <1>2, <1>4 DEF QueueType
    <2>2. queue.unacked = {} /\ queue'.unacked = queue.unacked
      BY <1>2, <1>3, <1>4 DEF ClosedQueue, QueueType
    <2>3. queue' = [ClosedQueue EXCEPT !.phase = "refused", !.next = queue.next, !.acked = queue.acked]
      BY <1>2, <1>3
    <2> QED BY <2>1, <2>2, <2>3
  <1>6. readPos' \in 0 .. Events
    <2>1. PendingMark(queue') = 0
      <3>1. UNION {b.events : b \in queue'.unacked} = {}
        BY <1>5
      <3> QED BY <3>1, MaxOfNone DEF PendingMark
    <2>2. checkpoint \in 0 .. Events
      BY <1>1 DEF Types, PipeTypes
    <2> QED BY <1>0, <2>1, <2>2 DEF Larger
  <1>7. batcher' = "off"
    BY <1>0, <1>5
  <1>8. epoch \in Nat /\ faults \subseteq Faults
    BY <1>1 DEF Types, SendTypes
  <1>9. Closes
    BY <1>0, <1>2, <1>3, <1>5, <1>6, <1>7, <1>8 DEF Closes
  <1>10. "damage" \in faults
    <2>1. SUFFICES ASSUME "damage" \notin faults PROVE FALSE
      OBVIOUS
    <2>2. PICK p \in Plans : ~HasRecord(segments, p.root)
      OBVIOUS
    <2>3. p \in manifests /\ Through(p) > queue.acked
      BY DEF Plans, Unfinished
    <2>4. Low = queue.acked
      BY <1>2 DEF Low, Running
    <2>5. PICK i \in DOMAIN segments : Guarded(p, i)
      BY <1>1, <2>1, <2>3, <2>4 DEF Undamaged
    <2> QED BY <2>2, <2>5 DEF Guarded, HasRecord
  <1>11. Shrinks
    BY <1>0, <1>2, <1>10, SameFilesShrink
  <1> QED BY <1>9, <1>11, ClosesKeeps

\* The inputs resume behind everything the rebuilt queue holds.
LEMMA RebuiltKeeps ==
  ASSUME CollectorInv, Start, \A plan \in Plans : HasRecord(segments, plan.root)
  PROVE  CollectorInv'
  <1>0. /\ Recover /\ UNCHANGED <<batch, work, checkpoint, dead, verdicts, epoch, faults>>
        /\ UNCHANGED <<connected, inflight, answered, outcome>>
        /\ readPos' = Larger(checkpoint, PendingMark(queue'))
        /\ batcher' = IF queue'.phase = "up" THEN "on" ELSE "off"
    BY DEF Start, NoFault, senderVars
  <1>1. /\ Types /\ FilesInOrder /\ Used /\ Identity /\ Families /\ Finished /\ Coverage /\ Past
        /\ Origins /\ Once
    BY DEF CollectorInv
  <1>2. /\ queue.phase = "opening" /\ queue.acked = meta.acked /\ queue.next = meta.next
        /\ \A r \in Recs : r.intact
        /\ queue' \in QueueType /\ queue'.phase = "up" /\ queue'.next = meta.next /\ queue'.reserved = 0
        /\ queue'.acked = meta.acked /\ queue'.unacked = {b \in Known : b.seq > meta.acked}
        /\ queue'.terminal = {} /\ queue'.repacks = Plans /\ queue'.active = FALSE
        /\ queue'.handed = 0 /\ queue'.unhealthy = FALSE
        /\ manifests' = Plans
        /\ meta' \in MetaType /\ meta'.next = meta.next /\ meta'.acked = meta.acked
        /\ \A ref \in meta'.refs : \/ ref.through <= meta.acked
                                   \/ \E p \in Plans : p.parent = ref.parent /\ Through(p) = ref.through
    BY <1>0, RecoveredOf
  <1>3. /\ segments' \in Seq(SegmentType) /\ FilesInOrder'
        /\ \A m \in DOMAIN segments' :
              /\ segments'[m].last < meta.next
              /\ \A r \in ToSet(segments'[m].records) : r.seq <= segments'[m].last
        /\ Recs' \subseteq Recs /\ Children' \subseteq Children /\ Known' \subseteq Known
        /\ \A r \in Recs : r \in Recs' \/ r.seq <= meta.acked
        /\ \A b \in Known : b.seq > meta.acked => b \in Known'
        /\ \A p \in Plans : \E m \in DOMAIN segments' :
              /\ Through(p) <= segments'[m].last
              /\ \E r \in ToSet(segments'[m].records) : r.seq = p.root /\ r.intact
        /\ \A r \in Recs : r.seq > meta.acked => \E m \in DOMAIN segments' :
              r \in ToSet(segments'[m].records) /\ r.seq <= segments'[m].last
    BY <1>0, RecoveredFilesOf
  <1>4. /\ connected = FALSE /\ inflight = {} /\ answered = {} /\ outcome = NoOutcome
        /\ batch = {} /\ work = <<>>
    BY <1>2, Idle DEF IsUp
  <1>5. IsUp' /\ Running' /\ Low' = meta.acked /\ Low = meta.acked
    BY <1>2 DEF IsUp, Running, Low
  <1>6. /\ Plans \subseteq manifests
        /\ \A p \in manifests : /\ p \in PlanType /\ Through(p) \in Nat /\ p.parent \in Nat /\ p.parent < Through(p)
                                /\ p \in Plans \/ Through(p) <= meta.acked
        /\ \A p \in Plans : Through(p) > meta.acked
        /\ meta.acked \in Nat /\ meta.next \in Nat \ {0}
        /\ \A b \in Known : b.seq \in Nat /\ b \in Batch
        /\ \A r \in Recs : r.seq \in Nat /\ r.events \subseteq 1 .. Events
    <2>1. meta.acked \in Nat /\ meta.next \in Nat \ {0}
      BY <1>1, QueueTyped
    <2>2. \A b \in Known : b.seq \in Nat /\ b \in Batch
      BY <1>1, NamesTyped DEF Batch
    <2>3. \A r \in Recs : r.seq \in Nat /\ r.events \subseteq 1 .. Events
      BY <1>1, NamesTyped DEF RecordType
    <2>4. \A p \in manifests : p \in PlanType /\ Through(p) \in Nat /\ p.parent \in Nat /\ p.parent < Through(p)
      BY <1>1, PlansOf
    <2> QED BY <1>2, <2>1, <2>2, <2>3, <2>4 DEF Plans, Unfinished
  <1>7. /\ Final' = Final /\ Settled' = Settled /\ Stored' = Stored /\ Named' = Known' /\ Named' \subseteq Named
        /\ InHand' = {}
    <2>1. ToSet(work') = {}
      BY <1>0, <1>4, ToSetOf DEF ToSet
    <2>2. InHand' = {}
      BY <1>0, <1>4, <2>1 DEF InHand
    <2> QED BY <1>0, <1>3, <1>4, <2>2 DEF Final, Settled, Stored, Named
  <1> DEFINE mark == PendingMark(queue')
  <1>8. /\ mark \in 0 .. Events
        /\ \A b \in queue'.unacked : \A e \in b.events : e <= mark
        /\ mark = 0 \/ \E b \in queue'.unacked : mark \in b.events
    <2>1. \A b \in queue'.unacked : b.events \subseteq 1 .. Events
      BY <1>2, <1>6 DEF Batch
    <2> QED BY <2>1, MarkOf
  <1> HIDE DEF mark
  <1>9. /\ checkpoint \in 0 .. Events /\ readPos' \in 0 .. Events /\ checkpoint <= readPos' /\ mark <= readPos'
        /\ readPos' = checkpoint \/ readPos' = mark
    <2>1. checkpoint \in 0 .. Events
      BY <1>1 DEF Types, PipeTypes
    <2>2. readPos' = Larger(checkpoint, mark)
      BY <1>0 DEF mark
    <2> QED BY <1>8, <2>1, <2>2 DEF Larger
  <1>10. Types'
    <2>1. FileTypes'
      BY <1>2, <1>3, <1>6 DEF FileTypes, MetaType
    <2>2. PipeTypes'
      BY <1>0, <1>1, <1>2, <1>9 DEF Types, PipeTypes
    <2>3. SendTypes'
      BY <1>0, <1>1 DEF Types, SendTypes, SeqsOf
    <2> QED BY <1>2, <2>1, <2>2, <2>3 DEF Types
  <1>11. Used'
    <2>1. meta.acked < meta.next /\ \A k \in SeqsOf(Named') \cup SeqsOf(verdicts') : 0 < k /\ k < meta.next
      BY <1>0, <1>1, <1>7 DEF Used, SeqsOf
    <2>2. /\ queue'.reserved <= meta'.next /\ queue'.acked <= meta'.acked /\ meta'.acked < queue'.next
          /\ queue'.acked < queue'.next /\ queue'.handed < queue'.next
          /\ \A k \in queue'.terminal : 0 < k /\ k < queue'.next
      BY <1>2, <1>6, <2>1
    <2>3. \A m \in DOMAIN segments' : segments'[m].last < queue'.next
      BY <1>2, <1>3
    <2> QED BY <1>2, <2>1, <2>2, <2>3 DEF Used
  <1>12. Identity'
    BY <1>0, <1>1, <1>7 DEF Identity
  <1>13. Families'
    BY <1>0, <1>1, <1>2, <1>3, <1>6 DEF Families
  <1>14. Shut'
    BY <1>0, <1>2, <1>4, <1>5 DEF Shut
  <1>15. queue'.unacked \subseteq Known' /\ \A b \in Known' : b.seq > meta.acked => b \in queue'.unacked
    BY <1>2, <1>3
  <1>16. Memory'
    <2>1. queue'.unacked \subseteq {b \in Known' : b.seq > queue'.acked}
      BY <1>2, <1>15
    <2>2. \A b \in Known' \ queue'.unacked : ~(b.seq > queue'.acked)
      BY <1>2, <1>15
    <2>3. Unfinished(manifests', queue'.acked) \subseteq queue'.repacks
      BY <1>2 DEF Unfinished
    <2> QED BY <1>2, <2>1, <2>2, <2>3 DEF Memory
  <1>17. Kept'
    <2>1. ASSUME NEW b \in queue'.unacked PROVE KeptBy(segments', b)
      <3>1. b \in Known /\ b.seq > meta.acked
        BY <1>2
      <3>2. CASE \E r \in Recs : b = Descriptor(r)
        <4>1. PICK r \in Recs : b = Descriptor(r)
          BY <3>2
        <4>2. b.seq = r.seq /\ b.root = r.seq
          BY <1>1, <4>1, NamesTyped
        <4> QED BY <1>2, <1>3, <3>1, <4>2 DEF KeptBy
      <3>3. CASE \E p \in manifests : b \in p.children
        <4>1. PICK p \in manifests : b \in p.children
          BY <3>3
        <4>2. b.seq <= Through(p) /\ b.root = p.root /\ b.seq \in Nat /\ Through(p) \in Nat
          BY <1>1, <4>1, PlansOf
        <4>3. ~(Through(p) <= meta.acked)
          BY <1>6, <3>1, <4>2
        <4>4. p \in Plans
          BY <1>6, <4>1, <4>3
        <4>5. PICK m \in DOMAIN segments' : /\ Through(p) <= segments'[m].last
                                            /\ \E r \in ToSet(segments'[m].records) : r.seq = p.root /\ r.intact
          BY <1>3, <4>4
        <4>6. segments'[m].last \in Nat
          <5>1. segments' \in Seq(SegmentType)
            BY <1>3
          <5>2. segments'[m] \in SegmentType
            BY <5>1
          <5> QED BY <5>2 DEF SegmentType
        <4>7. b.seq <= segments'[m].last
          BY <4>2, <4>5, <4>6
        <4> QED BY <4>2, <4>5, <4>7 DEF KeptBy
      <3> QED BY <3>1, <3>2, <3>3, KnownFrom
    <2> QED BY <1>2, <1>3, <2>1 DEF Kept
  <1>18. Sending'
    <2>1. answered' = {} /\ inflight' = {} /\ connected' = FALSE /\ outcome'.pc = "none"
      BY <1>0, <1>4 DEF NoOutcome
    <2> QED BY <2>1 DEF Sending
  <1>19. Finished'
    BY <1>0, <1>1, <1>2, <1>3, <1>7 DEF Finished
  <1>20. \A r \in Recs : Sound(r)
    BY <1>2 DEF Sound
  <1>21. Done' = Done
    BY <1>0, <1>7 DEF Done
  <1>22. ASSUME NEW r \in Recs', NEW x \in r.events, NEW e \in 1 .. x
         PROVE  e \in Done \/ \E s \in Recs' : s.seq <= r.seq /\ e \in s.events
    <2>1. SUFFICES ASSUME NEW s \in Recs, s.seq <= r.seq, e \in s.events, s \notin Recs' PROVE e \in Done
      BY <1>1, <1>3, <1>20 DEF Coverage
    <2>2. s.seq <= meta.acked
      BY <1>3, <2>1
    <2> QED BY <1>1, <2>1, <2>2 DEF Finished, Done
  <1>23. Coverage'
    BY <1>21, <1>22 DEF Coverage
  <1>24. InOrder'
    <2>1. 1 .. readPos' \subseteq Done' \cup EventsOf(Recs')
      <3>1. CASE readPos' = checkpoint
        BY <1>21, <3>1 DEF Done
      <3>2. CASE readPos' = mark /\ mark # 0
        <4>1. PICK b \in queue'.unacked : mark \in b.events
          BY <1>8, <3>2
        <4>2. KeptBy(segments', b)
          BY <1>5, <1>17 DEF Kept
        <4>3. PICK r \in Recs' : r.seq = b.root
          BY <4>2 DEF KeptBy, Recs, RecsOf
        <4>4. b \in Known /\ r \in Recs
          BY <1>2, <1>3
        <4>5. mark \in r.events
          BY <4>1, <4>3, <4>4, RecordOf
        <4>6. \A e \in 1 .. mark : e \in Done \/ \E s \in Recs' : e \in s.events
          BY <1>22, <4>5
        <4> QED BY <1>21, <3>2, <4>6 DEF EventsOf
      <3>3. CASE readPos' = mark /\ mark = 0
        <4>1. 1 .. readPos' = {}
          BY <3>3
        <4> QED BY <4>1
      <3> QED BY <1>9, <3>1, <3>2, <3>3
    <2>2. ASSUME NEW r \in Recs', NEW e \in r.events PROVE e <= readPos'
      <3>1. r \in Recs /\ e \in 1 .. Events /\ r.seq \in Nat
        BY <1>3, <1>6
      <3>2. CASE r.seq <= meta.acked
        <4>1. e \in 1 .. checkpoint
          BY <1>1, <3>1, <3>2 DEF Finished
        <4> QED BY <1>9, <4>1
      <3>3. CASE ~(r.seq <= meta.acked)
        <4>1. Descriptor(r) \in Known /\ Descriptor(r).seq = r.seq /\ Descriptor(r).events = r.events
          BY <1>1, <3>1, NamesTyped
        <4>2. r.seq > meta.acked
          BY <1>6, <3>1, <3>3
        <4>3. Descriptor(r) \in queue'.unacked
          BY <1>2, <4>1, <4>2
        <4>4. e <= mark
          BY <1>8, <4>1, <4>3
        <4> QED BY <1>8, <1>9, <3>1, <4>4
      <3> QED BY <3>2, <3>3
    <2>3. DOMAIN work' = {} /\ batch' = {}
      BY <1>0, <1>4
    <2>4. checkpoint' <= readPos'
      BY <1>0, <1>9
    <2> QED BY <1>7, <2>1, <2>2, <2>3, <2>4 DEF InOrder
  <1>25. Dropping'
    BY <1>0, <1>2, <1>4 DEF Dropping
  <1>26. Past'
    BY <1>0, <1>1, <1>7 DEF Past
  <1>27. References'
    BY <1>2 DEF References, Matched
  <1>28. Undamaged'
    <2>1. queue'.phase # "refused" /\ \A r \in Recs' : r.intact
      BY <1>2, <1>3
    <2>2. ASSUME NEW p \in manifests' PROVE \E m \in DOMAIN segments' : Guarded(p, m)'
      BY <1>2, <1>3 DEF Guarded
    <2> QED BY <2>1, <2>2 DEF Undamaged
  <1>29. Origins'
    BY <1>0, <1>1, <1>2, <1>3, <1>6, <1>7 DEF Origins
  <1>30. Once'
    <2>1. SUFFICES ASSUME SyncAlways, "damage" \notin faults' PROVE Once'
      BY DEF Once
    <2>2. \A r : ~InDoubt(r)'
      BY <1>2 DEF InDoubt
    <2>3. Leaves' \subseteq Leaves
      <3>1. SUFFICES ASSUME NEW b \in Known', b.seq > meta.acked, b.seq \notin {p.parent : p \in Plans}
                     PROVE  b \in Leaves
        BY <1>2, <1>5 DEF Leaves
      <3>2. b \in Known /\ b.seq \in Nat
        BY <1>3, <1>6
      <3>3. ASSUME NEW p \in manifests, p.parent = b.seq PROVE FALSE
        <4>1. Through(p) <= meta.acked
          BY <1>6, <3>1, <3>3
        <4> QED BY <1>6, <3>1, <3>2, <3>3, <4>1
      <3> QED BY <1>5, <3>1, <3>2, <3>3 DEF Leaves
    <2>4. /\ \A v \in Final : \A e \in v.events :
               e <= checkpoint \/ \E r \in Recs : r.intact /\ e \in r.events /\ ~InDoubt(r)
          /\ \A v, w \in Final : v # w => v.events \cap w.events = {}
          /\ \A a, b \in Leaves : a # b => a.events \cap b.events = {}
          /\ \A b \in Leaves, v \in Final : v.seq # b.seq => v.events \cap b.events = {}
          /\ Stored \cap dead = {}
      BY <1>0, <1>1, <2>1 DEF Once
    <2>5. ASSUME NEW v \in Final, NEW e \in v.events
          PROVE  e <= checkpoint \/ \E r \in Recs' : r.intact /\ e \in r.events
      <3>1. SUFFICES ASSUME NEW r \in Recs, e \in r.events, r \notin Recs' PROVE e <= checkpoint
        BY <1>2, <2>4
      <3>2. r.seq <= meta.acked
        BY <1>3, <3>1
      <3>3. e \in 1 .. checkpoint
        BY <1>1, <3>1, <3>2 DEF Finished
      <3> QED BY <3>3
    <2>6. \A v \in Final : \A e \in v.events :
            e <= checkpoint \/ \E r \in Recs' : r.intact /\ e \in r.events /\ ~InDoubt(r)'
      BY <2>2, <2>5
    <2> QED BY <1>0, <1>7, <2>2, <2>3, <2>4, <2>6 DEF Once
  <1> QED BY <1>3, <1>10, <1>11, <1>12, <1>13, <1>14, <1>16, <1>17, <1>18, <1>19, <1>23, <1>24, <1>25,
             <1>26, <1>27, <1>28, <1>29, <1>30 DEF CollectorInv

\* The collector starts.
LEMMA StartKeeps ==
  ASSUME CollectorInv, Start
  PROVE  CollectorInv'
  BY RefusedKeeps, RebuiltKeeps

-----------------------------------------------------------------------------
(* Repacking.                                                               *)

\* A plan splits a batch completely, into parts with sequences of their own.
Splits(b, plan) ==
  /\ plan \in PlanType /\ plan.parent = b.seq /\ plan.root = b.root /\ plan.children # {}
  /\ EventsOf(plan.children) = b.events
  /\ Through(plan) \in Nat /\ \E c \in plan.children : c.seq = Through(plan)
  /\ \A c \in plan.children :
       /\ c \in Batch /\ c.root = b.root /\ c.events \subseteq b.events
       /\ queue.next <= c.seq /\ c.seq <= Through(plan)
  /\ \A c, d \in plan.children : c.seq = d.seq => c = d
  /\ \A c, d \in plan.children : c # d => c.events \cap d.events = {}

\* The pieces of a batch are numbered, and not beyond its size.
LEMMA PieceOf ==
  ASSUME NEW S \in SUBSET Nat, IsFiniteSet(S), NEW e \in S, NEW limit \in Nat \ {0}
  PROVE  Piece(S, limit, e) \in Nat /\ Piece(S, limit, e) <= Cardinality(S)
  <1>1. Rank(S, e) \in 1 .. Cardinality(S) /\ Cardinality(S) \in Nat
    BY RankOf, FS_CardinalityType
  <1>2. Rank(S, e) - 1 \in Nat /\ Rank(S, e) - 1 <= Cardinality(S) /\ 1 <= Cardinality(S)
    BY <1>1
  <1> DEFINE x == Rank(S, e) - 1
             q == x \div limit
  <1>3. x \in Nat /\ x <= Cardinality(S)
    BY <1>2
  <1> HIDE DEF x
  <1>4. q \in Nat /\ q <= x
    BY <1>3, QuotientOf
  <1>5. Piece(S, limit, e) = q \/ Piece(S, limit, e) = 0 \/ Piece(S, limit, e) = 1
    BY DEF Piece, x
  <1> HIDE DEF q
  <1> QED BY <1>1, <1>2, <1>3, <1>4, <1>5

\* What Repack plans.
LEMMA PlanSplits ==
  ASSUME NEW b \in Batch, Cardinality(b.events) > 1, NEW limit \in Nat \ {0}, NEW made \in Nat,
         queue.next \in Nat \ {0}, NEW plan, plan = Plan(b, limit, made)
  PROVE  Splits(b, plan)
  <1> DEFINE S == b.events
             piece(e) == Piece(S, limit, e)
             part(n) == [seq |-> queue.next + n, made |-> made, root |-> b.root,
                         events |-> {e \in S : piece(e) = n}]
             u == queue.next + Cardinality(S)
  <1>1. S \subseteq 1 .. Events /\ S \in SUBSET Nat /\ b.seq \in Nat /\ b.root \in Nat
    BY DEF Batch
  <1>2. IsFiniteSet(S)
    <2>1. IsFiniteSet(1 .. Events)
      BY FS_Interval, CollectorAssumption DEF CollectorAssumption
    <2> QED BY <1>1, <2>1, FS_Subset
  <1>3. Cardinality(S) \in Nat /\ u \in Nat
    BY <1>2, FS_CardinalityType
  <1>4. S # {}
    <2>1. Cardinality({}) = 0
      BY FS_EmptySet
    <2> QED BY <2>1
  <1>5. \A e \in S : piece(e) \in Nat /\ piece(e) <= Cardinality(S)
    BY <1>1, <1>2, PieceOf
  <1>6. /\ plan.parent = b.seq /\ plan.root = b.root
        /\ plan.children = {part(n) : n \in {piece(e) : e \in S}}
        /\ plan = [parent |-> b.seq, root |-> b.root, children |-> plan.children]
    BY DEF Plan
  <1> HIDE DEF S, piece, u
  <1>7. ASSUME NEW n \in {piece(e) : e \in S}
        PROVE  /\ n \in Nat /\ part(n) \in Batch /\ part(n).seq = queue.next + n
               /\ part(n).root = b.root /\ part(n).events = {e \in S : piece(e) = n}
               /\ part(n).events \subseteq S /\ queue.next <= part(n).seq /\ part(n).seq <= u
    <2>1. n \in Nat /\ n <= Cardinality(S)
      BY <1>5
    <2>2. queue.next + n \in Nat /\ queue.next <= queue.next + n /\ queue.next + n <= u
      BY <1>3, <2>1 DEF u
    <2>3. {e \in S : piece(e) = n} \subseteq 1 .. Events
      BY <1>1
    <2> QED BY <1>1, <2>1, <2>2, <2>3 DEF Batch
  <1>8. \A c \in plan.children : \E n \in {piece(e) : e \in S} : c = part(n)
    BY <1>6
  <1>9. \A e \in S : part(piece(e)) \in plan.children /\ e \in part(piece(e)).events
    BY <1>6
  <1> HIDE DEF part
  <1>10. \A c \in plan.children : /\ c \in Batch /\ c.root = b.root /\ c.events \subseteq S
                                  /\ queue.next <= c.seq /\ c.seq <= u
    BY <1>7, <1>8
  <1>11. plan.children # {} /\ EventsOf(plan.children) = S
    BY <1>4, <1>9, <1>10 DEF EventsOf
  <1>12. plan \in PlanType
    <2>1. plan.children \in SUBSET Batch
      BY <1>10
    <2> QED BY <1>1, <1>6, <2>1 DEF PlanType
  <1>13. /\ Through(plan) \in Nat /\ \E c \in plan.children : c.seq = Through(plan)
         /\ \A c \in plan.children : c.seq <= Through(plan)
    BY <1>3, <1>10, <1>11, <1>12, ThroughOf
  <1>14. ASSUME NEW c \in plan.children, NEW d \in plan.children
         PROVE  (c.seq = d.seq => c = d) /\ (c # d => c.events \cap d.events = {})
    <2>1. PICK m \in {piece(e) : e \in S} : c = part(m)
      BY <1>8
    <2>2. PICK n \in {piece(e) : e \in S} : d = part(n)
      BY <1>8
    <2>3. /\ m \in Nat /\ n \in Nat /\ c.seq = queue.next + m /\ d.seq = queue.next + n
          /\ c.events = {e \in S : piece(e) = m} /\ d.events = {e \in S : piece(e) = n}
      BY <1>7, <2>1, <2>2
    <2>4. c.seq = d.seq => m = n
      BY <2>3
    <2> QED BY <2>1, <2>2, <2>3, <2>4
  <1> QED BY <1>6, <1>10, <1>11, <1>12, <1>13, <1>14 DEF Splits, S

\* The segment of a plan's record is raised, and the others are left as they are.
LEMMA RaisedOf ==
  ASSUME Types, Used, IsUp, NEW plan \in PlanType, Through(plan) \in Nat, queue.next <= Through(plan),
         NEW files, files = Raised(segments, plan)
  PROVE  /\ files \in Seq(SegmentType) /\ Len(files) = Len(segments)
         /\ \A i \in DOMAIN segments :
              /\ files[i].first = segments[i].first /\ files[i].records = segments[i].records
              /\ files[i].last \in Nat /\ segments[i].last <= files[i].last
              /\ files[i].last <= Through(plan)
              /\ (\E r \in ToSet(segments[i].records) : r.seq = plan.root) => Through(plan) <= files[i].last
  <1> DEFINE n == Len(segments)
             held(i) == {record.seq : record \in ToSet(segments[i].records)}
             up(i) == [segments[i] EXCEPT !.last = Larger(segments[i].last, Through(plan))]
  <1>1. segments \in Seq(SegmentType) /\ n \in Nat /\ DOMAIN segments = 1 .. n
    BY DEF Types, FileTypes
  <1>2. \A i \in 1 .. n : segments[i] \in SegmentType
    BY <1>1
  <1>3. \A i \in 1 .. n : segments[i].last \in Nat /\ segments[i].last < queue.next
    BY <1>1, <1>2 DEF SegmentType, Used
  <1>4. queue.next \in Nat
    BY QueueTyped
  <1>5. \A i \in 1 .. n : Larger(segments[i].last, Through(plan)) = Through(plan) /\ segments[i].last <= Through(plan)
    BY <1>3, <1>4 DEF Larger
  <1>6. \A i \in 1 .. n : /\ up(i) \in SegmentType /\ up(i).first = segments[i].first
                          /\ up(i).records = segments[i].records /\ up(i).last = Through(plan)
    BY <1>2, <1>5 DEF SegmentType
  <1>7. files = [i \in 1 .. n |-> IF plan.root \in held(i) THEN up(i) ELSE segments[i]]
    BY <1>1 DEF Raised
  <1> HIDE DEF up, held
  <1>8. ASSUME NEW i \in 1 .. n
        PROVE  /\ files[i] = up(i) \/ (files[i] = segments[i] /\ plan.root \notin held(i))
    BY <1>7
  <1>9. \A i \in 1 .. n : files[i] \in SegmentType
    BY <1>2, <1>6, <1>8
  <1>10. files \in Seq(SegmentType)
    <2>1. files \in [1 .. n -> SegmentType]
      BY <1>7, <1>9
    <2> QED BY <1>1, <2>1
  <1>11. Len(files) = n
    BY <1>1, <1>7
  <1>12. ASSUME NEW i \in 1 .. n
         PROVE  /\ files[i].first = segments[i].first /\ files[i].records = segments[i].records
                /\ files[i].last \in Nat /\ segments[i].last <= files[i].last
                /\ files[i].last <= Through(plan)
                /\ (\E r \in ToSet(segments[i].records) : r.seq = plan.root) => Through(plan) <= files[i].last
    <2>1. CASE files[i] = up(i)
      BY <1>5, <1>6, <2>1
    <2>2. CASE files[i] = segments[i] /\ plan.root \notin held(i)
      <3>1. ~(\E r \in ToSet(segments[i].records) : r.seq = plan.root)
        BY <2>2 DEF held
      <3> QED BY <1>3, <1>5, <2>2, <3>1
    <2> QED BY <1>8, <2>1, <2>2
  <1> QED BY <1>1, <1>10, <1>11, <1>12

Counted(plan) == [queue EXCEPT !.active = FALSE, !.synced = 0, !.next = Through(plan) + 1]

\* A batch is split, or the step fails on the way: with a plan only on disk, or
\* with one the queue knows and children it does not.
Repacks(b, plan) ==
  /\ IsUp /\ ~queue.unhealthy /\ connected /\ b \in Pending /\ Splits(b, plan)
  /\ \E v \in verdicts : v.seq = b.seq /\ v.verdict = "repack"
  /\ UNCHANGED <<pipelineVars, checkpoint, dead, verdicts, epoch>>
  /\ faults \subseteq faults' /\ faults' \subseteq Faults
  /\ queue' \in QueueType /\ queue'.phase = queue.phase /\ queue'.reserved = queue.reserved
  /\ queue'.acked = queue.acked /\ queue'.terminal = queue.terminal /\ queue'.handed = queue.handed
  /\ queue'.next = Through(plan) + 1 /\ queue'.active = FALSE
  /\ meta' \in MetaType /\ queue'.next <= meta'.next /\ queue.reserved <= meta'.next
  /\ meta'.acked = queue.acked /\ \A ref \in meta'.refs : Matched(ref)'
  /\ manifests' \in {manifests, manifests \cup {plan}}
  /\ queue'.repacks \in {queue.repacks, queue.repacks \cup {plan}} /\ queue'.repacks \subseteq manifests'
  /\ segments' \in Seq(SegmentType) /\ Len(segments') = Len(segments)
  /\ \A i \in DOMAIN segments :
       /\ segments'[i].first = segments[i].first /\ segments'[i].records = segments[i].records
       /\ segments'[i].last \in Nat /\ segments[i].last <= segments'[i].last
       /\ segments'[i].last < queue'.next
  /\ outcome' \in {outcome, NoOutcome} /\ outcome'.pc = "none" /\ connected' \in BOOLEAN
  /\ \/ /\ ~queue'.unhealthy /\ plan \in queue'.repacks
        /\ queue'.unacked = queue.unacked \cup plan.children
        /\ \A i \in DOMAIN segments :
             (\E r \in ToSet(segments[i].records) : r.seq = plan.root) => Through(plan) <= segments'[i].last
        /\ connected' /\ inflight' = {d \in inflight : d.seq # b.seq} /\ answered' = answered \ {b.seq}
     \/ /\ queue'.unhealthy /\ "repack" \in Faults /\ queue'.unacked = queue.unacked
        /\ ~connected' /\ inflight' = {} /\ answered' = {} /\ outcome' = NoOutcome

\* What is known after such a step.
LEMMA RepackedNames ==
  ASSUME CollectorInv, NEW b, NEW plan, Repacks(b, plan)
  PROVE  /\ b \in Known /\ b \in Batch /\ b.seq > queue.acked /\ b \in queue.unacked /\ b.seq < queue.next
         /\ queue'.next \in Nat /\ queue.next < queue'.next /\ queue.next \in Nat
         /\ IsUp' /\ Running /\ Running' /\ Low = queue.acked /\ Low' = queue.acked
         /\ DOMAIN segments' = DOMAIN segments /\ Recs' = Recs
         /\ Children \subseteq Children' /\ Children' \subseteq Children \cup plan.children
         /\ Known \subseteq Known' /\ Known' \subseteq Known \cup plan.children
         /\ (plan \in manifests' => plan.children \subseteq Known')
         /\ Named' \subseteq Named \cup plan.children
         /\ Final' = Final /\ Settled' = Settled /\ Stored' = Stored /\ Done' = Done /\ InHand' = InHand
         /\ \A c \in Named : c.seq \in Nat /\ 0 < c.seq /\ c.seq < queue.next /\ c.seq < meta.next
         /\ \A v \in verdicts : v.seq \in Nat /\ 0 < v.seq /\ v.seq < queue.next /\ v.seq < meta.next
         /\ \A c \in plan.children : /\ c.seq \in Nat /\ queue.next <= c.seq /\ c.seq <= Through(plan)
                                     /\ queue.acked < c.seq
         /\ Through(plan) \in Nat
         /\ \A p \in manifests : p.parent # b.seq
         /\ \A v \in Final : v.seq # b.seq
         /\ b.seq \notin queue.terminal
         /\ \A c \in Known : c.seq > queue.acked => c \in queue.unacked
         /\ \A r \in Recs : r.intact
         /\ queue.acked \in Nat /\ queue.acked < queue.next /\ queue.acked <= meta.acked
  <1>0. /\ IsUp /\ ~queue.unhealthy /\ b \in Pending /\ Splits(b, plan)
        /\ UNCHANGED <<batch, work, checkpoint, dead, verdicts>>
        /\ queue'.phase = queue.phase /\ queue'.acked = queue.acked
        /\ queue'.next = Through(plan) + 1
        /\ manifests' \in {manifests, manifests \cup {plan}}
        /\ segments' \in Seq(SegmentType) /\ Len(segments') = Len(segments)
        /\ \A i \in DOMAIN segments : segments'[i].records = segments[i].records
        /\ inflight' \subseteq inflight
    BY DEF Repacks, pipelineVars
  <1>1. /\ Types /\ Used /\ Identity /\ Families /\ Memory /\ Kept
    BY DEF CollectorInv
  <1>2. /\ queue.next \in Nat \ {0} /\ queue.acked \in Nat /\ queue.unacked \subseteq Batch
        /\ Pending \subseteq queue.unacked
    BY <1>1, QueueTyped
  <1>3. /\ b \in queue.unacked /\ b \in Known /\ b.seq > queue.acked /\ b \in Batch /\ b \in Named
    BY <1>0, <1>1, <1>2, NamesTyped DEF Memory
  <1>4. Running /\ Running' /\ IsUp' /\ Low = queue.acked /\ Low' = queue.acked
    BY <1>0 DEF Running, IsUp, Low
  <1>5. DOMAIN segments' = DOMAIN segments /\ Recs' = Recs
    <2>1. DOMAIN segments = 1 .. Len(segments)
      BY <1>1, NamesTyped
    <2>2. DOMAIN segments' = DOMAIN segments
      BY <1>0, <2>1
    <2> QED BY <1>0, <2>2 DEF Recs, RecsOf
  <1>6. /\ Children \subseteq Children' /\ Children' \subseteq Children \cup plan.children
        /\ plan \in manifests' => plan.children \subseteq Children'
    BY <1>0 DEF Children
  <1>7. /\ Known \subseteq Known' /\ Known' \subseteq Known \cup plan.children
        /\ plan \in manifests' => plan.children \subseteq Known'
    BY <1>5, <1>6 DEF Known
  <1>8. Named' \subseteq Named \cup plan.children
    BY <1>0, <1>7 DEF Named
  <1>9. /\ Final' = Final /\ Settled' = Settled /\ Stored' = Stored /\ Done' = Done /\ InHand' = InHand
    BY <1>0 DEF Final, Settled, Stored, Done, InHand
  <1>10. \A c \in Named : c.seq \in Nat /\ 0 < c.seq /\ c.seq < queue.next /\ c.seq < meta.next
    <2>1. \A c \in Named : c.seq \in Nat
      BY <1>1, NamesTyped DEF Batch
    <2> QED BY <1>1, <1>4, <2>1 DEF Used, SeqsOf
  <1>11. \A v \in verdicts : v.seq \in Nat /\ 0 < v.seq /\ v.seq < queue.next /\ v.seq < meta.next
    <2>1. \A v \in verdicts : v.seq \in Nat
      BY <1>1 DEF Types, SendTypes
    <2> QED BY <1>1, <1>4, <2>1 DEF Used, SeqsOf
  <1>12. queue.acked < queue.next /\ queue.acked <= meta.acked
    BY <1>0, <1>1 DEF Used
  <1>13. /\ Through(plan) \in Nat
         /\ \A c \in plan.children : /\ c \in Batch /\ queue.next <= c.seq /\ c.seq <= Through(plan)
         /\ \E c \in plan.children : c.seq = Through(plan)
    BY <1>0 DEF Splits
  <1>14. \A c \in plan.children : /\ c.seq \in Nat /\ queue.next <= c.seq /\ c.seq <= Through(plan)
                                  /\ queue.acked < c.seq
    <2>1. \A c \in plan.children : c.seq \in Nat
      BY <1>13 DEF Batch
    <2> QED BY <1>2, <1>12, <1>13, <2>1
  <1>15. queue'.next \in Nat /\ queue.next < queue'.next
    BY <1>0, <1>2, <1>13, <1>14
  <1>16. ASSUME NEW p \in manifests PROVE p.parent # b.seq
    <2>1. SUFFICES ASSUME p.parent = b.seq PROVE FALSE
      OBVIOUS
    <2>2. Through(p) \in Nat /\ p.parent \in Nat /\ p.parent < Through(p)
      BY <1>1, PlansOf
    <2>3. Through(p) > queue.acked
      BY <1>2, <1>3, <2>1, <2>2
    <2>4. p \in queue.repacks
      BY <1>0, <1>1, <2>3 DEF Memory, Unfinished
    <2> QED BY <1>0, <2>1, <2>4 DEF Pending, Parents
  <1>17. \A v \in Final : v.seq # b.seq
    <2>1. PICK v \in verdicts : v.seq = b.seq /\ v.verdict = "repack"
      BY DEF Repacks
    <2> QED BY <1>1, <2>1 DEF Identity, Final
  <1>18. b.seq \notin queue.terminal
    <2>1. b.seq \in Nat /\ ~(b.seq <= queue.acked)
      BY <1>2, <1>3, <1>10
    <2>2. b.seq \notin Parents(queue) /\ b.seq \notin SeqsOf(Final)
      BY <1>0, <1>17 DEF Pending, SeqsOf
    <2> QED BY <1>0, <1>1, <2>1, <2>2 DEF Memory
  <1>19. (\A c \in Known : c.seq > queue.acked => c \in queue.unacked) /\ \A r \in Recs : r.intact
    BY <1>0, <1>1 DEF Memory, Kept
  <1> QED BY <1>2, <1>3, <1>4, <1>5, <1>6, <1>7, <1>8, <1>9, <1>10, <1>11, <1>12, <1>13, <1>14, <1>15,
             <1>16, <1>17, <1>18, <1>19

\* Types, names and plans after such a step.
LEMMA RepacksKeepNames ==
  ASSUME CollectorInv, NEW b, NEW plan, Repacks(b, plan)
  PROVE  Types' /\ FilesInOrder' /\ Used' /\ Identity' /\ Families' /\ Shut' /\ References'
  <1>0. /\ IsUp /\ ~queue.unhealthy /\ Splits(b, plan)
        /\ UNCHANGED <<pipelineVars, checkpoint, dead, verdicts, epoch>>
        /\ faults' \subseteq Faults
        /\ queue' \in QueueType /\ queue'.phase = queue.phase /\ queue'.reserved = queue.reserved
        /\ queue'.acked = queue.acked /\ queue'.terminal = queue.terminal /\ queue'.handed = queue.handed
        /\ meta' \in MetaType /\ queue'.next <= meta'.next /\ queue.reserved <= meta'.next
        /\ meta'.acked = queue.acked /\ \A ref \in meta'.refs : Matched(ref)'
        /\ manifests' \in {manifests, manifests \cup {plan}}
        /\ segments' \in Seq(SegmentType)
        /\ \A i \in DOMAIN segments :
             /\ segments'[i].first = segments[i].first /\ segments'[i].records = segments[i].records
             /\ segments'[i].last < queue'.next
        /\ outcome' \in {outcome, NoOutcome} /\ connected' \in BOOLEAN
    BY DEF Repacks
  <1>1. /\ Types /\ FilesInOrder /\ Used /\ Identity /\ Families /\ Shut /\ Memory
    BY DEF CollectorInv
  <1>2. /\ b \in Known /\ b \in Batch /\ b.seq > queue.acked /\ b \in queue.unacked /\ b.seq < queue.next
        /\ queue'.next \in Nat /\ queue.next < queue'.next /\ queue.next \in Nat
        /\ IsUp' /\ Running /\ Running'
        /\ DOMAIN segments' = DOMAIN segments /\ Recs' = Recs
        /\ Known' \subseteq Known \cup plan.children
        /\ Named' \subseteq Named \cup plan.children
        /\ \A c \in Named : c.seq \in Nat /\ 0 < c.seq /\ c.seq < queue.next /\ c.seq < meta.next
        /\ \A v \in verdicts : v.seq \in Nat /\ 0 < v.seq /\ v.seq < queue.next /\ v.seq < meta.next
        /\ \A c \in plan.children : /\ c.seq \in Nat /\ queue.next <= c.seq /\ c.seq <= Through(plan)
        /\ Through(plan) \in Nat
        /\ \A p \in manifests : p.parent # b.seq
        /\ queue.acked \in Nat /\ queue.acked < queue.next
    BY RepackedNames
  <1>3. /\ inflight' \subseteq inflight /\ answered' \subseteq SeqsOf(inflight')
        /\ ~connected' => inflight' = {} /\ outcome' = NoOutcome
    <2>1. answered \subseteq SeqsOf(inflight)
      BY <1>1 DEF Types, SendTypes
    <2>2. CASE connected' /\ inflight' = {d \in inflight : d.seq # b.seq} /\ answered' = answered \ {b.seq}
      <3>1. answered' \subseteq SeqsOf(inflight')
        BY <2>1, <2>2 DEF SeqsOf
      <3> QED BY <2>2, <3>1
    <2>3. CASE inflight' = {} /\ answered' = {} /\ outcome' = NoOutcome
      BY <2>3
    <2> QED BY <2>2, <2>3 DEF Repacks
  <1>4. IsFiniteSet(inflight') /\ Cardinality(inflight') <= MaxInFlight
    <2>1. /\ IsFiniteSet(inflight) /\ Cardinality(inflight) <= MaxInFlight
      BY <1>1 DEF Types, SendTypes
    <2>2. /\ IsFiniteSet(inflight') /\ Cardinality(inflight') <= Cardinality(inflight)
          /\ Cardinality(inflight') \in Nat /\ Cardinality(inflight) \in Nat
      BY <1>3, <2>1, FS_Subset, FS_CardinalityType
    <2>3. MaxInFlight \in Nat
      BY CollectorAssumption DEF CollectorAssumption
    <2> QED BY <2>1, <2>2, <2>3
  <1>5. Types'
    <2>1. PipeTypes'
      BY <1>0, <1>1 DEF Types, PipeTypes, pipelineVars
    <2>2. SendTypes'
      <3>1. inflight' \subseteq Batch
        BY <1>1, <1>3 DEF Types, SendTypes
      <3>2. outcome' \in [pc : {"none", "checkpoint", "ack"}, seq : Nat, cumulative : BOOLEAN]
        <4>1. outcome \in [pc : {"none", "checkpoint", "ack"}, seq : Nat, cumulative : BOOLEAN]
          BY <1>1 DEF Types, SendTypes
        <4>2. NoOutcome \in [pc : {"none", "checkpoint", "ack"}, seq : Nat, cumulative : BOOLEAN]
          BY DEF NoOutcome
        <4> QED BY <1>0, <4>1, <4>2
      <3>3. /\ verdicts' \subseteq [seq : Nat, made : Nat, events : SUBSET (1 .. Events), verdict : Verdicts]
            /\ epoch' \in Nat
        BY <1>0, <1>1 DEF Types, SendTypes
      <3> QED BY <1>0, <1>3, <1>4, <3>1, <3>2, <3>3 DEF SendTypes
    <2>3. manifests' \subseteq PlanType
      BY <1>0, <1>1 DEF Types, FileTypes, Splits
    <2> QED BY <1>0, <2>1, <2>2, <2>3 DEF Types, FileTypes, MetaType
  <1>6. FilesInOrder'
    <2>1. \A i \in DOMAIN segments : SegmentInOrder(segments[i])
      BY <1>1 DEF FilesInOrder
    <2>2. \A i \in DOMAIN segments' : SegmentInOrder(segments'[i])
      BY <1>0, <1>2, <2>1 DEF SegmentInOrder
    <2>3. ASSUME NEW i \in DOMAIN segments', NEW k \in DOMAIN segments', i < k
          PROVE  \A r \in ToSet(segments'[i].records), s \in ToSet(segments'[k].records) : r.seq < s.seq
      BY <1>0, <1>1, <1>2, <2>3 DEF FilesInOrder
    <2> QED BY <2>2, <2>3 DEF FilesInOrder, SegmentInOrder
  <1>7. Used'
    <2>1. meta'.next \in Nat /\ queue'.next <= meta'.next /\ queue.next < queue'.next /\ Through(plan) < queue'.next
      <3>1. meta'.next \in Nat
        BY <1>0 DEF MetaType
      <3>2. queue'.next = Through(plan) + 1
        BY DEF Repacks
      <3> QED BY <1>0, <1>2, <3>1, <3>2
    <2>2. \A c \in Named' : c.seq \in Nat /\ 0 < c.seq /\ c.seq < queue'.next /\ c.seq < meta'.next
      <3>1. TAKE c \in Named'
      <3>2. CASE c \in Named
        BY <1>2, <2>1, <3>2
      <3>3. CASE c \in plan.children
        <4>1. queue.next # 0
          BY <1>1, QueueTyped
        <4> QED BY <1>2, <2>1, <3>3, <4>1
      <3> QED BY <1>2, <3>2, <3>3
    <2>3. \A v \in verdicts' : v.seq \in Nat /\ 0 < v.seq /\ v.seq < queue'.next /\ v.seq < meta'.next
      BY <1>0, <1>2, <2>1
    <2>4. \A n \in SeqsOf(Named)' \cup SeqsOf(verdicts)' : 0 < n /\ n < meta'.next /\ n < queue'.next
      BY <2>2, <2>3 DEF SeqsOf
    <2>5. queue'.phase = "up"
      BY <1>0 DEF IsUp
    <2>6. /\ meta'.acked < meta'.next /\ queue'.acked <= meta'.acked /\ meta'.acked < queue'.next
          /\ queue'.acked < queue'.next /\ queue'.reserved <= meta'.next
      BY <1>0, <1>2, <2>1
    <2>7. queue'.handed < queue'.next /\ \A n \in queue'.terminal : 0 < n /\ n < queue'.next
      <3>1. queue.handed \in Nat /\ queue.terminal \subseteq Nat
        BY <1>1, QueueTyped
      <3>2. queue.handed < queue.next /\ \A n \in queue.terminal : 0 < n /\ n < queue.next
        BY <1>0, <1>1 DEF Used
      <3> QED BY <1>0, <1>2, <3>1, <3>2
    <2>8. \A i \in DOMAIN segments' : segments'[i].last < queue'.next
      BY <1>0, <1>2
    <2> QED BY <2>4, <2>5, <2>6, <2>7, <2>8 DEF Used
  <1>8. Identity'
    <2>1. ASSUME NEW c \in Named', NEW d \in Named', c.seq = d.seq PROVE c = d
      <3>1. CASE c \in Named /\ d \in Named
        BY <1>1, <2>1, <3>1 DEF Identity
      <3>2. CASE c \in plan.children /\ d \in plan.children
        BY <1>0, <2>1, <3>2 DEF Splits
      <3>3. ~(c \in Named /\ d \in plan.children) /\ ~(d \in Named /\ c \in plan.children)
        BY <1>2, <2>1
      <3> QED BY <1>2, <3>1, <3>2, <3>3
    <2>2. ASSUME NEW c \in Named', NEW v \in verdicts, c.seq = v.seq PROVE c.made = v.made /\ c.events = v.events
      <3>1. c \notin plan.children
        BY <1>2, <2>2
      <3> QED BY <1>1, <1>2, <2>2, <3>1 DEF Identity
    <2> QED BY <1>0, <1>1, <2>1, <2>2 DEF Identity
  <1>9. Families'
    <2>1. b.root <= b.seq
      BY <1>0, <1>1, <1>2, RootOf DEF CollectorInv
    <2>2. ASSUME NEW p \in manifests', NEW q \in manifests', p.parent = q.parent PROVE p = q
      <3>1. p \in manifests \cup {plan} /\ q \in manifests \cup {plan} /\ plan.parent = b.seq
        BY <1>0 DEF Splits
      <3> QED BY <1>1, <1>2, <2>2, <3>1 DEF Families
    <2>3. ASSUME NEW p \in manifests
          PROVE  /\ p.root <= p.parent /\ p.children # {}
                 /\ \A c \in p.children : p.parent < c.seq /\ c.root = p.root
                 /\ \A d \in Known' : d.seq = p.parent => d.root = p.root /\ d.events = EventsOf(p.children)
                 /\ \E v \in verdicts : v.seq = p.parent /\ v.verdict = "repack"
      <3>1. /\ p.root <= p.parent /\ p.children # {}
            /\ \A c \in p.children : p.parent < c.seq /\ c.root = p.root
            /\ \A d \in Known : d.seq = p.parent => d.root = p.root /\ d.events = EventsOf(p.children)
            /\ \E v \in verdicts : v.seq = p.parent /\ v.verdict = "repack"
        BY <1>1 DEF Families
      <3>2. ASSUME NEW d \in plan.children PROVE d.seq # p.parent
        <4>1. PICK v \in verdicts : v.seq = p.parent
          BY <3>1
        <4> QED BY <1>2, <4>1
      <3> QED BY <1>2, <3>1, <3>2
    <2>4. /\ plan.root <= plan.parent /\ plan.children # {}
          /\ \A c \in plan.children : plan.parent < c.seq /\ c.root = plan.root
          /\ \A d \in Known' : d.seq = plan.parent => d.root = plan.root /\ d.events = EventsOf(plan.children)
          /\ \E v \in verdicts : v.seq = plan.parent /\ v.verdict = "repack"
      <3>1. plan.parent = b.seq /\ plan.root = b.root /\ plan.children # {} /\ EventsOf(plan.children) = b.events
            /\ \A c \in plan.children : c.root = b.root
        BY <1>0 DEF Splits
      <3>2. b.seq \in Nat
        BY <1>2 DEF Batch
      <3>3. \A c \in plan.children : b.seq < c.seq
        BY <1>2, <3>2
      <3>4. \A d \in Known : d.seq = b.seq => d = b
        BY <1>1, <1>2 DEF Identity, Named
      <3>5. \A d \in Known' : d.seq = b.seq => d = b
        <4>1. TAKE d \in Known'
        <4>2. d \in plan.children => d.seq # b.seq
          BY <1>2, <3>2
        <4> QED BY <1>2, <3>4, <4>2
      <3>6. \E v \in verdicts : v.seq = plan.parent /\ v.verdict = "repack"
        BY <3>1 DEF Repacks
      <3> QED BY <2>1, <3>1, <3>3, <3>5, <3>6
    <2>5. ASSUME NEW p \in manifests'
          PROVE  /\ p.root <= p.parent /\ p.children # {}
                 /\ \A c \in p.children : p.parent < c.seq /\ c.root = p.root
                 /\ \A d \in Known' : d.seq = p.parent => d.root = p.root /\ d.events = EventsOf(p.children)
                 /\ \E v \in verdicts' : v.seq = p.parent /\ v.verdict = "repack"
      <3>1. p \in manifests \/ p = plan
        BY <1>0
      <3> QED BY <1>0, <2>3, <2>4, <3>1
    <2> QED BY <2>2, <2>5 DEF Families, EventsOf
  <1>10. Shut'
    BY <1>0, <1>2, <1>3 DEF Shut, IsUp
  <1>11. References'
    BY <1>0 DEF References, Matched
  <1> QED BY <1>5, <1>6, <1>7, <1>8, <1>9, <1>10, <1>11

\* What the queue holds, and what the sender has passed.
LEMMA RepacksKeepQueue ==
  ASSUME CollectorInv, NEW b, NEW plan, Repacks(b, plan)
  PROVE  Memory' /\ Kept' /\ Sending' /\ Finished' /\ Undamaged'
  <1>0. /\ IsUp /\ ~queue.unhealthy /\ b \in Pending /\ Splits(b, plan)
        /\ UNCHANGED <<checkpoint, dead, verdicts>> /\ faults \subseteq faults'
        /\ queue'.phase = queue.phase /\ queue'.next = Through(plan) + 1
        /\ queue'.acked = queue.acked /\ queue'.terminal = queue.terminal /\ queue'.handed = queue.handed
        /\ queue'.active = FALSE /\ meta'.acked = queue.acked
        /\ manifests' \in {manifests, manifests \cup {plan}}
        /\ queue'.repacks \in {queue.repacks, queue.repacks \cup {plan}} /\ queue'.repacks \subseteq manifests'
        /\ outcome'.pc = "none"
    BY DEF Repacks
  <1>1. /\ Types /\ FilesInOrder /\ Used /\ Identity /\ Families /\ Memory /\ Kept /\ Sending /\ Finished
        /\ Undamaged /\ Origins
    BY DEF CollectorInv
  <1>2. /\ b \in Known /\ b \in Batch /\ b.seq > queue.acked /\ b \in queue.unacked /\ b.seq < queue.next
        /\ IsUp' /\ Low = queue.acked /\ Low' = queue.acked
        /\ DOMAIN segments' = DOMAIN segments /\ Recs' = Recs
        /\ Known \subseteq Known' /\ Known' \subseteq Known \cup plan.children
        /\ (plan \in manifests' => plan.children \subseteq Known')
        /\ Final' = Final /\ Settled' = Settled
        /\ \A c \in Named : c.seq \in Nat /\ 0 < c.seq /\ c.seq < queue.next /\ c.seq < meta.next
        /\ \A c \in plan.children : /\ c.seq \in Nat /\ queue.next <= c.seq /\ c.seq <= Through(plan)
                                    /\ queue.acked < c.seq
        /\ Through(plan) \in Nat
        /\ b.seq \notin queue.terminal
        /\ \A c \in Known : c.seq > queue.acked => c \in queue.unacked
        /\ \A r \in Recs : r.intact
        /\ queue.acked \in Nat /\ queue.acked < queue.next /\ queue.acked <= meta.acked /\ queue.next \in Nat
    BY RepackedNames
  <1>3. /\ plan.parent = b.seq /\ plan.root = b.root
        /\ \A c \in plan.children : c.root = b.root
        /\ \E c \in plan.children : c.seq = Through(plan)
    BY <1>0 DEF Splits
  <1>4. /\ \A i \in DOMAIN segments :
              /\ segments'[i].records = segments[i].records /\ segments'[i].last \in Nat
              /\ segments[i].last <= segments'[i].last /\ segments[i].last \in Nat
        /\ DOMAIN segments = 1 .. Len(segments)
    <2>1. \A i \in DOMAIN segments : segments[i].last \in Nat
      BY <1>1, NamesTyped DEF SegmentType
    <2>2. DOMAIN segments = 1 .. Len(segments)
      BY <1>1, NamesTyped
    <2> QED BY <2>1, <2>2 DEF Repacks
  <1>5. \/ /\ ~queue'.unhealthy /\ plan \in queue'.repacks
           /\ queue'.unacked = queue.unacked \cup plan.children
           /\ \A i \in DOMAIN segments :
                (\E r \in ToSet(segments[i].records) : r.seq = plan.root) => Through(plan) <= segments'[i].last
           /\ connected' /\ inflight' = {d \in inflight : d.seq # b.seq} /\ answered' = answered \ {b.seq}
        \/ /\ queue'.unhealthy /\ queue'.unacked = queue.unacked
           /\ ~connected' /\ inflight' = {} /\ answered' = {}
    BY DEF Repacks
  <1>6. /\ queue.terminal \subseteq Nat /\ \A n \in queue.terminal : n < queue.next
        /\ queue.handed \in Nat /\ queue.handed < queue.next
        /\ \A d \in queue.unacked : d \in Known /\ d \in Named /\ d.seq > queue.acked
    <2>1. queue.unacked \subseteq {d \in Known : d.seq > queue.acked}
      BY <1>0, <1>1 DEF Memory
    <2> QED BY <1>0, <1>1, <2>1, QueueTyped DEF Used, Named
  <1>7. /\ Parents(queue)' \subseteq Parents(queue) \cup {b.seq} /\ Parents(queue) \subseteq Parents(queue)'
        /\ plan \in queue'.repacks => b.seq \in Parents(queue)'
    BY <1>0, <1>3 DEF Parents
  <1>8. \A n \in Parents(queue)' : n \in Nat /\ n < queue.next
    <2>1. ASSUME NEW p \in queue.repacks PROVE p.parent \in Nat /\ p.parent < queue.next
      <3>1. p \in manifests
        BY <1>0, <1>1 DEF Memory
      <3>2. /\ Through(p) \in Nat /\ p.parent \in Nat /\ p.parent < Through(p) /\ p.children \subseteq Known
            /\ \E c \in p.children : c.seq = Through(p)
        BY <1>1, <3>1, PlansOf
      <3>3. Through(p) < queue.next
        BY <1>2, <3>2 DEF Named
      <3> QED BY <1>2, <3>2, <3>3
    <2>2. b.seq \in Nat
      BY <1>2 DEF Batch
    <2> QED BY <1>2, <1>7, <2>1, <2>2 DEF Parents
  <1>9. Memory'
    <2>1. queue'.unacked \subseteq {d \in Known' : d.seq > queue'.acked}
      <3>1. plan \in queue'.repacks => plan.children \subseteq Known'
        BY <1>0, <1>2
      <3> QED BY <1>0, <1>2, <1>5, <1>6, <3>1
    <2>2. ~queue'.unhealthy => Unfinished(manifests', queue'.acked) \subseteq queue'.repacks
      <3>1. Unfinished(manifests, queue.acked) \subseteq queue.repacks
        BY <1>0, <1>1 DEF Memory
      <3>2. Unfinished(manifests', queue'.acked) \subseteq Unfinished(manifests, queue.acked) \cup {plan}
        BY <1>0 DEF Unfinished
      <3>3. queue.repacks \subseteq queue'.repacks
        BY <1>0
      <3> QED BY <1>5, <3>1, <3>2, <3>3
    <2>3. ASSUME NEW d \in Known' \ queue'.unacked, d.seq > queue'.acked
          PROVE  /\ queue'.unhealthy /\ \A c \in queue'.unacked : c.seq < d.seq
                 /\ d.seq \notin queue'.terminal \cup Parents(queue)'
      <3>1. d \in plan.children /\ queue'.unhealthy /\ queue'.unacked = queue.unacked
        BY <1>0, <1>2, <1>5, <2>3
      <3>2. \A c \in queue.unacked : c.seq < d.seq
        BY <1>2, <1>6, <3>1
      <3>3. d.seq \notin queue'.terminal
        BY <1>0, <1>2, <1>6, <3>1
      <3>4. d.seq \notin Parents(queue)'
        BY <1>2, <1>8, <3>1
      <3> QED BY <3>1, <3>2, <3>3, <3>4
    <2>4. \A n \in queue'.terminal : n <= queue'.acked \/ n \in Parents(queue)' \/ n \in SeqsOf(Final)'
      <3>1. \A n \in queue.terminal : n <= queue.acked \/ n \in Parents(queue) \/ n \in SeqsOf(Final)
        BY <1>0, <1>1 DEF Memory
      <3>2. SeqsOf(Final)' = SeqsOf(Final)
        BY <1>2 DEF SeqsOf
      <3> QED BY <1>0, <1>7, <3>1, <3>2
    <2>5. ASSUME NEW p \in queue'.repacks, p.parent \in queue'.terminal, NEW c \in p.children
          PROVE  c.seq <= queue'.acked \/ c.seq \in queue'.terminal
      <3>1. p \in queue.repacks
        BY <1>0, <1>2, <1>3, <2>5
      <3> QED BY <1>0, <1>1, <2>5, <3>1 DEF Memory
    <2>6. queue'.repacks \subseteq manifests'
      BY <1>0
    <2> QED BY <2>1, <2>2, <2>3, <2>4, <2>5, <2>6 DEF Memory
  <1>10. ASSUME NEW d, KeptBy(segments, d), d.seq \in Nat PROVE KeptBy(segments', d)
    <2>1. PICK i \in DOMAIN segments : /\ d.seq <= segments[i].last
                                       /\ \E r \in ToSet(segments[i].records) : r.seq = d.root /\ r.intact
      BY <1>10 DEF KeptBy
    <2>2. d.seq <= segments'[i].last
      BY <1>4, <1>10, <2>1
    <2> QED BY <1>2, <1>4, <2>1, <2>2 DEF KeptBy
  <1>11. PICK j \in DOMAIN segments : \E r \in ToSet(segments[j].records) : r.seq = b.root /\ r.intact
    BY <1>0, <1>1, <1>2, RootOf
  <1>12. Kept'
    <2>1. ASSUME NEW d \in queue'.unacked PROVE KeptBy(segments', d)
      <3>1. CASE d \in queue.unacked
        <4>1. KeptBy(segments, d)
          BY <1>0, <1>1, <3>1 DEF Kept
        <4> QED BY <1>2, <1>6, <1>10, <3>1, <4>1
      <3>2. CASE d \in plan.children /\ d \notin queue.unacked
        <4>1. Through(plan) <= segments'[j].last
          BY <1>3, <1>5, <1>11, <3>2
        <4>2. d.seq <= segments'[j].last /\ d.root = b.root
          BY <1>2, <1>3, <1>4, <3>2, <4>1
        <4> QED BY <1>2, <1>4, <1>11, <4>2 DEF KeptBy
      <3> QED BY <1>5, <3>1, <3>2
    <2>2. ASSUME NEW i \in DOMAIN segments', NEW r \in ToSet(segments'[i].records), r.intact
          PROVE  r.seq <= segments'[i].last
      <3>1. i \in DOMAIN segments /\ r \in ToSet(segments[i].records)
        BY <1>2, <1>4
      <3>2. r.seq <= segments[i].last
        BY <1>0, <1>1, <2>2, <3>1 DEF Kept
      <3>3. r.seq \in Nat
        BY <1>1, <3>1, NamesTyped DEF RecordType
      <3> QED BY <1>4, <3>1, <3>2, <3>3
    <2>3. \A r \in Recs' : r.intact
      BY <1>2
    <2> QED BY <1>0, <2>1, <2>2, <2>3 DEF Kept
  <1>13. Sending'
    <2>1. CASE ~connected' /\ inflight' = {} /\ answered' = {}
      BY <1>0, <1>2, <2>1 DEF Sending
    <2>2. CASE /\ plan \in queue'.repacks /\ queue'.unacked = queue.unacked \cup plan.children
               /\ connected' /\ inflight' = {d \in inflight : d.seq # b.seq} /\ answered' = answered \ {b.seq}
      <3>0. connected
        BY DEF Repacks
      <3>1. answered' \subseteq SeqsOf(verdicts)'
        BY <1>0, <1>1, <2>2 DEF Sending, SeqsOf
      <3>2. SeqsOf(Final)' = SeqsOf(Final)
        BY <1>2 DEF SeqsOf
      <3>3. ASSUME NEW d \in inflight'
            PROVE  /\ d.seq <= queue'.handed /\ d.seq \notin Parents(queue)'
                   /\ d \in queue'.unacked \/ (d.seq <= queue'.acked /\ d.seq \in SeqsOf(Final)')
        <4>1. d \in inflight /\ d.seq # b.seq
          BY <2>2
        <4>2. /\ d.seq <= queue.handed /\ d.seq \notin Parents(queue)
              /\ d \in queue.unacked \/ (d.seq <= queue.acked /\ d.seq \in SeqsOf(Final))
          BY <1>0, <1>1, <4>1 DEF Sending
        <4> QED BY <1>0, <1>7, <2>2, <3>2, <4>1, <4>2
      <3>4. ASSUME NEW d \in Pending', d.seq <= queue'.handed
            PROVE  d \in inflight' \/ d.seq \in queue'.terminal
        <4>1. d \in queue'.unacked /\ d.seq \notin Parents(queue)'
          BY DEF Pending
        <4>2. d \notin plan.children
          BY <1>0, <1>2, <1>6, <3>4
        <4>3. d \in Pending /\ d.seq # b.seq
          BY <1>7, <2>2, <4>1, <4>2 DEF Pending
        <4>4. d \in inflight \/ d.seq \in queue.terminal
          BY <1>0, <1>1, <3>0, <3>4, <4>3 DEF Sending
        <4> QED BY <1>0, <2>2, <4>3, <4>4
      <3> QED BY <1>0, <3>1, <3>3, <3>4 DEF Sending
    <2> QED BY <1>5, <2>1, <2>2
  <1>14. Finished'
    <2>1. ASSUME NEW d \in Known', d.seq <= meta'.acked PROVE d.events \subseteq Settled'
      <3>1. d \notin plan.children
        BY <1>0, <1>2, <2>1
      <3>2. d \in Known /\ d.seq \in Nat
        BY <1>2, <3>1 DEF Named
      <3>3. d.seq <= meta.acked
        <4>1. meta.acked \in Nat
          BY <1>1, QueueTyped
        <4> QED BY <1>0, <1>2, <2>1, <3>2, <4>1
      <3> QED BY <1>1, <1>2, <3>2, <3>3 DEF Finished
    <2>2. ASSUME NEW d \in Known', d.seq \in queue'.terminal PROVE d.events \subseteq Settled'
      <3>1. d \notin plan.children
        BY <1>0, <1>2, <1>6, <2>2
      <3> QED BY <1>0, <1>1, <1>2, <2>2, <3>1 DEF Finished
    <2>3. ASSUME NEW r \in Recs', r.seq <= meta'.acked PROVE r.events \subseteq 1 .. checkpoint'
      <3>1. r \in Recs /\ r.seq \in Nat /\ meta.acked \in Nat
        BY <1>1, <1>2, NamesTyped, QueueTyped DEF RecordType
      <3>2. r.seq <= meta.acked
        BY <1>0, <1>2, <2>3, <3>1
      <3> QED BY <1>0, <1>1, <3>1, <3>2 DEF Finished
    <2> QED BY <2>1, <2>2, <2>3 DEF Finished
  <1>15. Undamaged'
    <2>1. SUFFICES ASSUME "damage" \notin faults'
                   PROVE  /\ queue'.phase # "refused"
                          /\ \A r \in Recs' : ~r.intact => \A s \in Recs' : s.seq <= r.seq
                          /\ \A p \in manifests' : Through(p) > queue.acked => \E i \in DOMAIN segments' : Guarded(p, i)'
      BY <1>2 DEF Undamaged
    <2>2. "damage" \notin faults
      BY <1>0, <2>1
    <2>3. ASSUME NEW p \in manifests, Through(p) > queue.acked PROVE \E i \in DOMAIN segments' : Guarded(p, i)'
      <3>1. PICK i \in DOMAIN segments : Guarded(p, i)
        BY <1>1, <1>2, <2>2, <2>3 DEF Undamaged
      <3>2. Through(p) \in Nat /\ p.children \subseteq Known
        BY <1>1, PlansOf
      <3>3. p \in queue.repacks /\ ~(\E c \in p.children : c.seq > queue.acked /\ c \notin queue.unacked)
        BY <1>0, <1>1, <1>2, <2>3, <3>2 DEF Memory, Unfinished
      <3>4. Through(p) <= segments[i].last
        BY <1>0, <3>1, <3>3 DEF Guarded
      <3>5. Through(p) <= segments'[i].last
        BY <1>4, <3>2, <3>4
      <3>6. \E r \in ToSet(segments'[i].records) : r.seq = p.root /\ r.intact
        BY <1>4, <3>1 DEF Guarded
      <3> QED BY <1>0, <1>2, <3>5, <3>6 DEF Guarded
    <2>4. ASSUME plan \in manifests' PROVE Guarded(plan, j)'
      <3>1. \E r \in ToSet(segments'[j].records) : r.seq = plan.root /\ r.intact
        BY <1>3, <1>4, <1>11
      <3>2. \/ Through(plan) <= segments'[j].last
            \/ /\ plan.parent \in SeqsOf(queue'.unacked)
               /\ \E c \in plan.children : c.seq > queue'.acked /\ c \notin queue'.unacked
        <4>1. CASE ~queue'.unhealthy
          BY <1>3, <1>5, <1>11, <4>1
        <4>2. CASE queue'.unhealthy
          <5>1. queue'.unacked = queue.unacked
            BY <1>5, <4>2
          <5>2. plan.parent \in SeqsOf(queue'.unacked)
            BY <1>2, <1>3, <5>1 DEF SeqsOf
          <5>3. PICK c \in plan.children : c.seq = Through(plan)
            BY <1>3
          <5>4. c \notin queue.unacked
            BY <1>2, <1>6
          <5> QED BY <1>0, <1>2, <5>1, <5>2, <5>4
        <4> QED BY <4>1, <4>2
      <3> QED BY <1>0, <3>1, <3>2 DEF Guarded
    <2>5. \A p \in manifests' : p \in manifests \/ p = plan
      BY <1>0
    <2>6. queue'.phase # "refused"
      BY <1>0 DEF IsUp
    <2> QED BY <1>2, <2>3, <2>4, <2>5, <2>6
  <1> QED BY <1>9, <1>12, <1>13, <1>14, <1>15

\* Where the events are after such a step.
LEMMA RepacksKeepEvents ==
  ASSUME CollectorInv, NEW b, NEW plan, Repacks(b, plan)
  PROVE  Coverage' /\ InOrder' /\ Dropping' /\ Past' /\ Origins' /\ Once'
  <1>0. /\ IsUp /\ ~queue.unhealthy /\ b \in Pending /\ Splits(b, plan)
        /\ UNCHANGED <<readPos, batch, work, batcher, checkpoint, dead, verdicts>> /\ faults \subseteq faults'
        /\ queue'.acked = queue.acked /\ queue'.active = FALSE
        /\ manifests' \in {manifests, manifests \cup {plan}}
        /\ queue'.unhealthy => "repack" \in Faults
    BY DEF Repacks, pipelineVars
  <1>1. /\ Types /\ Identity /\ Coverage /\ InOrder /\ Dropping /\ Past /\ Origins /\ Once
    BY DEF CollectorInv
  <1>2. /\ b \in Known /\ b \in Batch /\ b.seq > queue.acked /\ b \in queue.unacked
        /\ Low = queue.acked /\ Low' = queue.acked
        /\ Recs' = Recs /\ Children' \subseteq Children \cup plan.children
        /\ Known' \subseteq Known \cup plan.children
        /\ Final' = Final /\ Settled' = Settled /\ Stored' = Stored /\ Done' = Done /\ InHand' = InHand
        /\ \A p \in manifests : p.parent # b.seq
        /\ \A v \in Final : v.seq # b.seq
    BY RepackedNames
  <1>3. /\ plan.parent = b.seq /\ plan.root = b.root
        /\ \A c \in plan.children : c.root = b.root /\ c.events \subseteq b.events
        /\ \A c, d \in plan.children : c # d => c.events \cap d.events = {}
    BY <1>0 DEF Splits
  <1>4. Coverage'
    BY <1>1, <1>2 DEF Coverage, Sound
  <1>5. InOrder'
    BY <1>0, <1>1, <1>2 DEF InOrder, EventsOf
  <1>6. Dropping'
    BY <1>0, <1>1 DEF Dropping
  <1>7. Past'
    BY <1>0, <1>1, <1>2 DEF Past
  <1>8. Origins'
    <2>1. ASSUME NEW c \in Children', NEW r \in Recs', c.root = r.seq PROVE c.events \subseteq r.events
      <3>1. CASE c \in Children
        BY <1>1, <1>2, <2>1, <3>1 DEF Origins
      <3>2. CASE c \in plan.children
        <4>1. r.seq = b.root /\ r \in Recs
          BY <1>2, <1>3, <2>1, <3>2
        <4>2. b.events \subseteq r.events
          BY <1>2, <4>1, RecordOf
        <4> QED BY <1>3, <3>2, <4>2
      <3> QED BY <1>2, <3>1, <3>2
    <2>2. \A p \in manifests' : \A c, d \in p.children : c # d => c.events \cap d.events = {}
      BY <1>0, <1>1, <1>3 DEF Origins
    <2> QED BY <1>0, <1>1, <1>2, <2>1, <2>2 DEF Origins, EventsOf
  <1>9. Once'
    <2>1. SUFFICES ASSUME SyncAlways, "damage" \notin faults'
                   PROVE  /\ \A r \in Recs' : InDoubt(r)' => r.seq > queue'.acked /\ Descriptor(r) \notin queue'.unacked
                          /\ \A v \in Final' : \A e \in v.events :
                               e <= checkpoint' \/ \E r \in Recs' : r.intact /\ e \in r.events /\ ~InDoubt(r)'
                          /\ \A v, w \in Final' : v # w => v.events \cap w.events = {}
                          /\ \A c, d \in Leaves' : c # d => c.events \cap d.events = {}
                          /\ \A c \in Leaves', v \in Final' : v.seq # c.seq => v.events \cap c.events = {}
                          /\ Stored' \cap dead' = {}
      BY DEF Once
    <2>2. /\ \A v \in Final : \A e \in v.events :
               e <= checkpoint \/ \E r \in Recs : r.intact /\ e \in r.events /\ ~InDoubt(r)
          /\ \A v, w \in Final : v # w => v.events \cap w.events = {}
          /\ \A c, d \in Leaves : c # d => c.events \cap d.events = {}
          /\ \A c \in Leaves, v \in Final : v.seq # c.seq => v.events \cap c.events = {}
          /\ Stored \cap dead = {}
      BY <1>0, <1>1, <2>1 DEF Once
    <2>3. \A r : ~InDoubt(r)'
      BY <1>0 DEF InDoubt
    <2>4. b \in Leaves
      BY <1>2 DEF Leaves
    <2>5. \A c \in Leaves' : (c \in Leaves /\ c # b) \/ c \in plan.children \/ (c \in Leaves /\ manifests' = manifests)
      <3>1. TAKE c \in Leaves'
      <3>2. c \in Known' /\ c.seq > queue.acked /\ c.seq \notin {p.parent : p \in manifests'}
        BY <1>2 DEF Leaves
      <3>3. CASE c \in plan.children
        BY <3>3
      <3>4. CASE c \in Known
        <4>1. c \in Leaves
          BY <1>0, <1>2, <3>2, <3>4 DEF Leaves
        <4>2. c # b \/ manifests' = manifests
          BY <1>0, <1>3, <3>2
        <4> QED BY <4>1, <4>2
      <3> QED BY <1>2, <3>2, <3>3, <3>4
    <2>6. manifests' = manifests => Leaves' \subseteq Leaves
      <3>1. SUFFICES ASSUME manifests' = manifests PROVE Known' \subseteq Known
        BY <1>2 DEF Leaves
      <3> QED BY <1>2, <3>1 DEF Known, Children
    <2>7. ASSUME NEW c \in Leaves', NEW d \in Leaves', c # d PROVE c.events \cap d.events = {}
      <3>1. CASE manifests' = manifests
        BY <2>2, <2>6, <2>7, <3>1
      <3>2. CASE (c \in Leaves /\ c # b) /\ (d \in Leaves /\ d # b)
        BY <2>2, <2>7, <3>2
      <3>3. CASE c \in plan.children /\ d \in plan.children
        BY <1>3, <2>7, <3>3
      <3>4. CASE (c \in Leaves /\ c # b) /\ d \in plan.children
        <4>1. c.events \cap b.events = {}
          BY <2>2, <2>4, <3>4
        <4> QED BY <1>3, <3>4, <4>1
      <3>5. CASE (d \in Leaves /\ d # b) /\ c \in plan.children
        <4>1. d.events \cap b.events = {}
          BY <2>2, <2>4, <3>5
        <4> QED BY <1>3, <3>5, <4>1
      <3> QED BY <2>5, <3>1, <3>2, <3>3, <3>4, <3>5
    <2>8. ASSUME NEW c \in Leaves', NEW v \in Final', v.seq # c.seq PROVE v.events \cap c.events = {}
      <3>1. CASE c \in Leaves
        BY <1>2, <2>2, <2>8, <3>1
      <3>2. CASE c \in plan.children
        <4>1. v.events \cap b.events = {}
          BY <1>2, <2>2, <2>4
        <4> QED BY <1>3, <3>2, <4>1
      <3> QED BY <2>5, <3>1, <3>2
    <2>9. \A v \in Final' : \A e \in v.events :
             e <= checkpoint' \/ \E r \in Recs' : r.intact /\ e \in r.events /\ ~InDoubt(r)'
      BY <1>0, <1>2, <2>2, <2>3
    <2>10. (\A v, w \in Final' : v # w => v.events \cap w.events = {}) /\ Stored' \cap dead' = {}
      BY <1>0, <1>2, <2>2
    <2> QED BY <2>3, <2>7, <2>8, <2>9, <2>10
  <1> QED BY <1>4, <1>5, <1>6, <1>7, <1>8, <1>9

\* Such a step keeps everything.
LEMMA RepacksKeep ==
  ASSUME CollectorInv, NEW b, NEW plan, Repacks(b, plan)
  PROVE  CollectorInv'
  BY RepacksKeepNames, RepacksKeepQueue, RepacksKeepEvents DEF CollectorInv

\* Repack, at whatever write it ends, is such a step.
LEMMA RepackIs ==
  ASSUME CollectorInv, connected, outcome.pc = "none", NEW seq \in answered, Verdict(seq).verdict = "repack",
         NEW limit \in RepackLimits, NEW reached \in RepackStages, Repack(seq, limit, epoch, reached),
         UNCHANGED <<pipelineVars, checkpoint, dead, verdicts, epoch>>,
         \/ /\ reached = "installed" /\ UNCHANGED <<connected, outcome>> /\ NoFault
            /\ inflight' = inflight \ {Sent(seq)} /\ answered' = answered \ {seq}
         \/ /\ reached # "installed" /\ Disconnected /\ Fault("repack")
  PROVE  CollectorInv'
  <1>1. /\ Types /\ Used /\ Identity /\ Families /\ Memory /\ Sending
    BY DEF CollectorInv
  <1>2. IsUp /\ ~queue.unhealthy /\ \E x \in Pending : x.seq = seq /\ Cardinality(x.events) > 1
    BY DEF Repack, CanRepack
  <1>3. PICK x \in Pending : x.seq = seq /\ Cardinality(x.events) > 1
    BY <1>2
  <1> DEFINE b == CHOOSE y \in Pending : y.seq = seq
             plan == Plan(b, limit, epoch)
  <1>4. b \in Pending /\ b.seq = seq
    BY <1>3
  <1>5. \A y \in Pending : y \in Named /\ y \in Batch
    BY <1>1, <1>2, QueueTyped DEF Memory, Named
  <1>6. b = x
    BY <1>1, <1>3, <1>4, <1>5 DEF Identity
  <1>7. /\ meta' = (IF reached \in {"sequences", "manifest"} THEN MetaOf(Counted(plan))
                   ELSE MetaOf([Counted(plan) EXCEPT !.repacks = @ \cup {plan}]))
        /\ manifests' = (IF reached = "sequences" THEN manifests ELSE manifests \cup {plan})
        /\ IF reached = "installed"
           THEN /\ queue' = [[Counted(plan) EXCEPT !.repacks = @ \cup {plan}]
                                EXCEPT !.unacked = @ \cup plan.children]
                /\ segments' = Raised(segments, plan)
           ELSE /\ queue' = [(IF reached = "reference" THEN [Counted(plan) EXCEPT !.repacks = @ \cup {plan}]
                              ELSE Counted(plan)) EXCEPT !.unhealthy = TRUE]
                /\ UNCHANGED segments
    BY DEF Repack, Counted
  <1>8. epoch \in Nat /\ limit \in Nat \ {0} /\ queue.next \in Nat \ {0}
    BY <1>1, QueueTyped, CollectorAssumption DEF Types, SendTypes, CollectorAssumption
  <1>9. PICK p : p = plan
    OBVIOUS
  <1>10. b \in Batch /\ Cardinality(b.events) > 1
    BY <1>3, <1>5, <1>6
  <1> HIDE DEF b
  <1>11. Splits(b, p)
    BY <1>8, <1>9, <1>10, PlanSplits
  <1> DEFINE counted == Counted(p)
             planned == [Counted(p) EXCEPT !.repacks = @ \cup {p}]
             done == [[Counted(p) EXCEPT !.repacks = @ \cup {p}] EXCEPT !.unacked = @ \cup p.children]
  <1>12. /\ p \in PlanType /\ p.children \subseteq Batch /\ Through(p) \in Nat /\ queue.next <= Through(p)
    <2>1. PICK c \in p.children : c.seq = Through(p)
      BY <1>11 DEF Splits
    <2>2. queue.next <= c.seq
      BY <1>11 DEF Splits
    <2> QED BY <1>11, <2>1, <2>2 DEF Splits
  <1>13. queue \in QueueType /\ Through(p) + 1 \in Nat \ {0}
    BY <1>1, <1>12 DEF Types
  <1>14. /\ counted \in QueueType /\ counted.phase = queue.phase /\ counted.reserved = queue.reserved
         /\ counted.acked = queue.acked /\ counted.terminal = queue.terminal /\ counted.handed = queue.handed
         /\ counted.next = Through(p) + 1 /\ counted.active = FALSE /\ counted.unacked = queue.unacked
         /\ counted.repacks = queue.repacks /\ counted.unhealthy = queue.unhealthy
    BY <1>13 DEF Counted, QueueType
  <1> HIDE DEF counted
  <1>15. /\ planned = [counted EXCEPT !.repacks = counted.repacks \cup {p}]
         /\ done = [counted EXCEPT !.repacks = counted.repacks \cup {p}, !.unacked = counted.unacked \cup p.children]
    <2>1. planned = [counted EXCEPT !.repacks = counted.repacks \cup {p}]
      BY <1>14 DEF counted
    <2>2. \A q \in QueueType : [[q EXCEPT !.repacks = @ \cup {p}] EXCEPT !.unacked = @ \cup p.children]
             = [q EXCEPT !.repacks = q.repacks \cup {p}, !.unacked = q.unacked \cup p.children]
      BY DEF QueueType
    <2>3. Counted(p) \in QueueType
      BY <1>14 DEF counted
    <2>4. done = [counted EXCEPT !.repacks = counted.repacks \cup {p}, !.unacked = counted.unacked \cup p.children]
      BY <2>2, <2>3 DEF counted
    <2> QED BY <2>1, <2>4
  <1>16. /\ planned \in QueueType /\ planned.phase = queue.phase /\ planned.reserved = queue.reserved
         /\ planned.acked = queue.acked /\ planned.terminal = queue.terminal /\ planned.handed = queue.handed
         /\ planned.next = Through(p) + 1 /\ planned.active = FALSE /\ planned.unacked = queue.unacked
         /\ planned.repacks = queue.repacks \cup {p} /\ planned.unhealthy = queue.unhealthy
    BY <1>12, <1>14, <1>15 DEF QueueType
  <1>17. /\ done \in QueueType /\ done.phase = queue.phase /\ done.reserved = queue.reserved
         /\ done.acked = queue.acked /\ done.terminal = queue.terminal /\ done.handed = queue.handed
         /\ done.next = Through(p) + 1 /\ done.active = FALSE /\ done.unacked = queue.unacked \cup p.children
         /\ done.repacks = queue.repacks \cup {p} /\ done.unhealthy = queue.unhealthy
    <2>1. counted.unacked \cup p.children \subseteq Batch /\ counted.repacks \cup {p} \subseteq PlanType
      BY <1>12, <1>14 DEF QueueType
    <2> QED BY <1>14, <1>15, <2>1 DEF QueueType
  <1>18. \A state \in QueueType : /\ [state EXCEPT !.unhealthy = TRUE] \in QueueType
           /\ [state EXCEPT !.unhealthy = TRUE].phase = state.phase
           /\ [state EXCEPT !.unhealthy = TRUE].reserved = state.reserved
           /\ [state EXCEPT !.unhealthy = TRUE].acked = state.acked
           /\ [state EXCEPT !.unhealthy = TRUE].terminal = state.terminal
           /\ [state EXCEPT !.unhealthy = TRUE].handed = state.handed
           /\ [state EXCEPT !.unhealthy = TRUE].next = state.next
           /\ [state EXCEPT !.unhealthy = TRUE].active = state.active
           /\ [state EXCEPT !.unhealthy = TRUE].unacked = state.unacked
           /\ [state EXCEPT !.unhealthy = TRUE].repacks = state.repacks
           /\ [state EXCEPT !.unhealthy = TRUE].unhealthy = TRUE
    BY DEF QueueType
  <1>19. /\ meta' = MetaOf(counted) \/ (meta' = MetaOf(planned) /\ p \in manifests')
         /\ manifests' \in {manifests, manifests \cup {p}}
         /\ \/ reached = "installed" /\ queue' = done /\ segments' = Raised(segments, p) /\ p \in manifests'
            \/ /\ reached # "installed" /\ segments' = segments
               /\ \/ queue' = [planned EXCEPT !.unhealthy = TRUE] /\ p \in manifests'
                  \/ queue' = [counted EXCEPT !.unhealthy = TRUE]
    BY <1>7, <1>9 DEF counted, RepackStages
  <1> HIDE DEF planned, done, plan
  <1>20. /\ queue' \in QueueType /\ queue'.phase = queue.phase /\ queue'.reserved = queue.reserved
         /\ queue'.acked = queue.acked /\ queue'.terminal = queue.terminal /\ queue'.handed = queue.handed
         /\ queue'.next = Through(p) + 1 /\ queue'.active = FALSE
    <2>1. CASE queue' = done
      BY <1>17, <2>1
    <2>2. CASE queue' = [planned EXCEPT !.unhealthy = TRUE]
      BY <1>16, <1>18, <2>2
    <2>3. CASE queue' = [counted EXCEPT !.unhealthy = TRUE]
      BY <1>14, <1>18, <2>3
    <2> QED BY <1>19, <2>1, <2>2, <2>3
  <1>21. queue.repacks \subseteq manifests
    BY <1>1, <1>2 DEF Memory
  <1>22. queue'.repacks \in {queue.repacks, queue.repacks \cup {p}} /\ queue'.repacks \subseteq manifests'
    <2>1. CASE queue' = done /\ p \in manifests'
      BY <1>17, <1>19, <1>21, <2>1
    <2>2. CASE queue' = [planned EXCEPT !.unhealthy = TRUE] /\ p \in manifests'
      BY <1>16, <1>18, <1>19, <1>21, <2>2
    <2>3. CASE queue' = [counted EXCEPT !.unhealthy = TRUE]
      BY <1>14, <1>18, <1>19, <1>21, <2>3
    <2> QED BY <1>19, <2>1, <2>2, <2>3
  <1>23. /\ meta' \in MetaType /\ queue'.next <= meta'.next /\ queue.reserved <= meta'.next
         /\ meta'.acked = queue.acked /\ \A ref \in meta'.refs : Matched(ref)'
    <2>1. ASSUME NEW state \in QueueType, meta' = MetaOf(state), state.next = Through(p) + 1,
                 state.reserved = queue.reserved, state.acked = queue.acked,
                 state.repacks \subseteq manifests', state.repacks \subseteq PlanType,
                 \A q \in state.repacks : Through(q) \in Nat
          PROVE  /\ meta' \in MetaType /\ queue'.next <= meta'.next /\ queue.reserved <= meta'.next
                 /\ meta'.acked = queue.acked /\ \A ref \in meta'.refs : Matched(ref)'
      <3>1. state.next \in Nat \ {0} /\ state.reserved \in Nat /\ state.acked \in Nat
        BY DEF QueueType
      <3>2. /\ MetaOf(state) \in MetaType
            /\ state.next <= MetaOf(state).next /\ state.reserved <= MetaOf(state).next
            /\ MetaOf(state).acked = state.acked
            /\ \A ref \in MetaOf(state).refs : \E q \in state.repacks :
                  q.parent = ref.parent /\ Through(q) = ref.through /\ Through(q) > state.acked
        BY <2>1, <3>1, MetaWritten
      <3>3. ASSUME NEW ref \in meta'.refs PROVE Matched(ref)'
        <4>1. PICK q \in state.repacks : q.parent = ref.parent /\ Through(q) = ref.through
          BY <2>1, <3>2
        <4> QED BY <2>1, <4>1 DEF Matched
      <3> QED BY <1>20, <2>1, <3>2, <3>3
    <2>2. \A q \in queue.repacks : Through(q) \in Nat
      BY <1>1, <1>21, PlansOf
    <2>3. queue.repacks \subseteq PlanType /\ queue.repacks \subseteq manifests'
      BY <1>1, <1>19, <1>21, QueueTyped
    <2>4. CASE meta' = MetaOf(counted)
      BY <1>14, <2>1, <2>2, <2>3, <2>4
    <2>5. CASE meta' = MetaOf(planned) /\ p \in manifests'
      BY <1>12, <1>16, <2>1, <2>2, <2>3, <2>5
    <2> QED BY <1>19, <2>4, <2>5
  <1>24. /\ segments' \in Seq(SegmentType) /\ Len(segments') = Len(segments)
         /\ \A i \in DOMAIN segments :
              /\ segments'[i].first = segments[i].first /\ segments'[i].records = segments[i].records
              /\ segments'[i].last \in Nat /\ segments[i].last <= segments'[i].last
              /\ segments'[i].last < queue'.next
         /\ segments' = Raised(segments, p) =>
              \A i \in DOMAIN segments :
                 (\E r \in ToSet(segments[i].records) : r.seq = p.root) => Through(p) <= segments'[i].last
    <2>1. CASE segments' = Raised(segments, p)
      <3>1. /\ segments' \in Seq(SegmentType) /\ Len(segments') = Len(segments)
            /\ \A i \in DOMAIN segments :
                 /\ segments'[i].first = segments[i].first /\ segments'[i].records = segments[i].records
                 /\ segments'[i].last \in Nat /\ segments[i].last <= segments'[i].last
                 /\ segments'[i].last <= Through(p)
                 /\ (\E r \in ToSet(segments[i].records) : r.seq = p.root) => Through(p) <= segments'[i].last
        BY <1>1, <1>2, <1>12, <2>1, RaisedOf
      <3>2. \A i \in DOMAIN segments : segments'[i].last < queue'.next
        BY <1>12, <1>20, <3>1
      <3> QED BY <3>1, <3>2
    <2>2. CASE segments' = segments /\ segments # Raised(segments, p)
      <3>1. segments \in Seq(SegmentType)
        BY <1>1 DEF Types, FileTypes
      <3>2. \A i \in DOMAIN segments : segments[i].last \in Nat
        BY <1>1, NamesTyped DEF SegmentType
      <3>3. \A i \in DOMAIN segments : segments[i].last < queue.next
        BY <1>1, <1>2 DEF Used
      <3>4. \A i \in DOMAIN segments : segments[i].last < queue'.next /\ segments[i].last <= segments[i].last
        BY <1>8, <1>12, <1>20, <3>2, <3>3
      <3> QED BY <2>2, <3>1, <3>2, <3>4
    <2> QED BY <1>19, <2>1, <2>2
  <1>25. \E v \in verdicts : v.seq = b.seq /\ v.verdict = "repack"
    BY <1>1, <1>2, <1>4, VerdictOf
  <1>26. faults \subseteq faults' /\ faults' \subseteq Faults
    <2>1. NoFault \/ Fault("repack")
      OBVIOUS
    <2>2. NoFault \/ \E kind \in Faults : Fault(kind)
      BY <2>1 DEF Fault
    <2> QED BY <1>1, <2>2, FaultsGrow
  <1>27. connected \in BOOLEAN
    BY <1>1 DEF Types, SendTypes
  <1>28. /\ outcome' \in {outcome, NoOutcome} /\ outcome'.pc = "none" /\ connected' \in BOOLEAN
         /\ \/ /\ ~queue'.unhealthy /\ p \in queue'.repacks
               /\ queue'.unacked = queue.unacked \cup p.children
               /\ \A i \in DOMAIN segments :
                    (\E r \in ToSet(segments[i].records) : r.seq = p.root) => Through(p) <= segments'[i].last
               /\ connected' /\ inflight' = {d \in inflight : d.seq # b.seq} /\ answered' = answered \ {b.seq}
            \/ /\ queue'.unhealthy /\ "repack" \in Faults /\ queue'.unacked = queue.unacked
               /\ ~connected' /\ inflight' = {} /\ answered' = {} /\ outcome' = NoOutcome
    <2>1. CASE reached = "installed"
      <3>1. /\ UNCHANGED <<connected, outcome>> /\ inflight' = inflight \ {Sent(seq)} /\ answered' = answered \ {seq}
            /\ queue' = done /\ segments' = Raised(segments, p)
        BY <1>19, <2>1
      <3>2. Sent(seq) \in inflight /\ Sent(seq).seq = seq
        BY <1>1, <1>2, VerdictOf
      <3>3. \A d \in inflight : d.seq = seq => d = Sent(seq)
        BY <1>1, <3>2 DEF Identity, Named
      <3>4. inflight' = {d \in inflight : d.seq # b.seq}
        BY <1>4, <3>1, <3>2, <3>3
      <3> QED BY <1>2, <1>4, <1>17, <1>24, <1>27, <3>1, <3>4
    <2>2. CASE reached # "installed"
      <3>1. Disconnected /\ Fault("repack")
        BY <2>2
      <3>2. queue'.unhealthy /\ queue'.unacked = queue.unacked
        BY <1>14, <1>16, <1>18, <1>19, <2>2
      <3> QED BY <3>1, <3>2 DEF Disconnected, Fault, NoOutcome
    <2> QED BY <2>1, <2>2
  <1>29. Repacks(b, p)
    BY <1>2, <1>4, <1>11, <1>19, <1>20, <1>22, <1>23, <1>24, <1>25, <1>26, <1>28 DEF Repacks
  <1> QED BY <1>29, RepacksKeep

\* ReceiveRepack: the queue splits the batch, and its children are sent.
LEMMA ReceiveRepackKeeps ==
  ASSUME CollectorInv, NEW seq \in answered, ReceiveRepack(seq)
  PROVE  CollectorInv'
  <1>1. PICK limit \in RepackLimits : Repack(seq, limit, epoch, "installed")
    BY DEF ReceiveRepack
  <1>2. /\ connected /\ outcome.pc = "none" /\ Verdict(seq).verdict = "repack"
        /\ inflight' = inflight \ {Sent(seq)} /\ answered' = answered \ {seq} /\ NoFault
        /\ UNCHANGED <<pipelineVars, checkpoint, dead, connected, outcome, verdicts, epoch>>
    BY DEF ReceiveRepack
  <1> QED BY <1>1, <1>2, RepackIs DEF RepackStages

\* A repacking that fails at any of its writes ends the stream.
LEMMA ReceiveRepackFailsKeeps ==
  ASSUME CollectorInv, NEW seq \in answered, ReceiveRepackFails(seq)
  PROVE  CollectorInv'
  <1>1. PICK limit \in RepackLimits, reached \in RepackStages \ {"installed"} : Repack(seq, limit, epoch, reached)
    BY DEF ReceiveRepackFails
  <1>2. /\ connected /\ outcome.pc = "none" /\ Verdict(seq).verdict = "repack"
        /\ Disconnected /\ Fault("repack")
        /\ UNCHANGED <<pipelineVars, checkpoint, dead, verdicts, epoch>>
    BY DEF ReceiveRepackFails
  <1> QED BY <1>1, <1>2, RepackIs

-----------------------------------------------------------------------------
(* The invariant.                                                           *)

\* A collector that never ran.
LEMMA StartsSound ==
  ASSUME Init
  PROVE  CollectorInv
  <1>1. /\ meta = [next |-> 1, acked |-> 0, refs |-> {}] /\ segments = <<>> /\ manifests = {}
        /\ queue = ClosedQueue
        /\ readPos = 0 /\ batch = {} /\ work = <<>> /\ batcher = "off"
        /\ checkpoint = 0 /\ dead = {}
        /\ connected = FALSE /\ inflight = {} /\ answered = {} /\ outcome = NoOutcome
        /\ verdicts = {} /\ epoch = 0 /\ faults = {}
    BY DEF Init, QueueInit
  <1>2. /\ queue.phase = "down" /\ queue.active = FALSE /\ ~IsUp /\ ~Running /\ ClosedQueue \in QueueType
        /\ ClosedQueue = [ClosedQueue EXCEPT !.phase = "down", !.next = 1, !.acked = 0]
        /\ queue.next = 1 /\ queue.acked = 0 /\ meta.acked = 0 /\ meta.next = 1 /\ meta.refs = {}
    <2>1. ClosedQueue \in QueueType
      <3>1. {} \subseteq Batch /\ {} \subseteq PlanType
        OBVIOUS
      <3> QED BY <3>1 DEF ClosedQueue, QueueType
    <2>2. ClosedQueue = [ClosedQueue EXCEPT !.phase = "down", !.next = 1, !.acked = 0]
      BY ClosedSame
    <2>3. queue.phase = "down" /\ queue.active = FALSE /\ queue.next = 1 /\ queue.acked = 0
      BY <1>1 DEF ClosedQueue
    <2>4. ~IsUp /\ ~Running
      BY <2>3 DEF IsUp, Running
    <2> QED BY <1>1, <2>1, <2>2, <2>3, <2>4
  <1>3. DOMAIN segments = {} /\ Recs = {} /\ Children = {} /\ Known = {} /\ Named = {} /\ Final = {}
    <2>1. DOMAIN segments = {}
      BY <1>1
    <2> QED BY <1>1, <2>1 DEF Recs, RecsOf, Children, Known, Named, Final
  <1>4. Events \in Nat /\ MaxInFlight \in Nat
    BY CollectorAssumption DEF CollectorAssumption
  <1>5. Types
    <2>1. meta \in [next : Nat \ {0}, acked : Nat, refs : SUBSET [parent : Nat, through : Nat]]
      BY <1>1
    <2>2. segments \in Seq(SegmentType) /\ manifests \subseteq PlanType
      BY <1>1
    <2>3. PipeTypes
      BY <1>1, <1>4 DEF PipeTypes
    <2>4. IsFiniteSet(inflight) /\ Cardinality(inflight) <= MaxInFlight
      BY <1>1, <1>4, FS_EmptySet
    <2>5. outcome \in [pc : {"none", "checkpoint", "ack"}, seq : Nat, cumulative : BOOLEAN]
      BY <1>1 DEF NoOutcome
    <2>6. SendTypes
      BY <1>1, <2>4, <2>5 DEF SendTypes
    <2> QED BY <1>1, <1>2, <2>1, <2>2, <2>3, <2>6 DEF Types, FileTypes
  <1>6. FilesInOrder /\ Identity /\ Families /\ Coverage /\ References
    BY <1>1, <1>2, <1>3 DEF FilesInOrder, Identity, Families, Coverage, References
  <1>7. Used
    <2>1. SeqsOf(Named) \cup SeqsOf(verdicts) = {}
      BY <1>1, <1>3 DEF SeqsOf
    <2> QED BY <1>2, <2>1 DEF Used
  <1>8. Shut
    BY <1>1, <1>2 DEF Shut
  <1>9. Memory /\ Kept /\ Sending
    BY <1>2 DEF Memory, Kept, Sending
  <1>10. Finished
    BY <1>2, <1>3 DEF Finished
  <1>11. InOrder /\ Dropping
    BY <1>1 DEF InOrder, Dropping
  <1>12. Past
    <2>1. 1 .. 0 = {}
      OBVIOUS
    <2> QED BY <1>1, <2>1 DEF Past
  <1>13. Undamaged
    BY <1>1, <1>2, <1>3 DEF Undamaged
  <1>14. Origins
    BY <1>1, <1>3 DEF Origins, EventsOf
  <1>15. Once
    BY <1>1, <1>3 DEF Once, Leaves
  <1> QED BY <1>5, <1>6, <1>7, <1>8, <1>9, <1>10, <1>11, <1>12, <1>13, <1>14, <1>15 DEF CollectorInv

\* A step that changes nothing.
LEMMA StutterKeeps ==
  ASSUME CollectorInv, UNCHANGED vars
  PROVE  CollectorInv'
  <1>1. /\ UNCHANGED <<meta, segments, manifests, queue, senderVars, verdicts, epoch>>
        /\ UNCHANGED <<readPos, batch, work, batcher, checkpoint, dead, faults>>
    BY DEF vars, queueVars, pipelineVars
  <1>2. /\ Types /\ InOrder /\ Dropping /\ Past /\ Once
        /\ checkpoint \in 0 .. Events /\ faults \subseteq Faults
    BY DEF CollectorInv, Types, PipeTypes, SendTypes
  <1>3. PipeTypes'
    BY <1>1, <1>2 DEF Types, PipeTypes
  <1>4. Recs' = Recs /\ Done' = Done /\ InHand' = InHand /\ Settled' = Settled
    BY <1>1 DEF Recs, RecsOf, Done, InHand, Settled, Stored
  <1>5. InOrder' /\ Dropping' /\ Past'
    <2>1. InOrder'
      BY <1>1, <1>2, <1>4 DEF InOrder
    <2>2. Dropping'
      BY <1>1, <1>2 DEF Dropping
    <2>3. Past'
      BY <1>1, <1>2, <1>4 DEF Past
    <2> QED BY <2>1, <2>2, <2>3
  <1>6. checkpoint <= checkpoint'
    BY <1>1, <1>2
  <1>7. SyncAlways /\ "damage" \notin faults => Stored \cap dead' = {}
    BY <1>1, <1>2 DEF Once
  <1> QED BY <1>1, <1>2, <1>3, <1>5, <1>6, <1>7, PipelineStep

\* Every step keeps the invariant.
LEMMA NextKeeps ==
  ASSUME CollectorInv, Next
  PROVE  CollectorInv'
  <1>1. CASE Restarts
    BY <1>1, OpenKeeps, QuarantineKeeps, StartKeeps, ExitKeeps DEF Restarts
  <1>2. CASE Pipeline
    BY <1>2, ReadUndecodableKeeps, ReadKeeps, LingerKeeps, FlushAppendsKeeps, FlushReclaimsKeeps, StopKeeps,
       FlushSplitsKeeps, FlushDeadLettersKeeps, AdvanceCheckpointKeeps DEF Pipeline
  <1>3. CASE Connect
    BY <1>3, ConnectKeeps
  <1>4. CASE Delivery
    BY <1>4, SendKeeps, CommitCheckpointKeeps, AckKeeps, ReceiveOutcomeKeeps, ReceiveRepackKeeps DEF Delivery
  <1>5. CASE Failures
    BY <1>5, CrashKeeps, MediaDamageKeeps, FlushFailsKeeps, StopKeeps, StreamEndsKeeps, AckFailsKeeps,
       ReceiveRepackFailsKeeps DEF Failures
  <1>6. CASE OperatorCleans
    BY <1>6, OperatorCleansKeeps
  <1>7. CASE \E seq \in SeqsOf(inflight) : ServerAnswers(seq)
    BY <1>7, ServerAnswersKeeps
  <1> QED BY <1>1, <1>2, <1>3, <1>4, <1>5, <1>6, <1>7 DEF Next

\* The inductive invariant: what the queue's files, its memory, the sender and the
\* batcher hold agree with each other and with the server's answers.
THEOREM CollectorInvariant == Spec => []CollectorInv
  <1>1. Init => CollectorInv
    BY StartsSound
  <1>2. CollectorInv /\ [Next]_vars => CollectorInv'
    BY NextKeeps, StutterKeeps
  <1> QED BY <1>1, <1>2, PTL DEF Spec

\* Every variable keeps its type, acknowledged sequences lie behind the reserved
\* ones, and no stream holds more batches than it may (meta.go, sender.go).
THEOREM CollectorTypeCorrect == Spec => []CollectorTypeOK
  <1>1. ASSUME CollectorInv PROVE CollectorTypeOK
    <2>1. Types /\ Used /\ Shut
      BY <1>1 DEF CollectorInv
    <2>2. queue.terminal \subseteq 1 .. queue.next - 1
      <3>1. queue.terminal \subseteq Nat /\ queue.next \in Nat
        BY <2>1, QueueTyped
      <3>2. CASE IsUp
        <4>1. \A n \in queue.terminal : n \in Nat /\ 0 < n /\ n < queue.next
          BY <2>1, <3>1, <3>2 DEF Used
        <4> QED BY <3>1, <4>1
      <3>3. CASE ~IsUp
        <4>1. queue = [ClosedQueue EXCEPT !.phase = queue.phase, !.next = queue.next, !.acked = queue.acked]
          BY <2>1, <3>3 DEF Shut, IsUp
        <4>2. queue.terminal = {}
          BY <4>1 DEF ClosedQueue
        <4> QED BY <4>2
      <3> QED BY <3>2, <3>3
    <2>3. meta.next \in Nat \ {0} /\ queue.unacked \subseteq Batch /\ meta.acked < meta.next
      BY <2>1, QueueTyped DEF Used
    <2>4. queue.phase \in {"down", "opening", "up", "refused"}
      BY <2>1 DEF Types, QueueType
    <2>5. /\ readPos \in 0 .. Events /\ checkpoint \in 0 .. Events
          /\ batcher \in {"on", "dropping", "off"}
          /\ work \in Seq((SUBSET (1 .. Events)) \ {{}})
          /\ batch \subseteq 1 .. Events /\ dead \subseteq 1 .. Events
      BY <2>1 DEF Types, PipeTypes, Chunk
    <2>6. /\ answered \subseteq SeqsOf(inflight) /\ inflight \subseteq Batch
          /\ Cardinality(inflight) <= MaxInFlight /\ faults \subseteq Faults
          /\ outcome.pc \in {"none", "checkpoint", "ack"}
      BY <2>1 DEF Types, SendTypes
    <2> QED BY <2>2, <2>3, <2>4, <2>5, <2>6 DEF CollectorTypeOK
  <1> QED BY <1>1, CollectorInvariant, PTL

-----------------------------------------------------------------------------
(* What the collector promises.                                             *)

\* The files and the memory of the queue agree, whatever failed: each batch has
\* its record in a live segment, the server never sees a sequence with another
\* identity, and a queue that lost no stored data opens again (queue.go
\* recover, repack.go).
THEOREM QueueHolds == Spec => [](EveryBatchHasItsRecord /\ SequenceNamesOneBatch /\ AlwaysOpens)
  <1>1. ASSUME CollectorInv PROVE EveryBatchHasItsRecord /\ SequenceNamesOneBatch /\ AlwaysOpens
    <2>1. EveryBatchHasItsRecord
      <3>1. SUFFICES ASSUME IsUp, NEW b \in queue.unacked PROVE HasRecord(segments, b.root)
        BY DEF EveryBatchHasItsRecord
      <3> QED BY <1>1, <3>1, RootOf DEF CollectorInv, HasRecord
    <2>2. SequenceNamesOneBatch
      BY <1>1 DEF CollectorInv, Identity, SequenceNamesOneBatch
    <2>3. AlwaysOpens
      BY <1>1 DEF CollectorInv, Undamaged, AlwaysOpens
    <2> QED BY <2>1, <2>2, <2>3
  <1> QED BY <1>1, CollectorInvariant, PTL

\* On a healthy queue no restart, quarantine, repacking or split batch drops an event that was
\* read, where no huge event's checkpoint can pass a repacking cut short.
THEOREM QueueSound ==
  ASSUME NoOversized
  PROVE  Spec => []QueueIsSound
  <1>1. ASSUME CollectorInv PROVE NothingSkipped
    <2>1. SUFFICES ASSUME batcher # "off", ~queue.unhealthy, NEW e \in 1 .. readPos
                   PROVE  e \in Settled \cup Held \cup batch \cup UNION ToSet(work)
      BY DEF NothingSkipped
    <2>2. IsUp /\ e \in Done \cup EventsOf(Recs) \cup InHand
      BY <1>1, <2>1, OrderNow
    <2>3. CASE e \in Done
      BY <1>1, <2>3 DEF CollectorInv, Past, Done
    <2>4. CASE e \in EventsOf(Recs) /\ e \notin Settled
      <3>1. PICK r \in Recs : e \in r.events
        BY <2>4 DEF EventsOf
      <3>2. PICK b \in Pending : e \in b.events
        BY <1>1, <2>1, <2>2, <2>4, <3>1, PendingCovers DEF CollectorInv
      <3>3. b \in queue.unacked
        BY DEF Pending
      <3>4. HasRecord(segments, b.root)
        BY <1>1, <2>2, <3>3, RootOf DEF CollectorInv, HasRecord
      <3> QED BY <3>2, <3>4 DEF Held
    <2>5. CASE e \in InHand
      BY <2>5 DEF InHand
    <2> QED BY <2>2, <2>3, <2>4, <2>5
  <1>2. CollectorInv => NothingSkipped
    BY <1>1
  <1>3. NothingSkipped /\ EveryBatchHasItsRecord /\ SequenceNamesOneBatch /\ AlwaysOpens => QueueIsSound
    BY DEF QueueIsSound
  <1> QED BY <1>2, <1>3, CollectorInvariant, QueueHolds, PTL

\* With every record synced, an event that was stored is stored in no other batch
\* and given up nowhere, whatever fails but the media (sender.go, queue.go).
THEOREM StoresOnce ==
  ASSUME SyncAlways
  PROVE  Spec => []StoredOnce
  <1>1. ASSUME CollectorInv PROVE StoredOnce
    <2>1. SUFFICES ASSUME "damage" \notin faults
                   PROVE  /\ \A v, w \in verdicts :
                               v # w /\ v.verdict = "ack" /\ w.verdict = "ack" => v.events \cap w.events = {}
                          /\ Stored \cap dead = {}
      BY DEF StoredOnce
    <2>2. (\A v, w \in Final : v # w => v.events \cap w.events = {}) /\ Stored \cap dead = {}
      BY <1>1, <2>1 DEF CollectorInv, Once
    <2>3. \A v \in verdicts : v.verdict = "ack" => v \in Final
      BY DEF Final
    <2> QED BY <2>2, <2>3
  <1>2. CollectorInv => StoredOnce
    BY <1>1
  <1> QED BY <1>2, CollectorInvariant, PTL

-----------------------------------------------------------------------------
(* The promise to the source.                                               *)

\* A step gives events a durable end, or moves the checkpoint.
LEMMA StepSettles ==
  ASSUME Next
  PROVE  \/ checkpoint' = checkpoint /\ dead \subseteq dead' /\ verdicts \subseteq verdicts'
         \/ /\ UNCHANGED <<dead, verdicts>>
            /\ \E x : checkpoint' = Larger(checkpoint, x)
  <1>1. CASE Restarts
    BY <1>1 DEF Restarts, Open, Quarantine, Start, Exit, Forget
  <1>2. CASE AdvanceCheckpoint
    BY <1>2 DEF AdvanceCheckpoint
  <1>3. CASE Pipeline /\ ~AdvanceCheckpoint
    BY <1>3 DEF Pipeline, ReadUndecodable, Read, Linger, FlushAppends, FlushReclaims, FlushRefused, FlushSplits,
       FlushDeadLetters
  <1>4. CASE Connect
    BY <1>4 DEF Connect
  <1>5. CASE CommitCheckpoint \/ CommitCheckpointFails
    <2>1. UNCHANGED <<dead, verdicts>>
      BY <1>5 DEF CommitCheckpoint, CommitCheckpointFails
    <2>2. checkpoint' = checkpoint \/ \E x : checkpoint' = Larger(checkpoint, x)
      BY <1>5 DEF CommitCheckpoint, CommitCheckpointFails
    <2> QED BY <2>1, <2>2
  <1>6. CASE Send \/ Ack \/ \E seq \in answered : ReceiveOutcome(seq) \/ ReceiveRepack(seq)
    BY <1>6 DEF Send, Ack, ReceiveOutcome, ReceiveRepack
  <1>7. CASE Crash \/ MediaDamage \/ FlushFails \/ GraceExpires \/ StreamBreaks \/ AckFails
    BY <1>7 DEF Crash, Forget, MediaDamage, FlushFails, GraceExpires, StreamBreaks, AckFails
  <1>8. CASE \E seq \in answered : ReceiveRepackFails(seq)
    BY <1>8 DEF ReceiveRepackFails
  <1>9. CASE OperatorCleans
    BY <1>9 DEF OperatorCleans
  <1>10. CASE \E seq \in SeqsOf(inflight) : ServerAnswers(seq)
    <2>1. PICK seq \in SeqsOf(inflight) : ServerAnswers(seq)
      BY <1>10
    <2>2. UNCHANGED <<checkpoint, dead>>
      BY <2>1 DEF ServerAnswers
    <2>3. verdicts \subseteq verdicts'
      BY <2>1 DEF ServerAnswers
    <2> QED BY <2>2, <2>3
  <1> QED BY <1>1, <1>2, <1>3, <1>4, <1>5, <1>6, <1>7, <1>8, <1>9, <1>10 DEF Next, Delivery, Failures

\* Such a step is one the source allows.
LEMMA SourceStep ==
  ASSUME NoOversized, CollectorInv, CollectorInv', [Next]_vars
  PROVE  [Source!Next]_<<Settled, checkpoint>>
  <1>1. /\ checkpoint \in 0 .. Events /\ checkpoint' \in 0 .. Events
        /\ Past' /\ Types /\ Types'
    BY DEF CollectorInv, Types, PipeTypes
  <1>2. Settled' \subseteq 1 .. Events
    <2>1. /\ dead' \subseteq 1 .. Events /\ \A v \in verdicts' : v.events \subseteq 1 .. Events
      BY <1>1 DEF Types, PipeTypes, SendTypes
    <2> QED BY <2>1 DEF Settled, Stored
  <1>3. CASE checkpoint' = checkpoint /\ dead \subseteq dead' /\ verdicts \subseteq verdicts'
    <2>1. Settled \subseteq Settled'
      BY <1>3, SettledGrows
    <2>2. Settled' \ Settled \in SUBSET ((1 .. Events) \ Settled) /\ Settled' = Settled \cup (Settled' \ Settled)
      BY <1>2, <2>1
    <2>3. Source!Settle
      BY <1>3, <2>2 DEF Source!Settle
    <2> QED BY <2>3 DEF Source!Next
  <1>4. CASE UNCHANGED <<dead, verdicts>> /\ \E x : checkpoint' = Larger(checkpoint, x)
    <2>1. Settled' = Settled
      BY <1>4 DEF Settled, Stored
    <2>2. PICK x : checkpoint' = Larger(checkpoint, x)
      BY <1>4
    <2>3. CASE checkpoint' = checkpoint
      BY <2>1, <2>3
    <2>4. CASE checkpoint' # checkpoint
      <3>1. checkpoint' = x /\ ~(checkpoint >= x)
        BY <2>2, <2>4 DEF Larger
      <3>2. checkpoint' \in checkpoint + 1 .. Events
        <4>1. x \in 0 .. Events
          BY <1>1, <3>1
        <4> QED BY <1>1, <3>1, <4>1, CollectorAssumption DEF CollectorAssumption
      <3>3. NoOversized'
        BY DEF NoOversized
      <3>4. 1 .. checkpoint' \subseteq Settled
        BY <1>1, <2>1, <3>3 DEF Past
      <3>5. Source!Advance
        BY <2>1, <3>2, <3>4 DEF Source!Advance
      <3> QED BY <3>5 DEF Source!Next
    <2> QED BY <2>3, <2>4
  <1>5. CASE UNCHANGED vars
    BY <1>5 DEF vars, Settled, Stored
  <1> QED BY <1>3, <1>4, <1>5, StepSettles

\* What the collector does implements the promise to the source: the checkpoint
\* passes no event without a durable end and never moves back, and what is settled
\* stays so (sender.go commitTerminal, checkpoint store).
THEOREM SourceKept ==
  ASSUME NoOversized
  PROVE  Spec => ImplementsSource
  <1>1. Init => Source!Init
    BY DEF Init, Source!Init, Settled, Stored
  <1>2. CollectorInv /\ CollectorInv' /\ [Next]_vars => [Source!Next]_<<Settled, checkpoint>>
    BY SourceStep
  <1> QED BY <1>1, <1>2, CollectorInvariant, PTL DEF Spec, ImplementsSource, Source!Safety, Source!vars
===============================================================================
