------------------------------- MODULE Collector -------------------------------
(***************************************************************************)
(* The collector daemon (internal/collector) on top of its durable queue:  *)
(* an input that reads a source in order, the batcher that appends to the  *)
(* queue, the sender that delivers batches and handles their outcomes, and *)
(* the checkpoint from which the source is read again after a restart.     *)
(*                                                                         *)
(* Of the server, what the daemon can tell: it decides the outcome of a     *)
(* batch identity once and repeats it whenever the batch is sent again.    *)
(*                                                                         *)
(* The source is the events 1 .. Events, and a position in it the number   *)
(* of events before it.  Failures are counted up to MaxFaults.             *)
(***************************************************************************)
EXTENDS CollectorQueue

CONSTANTS
    Events,       \* length of the source
    BatchMax,     \* events per batch
    MaxInFlight,  \* batches sent and not answered
    Undecodable,  \* events the decoder refuses
    Invalid,      \* events the server refuses in a batch it accepts
    Verdicts,     \* outcomes the server chooses from
    RepackLimits, \* limits of events per batch the server may announce
    Faults,       \* kinds of failure in this instance
    MaxFaults     \* kinds of failure in one behaviour

VARIABLES
    readPos,    \* events the input has read
    batch,      \* events the batcher has collected
    work,       \* event sets the batcher is flushing, in order
    batcher,    \* "on", "dropping" an event, or "off"
    checkpoint, \* the durable source position
    dead,       \* events in the dead-letter file
    connected,  \* a stream to the server is open
    inflight,   \* batches sent on it without an outcome
    answered,   \* sequences of those the server has answered
    outcome,    \* the outcome being made durable: [pc, seq, cumulative]
    verdicts,   \* the server's: [seq, made, events, verdict]
    epoch,      \* starts of the process so far
    faults      \* kinds of failure that have happened, each once

pipelineVars == <<readPos, batch, work, batcher>>
senderVars == <<connected, inflight, answered, outcome>>
vars == <<queueVars, pipelineVars, checkpoint, dead, senderVars, verdicts, epoch, faults>>

ASSUME CollectorAssumption ==
    /\ {Events, BatchMax, MaxInFlight} \subseteq Nat \ {0}
    /\ Undecodable \cup Invalid \cup Huge \subseteq 1 .. Events
    /\ Verdicts \subseteq {"ack", "reject", "repack"}
    /\ RepackLimits \subseteq Nat \ {0}
    /\ Faults \subseteq {"crash", "power", "damage", "append", "ack", "reclaim",
                         "checkpoint", "repack", "stream", "grace"}
    /\ MaxFaults \in Nat

Fault(kind) ==
    /\ kind \in Faults \ faults /\ Cardinality(faults) < MaxFaults
    /\ faults' = faults \cup {kind}
NoFault == UNCHANGED faults

NoOutcome == [pc |-> "none", seq |-> 0, cumulative |-> FALSE]

Stored == (UNION {v.events : v \in {w \in verdicts : w.verdict = "ack"}}) \ Invalid

\* Events with a durable end: in the server's store or in the dead-letter file.
Settled == Stored \cup dead

-----------------------------------------------------------------------------
(* Startup and the end of the process.                                     *)

Open ==
    /\ OpenQueue
    /\ epoch' = epoch + 1
    /\ UNCHANGED <<pipelineVars, checkpoint, dead, senderVars, verdicts>>
    /\ NoFault

Quarantine ==
    /\ QuarantineSuccessor \/ QuarantineTail
    /\ UNCHANGED <<pipelineVars, checkpoint, dead, senderVars, verdicts, epoch>>
    /\ NoFault

\* Seeded fault: the source is read again from the checkpoint alone.
StartAtCheckpoint ==
    /\ Recover
    /\ readPos' = checkpoint
    /\ batcher' = IF queue'.phase = "up" THEN "on" ELSE "off"
    /\ UNCHANGED <<batch, work, checkpoint, dead, senderVars, verdicts, epoch>>
    /\ NoFault

\* The inputs resume behind the checkpoint and everything the queue holds, if it
\* opened.
Start ==
    /\ Recover
    /\ readPos' = Larger(checkpoint, PendingMark(queue'))
    /\ batcher' = IF queue'.phase = "up" THEN "on" ELSE "off"
    /\ UNCHANGED <<batch, work, checkpoint, dead, senderVars, verdicts, epoch>>
    /\ NoFault

\* What a process leaves in memory is gone.
Forget ==
    /\ readPos' = 0
    /\ batch' = {}
    /\ work' = <<>>
    /\ batcher' = "off"
    /\ connected' = FALSE
    /\ inflight' = {}
    /\ answered' = {}
    /\ outcome' = NoOutcome
    /\ UNCHANGED <<checkpoint, dead, verdicts, epoch>>

Crash ==
    /\ queue.phase \in {"opening", "up"}
    /\ \/ ProcessDies /\ Fault("crash")
       \/ PowerLost /\ Fault("power")
    /\ Forget

\* A daemon whose batcher stopped delivers for a while and exits; it is
\* started again.
Exit ==
    /\ IsUp
    /\ batcher = "off"
    /\ outcome.pc = "none"
    /\ ProcessDies
    /\ Forget
    /\ NoFault

MediaDamage ==
    /\ Damage
    /\ Fault("damage")
    /\ UNCHANGED <<pipelineVars, checkpoint, dead, senderVars, verdicts, epoch>>

OperatorCleans ==
    /\ CleanQuarantine
    /\ UNCHANGED <<pipelineVars, checkpoint, dead, senderVars, verdicts, epoch>>
    /\ NoFault

-----------------------------------------------------------------------------
(* Input and batcher.                                                      *)

Next1 == readPos + 1

\* A record that cannot be decoded is kept in the dead-letter file.
ReadUndecodable ==
    /\ IsUp /\ batcher = "on"
    /\ Next1 \in Undecodable
    /\ dead' = dead \cup {Next1}
    /\ readPos' = Next1
    /\ UNCHANGED <<queueVars, batch, work, batcher, checkpoint, senderVars, verdicts, epoch>>
    /\ NoFault

\* An event joins the batch, which is flushed when it is full.
Read ==
    /\ IsUp /\ batcher = "on" /\ work = <<>>
    /\ Next1 \in (1 .. Events) \ Undecodable
    /\ readPos' = Next1
    /\ LET grown == batch \cup {Next1}
       IN IF Cardinality(grown) = BatchMax
          THEN batch' = {} /\ work' = <<grown>>
          ELSE batch' = grown /\ UNCHANGED work
    /\ UNCHANGED <<queueVars, batcher, checkpoint, dead, senderVars, verdicts, epoch>>
    /\ NoFault

\* The linger timer, or the end of the input.
Linger ==
    /\ IsUp /\ batcher = "on" /\ work = <<>>
    /\ batch # {}
    /\ batch' = {}
    /\ work' = <<batch>>
    /\ UNCHANGED <<queueVars, readPos, batcher, checkpoint, dead, senderVars, verdicts, epoch>>
    /\ NoFault

Flushing == batcher = "on" /\ work # <<>>

FlushAppends ==
    /\ Flushing
    /\ AppendBatch(Head(work), epoch)
    /\ work' = Tail(work)
    /\ UNCHANGED <<readPos, batch, batcher, checkpoint, dead, senderVars, verdicts, epoch>>
    /\ NoFault

FlushReclaims ==
    /\ Flushing
    /\ ReclaimActive(Head(work))
    /\ UNCHANGED <<pipelineVars, checkpoint, dead, senderVars, verdicts, epoch>>
    /\ NoFault

\* Any failure but a full queue stops the daemon.
FlushFails ==
    /\ Flushing
    /\ \/ AppendFailsToReserve(Head(work))
       \/ \E intact \in BOOLEAN : AppendFailsToWrite(Head(work), epoch, intact)
    /\ work' = <<>>
    /\ batch' = {}
    /\ batcher' = "off"
    /\ UNCHANGED <<readPos, checkpoint, dead, senderVars, verdicts, epoch>>
    /\ Fault("append")

\* After a failed repacking the queue refuses every append.
FlushRefused ==
    /\ Flushing
    /\ queue.unhealthy
    /\ work' = <<>>
    /\ batch' = {}
    /\ batcher' = "off"
    /\ UNCHANGED <<queueVars, readPos, checkpoint, dead, senderVars, verdicts, epoch>>
    /\ NoFault

\* The queue stays full until the shutdown's grace period ends: what was not
\* appended is left to be read again, and so is everything behind it.
GraceExpires ==
    /\ Flushing
    /\ CanAppend /\ ~TooLarge(Head(work)) /\ ~HasRoom(Head(work))
    /\ work' = <<>>
    /\ batch' = {}
    /\ batcher' = "off"
    /\ UNCHANGED <<queueVars, readPos, checkpoint, dead, senderVars, verdicts, epoch>>
    /\ Fault("grace")

\* A batch the queue can never take is split ...
FlushSplits ==
    /\ Flushing
    /\ CanAppend
    /\ TooLarge(Head(work)) /\ Cardinality(Head(work)) > 1
    /\ LET first == {event \in Head(work) :
                        Rank(Head(work), event) <= Cardinality(Head(work)) \div 2}
       IN work' = <<first, Head(work) \ first>> \o Tail(work)
    /\ UNCHANGED <<queueVars, readPos, batch, batcher, checkpoint, dead, senderVars, verdicts, epoch>>
    /\ NoFault

\* ... down to a single event, which goes to the dead-letter file,
FlushDeadLetters ==
    /\ Flushing
    /\ CanAppend
    /\ TooLarge(Head(work)) /\ Cardinality(Head(work)) = 1
    /\ dead' = dead \cup Head(work)
    /\ batcher' = "dropping"
    /\ UNCHANGED <<queueVars, readPos, batch, work, checkpoint, senderVars, verdicts, epoch>>
    /\ NoFault

\* and the checkpoint passes it if the queue holds nothing.
AdvanceCheckpoint ==
    /\ batcher = "dropping"
    /\ checkpoint' = IF Pending = {} THEN Larger(checkpoint, MaxOf(Head(work), 0)) ELSE checkpoint
    /\ work' = Tail(work)
    /\ batcher' = "on"
    /\ UNCHANGED <<queueVars, readPos, batch, dead, senderVars, verdicts, epoch>>
    /\ NoFault

-----------------------------------------------------------------------------
(* Sender.                                                                 *)

\* Seeded fault: a new stream goes on where the last one stopped.
ConnectWithoutRewind ==
    /\ ~connected /\ IsUp
    /\ connected' = TRUE
    /\ UNCHANGED <<queueVars, pipelineVars, checkpoint, dead, inflight, answered, outcome, verdicts, epoch>>
    /\ NoFault

\* Every stream starts at the first batch without an outcome.
Connect ==
    /\ ~connected
    /\ Rewind
    /\ connected' = TRUE
    /\ UNCHANGED <<pipelineVars, checkpoint, dead, inflight, answered, outcome, verdicts, epoch>>
    /\ NoFault

Disconnected ==
    /\ connected' = FALSE
    /\ inflight' = {}
    /\ answered' = {}
    /\ outcome' = NoOutcome

\* The stream breaks; what was sent or answered on it is lost or not.
StreamBreaks ==
    /\ connected
    /\ outcome.pc = "none"
    /\ Disconnected
    /\ UNCHANGED <<queueVars, pipelineVars, checkpoint, dead, verdicts, epoch>>
    /\ Fault("stream")

Send ==
    /\ connected
    /\ Cardinality(inflight) < MaxInFlight
    /\ \E next \in NextUp :
          /\ NextBatch(next)
          /\ inflight' = inflight \cup {next}
    /\ UNCHANGED <<pipelineVars, checkpoint, dead, connected, answered, outcome, verdicts, epoch>>
    /\ NoFault

Sent(seq) == CHOOSE b \in inflight : b.seq = seq

Verdict(seq) == CHOOSE v \in verdicts : v.seq = seq /\ v.made = Sent(seq).made

\* The server decides an identity it sees for the first time, and repeats
\* itself otherwise.  It never asks to split a single event.
ServerAnswers(seq) ==
    LET sent == Sent(seq)
    IN /\ seq \in SeqsOf(inflight) \ answered
       /\ answered' = answered \cup {seq}
       /\ IF \E v \in verdicts : v.seq = seq /\ v.made = sent.made
          THEN UNCHANGED verdicts
          ELSE \E verdict \in Verdicts :
                  /\ verdict = "repack" => Cardinality(sent.events) > 1
                  /\ verdicts' = verdicts \cup
                        {[seq |-> seq, made |-> sent.made, events |-> sent.events,
                          verdict |-> verdict]}
       /\ UNCHANGED <<queueVars, pipelineVars, checkpoint, dead, connected, inflight, outcome, epoch>>
       /\ NoFault

\* The events of an answer that go to the dead-letter file.
Refused(seq) ==
    IF Verdict(seq).verdict = "reject" THEN Verdict(seq).events
    ELSE Verdict(seq).events \cap Invalid

\* Seeded fault: a cumulative acknowledgment is taken at its word.
ReceiveCumulative(seq) ==
    /\ connected /\ outcome.pc = "none"
    /\ seq \in answered
    /\ Verdict(seq).verdict # "repack"
    /\ dead' = dead \cup Refused(seq)
    /\ \E cumulative \in BOOLEAN :
          outcome' = [pc |-> "checkpoint", seq |-> seq, cumulative |-> cumulative]
    /\ UNCHANGED <<queueVars, pipelineVars, checkpoint, connected, inflight, answered, verdicts, epoch>>
    /\ NoFault

\* An acknowledgment or a rejection: refused events are kept first.  A
\* cumulative acknowledgment must not pass a batch whose outcome is missing.
ReceiveOutcome(seq) ==
    /\ connected /\ outcome.pc = "none"
    /\ seq \in answered
    /\ Verdict(seq).verdict # "repack"
    /\ dead' = dead \cup Refused(seq)
    /\ \E cumulative \in BOOLEAN :
          /\ cumulative => /\ Verdict(seq).verdict = "ack"
                           /\ \A other \in inflight : other.seq >= seq
          /\ outcome' = [pc |-> "checkpoint", seq |-> seq, cumulative |-> cumulative]
    /\ UNCHANGED <<queueVars, pipelineVars, checkpoint, connected, inflight, answered, verdicts, epoch>>
    /\ NoFault

\* The source positions the acknowledgment would release become durable ...
CommitCheckpoint ==
    LET released == UNION {b.events : b \in AckPreview(outcome.seq, outcome.cumulative)}
    IN /\ outcome.pc = "checkpoint"
       /\ CanAck(outcome.seq)
       /\ checkpoint' = Larger(checkpoint, MaxOf(released, 0))
       /\ outcome' = [outcome EXCEPT !.pc = "ack"]
       /\ UNCHANGED <<queueVars, pipelineVars, dead, connected, inflight, answered, verdicts, epoch>>
       /\ NoFault

\* ... or their write fails, with or without effect, and the stream ends.
CommitCheckpointFails ==
    LET released == UNION {b.events : b \in AckPreview(outcome.seq, outcome.cumulative)}
    IN /\ outcome.pc = "checkpoint"
       /\ checkpoint' \in {checkpoint, Larger(checkpoint, MaxOf(released, 0))}
       /\ Disconnected
       /\ UNCHANGED <<queueVars, pipelineVars, dead, verdicts, epoch>>
       /\ Fault("checkpoint")

\* before the queue forgets the batches.
Ack ==
    /\ outcome.pc = "ack"
    /\ AckBatch(outcome.seq, outcome.cumulative)
    /\ inflight' = {b \in inflight : IF outcome.cumulative THEN b.seq > outcome.seq
                                    ELSE b.seq # outcome.seq}
    /\ answered' = answered \cap SeqsOf(inflight')
    /\ outcome' = NoOutcome
    /\ UNCHANGED <<pipelineVars, checkpoint, dead, connected, verdicts, epoch>>
    /\ NoFault

AckFails ==
    /\ outcome.pc = "ack"
    /\ \/ AckFailsToPersist(outcome.seq, outcome.cumulative) /\ Fault("ack")
       \/ AckFailsToReclaim(outcome.seq, outcome.cumulative) /\ Fault("reclaim")
    /\ Disconnected
    /\ UNCHANGED <<pipelineVars, checkpoint, dead, verdicts, epoch>>

\* The server's limits are part of the stream; the queue splits the batch.
ReceiveRepack(seq) ==
    /\ connected /\ outcome.pc = "none"
    /\ seq \in answered
    /\ Verdict(seq).verdict = "repack"
    /\ \E limit \in RepackLimits : Repack(seq, limit, epoch, "installed")
    /\ inflight' = inflight \ {Sent(seq)}
    /\ answered' = answered \ {seq}
    /\ UNCHANGED <<pipelineVars, checkpoint, dead, connected, outcome, verdicts, epoch>>
    /\ NoFault

\* A repacking that fails ends the stream; so does every later one.
ReceiveRepackFails(seq) ==
    /\ connected /\ outcome.pc = "none"
    /\ seq \in answered
    /\ Verdict(seq).verdict = "repack"
    /\ \E limit \in RepackLimits, reached \in RepackStages \ {"installed"} :
          Repack(seq, limit, epoch, reached)
    /\ Disconnected
    /\ UNCHANGED <<pipelineVars, checkpoint, dead, verdicts, epoch>>
    /\ Fault("repack")

-----------------------------------------------------------------------------
Init ==
    /\ QueueInit
    /\ readPos = 0 /\ batch = {} /\ work = <<>> /\ batcher = "off"
    /\ checkpoint = 0 /\ dead = {}
    /\ connected = FALSE /\ inflight = {} /\ answered = {} /\ outcome = NoOutcome
    /\ verdicts = {} /\ epoch = 0 /\ faults = {}

Restarts == Open \/ Quarantine \/ Start \/ Exit
Pipeline ==
    \/ ReadUndecodable \/ Read \/ Linger
    \/ FlushAppends \/ FlushReclaims \/ FlushRefused \/ FlushSplits \/ FlushDeadLetters
    \/ AdvanceCheckpoint
Delivery ==
    \/ Send \/ CommitCheckpoint \/ Ack
    \/ \E seq \in answered : ReceiveOutcome(seq) \/ ReceiveRepack(seq)
Failures ==
    \/ Crash \/ MediaDamage \/ FlushFails \/ GraceExpires \/ StreamBreaks
    \/ CommitCheckpointFails \/ AckFails
    \/ \E seq \in answered : ReceiveRepackFails(seq)

Next ==
    \/ Restarts \/ Pipeline \/ Connect \/ Delivery \/ Failures \/ OperatorCleans
    \/ \E seq \in SeqsOf(inflight) : ServerAnswers(seq)

Spec == Init /\ [][Next]_vars
\* Failures are bounded and everything else runs: goroutines are scheduled,
\* the process is started again, the server answers what it receives.
Fairness ==
    /\ WF_vars(Restarts)
    /\ WF_vars(Pipeline)
    /\ WF_vars(Connect)
    /\ WF_vars(Delivery)
    /\ WF_vars(\E seq \in SeqsOf(inflight) : ServerAnswers(seq))

FairSpec == Spec /\ Fairness

-----------------------------------------------------------------------------
(* Properties.                                                             *)

Batch == [seq : Nat, made : Nat, events : SUBSET (1 .. Events), root : Nat]

CollectorTypeOK ==
    /\ meta.next \in Nat \ {0} /\ meta.acked < meta.next
    /\ queue.phase \in {"down", "opening", "up", "refused"}
    /\ queue.unacked \subseteq Batch
    /\ queue.terminal \subseteq 1 .. queue.next - 1
    /\ readPos \in 0 .. Events /\ checkpoint \in 0 .. Events
    /\ batcher \in {"on", "dropping", "off"}
    /\ work \in Seq((SUBSET (1 .. Events)) \ {{}})
    /\ batch \subseteq 1 .. Events /\ dead \subseteq 1 .. Events
    /\ answered \subseteq SeqsOf(inflight) /\ inflight \subseteq Batch
    /\ Cardinality(inflight) <= MaxInFlight
    /\ outcome.pc \in {"none", "checkpoint", "ack"}
    /\ faults \subseteq Faults

\* The collector keeps its promise to the source (CheckpointStore, commitTerminal).
Source == INSTANCE SourceDelivery WITH Length <- Events, settled <- Settled, position <- checkpoint

ImplementsSource == Source!Safety

\* Events whose batch the queue holds, on disk and for delivery.
Held == UNION {b.events : b \in {c \in Pending : HasRecord(segments, c.root)}}

\* While the pipeline runs on a healthy queue, every event it has read is settled, in a batch that
\* the queue holds on disk and will deliver, or still in the batcher's hands: no
\* restart, quarantine, repacking or split batch drops one on the way.
NothingSkipped ==
    batcher # "off" /\ ~queue.unhealthy =>
        1 .. readPos \subseteq Settled \cup Held \cup batch \cup UNION ToSet(work)

\* An event is stored once: a batch that was stored keeps its identity until the
\* queue forgets it, and an event that was stored is not given up elsewhere.
\* (Without media damage, and with every record synced.)
StoredOnce == "damage" \notin faults =>
    /\ \A v, w \in verdicts :
          v # w /\ v.verdict = "ack" /\ w.verdict = "ack" => v.events \cap w.events = {}
    /\ Stored \cap dead = {}

\* A sequence names one batch for ever: whatever was burned, lost, damaged or
\* split, the server never sees it with another identity.
SequenceNamesOneBatch ==
    \A v, w \in verdicts : v.seq = w.seq => v = w

\* The batches the queue holds are disjoint and a child's record outlives its
\* parent: each has its record in a live segment.
EveryBatchHasItsRecord ==
    IsUp => \A b \in queue.unacked : HasRecord(segments, b.root)

\* A queue that lost no stored data opens again, wherever it was interrupted.
AlwaysOpens == "damage" \notin faults => queue.phase # "refused"

\* The queue on disk and in memory keeps what the pipeline gave it.
QueueIsSound == NothingSkipped /\ EveryBatchHasItsRecord /\ SequenceNamesOneBatch /\ AlwaysOpens

\* Failures after which bytes stay in the queue's directory, or its error stays
\* set, until somebody intervenes.
Lasting == {"power", "damage", "append", "reclaim", "repack", "grace"}

\* Every event is settled once failures stop: a full queue, a sealed segment, a
\* split batch, a restart and a broken stream hold up nothing for good.
EverythingSettles == <>(Settled = 1 .. Events \/ faults \cap Lasting # {})

\* "ErrQueueFull is transient backpressure and is retried": a batch that the
\* queue could hold does not wait for ever.
BackpressureIsTransient ==
    []<>~(Flushing /\ CanAppend /\ ~TooLarge(Head(work)) /\ ~HasRoom(Head(work)))
===============================================================================
