----------------------------- MODULE CollectStream -----------------------------
(***************************************************************************)
(* The stream between a collector's sender (collector/sender) and the      *)
(* ingest service (ingest): the pump and the retry goroutines of the       *)
(* sender, its receive loop, and on the server the pipeline that admits    *)
(* batches in order, overlaps their store calls and answers as they end.   *)
(*                                                                         *)
(* Batches are their sequences, and all of them wait in the durable queue. *)
(* The store is the module IngestStore, reduced to what a batch's identity *)
(* is bound to.  A broken stream loses what is on the wire; calls already  *)
(* in the store go on.                                                     *)
(***************************************************************************)
EXTENDS Naturals, Sequences, FiniteSets

CONSTANTS
    Batches,     \* sequences in the queue
    MaxInFlight, \* MaxInFlightBatches, negotiated by Ready
    Lingers,     \* a retry may be answered before its goroutine has ended
    LookupFails, \* LookupBatch may fail transiently
    MaxFailures, \* transient failures of the store in one behaviour
    MaxBreaks    \* broken streams in one behaviour

VARIABLES
    connected, \* a stream is open
    cursor,    \* the queue's delivery cursor
    held,      \* batch the pump took and has not sent; 0 if none
    inflight,  \* batches sent on this stream without an outcome
    retry,     \* retry goroutines: "none", "waiting", or "sent"
    deferred,  \* batches whose retry_after has not passed
    throttled, \* a Throttle is in effect
    outcome,   \* terminal outcomes the collector has made durable
    requests,  \* on the wire to the server
    responses, \* on the wire to the collector: [kind, batch]
    worker,    \* store calls of this stream: [pc, answer]
    admitting, \* batch that was not admitted yet; 0 if none
    highest,   \* highestBatchSequence of this stream
    pending,   \* pendingBatches of this stream
    stored,    \* the store: "none", "pending", "ack" or "reject"
    orphans,   \* store calls of streams that are gone
    failures, breaks

senderVars == <<cursor, held, inflight, retry, deferred, throttled, outcome>>
wireVars == <<requests, responses>>
serverVars == <<worker, admitting, highest, pending>>
storeVars == <<stored, orphans>>
counters == <<failures, breaks>>
vars == <<connected, senderVars, wireVars, serverVars, storeVars, counters>>

ASSUME StreamAssumption ==
    /\ Batches \subseteq Nat \ {0} /\ IsFiniteSet(Batches)
    /\ MaxInFlight \in Nat \ {0}
    /\ {Lingers, LookupFails} \subseteq BOOLEAN
    /\ {MaxFailures, MaxBreaks} \subseteq Nat

Terminal == {"ack", "reject"}

\* Answers that ask for the batch again.  "limited" brings a Throttle with it,
\* "conflict" says "reconnect and retry".
Retries == {"retry", "limited", "conflict", "busy"}

Idle == [pc |-> "none", answer |-> "none"]

\* Seeded fault: the queue is not rewound for a new stream.
NewStreamGoesOn ==
    /\ cursor' = cursor /\ held' = 0 /\ inflight' = {}
    /\ retry' = [b \in Batches |-> "none"]
    /\ throttled' = FALSE
    /\ requests' = <<>> /\ responses' = <<>>
    /\ worker' = [b \in Batches |-> Idle]
    /\ admitting' = 0 /\ highest' = 0 /\ pending' = {}

\* A stream starts with nothing in flight and the queue rewound.
NewStream ==
    /\ cursor' = 0 /\ held' = 0 /\ inflight' = {}
    /\ retry' = [b \in Batches |-> "none"]
    /\ throttled' = FALSE
    /\ requests' = <<>> /\ responses' = <<>>
    /\ worker' = [b \in Batches |-> Idle]
    /\ admitting' = 0 /\ highest' = 0 /\ pending' = {}

Connect ==
    /\ ~connected
    /\ connected' = TRUE
    /\ UNCHANGED <<senderVars, wireVars, serverVars, storeVars, counters>>

Storing == {b \in Batches : worker[b].pc \in {"storing", "resuming"}}

StreamBreaks ==
    /\ connected
    /\ breaks < MaxBreaks
    /\ breaks' = breaks + 1
    /\ connected' = FALSE
    /\ NewStream
    /\ orphans' = orphans \cup Storing
    /\ UNCHANGED <<deferred, outcome, stored, failures>>

-----------------------------------------------------------------------------
(* Sender.                                                                 *)

HasSlot == Cardinality(inflight) < MaxInFlight

NextUp == {b \in Batches :
              /\ b > cursor /\ outcome[b] = "none"
              /\ \A c \in Batches : c > cursor /\ outcome[c] = "none" => b <= c}

PumpTakes ==
    /\ connected /\ held = 0 /\ HasSlot
    /\ held' \in NextUp
    /\ cursor' = held'
    /\ UNCHANGED <<connected, inflight, retry, deferred, throttled, outcome,
                   wireVars, serverVars, storeVars, counters>>

Put(b) == requests' = Append(requests, b)

\* trySendBatch: a batch that must wait keeps those behind it waiting.
PumpSends ==
    /\ held # 0 /\ HasSlot /\ ~throttled
    /\ held \notin deferred
    /\ Put(held)
    /\ inflight' = inflight \cup {held}
    /\ held' = 0
    /\ UNCHANGED <<connected, cursor, retry, deferred, throttled, outcome,
                   responses, serverVars, storeVars, counters>>

RetrySends(b) ==
    /\ retry[b] = "waiting"
    /\ ~throttled /\ b \notin deferred
    /\ Put(b)
    /\ retry' = [retry EXCEPT ![b] = IF Lingers THEN "sent" ELSE "none"]
    /\ UNCHANGED <<connected, cursor, held, inflight, deferred, throttled, outcome,
                   responses, serverVars, storeVars, counters>>

\* The goroutine has sent and removes its entry of pendingRetry.
RetryEnds(b) ==
    /\ retry[b] = "sent"
    /\ retry' = [retry EXCEPT ![b] = "none"]
    /\ UNCHANGED <<connected, cursor, held, inflight, deferred, throttled, outcome,
                   wireVars, serverVars, storeVars, counters>>

DelayEnds(b) ==
    /\ b \in deferred
    /\ deferred' = deferred \ {b}
    /\ UNCHANGED <<connected, cursor, held, inflight, retry, throttled, outcome,
                   wireVars, serverVars, storeVars, counters>>

ThrottleEnds ==
    /\ throttled
    /\ throttled' = FALSE
    /\ UNCHANGED <<connected, cursor, held, inflight, retry, deferred, outcome,
                   wireVars, serverVars, storeVars, counters>>

Response == Head(responses)

Receive(kinds) ==
    /\ responses # <<>>
    /\ Response.kind \in kinds
    /\ responses' = Tail(responses)
    /\ UNCHANGED <<connected, cursor, held, requests, serverVars, storeVars, counters>>

\* handleAck, handleReject: the outcome is made durable and the slot released.
ReceiveOutcome ==
    /\ Receive(Terminal)
    /\ LET b == Response.batch
       IN /\ outcome' = [outcome EXCEPT ![b] = Response.kind]
          /\ inflight' = inflight \ {b}
          /\ retry' = [retry EXCEPT ![b] = "none"]
          /\ deferred' = deferred \ {b}
    /\ UNCHANGED throttled

\* handleRetry: the slot is kept, and a retry that has an entry is joined.
ReceiveRetry ==
    /\ Receive(Retries)
    /\ LET b == Response.batch
       IN /\ deferred' = deferred \cup {b}
          /\ retry' = [retry EXCEPT ![b] = IF @ = "none" THEN "waiting" ELSE @]
    /\ UNCHANGED <<inflight, throttled, outcome>>

ReceiveThrottle ==
    /\ Receive({"throttle"})
    /\ throttled' = TRUE
    /\ UNCHANGED <<inflight, retry, deferred, outcome>>

-----------------------------------------------------------------------------
(* Server: the stream's goroutine.                                         *)

Busy == {b \in Batches : worker[b].pc # "none"}

\* Batches are admitted in the order of the wire, one at a time, while there is
\* room for another.
Start ==
    /\ requests # <<>>
    /\ admitting = 0
    /\ Cardinality(Busy) < MaxInFlight
    /\ admitting' = Head(requests)
    /\ requests' = Tail(requests)
    /\ worker' = [worker EXCEPT ![Head(requests)] = [Idle EXCEPT !.pc = "lookup"]]
    /\ UNCHANGED <<connected, senderVars, responses, highest, pending, storeVars, counters>>

\* Answers are sent in the order in which the calls ended, a denial by quota
\* with a Throttle behind it.
Finish(b) ==
    /\ worker[b].pc = "done"
    /\ worker' = [worker EXCEPT ![b] = Idle]
    /\ responses' = responses \o <<[kind |-> worker[b].answer, batch |-> b]>> \o
                    (IF worker[b].answer = "limited"
                     THEN <<[kind |-> "throttle", batch |-> 0]>> ELSE <<>>)
    /\ UNCHANGED <<connected, senderVars, requests, admitting, highest, pending,
                   storeVars, counters>>

-----------------------------------------------------------------------------
(* Server: one batch (processBatchWithDeferredAuthority).                  *)

Highest(b) == IF b > highest THEN b ELSE highest

Answered(b, answer) == worker' = [worker EXCEPT ![b] = [pc |-> "done", answer |-> answer]]
Continues(b, pc) == worker' = [worker EXCEPT ![b].pc = pc]

\* Admission is over when the batch is remembered, or with the call.
Released(b) == admitting' = IF admitting = b THEN 0 ELSE admitting

\* Seeded fault: the batch stays pending on the stream.
CompletesUnforgotten(b) ==
    /\ Answered(b, stored'[b])
    /\ highest' = Highest(b)
    /\ UNCHANGED pending

\* completeBatchIdentity and the answer the store keeps for the batch.
Completes(b) ==
    /\ Answered(b, stored'[b])
    /\ highest' = Highest(b)
    /\ pending' = pending \ {b}

Fails == failures < MaxFailures /\ failures' = failures + 1

\* recordBatchIdentity: a batch of this stream's history is taken up again only
\* if it is still pending.
Record(b) ==
    /\ \/ b \in pending /\ Continues(b, "storing") /\ UNCHANGED <<highest, pending>>
       \/ b \notin pending /\ b <= highest /\ Answered(b, "conflict") /\ UNCHANGED <<highest, pending>>
       \/ /\ b \notin pending /\ b > highest
          /\ Cardinality(pending) >= MaxInFlight
          /\ Answered(b, "busy")
          /\ UNCHANGED <<highest, pending>>
       \/ /\ b \notin pending /\ b > highest
          /\ Cardinality(pending) < MaxInFlight
          /\ Continues(b, "storing")
          /\ highest' = b /\ pending' = pending \cup {b}
    /\ Released(b)

LookupFinds(b) ==
    /\ worker[b].pc = "lookup"
    /\ stored[b] \in Terminal
    /\ UNCHANGED stored
    /\ Completes(b) /\ Released(b)
    /\ UNCHANGED <<connected, senderVars, wireVars, orphans, counters>>

\* Seeded fault: what the store has staged is acknowledged at once.
LookupFindsPendingAnswers(b) ==
    /\ worker[b].pc = "lookup"
    /\ stored[b] = "pending"
    /\ Answered(b, "ack") /\ Released(b)
    /\ highest' = Highest(b)
    /\ UNCHANGED <<connected, senderVars, wireVars, pending, storeVars, counters>>

\* rememberDurablePendingBatchIdentity
LookupFindsPending(b) ==
    /\ worker[b].pc = "lookup"
    /\ stored[b] = "pending"
    /\ Continues(b, "resuming") /\ Released(b)
    /\ highest' = Highest(b) /\ pending' = pending \cup {b}
    /\ UNCHANGED <<connected, senderVars, wireVars, storeVars, counters>>

LookupFindsNothing(b) ==
    /\ worker[b].pc = "lookup"
    /\ stored[b] = "none"
    /\ Record(b)
    /\ UNCHANGED <<connected, senderVars, wireVars, storeVars, counters>>

\* The batch is answered before the stream has taken note of it.
LookupFailsOnce(b) ==
    /\ LookupFails
    /\ worker[b].pc = "lookup"
    /\ Fails
    /\ Answered(b, "retry") /\ Released(b)
    /\ UNCHANGED <<connected, senderVars, wireVars, highest, pending, storeVars, breaks>>

ResumeReturns(b) ==
    /\ worker[b].pc = "resuming"
    /\ stored[b] # "none"
    /\ stored' = [stored EXCEPT ![b] = IF @ = "pending" THEN "ack" ELSE @]
    /\ Completes(b)
    /\ UNCHANGED <<connected, senderVars, wireVars, admitting, orphans, counters>>

\* The reservation was given up before it was sent: admission starts afresh.
ResumeFindsNothing(b) ==
    /\ worker[b].pc = "resuming"
    /\ stored[b] = "none"
    /\ Record(b)
    /\ UNCHANGED <<connected, senderVars, wireVars, storeVars, counters>>

\* Store or RejectBatch returns the outcome the batch is bound to.
StoreReturns(b) ==
    /\ worker[b].pc = "storing"
    /\ \E bound \in (IF stored[b] = "none" THEN Terminal
                     ELSE IF stored[b] = "pending" THEN {"ack"} ELSE {stored[b]}) :
          stored' = [stored EXCEPT ![b] = bound]
    /\ Completes(b)
    /\ UNCHANGED <<connected, senderVars, wireVars, admitting, orphans, counters>>

\* A store call fails transiently, before or after it staged the batch; only a
\* batch that was not staged is denied by quota.  The batch stays pending.
CallFails(b) ==
    /\ worker[b].pc \in {"storing", "resuming"}
    /\ Fails
    /\ \/ Answered(b, "retry") /\ UNCHANGED stored
       \/ /\ worker[b].pc = "storing" /\ stored[b] = "none"
          /\ Answered(b, "retry")
          /\ stored' = [stored EXCEPT ![b] = "pending"]
       \/ /\ worker[b].pc = "storing" /\ stored[b] = "none"
          /\ Answered(b, "limited") /\ UNCHANGED stored
    /\ UNCHANGED <<connected, senderVars, wireVars, admitting, highest, pending, orphans, breaks>>

-----------------------------------------------------------------------------
(* The store on its own.                                                   *)

\* The reconciler commits what is staged,
StoreCommits(b) ==
    /\ stored[b] = "pending"
    /\ stored' = [stored EXCEPT ![b] = "ack"]
    /\ UNCHANGED <<connected, senderVars, wireVars, serverVars, orphans, counters>>

\* or gives up what was never sent.
StoreAbandons(b) ==
    /\ stored[b] = "pending"
    /\ Fails
    /\ stored' = [stored EXCEPT ![b] = "none"]
    /\ UNCHANGED <<connected, senderVars, wireVars, serverVars, orphans, breaks>>

\* A call whose stream is gone still stages or rejects its batch, or fails.
OrphanReturns(b) ==
    /\ b \in orphans
    /\ orphans' = orphans \ {b}
    /\ \/ UNCHANGED stored
       \/ stored[b] = "none" /\ \E bound \in {"pending", "reject"} :
                                   stored' = [stored EXCEPT ![b] = bound]
    /\ UNCHANGED <<connected, senderVars, wireVars, serverVars, counters>>

-----------------------------------------------------------------------------
Init ==
    /\ connected = FALSE
    /\ cursor = 0 /\ held = 0 /\ inflight = {} /\ deferred = {} /\ throttled = FALSE
    /\ retry = [b \in Batches |-> "none"]
    /\ outcome = [b \in Batches |-> "none"]
    /\ requests = <<>> /\ responses = <<>>
    /\ worker = [b \in Batches |-> Idle]
    /\ admitting = 0 /\ highest = 0 /\ pending = {}
    /\ stored = [b \in Batches |-> "none"]
    /\ orphans = {}
    /\ failures = 0 /\ breaks = 0

Pump == PumpTakes \/ PumpSends
Retry(b) == RetrySends(b) \/ RetryEnds(b)
Clock == ThrottleEnds \/ \E b \in Batches : DelayEnds(b)
Receiver == ReceiveOutcome \/ ReceiveRetry \/ ReceiveThrottle
Returns(b) ==
    \/ LookupFinds(b) \/ LookupFindsPending(b) \/ LookupFindsNothing(b) \/ LookupFailsOnce(b)
    \/ ResumeReturns(b) \/ ResumeFindsNothing(b) \/ StoreReturns(b) \/ CallFails(b)
Store == \E b \in Batches : StoreCommits(b) \/ StoreAbandons(b) \/ OrphanReturns(b)

Next ==
    \/ Connect \/ StreamBreaks \/ Pump \/ Clock \/ Receiver \/ Start \/ Store
    \/ \E b \in Batches : Retry(b) \/ Returns(b) \/ Finish(b)

Spec == Init /\ [][Next]_vars

\* Goroutines run, delays pass, the wire delivers and store calls return; the
\* store need not do anything on its own.
Fairness ==
    /\ WF_vars(Connect) /\ WF_vars(Pump) /\ WF_vars(Receiver) /\ WF_vars(Start)
    /\ WF_vars(ThrottleEnds)
    /\ \A b \in Batches :
          /\ WF_vars(DelayEnds(b)) /\ WF_vars(RetrySends(b)) /\ WF_vars(RetryEnds(b))
          /\ WF_vars(Returns(b)) /\ WF_vars(Finish(b))

FairSpec == Spec /\ Fairness

-----------------------------------------------------------------------------
(* Properties.                                                             *)

Count(b) ==
    Cardinality({i \in DOMAIN requests : requests[i] = b}) +
    Cardinality({i \in DOMAIN responses : responses[i].batch = b}) +
    (IF worker[b].pc = "none" THEN 0 ELSE 1)

\* A retry was joined to a goroutine that had sent already: nothing sends b again.
RetryIsLost(b) == connected /\ b \in inflight /\ Count(b) = 0 /\ retry[b] # "waiting"

\* What the server keeps for a stream is bounded by the slots of the collector,
\* so that an honest collector is never told that the limit of batches is
\* reached.  A batch in flight is on its way once: on the wire, with the
\* server, or with a retry that will send it; a batch without a slot is nowhere.
PendingHasSlot ==
    /\ pending \subseteq inflight
    /\ \A i \in DOMAIN responses : responses[i].kind # "busy"
    /\ connected => \A b \in Batches : RetryIsLost(b) \/
        Count(b) + (IF retry[b] = "waiting" THEN 1 ELSE 0) = (IF b \in inflight THEN 1 ELSE 0)

\* While lookups succeed, the stream's history never turns an honest batch away.
NoFalseConflict ==
    LookupFails \/ \A b \in Batches : worker[b].answer # "conflict"

\* The outcome a collector makes durable is the one the store keeps.
OutcomesAgree ==
    \A b \in Batches : outcome[b] # "none" => outcome[b] = stored[b]

StreamTypeOK ==
    /\ held \in Batches \cup {0} /\ cursor \in Batches \cup {0}
    /\ inflight \subseteq Batches /\ deferred \subseteq Batches
    /\ Cardinality(inflight) <= MaxInFlight
    /\ retry \in [Batches -> {"none", "waiting", "sent"}]
    /\ outcome \in [Batches -> Terminal \cup {"none"}]
    /\ requests \in Seq(Batches)
    /\ worker \in [Batches -> [pc : {"none", "lookup", "storing", "resuming", "done"},
                               answer : Terminal \cup Retries \cup {"none"}]]
    /\ Cardinality(Busy) <= MaxInFlight
    /\ stored \in [Batches -> Terminal \cup {"none", "pending"}]

\* A batch is not sent before its retry_after has passed, on whatever stream.
NoEarlyResend ==
    [][\A b \in deferred : requests' # Append(requests, b)]_vars

\* The stream's history has passed b, which it never recorded: b is turned away.
IsTurnedAway(b) ==
    connected /\ b \in inflight \ pending /\ b <= highest /\ stored[b] = "none"

\* "RetryBatch is non-terminal. The collector must retain and resend the exact
\* same durable batch": a batch in flight is on its way or will be sent again.
RetainedIsResent == \A b \in Batches : ~RetryIsLost(b)

\* Once failures stop every batch gets its outcome, on this stream or another -
\* unless the stream stays open over a batch in one of the two ways in which the
\* code loses it.
EveryBatchSettles ==
    <>[](\/ \A b \in Batches : outcome[b] # "none"
         \/ \E b \in Batches : RetryIsLost(b) \/ IsTurnedAway(b))

\* "Reconnect and retry": a batch that was turned away with these words is
\* tried again on another stream.
ConflictReconnects ==
    \A b \in Batches :
        worker[b].answer = "conflict" ~> (~connected \/ outcome[b] # "none")
===============================================================================
