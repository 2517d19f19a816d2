------------------------------ MODULE IngestStore ------------------------------
(***************************************************************************)
(* The ingest path of the ClickHouse store (internal/clickhouse/store.go)  *)
(* on top of the visibility ledger: requests that stage, resume or reject  *)
(* a batch and wait for its durable outcome, the reconciler that replays   *)
(* and commits write groups, and the ClickHouse table they write to.       *)
(*                                                                         *)
(* Every SQLite transaction is one step; the process may crash between any *)
(* two.  A transaction may be lost, or persist and lose only its result,   *)
(* and an insert may fail while ClickHouse still applies it later.  The    *)
(* number of failures is bounded by MaxFaults, so that "once failures      *)
(* stop" is part of the model and liveness needs weak fairness only.       *)
(***************************************************************************)
EXTENDS VisibilityLedger

CONSTANTS
    Requests,   \* concurrent calls of the store
    Modes,      \* the kinds of calls clients make: of AllModes
    Worker,     \* the reconciler goroutine
    Window,     \* tokens ClickHouse remembers (non_replicated_deduplication_window)
    MaxFaults,  \* failures and crashes in one behaviour
    Gap         \* SearchLog's entry of a sequence without rows

VARIABLES
    request,   \* [Requests -> [pc, mode, batch, seq]]
    worker,    \* [pc, kind, unit, failed] of the reconciler
    wake,      \* reconcileWake holds a token
    timer,     \* the reconciler's timer: Off, Retry or the sequence that lingers
    lingered,  \* reservations up to this sequence reached their linger deadline
    answers,   \* the last outcome told to a client about each sequence
    inserts,   \* inserts ClickHouse may still apply, possibly more than once
    landed,    \* the rows applied under each deduplication token
    tokenAt,   \* when a token was recorded, counted in tokens
    tokens,    \* number of tokens recorded
    rows,      \* copies of each sequence's rows in the events table
    faults     \* failures so far

processVars == <<request, worker, wake, timer, lingered, answers>>
clickHouseVars == <<inserts, landed, tokenAt, tokens, rows>>
vars == <<ledgerVars, processVars, clickHouseVars, faults>>

Off == 0
Retry == MaxSequence + 1

\* Store, ResumeBatch, Stage and RejectBatch.
AllModes == {"store", "resume", "stage", "reject"}

ASSUME StoreAssumption ==
    /\ Callers = Requests \cup {Worker} /\ Worker \notin Requests
    /\ Modes \subseteq AllModes
    /\ Window \in Nat \ {0}
    /\ MaxFaults \in Nat
    /\ Gap \notin Batches

IdleRequest == [pc |-> "idle", mode |-> "store", batch |-> NoBatch, seq |-> 0]
SleepingWorker == [pc |-> "asleep", kind |-> "group", unit |-> 0, failed |-> FALSE]

Fault == faults < MaxFaults /\ faults' = faults + 1
NoFault == UNCHANGED faults
LedgerUnchanged == UNCHANGED ledgerVars

\* Whether the caller of a transaction sees its result: o is what is left of
\* the caller's lease.
Seen(o, c) == IF o = c THEN NoFault ELSE Fault

(***************************************************************************)
(* Requests                                                                *)
(***************************************************************************)
Goto(r, pc) == request' = [request EXCEPT ![r].pc = pc]
Finish(r) == request' = [request EXCEPT ![r] = IdleRequest]
WaitFor(r, s) == request' = [request EXCEPT ![r].pc = "waiting", ![r].seq = s]

Tell(r, s, outcome) ==
    /\ answers' = [answers EXCEPT ![s] = outcome]
    /\ Finish(r)

wakeReconciler == wake' = TRUE

\* Every so many outcomes, or bytes of rejections, ask for a prune.
noteTerminalReservation == wake' \in {wake, TRUE}

RequestStep(r, pc) ==
    /\ request[r].pc = pc
    /\ UNCHANGED <<worker, timer, lingered, clickHouseVars>>

Arrive(r) ==
    /\ RequestStep(r, "idle")
    /\ \E b \in Batches, mode \in Modes :
          request' = [request EXCEPT ![r] =
              [pc |-> IF mode = "reject" THEN "reject" ELSE "lookup",
               mode |-> mode, batch |-> b, seq |-> 0]]
    /\ NoFault /\ LedgerUnchanged /\ UNCHANGED <<wake, answers>>

\* Lookup found the row s of the batch: a terminal one is the answer; a pending
\* one is waited for, or is the answer of Stage.
Observe(r, s) ==
    \/ state[s] # "reserved" /\ Tell(r, s, state[s]) /\ UNCHANGED wake
    \/ state[s] = "reserved" /\ request[r].mode = "stage"
          /\ Tell(r, s, "staged") /\ UNCHANGED wake
    \/ state[s] = "reserved" /\ request[r].mode # "stage"
          /\ WaitFor(r, s) /\ wakeReconciler /\ UNCHANGED answers

Found(r) == IF IdentityConflict(request[r].batch) THEN {} ELSE Active(request[r].batch)

\* The lookup at the start of reserveForGroupedStore and stageAdmitted.
LookupBatch(r) ==
    /\ RequestStep(r, "lookup")
    /\ LedgerUnchanged
    /\ \/ NoFault /\ \E s \in Found(r) : Observe(r, s)
       \/ NoFault /\ Found(r) = {} /\ ~ IdentityConflict(request[r].batch)
             /\ Goto(r, "reserve") /\ UNCHANGED <<wake, answers>>
       \/ (Fault \/ (NoFault /\ IdentityConflict(request[r].batch)))
             /\ Finish(r) /\ UNCHANGED <<wake, answers>>

\* visibility.Reserve for a batch the lookup did not find.
ReserveBatch(r) ==
    LET b == request[r].batch
        resume == request[r].mode = "resume"
    IN  /\ RequestStep(r, "reserve")
        /\ \/ \E o \in {r, Stale} :
                 /\ \/ ~ resume /\ ReserveFresh(b, o)
                    \/ ReserveExisting(b, o)
                 /\ Seen(o, r)
                 /\ IF o = r
                    THEN /\ request' = [request EXCEPT ![r].pc = "holding",
                               ![r].seq = CHOOSE s \in Seqs : owner'[s] = r]
                         /\ UNCHANGED wake
                    ELSE Finish(r) /\ wakeReconciler
                 /\ UNCHANGED answers
           \/ /\ \E s \in Found(r) : state[s] # "reserved" /\ Tell(r, s, state[s])
              /\ LedgerUnchanged /\ NoFault /\ UNCHANGED wake

\* ErrAttemptInProgress: the batch was staged between Lookup and Reserve.
ReserveInProgress(r) ==
    /\ RequestStep(r, "reserve")
    /\ \E s \in Found(r) : state[s] = "reserved" /\ (group[s] # 0 \/ Leased(owner[s]))
    /\ IF request[r].mode = "stage"
       THEN Finish(r) /\ wakeReconciler
       ELSE Goto(r, "recheck") /\ UNCHANGED wake
    /\ LedgerUnchanged /\ NoFault /\ UNCHANGED answers

\* Any other refusal: a conflict, the ambiguity barrier, full capacity, no
\* sequence left, a reservation that is gone, or a transaction that failed.
ReserveRefused(r) ==
    LET b == request[r].batch
    IN  /\ RequestStep(r, "reserve")
        /\ \/ NoFault /\ \/ IdentityConflict(b)
                         \/ Active(b) = {} /\ \/ request[r].mode = "resume"
                                              \/ OrphanedAmbiguous
                                              \/ ~ HasCapacity(b)
                                              \/ lastAssigned = MaxSequence
           \/ Fault
        /\ Finish(r) /\ wakeReconciler
        /\ LedgerUnchanged /\ UNCHANGED answers

\* The lookup after ErrAttemptInProgress.
RecheckBatch(r) ==
    /\ RequestStep(r, "recheck")
    /\ LedgerUnchanged
    /\ \/ NoFault /\ \E s \in Found(r) : Observe(r, s)
       \/ NoFault /\ Found(r) = {} /\ Finish(r) /\ wakeReconciler /\ UNCHANGED answers
       \/ Fault /\ Finish(r) /\ UNCHANGED <<wake, answers>>

\* releaseAttempt, which wakes the reconciler.  Stage answers whatever becomes
\* of it.  Store waits if the lease was released and a waiter registered.
ReleaseAttempt(r) ==
    LET s == request[r].seq
    IN  /\ RequestStep(r, "holding")
        /\ \E o \in {Nobody, Stale} :
              /\ Release(s, r, o)
              /\ Seen(o, Nobody)
              /\ \/ request[r].mode = "stage" /\ Tell(r, s, "staged")
                 \/ request[r].mode # "stage" /\ o = Nobody
                       /\ WaitFor(r, s) /\ UNCHANGED answers
                 \/ request[r].mode # "stage" /\ o = Stale
                       /\ Finish(r) /\ UNCHANGED answers
        /\ wakeReconciler

\* Too many waiters are registered: the lease is released and the call fails.
WaiterRefused(r) ==
    /\ RequestStep(r, "holding") /\ request[r].mode # "stage"
    /\ Release(request[r].seq, r, Nobody)
    /\ Fault
    /\ Finish(r) /\ wakeReconciler
    /\ UNCHANGED answers

\* The loop of storeGrouped: after a commit notification or the poll timer the
\* durable outcome is read again.
AwaitOutcome(r) ==
    /\ RequestStep(r, "waiting")
    /\ \/ \E s \in Found(r) : state[s] # "reserved" /\ Tell(r, s, state[s])
       \/ Found(r) = {} /\ Finish(r) /\ UNCHANGED answers
    /\ LedgerUnchanged /\ NoFault /\ UNCHANGED wake

\* The client goes away, or a lookup fails.
CancelWait(r) ==
    /\ RequestStep(r, "waiting")
    /\ NoFault /\ Finish(r)
    /\ LedgerUnchanged /\ UNCHANGED <<wake, answers>>

\* Seeded fault: a pending batch is reported as rejected.
RejectPendingBatch(r) ==
    /\ RequestStep(r, "reject")
    /\ \/ Reject(request[r].batch) /\ Tell(r, lastAssigned', "rejected")
       \/ /\ \E s \in Found(r) : Tell(r, s, "rejected")
          /\ LedgerUnchanged
    /\ NoFault /\ UNCHANGED wake

RejectBatch(r) ==
    LET b == request[r].batch
    IN  /\ RequestStep(r, "reject")
        /\ \/ /\ Reject(b)
              /\ \/ NoFault /\ Tell(r, lastAssigned', "rejected") /\ noteTerminalReservation
                 \/ Fault /\ Finish(r) /\ wakeReconciler /\ UNCHANGED answers
           \/ /\ \E s \in Found(r) :
                    \/ state[s] # "reserved" /\ Tell(r, s, state[s])
                    \/ state[s] = "reserved" /\ Finish(r) /\ UNCHANGED answers
              /\ LedgerUnchanged /\ NoFault /\ UNCHANGED wake
           \/ /\ \/ NoFault /\ IdentityConflict(b)
                 \/ NoFault /\ Active(b) = {} /\ lastAssigned = MaxSequence
                 \/ Fault
              /\ Finish(r) /\ wakeReconciler
              /\ LedgerUnchanged /\ UNCHANGED answers

(***************************************************************************)
(* The reconciler: runReconciler, reconcileWriteGroups, writeReservation   *)
(* and writeGroup                                                          *)
(***************************************************************************)
WorkerStep(pc) ==
    /\ worker.pc = pc
    /\ UNCHANGED <<request, lingered, answers>>

WorkerGoto(pc) == worker' = [worker EXCEPT !.pc = pc]
WorkerTakes(kind, unit) ==
    worker' = [pc |-> "prepared", kind |-> kind, unit |-> unit, failed |-> FALSE]

\* Seeded fault: no retry is scheduled after an error.
WorkerFailsForGood == worker' = SleepingWorker /\ UNCHANGED timer

\* An error ends the run; the retry timer is the only way to the next one.
WorkerFails == worker' = SleepingWorker /\ timer' = Retry

\* A failed group is followed by one bounded prune, a failed single is not.
WorkerGivesUp ==
    IF worker.kind = "group"
    THEN worker' = [SleepingWorker EXCEPT !.pc = "prune", !.failed = TRUE] /\ UNCHANGED timer
    ELSE WorkerFails

\* runReconciler selects on wake and timer; wakes are dropped while retrying.
WorkerWakes ==
    /\ WorkerStep("asleep") /\ wake
    /\ wake' = FALSE /\ UNCHANGED timer
    /\ IF timer = Retry THEN UNCHANGED worker ELSE WorkerGoto("replay")
    /\ LedgerUnchanged /\ NoFault /\ UNCHANGED clickHouseVars

TimerFires ==
    /\ WorkerStep("asleep")
    /\ timer = Retry \/ timer \in 1..lingered
    /\ timer' = Off /\ WorkerGoto("replay")
    /\ LedgerUnchanged /\ NoFault /\ UNCHANGED <<wake, clickHouseVars>>

\* AcquireUngroupedReplay runs before any grouped work.  With one reconciler its
\* row is never leased: requests lease only rows their lookup did not find.
WorkerReplays ==
    /\ WorkerStep("replay")
    /\ \/ \E s \in Seqs, o \in {Worker, Stale} :
             /\ AcquireUngroupedReplay(s, o)
             /\ Seen(o, Worker)
             /\ IF o = Worker THEN WorkerTakes("single", s) /\ UNCHANGED timer ELSE WorkerFails
       \/ /\ ReplayBeforeGroups = {}
          /\ WorkerGoto("form") /\ UNCHANGED timer
          /\ LedgerUnchanged /\ NoFault
       \/ Fault /\ WorkerFails /\ LedgerUnchanged
    /\ UNCHANGED <<wake, clickHouseVars>>

\* FormOrAcquireWriteGroup, then pruneTerminal when there is nothing to send.
\* With one reconciler no running attempt blocks the group.
WorkerForms ==
    /\ WorkerStep("form")
    /\ \/ \E g \in Seqs, o \in {Worker, Stale} :
             /\ \/ AcquireExistingWriteGroup(g, o)
                \/ \E P \in SUBSET Seqs : FormWriteGroup(P, g, o, g <= lingered)
             /\ Seen(o, Worker)
             /\ IF o = Worker THEN WorkerTakes("group", g) /\ UNCHANGED timer ELSE WorkerFails
       \/ \E P \in SUBSET Seqs, g \in Seqs :
             /\ g \in P /\ \A s \in P : g <= s
             /\ DeferWriteGroup(P, g <= lingered)
             /\ timer' = g /\ WorkerGoto("prune") /\ NoFault
       \/ /\ Recoverable = {} /\ Candidates = {}
          /\ WorkerGoto("prune") /\ UNCHANGED timer
          /\ LedgerUnchanged /\ NoFault
       \/ Fault /\ WorkerFails /\ LedgerUnchanged
    /\ UNCHANGED <<wake, clickHouseVars>>

Block == IF worker.kind = "group" THEN Members(worker.unit) ELSE {worker.unit}

MarkUnit == IF worker.kind = "group" THEN MarkWriteGroupSending(worker.unit, Worker)
                                     ELSE MarkSending(worker.unit, Worker)
CommitUnit == IF worker.kind = "group" THEN CommitWriteGroup(worker.unit, Worker)
                                       ELSE CommitReservation(worker.unit, Worker)
ReleaseUnit(o) == IF worker.kind = "group" THEN ReleaseWriteGroup(worker.unit, Worker, o)
                                           ELSE Release(worker.unit, Worker, o)

\* The unit is rebuilt from its durable outbox, the insert is prepared, and the
\* unit is marked ambiguous before anything is sent.
WorkerMarks ==
    /\ WorkerStep("prepared")
    /\ \/ MarkUnit /\ NoFault /\ WorkerGoto("marked")
       \/ MarkUnit /\ Fault /\ WorkerGoto("failed")
       \/ LedgerUnchanged /\ Fault /\ WorkerGoto("failed")
    /\ UNCHANGED <<wake, timer, clickHouseVars>>

WorkerSends ==
    /\ WorkerStep("marked")
    /\ inserts' = inserts \cup {[token |-> worker.unit, rows |-> Block]}
    /\ WorkerGoto("sent")
    /\ LedgerUnchanged /\ NoFault
    /\ UNCHANGED <<wake, timer, landed, tokenAt, tokens, rows>>

\* ClickHouse acknowledges an insert it applied or deduplicated; an error says
\* nothing.
SendReturns ==
    /\ WorkerStep("sent")
    /\ \/ Block \subseteq landed[worker.unit] /\ NoFault /\ WorkerGoto("acknowledged")
       \/ Fault /\ WorkerGoto("failed")
    /\ LedgerUnchanged
    /\ UNCHANGED <<wake, timer, clickHouseVars>>

\* CommitWriteGroup or commitVisibility.  Their failure ends the lease whether
\* or not the transaction persisted; only a single reservation is then released
\* as well.  Closing the committed insert may fail too.
WorkerCommits ==
    /\ WorkerStep("acknowledged")
    /\ \/ CommitUnit /\ NoFault
             /\ worker' = [SleepingWorker EXCEPT !.pc = "replay"]
             /\ noteTerminalReservation /\ UNCHANGED timer
       \/ CommitUnit /\ Fault /\ WorkerGivesUp /\ wake' \in {wake, TRUE}
       \/ \E o \in (IF worker.kind = "group" THEN {Stale} ELSE {Nobody, Stale}) :
             ReleaseUnit(o) /\ Fault /\ WorkerGivesUp /\ wakeReconciler
    /\ UNCHANGED clickHouseVars

\* releaseWriteGroup or releaseAttempt after an error.
WorkerReleases ==
    /\ WorkerStep("failed")
    /\ \/ ReleaseUnit(Nobody) /\ NoFault
       \/ ReleaseUnit(Stale) /\ Fault
    /\ WorkerGivesUp /\ wakeReconciler
    /\ UNCHANGED clickHouseVars

\* pruneTerminal ends a run; a full prune asks for another one.
WorkerPrunes ==
    /\ WorkerStep("prune")
    /\ worker' = SleepingWorker
    /\ \/ /\ PruneTerminal /\ NoFault
          /\ wake' = (wake \/ Cardinality(Prunable) >= PruneLimit)
          /\ IF worker.failed THEN timer' = Retry ELSE UNCHANGED timer
       \/ /\ Prunable = {} /\ LedgerUnchanged /\ NoFault /\ UNCHANGED wake
          /\ IF worker.failed THEN timer' = Retry ELSE UNCHANGED timer
       \/ LedgerUnchanged /\ Fault /\ timer' = Retry /\ UNCHANGED wake
    /\ UNCHANGED clickHouseVars

(***************************************************************************)
(* ClickHouse (external), as the store relies on it: a token's rows are    *)
(* applied part by part, a part that the token already has is dropped for  *)
(* as long as the token is remembered, and an insert still under way is    *)
(* over before Window newer tokens are recorded.                           *)
(***************************************************************************)
Recorded(t) == landed[t] # {}
Remembered(t) == Recorded(t) /\ tokens - tokenAt[t] < Window

RecordsToken(t) ==
    IF Remembered(t)
    THEN UNCHANGED <<tokens, tokenAt>>
    ELSE /\ \A i \in inserts : i.token # t /\ Recorded(i.token)
               => tokens + 1 - tokenAt[i.token] < Window
         /\ tokens' = tokens + 1
         /\ tokenAt' = [tokenAt EXCEPT ![t] = tokens + 1]

Apply(i, s) ==
    LET t == i.token
    IN  /\ i \in inserts /\ s \in i.rows
        /\ ~ (Remembered(t) /\ s \in landed[t])
        /\ RecordsToken(t)
        /\ landed' = [landed EXCEPT ![t] = IF Remembered(t) THEN @ \cup {s} ELSE {s}]
        /\ rows' = [rows EXCEPT ![s] = @ + 1]
        /\ NoFault /\ LedgerUnchanged /\ UNCHANGED <<processVars, inserts>>

\* An insert is over.  The one the worker waits for is over only once applied.
Expire(i) ==
    /\ i \in inserts
    /\ worker.pc = "sent" /\ worker.unit = i.token => i.rows \subseteq landed[i.token]
    /\ inserts' = inserts \ {i}
    /\ NoFault /\ LedgerUnchanged /\ UNCHANGED <<processVars, landed, tokenAt, tokens, rows>>

(***************************************************************************)
(* The environment: time and crashes                                       *)
(***************************************************************************)
\* Reservations are created in sequence order, so they reach MaxLinger in it.
Linger ==
    /\ lingered < lastAssigned
    /\ lingered' = lingered + 1
    /\ NoFault /\ LedgerUnchanged
    /\ UNCHANGED <<request, worker, wake, timer, answers, clickHouseVars>>

\* The process dies and a new one opens the ledger and starts its reconciler.
Crash ==
    /\ Fault
    /\ Reopen
    /\ request' = [r \in Requests |-> IdleRequest]
    /\ worker' = SleepingWorker
    /\ wake' = TRUE /\ timer' = Off
    /\ UNCHANGED <<lingered, answers, clickHouseVars>>

Init ==
    /\ LedgerInit
    /\ request = [r \in Requests |-> IdleRequest]
    /\ worker = SleepingWorker
    /\ wake = TRUE /\ timer = Off
    /\ lingered = 0
    /\ answers = [s \in Seqs |-> "none"]
    /\ inserts = {[token |-> s, rows |-> {s}] : s \in Ambiguous}
    /\ landed = [t \in Seqs |-> {}]
    /\ tokenAt = [t \in Seqs |-> 0]
    /\ tokens = 0
    /\ rows = [s \in Seqs |-> 0]
    /\ faults = 0

RequestNext(r) ==
    \/ LookupBatch(r) \/ ReserveBatch(r) \/ ReserveInProgress(r) \/ ReserveRefused(r)
    \/ RecheckBatch(r) \/ ReleaseAttempt(r) \/ WaiterRefused(r)
    \/ AwaitOutcome(r) \/ RejectBatch(r)

WorkerNext ==
    \/ WorkerWakes \/ TimerFires \/ WorkerReplays \/ WorkerForms \/ WorkerMarks
    \/ WorkerSends \/ SendReturns \/ WorkerCommits \/ WorkerReleases \/ WorkerPrunes

Next ==
    \/ \E r \in Requests : Arrive(r) \/ RequestNext(r) \/ CancelWait(r)
    \/ WorkerNext
    \/ \E i \in inserts : Expire(i) \/ \E s \in i.rows : Apply(i, s)
    \/ Linger
    \/ Crash

Spec == Init /\ [][Next]_vars

\* Goroutines that can run do run, the clock advances, and ClickHouse applies
\* what it was sent.  Clients need not send anything nor go away.
Fairness ==
    /\ \A r \in Requests : WF_vars(RequestNext(r))
    /\ WF_vars(WorkerNext) /\ WF_vars(TimerFires)
    /\ WF_vars(Linger)
    /\ WF_vars(\E i \in inserts, s \in Seqs : Apply(i, s))
    /\ WF_vars(\E i \in inserts : Expire(i))

FairSpec == Spec /\ Fairness

(***************************************************************************)
(* Properties                                                              *)
(***************************************************************************)
Pcs == {"idle", "lookup", "reserve", "recheck", "holding", "waiting", "reject"}
WorkerPcs == {"asleep", "replay", "form", "prepared", "marked", "sent",
              "acknowledged", "failed", "prune"}
Outcomes == {"none", "staged", "committed", "rejected"}

\* The type of the store's own variables.
StoreTypeOK ==
    /\ TypeOK
    /\ request \in [Requests -> [pc : Pcs, mode : AllModes, batch : Batches \cup {NoBatch},
                                 seq : 0..MaxSequence]]
    /\ worker \in [pc : WorkerPcs, kind : {"single", "group"}, unit : 0..MaxSequence,
                   failed : BOOLEAN]
    /\ wake \in BOOLEAN
    /\ timer \in Off..Retry
    /\ lingered \in 0..MaxSequence
    /\ answers \in [Seqs -> Outcomes]
    /\ inserts \subseteq [token : Seqs, rows : SUBSET Seqs]
    /\ landed \in [Seqs -> SUBSET Seqs]
    /\ tokenAt \in [Seqs -> Nat] /\ tokens \in Nat
    /\ rows \in [Seqs -> Nat]
    /\ faults \in 0..MaxFaults

\* Retries, lost answers, late inserts and crashes never store a batch's rows
\* twice, never commit a sequence without its rows, and leave no rows under a
\* sequence that was rejected or abandoned.
StoredExactlyOnce ==
    \A s \in Seqs :
        /\ rows[s] <= 1
        /\ state[s] = "committed" => rows[s] = 1
        /\ state[s] \in {"rejected", "abandoned"} => rows[s] = 0

\* The answers of Store, Stage and RejectBatch are true of the table: a batch
\* reported committed is stored, one reported rejected never is, and one that
\* was staged still is pending or stored, whatever crashes.
AnswersAreTrue ==
    \A s \in Seqs :
        CASE answers[s] = "committed" -> rows[s] = 1
          [] answers[s] = "rejected" -> rows[s] = 0 /\ s \notin Reserved
          [] answers[s] = "staged" -> s \in Reserved \/ rows[s] = 1
          [] OTHER -> TRUE

\* ClickHouse deduplicates by token without looking at the rows, so a token
\* must stand for one block, and a row must be sent under one token only.
TokenNamesOneBlock ==
    \A i, j \in inserts :
        /\ i.token = j.token => i.rows = j.rows
        /\ i.token # j.token => i.rows \cap j.rows = {}

\* What a search up to the cutoff can read.
VisibleEntry(s) == CASE rows[s] = 0 -> Gap [] rows[s] = 1 -> batchOf[s] [] OTHER -> NoBatch
Visible == INSTANCE SearchLog WITH log <- [s \in 1..committedThrough |-> VisibleEntry(s)]

\* The store implements SearchLog: what a search reads at a cutoff never changes
\* afterwards, and a redelivered batch is not repeated within the retry window.
PublishesLog == Visible!Spec

\* Once failures stop, every reservation is committed: no wake-up is lost
\* between requests, timers, leases and crashes.
PendingIsCommitted == \A s \in Seqs : (state[s] = "reserved") ~> (state[s] # "reserved")

\* Every call that waits for its batch is answered.
CallsReturn == \A r \in Requests : (request[r].pc # "idle") ~> (request[r].pc = "idle")
===============================================================================
