----------------------------- MODULE SearchJobs -----------------------------
(***************************************************************************)
(* The search job manager (internal/searchjobs) with the durable records   *)
(* its composite journal writes: the search artifact store                 *)
(* (internal/searchartifacts), the search history (internal/searchhistory) *)
(* and, for the searches of one scheduled report, the report's runs        *)
(* (internal/scheduledreports and the retrying journal of                  *)
(* cmd/open-splunk-server/scheduled_report_journal.go).                    *)
(*                                                                         *)
(* The manager holds jobs in memory and forgets them at a restart; the     *)
(* three records are written one after the other, and each write may fail, *)
(* or succeed with its answer lost.  A row of results is one Boolean.      *)
(***************************************************************************)
EXTENDS Integers, FiniteSets, SequencesExt

CONSTANTS
  Job,          \* the searches that may be asked for, one Create call each
  Reports,      \* those that are occurrences of the one scheduled report
  Request,      \* the client request identity of each job; None without one
  Workers,      \* the worker goroutines of the manager
  Readers,      \* holders of result leases outside the manager
  MaxJobs,      \* Config.MaxJobs
  MaxQueued,    \* Config.MaxQueued
  MaxLeases,    \* Config.MaxResultLeases
  Limits,       \* the values MaxConcurrent is set to while the server runs
  MaxUpsets,    \* bound: journal calls that fail or whose answer is lost,
                \* changes of the limit, restarts, and Close, together
  None

ASSUME SearchJobsConstants ==
  /\ Reports \subseteq Job /\ IsFiniteSet(Job)
  /\ {"asleep", "ready", "out"} \cap Job = {}
  /\ IsFiniteSet(Workers) /\ IsFiniteSet(Readers)
  /\ None \notin Job \cup {"completed", "failed", "canceled", "worker", "caller", "close"}
  /\ DOMAIN Request = Job
  /\ Limits \subseteq Nat \ {0} /\ Limits # {}
  /\ MaxJobs \in Nat /\ MaxQueued \in Nat /\ MaxLeases \in Nat
  /\ MaxUpsets \in Nat

VARIABLES
  state,    \* Job.State; "none" before publication, "gone" after removal
  step,     \* where the Create call, then the finalization, of a job is
  todo,     \* the journals that call still has to visit, in order
  answer,   \* the terminal snapshot that is being written
  owner,    \* who claimed the finalization: worker, caller or close
  stopped,  \* jobs whose own context is cancelled
  cancels,  \* Cancel calls between their two critical sections
  results,  \* jobs whose rows are in memory
  reading,  \* the job whose lease each reader holds
  queue,    \* Manager.queueHead ..., the queued jobs in order
  worker,   \* each worker: asleep on queueCond, ready, out, or its job
  limit,    \* searchlimits.Source: the current MaxConcurrent
  notify,   \* the limit was stored and LimitsChanged is still to come
  phase,    \* of Close: open, closing, draining, joining, closed
  draining, \* the entries Close has still to finish
  retry,    \* runtimeScheduledReportJournal.pending, by job
  art, files,  \* durable: row of the artifact store; its result files
  hist,     \* durable: search history entry
  run,      \* durable: run of the scheduled report
  receipt,  \* durable: the job each request identity was admitted as
  verdict,  \* history: the first terminal state of each job
  missed,   \* history: the last word to a record that failed
  upsets

jobVars == <<state, step, todo, answer, owner, stopped, cancels>>
resultVars == <<results, reading>>
schedVars == <<queue, worker, limit, notify>>
closeVars == <<phase, draining>>
records == <<art, files, hist, run, receipt, retry>>
history == <<verdict, missed>>
bounds == <<upsets>>
vars == <<jobVars, resultVars, schedVars, closeVars, records, history, bounds>>

Terminal == {"completed", "failed", "canceled"}
Admission == {"admit", "undo", "publish", "abort"}
Publication == {"stage", "write", "record", "project", "compensate"}
Telling == {"undo", "abort", "settle", "project", "compensate"}
Settled == {"over", "unpublished", "lost"}
ActiveRun == {"claimed", "submitted"}

Closed == phase # "open"
Listed == {j \in Job : state[j] \notin {"none", "gone"}}
Pending == {j \in Job : step[j] \in Admission}
Stopped(j) == j \in stopped \/ Closed
Running == {w \in Workers : worker[w] \in Job}
Asleep == {w \in Workers : worker[w] = "asleep"}
Pins(j) == Cardinality({r \in Readers : reading[r] = j})
           + (IF step[j] \in Publication THEN 1 ELSE 0)
Leases == Cardinality({r \in Readers : reading[r] # None})
          + Cardinality({j \in Job : step[j] \in Publication})

\* The order of the composite: artifacts, history, report runs.
Targets(j) == IF j \in Reports THEN <<"art", "hist", "run">> ELSE <<"art", "hist">>

TypeOK ==
  /\ state \in [Job -> {"none", "queued", "running", "expired", "gone"} \cup Terminal]
  /\ step \in [Job -> {"idle", "live", "lease", "disclaim", "refused"}
                       \cup Admission \cup Publication \cup Telling \cup Settled]
  /\ \A j \in Job : \E k \in 0 .. 3 : todo[j] \in [1 .. k -> {"art", "hist", "run"}]
  /\ answer \in [Job -> Terminal \cup {None}]
  /\ owner \in [Job -> {"worker", "caller", "close", None}]
  /\ stopped \subseteq Job /\ cancels \subseteq Job /\ results \subseteq Job
  /\ reading \in [Readers -> Job \cup {None}]
  /\ \A i \in 1 .. Len(queue) : state[queue[i]] = "queued"
  /\ Cardinality(Listed) =< MaxJobs /\ Len(queue) =< MaxQueued /\ Leases =< MaxLeases
  /\ worker \in [Workers -> Job \cup {"asleep", "ready", "out"}]
  /\ limit \in Limits /\ notify \in BOOLEAN
  /\ phase \in {"open", "closing", "draining", "joining", "closed"}
  /\ draining \subseteq Job
  /\ retry \in [Job -> Terminal \cup {None}]
  /\ art \in [Job -> {"none", "queued", "staged", "interrupted"} \cup Terminal]
  /\ files \subseteq Job
  /\ hist \in [Job -> {"none", "pending"} \cup Terminal]
  /\ run \in [Job -> {"none", "skipped", "interrupted"} \cup ActiveRun \cup Terminal]
  /\ \A q \in DOMAIN receipt : receipt[q] \in Job \cup {None}

Requests == {Request[j] : j \in Job} \ {None}

Init ==
  /\ state = [j \in Job |-> "none"] /\ step = [j \in Job |-> "idle"]
  /\ todo = [j \in Job |-> <<>>] /\ answer = [j \in Job |-> None]
  /\ owner = [j \in Job |-> None] /\ stopped = {} /\ cancels = {}
  /\ results = {} /\ reading = [r \in Readers |-> None]
  /\ queue = <<>> /\ worker = [w \in Workers |-> "ready"]
  /\ limit \in Limits /\ notify = FALSE
  /\ phase = "open" /\ draining = {}
  /\ art = [j \in Job |-> "none"] /\ files = {} /\ hist = [j \in Job |-> "none"]
  /\ run = [j \in Job |-> "none"] /\ receipt = [q \in Requests |-> None]
  /\ retry = [j \in Job |-> None]
  /\ verdict = [j \in Job |-> None] /\ missed = {}
  /\ upsets = 0

Upset == upsets < MaxUpsets /\ upsets' = upsets + 1

\* A journal call succeeds, fails, or takes effect and reports an error.
Outcomes == {"ok", "fail", "lost"}
Answers(how) == IF how = "ok" THEN UNCHANGED upsets ELSE Upset

-----------------------------------------------------------------------------
(* The scheduler of the report claims an occurrence unless one is active.   *)

ClaimDue(j) ==
  /\ j \in Reports /\ run[j] = "none" /\ ~Closed
  /\ run' = [run EXCEPT ![j] = IF \E k \in Reports : run[k] \in ActiveRun
                               THEN "skipped" ELSE "claimed"]
  /\ UNCHANGED <<jobVars, resultVars, schedVars, closeVars, art, files, hist, receipt,
                 retry, history, bounds>>

-----------------------------------------------------------------------------
(* Create.  A reservation, the journals in order, then publication.         *)

Refuse(j) == step' = [step EXCEPT ![j] = IF j \in Reports THEN "disclaim" ELSE "refused"]

HasRoom ==
  /\ Cardinality(Listed) + Cardinality(Pending) < MaxJobs
  /\ Len(queue) + Cardinality(Pending) < MaxQueued

\* reserveAdmission.  A request that was admitted before is answered with the
\* job it was admitted as and starts nothing.
Create(j) ==
  /\ step[j] = "idle" /\ phase # "closed"
  /\ j \in Reports => run[j] = "claimed"
  /\ IF \/ Request[j] # None /\ receipt[Request[j]] # None
        \/ Closed \/ ~HasRoom
     THEN Refuse(j) /\ UNCHANGED todo
     ELSE /\ step' = [step EXCEPT ![j] = "admit"]
          /\ todo' = [todo EXCEPT ![j] = Targets(j)]
  /\ UNCHANGED <<state, answer, owner, stopped, cancels, resultVars, schedVars,
                 closeVars, records, history, bounds>>

\* What an admission writes into each record.
TakesAdmission(t, j) ==
  CASE t = "art" -> art' = [art EXCEPT ![j] = "queued"] /\ UNCHANGED <<hist, receipt, run>>
    [] t = "hist" -> /\ hist' = [hist EXCEPT ![j] = "pending"]
                     /\ receipt' = [q \in Requests |-> IF q = Request[j] THEN j ELSE receipt[q]]
                     /\ UNCHANGED <<art, run>>
    [] t = "run" -> /\ run' = [run EXCEPT ![j] = IF @ = "claimed" THEN "submitted" ELSE @]
                    /\ UNCHANGED <<art, hist, receipt>>

\* Mutant: only the record whose call failed is compensated.
CompensatedOnlyFailed(j, definitive) ==
  LET n == Len(Targets(j)) - Len(todo[j]) + 1
  IN IF definitive THEN SubSeq(Targets(j), 1, n - 1) ELSE SubSeq(Targets(j), n, n)

\* The records to compensate after a failed admission: those before the
\* failing one, and that one too unless its error proves a rollback.
Compensated(j, definitive) ==
  LET n == Len(Targets(j)) - Len(todo[j]) + 1
  IN SubSeq(Targets(j), 1, IF definitive THEN n - 1 ELSE n)

Undo(j, definitive) ==
  /\ step' = [step EXCEPT ![j] = "undo"]
  /\ todo' = [todo EXCEPT ![j] = Compensated(j, definitive)]
  /\ answer' = [answer EXCEPT ![j] = "canceled"]

\* Another job holds the receipt of this request.
Conflicts(j) == /\ Head(todo[j]) = "hist" /\ Request[j] # None
                /\ receipt[Request[j]] # None

\* One call of CompositeJournal.admit.  Close cancels the context of the call.
Admit(j, how) ==
  /\ step[j] = "admit"
  /\ IF Conflicts(j)
     THEN how = "ok" /\ Undo(j, TRUE) /\ UNCHANGED <<art, hist, receipt, run, upsets>>
     ELSE /\ IF Closed THEN UNCHANGED upsets ELSE Answers(how)
          /\ IF how = "fail" THEN UNCHANGED <<art, hist, receipt, run>>
                             ELSE TakesAdmission(Head(todo[j]), j)
          /\ IF how # "ok"
             THEN Undo(j, FALSE)
             ELSE /\ todo' = [todo EXCEPT ![j] = Tail(@)]
                  /\ step' = IF Len(todo[j]) = 1 THEN [step EXCEPT ![j] = "publish"] ELSE step
                  /\ UNCHANGED answer
  /\ UNCHANGED <<state, owner, stopped, cancels, resultVars, schedVars, closeVars,
                 files, retry, history>>

\* queueCond.Signal
Signal == IF Asleep = {} THEN UNCHANGED worker
          ELSE \E w \in Asleep : worker' = [worker EXCEPT ![w] = "ready"]

\* queueCond.Broadcast, together with what the caller does to worker w
Broadcast == [w \in Workers |-> IF worker[w] = "asleep" THEN "ready" ELSE worker[w]]

Unpublishable == Closed \/ Cardinality(Listed) >= MaxJobs \/ Len(queue) >= MaxQueued

Publish(j) ==
  /\ step[j] = "publish"
  /\ IF Unpublishable
     THEN /\ step' = [step EXCEPT ![j] = "abort"]
          /\ todo' = [todo EXCEPT ![j] = Targets(j)]
          /\ answer' = [answer EXCEPT ![j] = "canceled"]
          /\ UNCHANGED <<state, queue, worker>>
     ELSE /\ step' = [step EXCEPT ![j] = "live"]
          /\ state' = [state EXCEPT ![j] = "queued"]
          /\ queue' = Append(queue, j)
          /\ Signal
          /\ UNCHANGED <<todo, answer>>
  /\ UNCHANGED <<owner, stopped, cancels, resultVars, limit, notify, closeVars, records,
                 history, bounds>>

\* Service.admit: a Create call that failed ends the claimed run itself.
Disclaim(j, how) ==
  /\ step[j] = "disclaim"
  /\ Answers(how)
  /\ step' = [step EXCEPT ![j] = "refused"]
  /\ run' = IF how # "fail" /\ run[j] \in ActiveRun THEN [run EXCEPT ![j] = "failed"] ELSE run
  /\ missed' = IF how = "ok" THEN missed ELSE missed \cup {<<j, "run">>}
  /\ UNCHANGED <<state, todo, answer, owner, stopped, cancels, resultVars, schedVars,
                 closeVars, art, files, hist, receipt, retry, verdict>>

-----------------------------------------------------------------------------
(* Terminal transitions.  The first one claims the only finalization.       *)

\* finishedLocked and claimTerminalJournalLocked in one critical section;
\* state[j] is not terminal.
Finish(j, as, who) ==
  /\ state' = [state EXCEPT ![j] = as]
  /\ verdict' = [verdict EXCEPT ![j] = IF @ = None THEN as ELSE @]
  /\ step' = [step EXCEPT ![j] = IF as = "completed" THEN "lease" ELSE "settle"]
  /\ todo' = [todo EXCEPT ![j] = Targets(j)]
  /\ answer' = [answer EXCEPT ![j] = as]
  /\ owner' = [owner EXCEPT ![j] = who]

-----------------------------------------------------------------------------
(* Workers.                                                                 *)

\* One pass of the loop under Manager.mu, up to the wait or the dequeue.
Check(w) ==
  /\ worker[w] = "ready"
  /\ IF Closed THEN worker' = [worker EXCEPT ![w] = "out"] /\ UNCHANGED queue
     ELSE IF queue = <<>> \/ Cardinality(Running) >= limit
     THEN worker' = [worker EXCEPT ![w] = "asleep"] /\ UNCHANGED queue
     ELSE /\ worker' = [worker EXCEPT ![w] = Head(queue)]
          /\ queue' = Tail(queue)
  /\ UNCHANGED <<jobVars, resultVars, limit, notify, closeVars, records, history, bounds>>

\* advance from queued; parsing and planning are one state with running.
Begin(w) ==
  LET j == worker[w] IN
  /\ w \in Running /\ state[j] = "queued"
  /\ IF Stopped(j)
     THEN Finish(j, "canceled", "worker")
     ELSE /\ state' = [state EXCEPT ![j] = "running"]
          /\ UNCHANGED <<step, todo, answer, owner, verdict>>
  /\ UNCHANGED <<stopped, cancels, resultVars, schedVars, closeVars, records, missed, bounds>>

\* Mutant: rows are accepted whatever became of the job.
ReadyAlways(j) == state[j] # "queued"

\* readyLocked
Ready(j) == ~Stopped(j) /\ state[j] = "running"

AddRow(w) ==
  LET j == worker[w] IN
  /\ w \in Running /\ j \notin results /\ Ready(j)
  /\ results' = results \cup {j}
  /\ UNCHANGED <<jobVars, reading, schedVars, closeVars, records, history, bounds>>

\* finishCompleted; a result without a schema is a failure.
Completes(w) ==
  LET j == worker[w] IN
  /\ w \in Running /\ state[j] = "running"
  /\ IF Stopped(j)
     THEN Finish(j, "canceled", "worker") /\ results' = results \ {j}
     ELSE j \in results /\ Finish(j, "completed", "worker") /\ UNCHANGED results
  /\ UNCHANGED <<stopped, cancels, reading, schedVars, closeVars, records, missed, bounds>>

\* failOrCancelWithCause
Fails(w) ==
  LET j == worker[w] IN
  /\ w \in Running /\ state[j] = "running" /\ ~Stopped(j)
  /\ Finish(j, "failed", "worker") /\ results' = results \ {j}
  /\ UNCHANGED <<stopped, cancels, reading, schedVars, closeVars, records, missed, bounds>>

\* The worker returns from run, after its own finalization if it claimed one.
Ends(w) ==
  LET j == worker[w] IN
  /\ w \in Running /\ state[j] \notin {"queued", "running"}
  /\ owner[j] = "worker" => step[j] \in Settled
  /\ worker' = [Broadcast EXCEPT ![w] = "ready"]
  /\ UNCHANGED <<jobVars, resultVars, queue, limit, notify, closeVars, records, history, bounds>>

\* searchlimits.Source.Store, then Manager.LimitsChanged
SetLimit(n) ==
  /\ ~notify /\ n # limit /\ Upset
  /\ limit' = n /\ notify' = TRUE
  /\ UNCHANGED <<jobVars, resultVars, queue, worker, closeVars, records, history>>

LimitsChanged ==
  /\ notify /\ notify' = FALSE
  /\ worker' = Broadcast
  /\ UNCHANGED <<jobVars, resultVars, queue, limit, closeVars, records, history, bounds>>

-----------------------------------------------------------------------------
(* Cancel: out of the queue under Manager.mu, then under the entry's lock.  *)

removeQueuedLocked(j) ==
  \/ j \notin Range(queue) /\ UNCHANGED queue
  \/ \E i \in 1 .. Len(queue) : queue[i] = j /\ queue' = RemoveAt(queue, i)

CancelBegins(j) ==
  /\ state[j] \in {"queued", "running"} /\ j \notin stopped
  /\ removeQueuedLocked(j)
  /\ stopped' = stopped \cup {j} /\ cancels' = cancels \cup {j}
  /\ UNCHANGED <<state, step, todo, answer, owner, resultVars, worker, limit, notify,
                 closeVars, records, history, bounds>>

\* finishCanceledAndClaim
FinishCanceled(j, who) ==
  IF state[j] \in {"queued", "running"}
  THEN Finish(j, "canceled", who) /\ results' = results \ {j}
  ELSE UNCHANGED <<state, verdict, step, todo, answer, owner, results>>

CancelEnds(j) ==
  /\ j \in cancels /\ cancels' = cancels \ {j}
  /\ FinishCanceled(j, "caller")
  /\ UNCHANGED <<stopped, reading, schedVars, closeVars, records, missed, bounds>>

-----------------------------------------------------------------------------
(* Finalization.  A completed job pins its results, stages its row, writes   *)
(* and publishes the file, and only then tells the other records.           *)

\* Nothing is reported to the records when the lease is refused.
Lease(j) ==
  /\ step[j] = "lease"
  /\ step' = [step EXCEPT ![j] =
                IF ~Closed /\ state[j] = "completed" /\ j \in results /\ Leases < MaxLeases
                THEN "stage" ELSE "unpublished"]
  /\ UNCHANGED <<state, todo, answer, owner, stopped, cancels, resultVars, schedVars,
                 closeVars, records, history, bounds>>

\* Mutant: the remaining records are told although publication failed.
CompensateByProjecting(j) ==
  /\ step' = [step EXCEPT ![j] = "project"]
  /\ todo' = [todo EXCEPT ![j] = Tail(Targets(j))]
  /\ UNCHANGED answer

\* resultPublicationCompensation
Compensate(j) ==
  /\ step' = [step EXCEPT ![j] = "compensate"]
  /\ todo' = [todo EXCEPT ![j] = Targets(j)]
  /\ answer' = [answer EXCEPT ![j] = "failed"]

\* artifacts Store.Finalize of a completed job leaves the row queued.
Stage(j, how) ==
  /\ step[j] = "stage" /\ Answers(how)
  /\ art' = IF how # "fail" /\ art[j] = "queued" THEN [art EXCEPT ![j] = "staged"] ELSE art
  /\ IF how = "ok" THEN step' = [step EXCEPT ![j] = "write"] /\ UNCHANGED <<todo, answer>>
                   ELSE Compensate(j)
  /\ UNCHANGED <<state, owner, stopped, cancels, resultVars, schedVars, closeVars, files,
                 hist, run, receipt, retry, history>>

\* PersistResults up to RenameNoReplace.
Write(j, how) ==
  /\ step[j] = "write" /\ how \in {"ok", "fail"} /\ Answers(how)
  /\ IF how = "ok"
     THEN /\ files' = files \cup {j}
          /\ step' = [step EXCEPT ![j] = "record"] /\ UNCHANGED <<todo, answer>>
     ELSE Compensate(j) /\ UNCHANGED files
  /\ UNCHANGED <<state, owner, stopped, cancels, resultVars, schedVars, closeVars, art,
                 hist, run, receipt, retry, history>>

\* PersistResults from the UPDATE on: an error takes the file back.
Record(j, how) ==
  /\ step[j] = "record" /\ Answers(how)
  /\ art' = IF how = "fail" THEN art ELSE [art EXCEPT ![j] = "completed"]
  /\ IF how = "ok"
     THEN /\ step' = [step EXCEPT ![j] = "project"]
          /\ todo' = [todo EXCEPT ![j] = Tail(Targets(j))]
          /\ UNCHANGED <<answer, files>>
     ELSE Compensate(j) /\ files' = files \ {j}
  /\ UNCHANGED <<state, owner, stopped, cancels, resultVars, schedVars, closeVars,
                 hist, run, receipt, retry, history>>

\* What a terminal snapshot writes into each record.  A record that is
\* already terminal keeps its outcome, except the artifact row.
TakesTerminal(t, j) ==
  CASE t = "art" -> /\ art' = [art EXCEPT ![j] = IF @ = "none" THEN @ ELSE answer[j]]
                    /\ UNCHANGED <<hist, run>>
    [] t = "hist" -> /\ hist' = [hist EXCEPT ![j] = IF @ \in Terminal THEN @ ELSE answer[j]]
                     /\ UNCHANGED <<art, run>>
    [] t = "run" -> /\ run' = [run EXCEPT ![j] = IF @ \in ActiveRun THEN answer[j] ELSE @]
                    /\ UNCHANGED <<art, hist>>

AfterTelling(j) ==
  IF step[j] \notin {"undo", "abort"} THEN "over"
  ELSE IF j \in Reports THEN "disclaim" ELSE "refused"

\* One Finalize call of the composite; errors are joined and the round goes on.
\* The report's journal queues a failed call for its retry workers.
Tell(j, how) ==
  LET t == Head(todo[j]) IN
  /\ step[j] \in Telling /\ Answers(how)
  /\ IF how = "fail" THEN UNCHANGED <<art, hist, run>> ELSE TakesTerminal(t, j)
  /\ retry' = IF how # "ok" /\ t = "run" /\ retry[j] = None
              THEN [retry EXCEPT ![j] = answer[j]] ELSE retry
  /\ missed' = IF how = "ok" \/ t = "run" THEN missed ELSE missed \cup {<<j, t>>}
  /\ todo' = [todo EXCEPT ![j] = Tail(@)]
  /\ step' = IF Len(todo[j]) = 1 THEN [step EXCEPT ![j] = AfterTelling(j)] ELSE step
  /\ UNCHANGED <<state, answer, owner, stopped, cancels, resultVars, schedVars, closeVars,
                 files, receipt, verdict>>

\* Mutant: a retry is given up without a call.
RetryDropped(j) ==
  /\ retry[j] # None
  /\ retry' = [retry EXCEPT ![j] = None]
  /\ UNCHANGED <<jobVars, resultVars, schedVars, closeVars, art, files, hist, run, receipt,
                 history, bounds>>

\* A retry that fails again changes nothing; a run already ended refuses it.
Retry(j) ==
  /\ retry[j] # None
  /\ run' = [run EXCEPT ![j] = IF @ \in ActiveRun THEN retry[j] ELSE @]
  /\ retry' = [retry EXCEPT ![j] = None]
  /\ UNCHANGED <<jobVars, resultVars, schedVars, closeVars, art, files, hist, receipt,
                 history, bounds>>

-----------------------------------------------------------------------------
(* Leases of exports and pattern runs, expiry and removal.                  *)

Acquire(r, j) ==
  /\ reading[r] = None /\ ~Closed /\ state[j] = "completed" /\ j \in results
  /\ Leases < MaxLeases
  /\ reading' = [reading EXCEPT ![r] = j]
  /\ UNCHANGED <<jobVars, results, schedVars, closeVars, records, history, bounds>>

Release(r) ==
  LET j == reading[r] IN
  /\ j # None
  /\ reading' = [reading EXCEPT ![r] = None]
  /\ results' = IF state[j] = "expired" /\ Pins(j) = 1 THEN results \ {j} ELSE results
  /\ UNCHANGED <<jobVars, schedVars, closeVars, records, history, bounds>>

Unpinned(j) == Pins(j) = 0

\* expireLocked.  The shortest retention, a minute, outlasts JournalTimeout.
Expire(j) ==
  /\ state[j] \in Terminal /\ step[j] \in Settled
  /\ state' = [state EXCEPT ![j] = "expired"]
  /\ results' = IF Unpinned(j) THEN results \ {j} ELSE results
  /\ UNCHANGED <<step, todo, answer, owner, stopped, cancels, reading, schedVars,
                 closeVars, records, history, bounds>>

Removed(j) ==
  /\ state[j] = "expired" /\ Pins(j) = 0
  /\ state' = [state EXCEPT ![j] = "gone"]
  /\ UNCHANGED <<step, todo, answer, owner, stopped, cancels, resultVars, schedVars,
                 closeVars, records, history, bounds>>

-----------------------------------------------------------------------------
(* Close and restart.                                                       *)

CloseBegins ==
  /\ phase = "open" /\ Upset
  /\ phase' = "closing" /\ draining' = Listed
  /\ queue' = <<>> /\ worker' = Broadcast
  /\ UNCHANGED <<jobVars, resultVars, limit, notify, records, history>>

CreatesAreOver == Pending = {}

CloseDrains ==
  /\ phase = "closing" /\ CreatesAreOver
  /\ phase' = "draining"
  /\ UNCHANGED <<jobVars, resultVars, schedVars, draining, records, history, bounds>>

\* One entry after the other; each finalization is waited for.
CloseFinishes(j) ==
  /\ phase = "draining" /\ j \in draining
  /\ \A k \in Job : owner[k] = "close" => step[k] \in Settled
  /\ draining' = draining \ {j}
  /\ FinishCanceled(j, "close")
  /\ UNCHANGED <<stopped, cancels, reading, schedVars, phase, records, missed, bounds>>

CloseJoins ==
  /\ phase = "draining" /\ draining = {}
  /\ \A k \in Job : owner[k] = "close" => step[k] \in Settled
  /\ phase' = "joining"
  /\ UNCHANGED <<jobVars, resultVars, schedVars, draining, records, history, bounds>>

CloseReturns ==
  /\ phase = "joining" /\ \A w \in Workers : worker[w] = "out"
  /\ phase' = "closed"
  /\ state' = [j \in Job |-> IF state[j] = "completed" THEN "expired" ELSE state[j]]
  /\ results' = {j \in results : state[j] # "completed" \/ Pins(j) # 0}
  /\ UNCHANGED <<step, todo, answer, owner, stopped, cancels, reading, schedVars, draining,
                 records, history, bounds>>

\* Reconcile: work that was active, and completed rows without their file.
Interrupted(j) == art[j] \in {"queued", "staged"} \/ (art[j] = "completed" /\ j \notin files)

\* The process ends, by a crash or after Close; the next one recovers the
\* history, the artifacts and the runs before it serves.
Restart ==
  /\ Upset
  /\ state' = [j \in Job |-> "none"]
  /\ step' = [j \in Job |-> IF step[j] = "idle" THEN "idle" ELSE "lost"]
  /\ todo' = [j \in Job |-> <<>>] /\ answer' = [j \in Job |-> None]
  /\ owner' = [j \in Job |-> None] /\ stopped' = {} /\ cancels' = {}
  /\ results' = {} /\ reading' = [r \in Readers |-> None]
  /\ queue' = <<>> /\ worker' = [w \in Workers |-> "ready"] /\ notify' = FALSE
  /\ phase' = "open" /\ draining' = {}
  /\ hist' = [j \in Job |-> IF hist[j] = "pending" THEN "failed" ELSE hist[j]]
  /\ art' = [j \in Job |-> IF Interrupted(j) THEN "interrupted" ELSE art[j]]
  /\ files' = {j \in files : art[j] = "completed"}
  /\ run' = [j \in Job |-> IF run[j] \in ActiveRun THEN "interrupted" ELSE run[j]]
  /\ retry' = [j \in Job |-> None]
  /\ UNCHANGED <<limit, receipt, history>>

-----------------------------------------------------------------------------
CreateNext(j) ==
  \/ ClaimDue(j) \/ Create(j) \/ Publish(j)
  \/ \E how \in Outcomes : Admit(j, how) \/ Disclaim(j, how)

WorkerNext(w) == Check(w) \/ Begin(w) \/ AddRow(w) \/ Completes(w) \/ Fails(w) \/ Ends(w)

FinalizeNext(j) ==
  \/ Lease(j) \/ Retry(j)
  \/ \E how \in Outcomes : Stage(j, how) \/ Write(j, how) \/ Record(j, how) \/ Tell(j, how)

ClientNext(j) ==
  \/ CancelBegins(j) \/ CancelEnds(j) \/ Expire(j) \/ Removed(j)
  \/ \E r \in Readers : Acquire(r, j)

CloseNext ==
  \/ CloseBegins \/ CloseDrains \/ CloseJoins \/ CloseReturns
  \/ \E j \in Job : CloseFinishes(j)

Next ==
  \/ \E j \in Job : CreateNext(j) \/ FinalizeNext(j) \/ ClientNext(j)
  \/ \E w \in Workers : WorkerNext(w)
  \/ \E r \in Readers : Release(r)
  \/ \E n \in Limits : SetLimit(n)
  \/ LimitsChanged \/ CloseNext \/ Restart

Spec == Init /\ [][Next]_vars

\* Goroutines that are ready run; an execution ends, its runtime is bounded; a
\* holder of a lease gives it back.  Nothing makes a client ask, an operator
\* change a limit, or the clock expire a job.
Fairness ==
  /\ \A j \in Job :
       /\ WF_vars(Create(j)) /\ WF_vars(Publish(j)) /\ WF_vars(CancelEnds(j))
       /\ WF_vars(\E how \in Outcomes : Admit(j, how) \/ Disclaim(j, how))
       /\ WF_vars(FinalizeNext(j))
       /\ WF_vars(CloseFinishes(j))
  /\ \A w \in Workers :
       /\ WF_vars(Check(w)) /\ WF_vars(Begin(w)) /\ WF_vars(Ends(w))
       /\ WF_vars(Completes(w) \/ Fails(w))
  /\ \A r \in Readers : WF_vars(Release(r))
  /\ WF_vars(LimitsChanged)
  /\ WF_vars(CloseDrains) /\ WF_vars(CloseJoins) /\ WF_vars(CloseReturns)

FairSpec == Spec /\ Fairness

-----------------------------------------------------------------------------
(* Properties                                                              *)

\* The history or the report's run call a search completed only after its
\* exact results are published: CompositeJournal.finalizeCompleted orders the
\* records, also across failing calls and restarts.  A restarted server shows no
\* search as completed whose result file is gone, also when the file was taken
\* back after an update of the row that answered with an error had committed
\* (PersistResults, Reconcile).
PublicationBarrier ==
  \A j \in Job :
    /\ hist[j] = "completed" \/ run[j] = "completed" => art[j] = "completed" /\ j \in files
    /\ step[j] = "lost" /\ art[j] = "completed" => j \in files

\* The records of a search, and what the manager told its callers first, agree
\* on whether it completed or was cancelled, however cancellation, completion,
\* failing calls and restarts fall together; and none is left active when its
\* Create call failed or its finalization is over, except where that record
\* refused the last word (a run that missed it is queued for another try).
RecordsAgree ==
  \A j \in Job :
    /\ Cardinality({art[j], hist[j], run[j], verdict[j]} \cap {"completed", "canceled"}) =< 1
    /\ step[j] \in {"over", "refused"} =>
         /\ art[j] \in {"queued", "staged"} => <<j, "art">> \in missed
         /\ hist[j] = "pending" => <<j, "hist">> \in missed
         /\ run[j] \in ActiveRun => retry[j] # None \/ <<j, "run">> \in missed

\* A request identity runs one search: what was published for it is the job its
\* receipt names, also when two calls race, an answer is lost, or the server is
\* restarted in between (CreateIdempotent, AdmitIdempotent).
OneSearchPerRequest ==
  \A j \in Job : Request[j] # None /\ state[j] # "none" => receipt[Request[j]] = j

\* The rows of a lease stay in memory until it is closed, through expiry and
\* Close; rows of failed, cancelled and expired jobs nobody reads are given back.
ResultsLiveAsPinned ==
  \A j \in Job :
    /\ Pins(j) > 0 => j \in results
    /\ state[j] \in {"failed", "canceled", "gone"} => j \notin results
    /\ state[j] = "expired" /\ Pins(j) = 0 => j \notin results

\* A Create call that reserved its places finds them at publication, so a
\* search whose records were admitted is refused only by Close.
ReservationHolds ==
  \A j \in Job : step[j] = "publish" /\ ~Closed => ~Unpublishable

\* Only one run of a scheduled report is active.
OneRunAtATime == Cardinality({j \in Reports : run[j] \in ActiveRun}) =< 1

\* When Close returns no search runs or waits and no Create call is at work;
\* what is still active in the records had its lease or its last word refused,
\* or is in the hands of a Cancel call.
CloseIsClean ==
  phase = "closed" =>
    /\ Pending = {}
    /\ \A j \in Job :
         /\ state[j] \notin {"queued", "running"}
         /\ art[j] \in {"queued", "staged"} =>
              \/ step[j] = "unpublished" \/ <<j, "art">> \in missed
              \/ step[j] \notin Settled /\ owner[j] = "caller"

\* No wake-up is lost: whenever a search is queued and the limit leaves a place
\* for it, some worker is about to look, or all are at work; the limit may just
\* have been raised and LimitsChanged be on its way.
NoLostWakeup ==
  queue # <<>> /\ Cardinality(Running) < limit /\ ~notify /\ ~Closed
    => Running = Workers \/ \E w \in Workers : worker[w] = "ready"

\* What the manager keeps in memory is sound: leases have their rows, reserved
\* places are there, no queued search is forgotten, and Close leaves nothing.
ManagerIsSound == ResultsLiveAsPinned /\ ReservationHolds /\ NoLostWakeup /\ CloseIsClean

\* A terminal job only expires and is removed: neither a late executor, nor
\* Cancel, nor Close changes an outcome callers may have read.
TerminalStays ==
  [][\A j \in Job :
       state[j] \in Terminal => state'[j] \in {state[j], "expired", "none"}]_vars

\* A queued search is taken up or cancelled, whatever limits are set meanwhile.
QueuedIsServed == \A j \in Job : state[j] = "queued" ~> state[j] # "queued"

\* The durable row of an admitted search becomes terminal, and the run of a
\* report ends, so that later occurrences are not skipped, also when a journal
\* has to try again.  Three exceptions: the store refused the last word on it;
\* the server is told to stop and leaves it to its next start; or the lease of
\* the results was refused, because as many as there may be are held or the
\* results are gone, and then nobody is told anything (manager.go:1220-1226).
AdmittedSettles ==
  \A j \in Job :
    /\ art[j] = "queued" ~> \/ art[j] \in Terminal \cup {"interrupted"}
                            \/ step[j] = "unpublished" \/ <<j, "art">> \in missed \/ Closed
    /\ run[j] \in ActiveRun ~> \/ run[j] \notin ActiveRun
                               \/ step[j] = "unpublished" \/ <<j, "run">> \in missed \/ Closed

\* A completed search whose results could not be published does not stay queued
\* in the store (composite_journal.go:245-246).
NoneLeftQueued ==
  \A j \in Job : state[j] = "completed" /\ art[j] = "queued" ~>
    art[j] # "queued" \/ <<j, "art">> \in missed \/ Closed

\* Close returns.
CloseEnds == phase = "closing" ~> phase \in {"closed", "open"}
=============================================================================
