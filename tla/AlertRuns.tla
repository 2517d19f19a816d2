----------------------------- MODULE AlertRuns -----------------------------
(***************************************************************************)
(* Webhook alerts: the coordinator that claims and executes their runs     *)
(* (internal/alerts/coordinator.go, service.go) over the alert rows and    *)
(* run rows of the control database (internal/alertstore).                 *)
(*                                                                         *)
(* The scheduler's Step and the RunNow calls of the API reserve slots,     *)
(* claim runs in one transaction and push them to a queue; workers search, *)
(* evaluate, authorize, post and write the outcome.  A crash forgets all   *)
(* but the rows; the webhook that was posted stays posted.                 *)
(*                                                                         *)
(* An occurrence of the schedule is one tick of the clock; the RunNow calls *)
(* of a tick read it at instants of their own, in any order.               *)
(***************************************************************************)
EXTENDS Integers, FiniteSets, SequencesExt

CONSTANTS
  Alert, Workers, Users,
  Tick,         \* the scheduler's own call of Step
  Capacity,     \* CoordinatorOptions.QueueCapacity
  ClaimLimit,   \* CoordinatorOptions.ClaimLimit
  MaxHistory,   \* MaximumRunHistory
  Verdicts,     \* the ways the searches may end
  MaxRuns,      \* bound: runs of each alert
  MaxNow,       \* bound: occurrences of the schedule
  MaxUpsets,    \* bound: calls of the alert API, calls that fail or whose answer
                \* is lost, restarts and shutdowns of the server, together
  None

SearchVerdicts == {"true", "false", "unsure", "failed", "canceled", "expired", "interrupted"}

ASSUME AlertRunsConstants ==
  /\ Verdicts \subseteq SearchVerdicts
  /\ Capacity \in Nat \ {0} /\ ClaimLimit \in Nat \ {0} /\ MaxHistory \in Nat \ {0}
  /\ IsFiniteSet(Alert) /\ IsFiniteSet(Users) /\ Tick \notin Users
  /\ IsFiniteSet(Workers) /\ Cardinality(Workers) \in 1 .. Capacity
  /\ {MaxRuns, MaxNow, MaxUpsets} \subseteq Nat

Run == Alert \X (1 .. MaxRuns)
Caller == Users \cup {Tick}

VARIABLES
  alerts, enabled,   \* durable: the alert rows, and those enabled
  next,              \* durable: next_run_at of each alert
  gen,               \* durable: secret_generation of each alert
  last,              \* durable: last_outcome and the time it is scheduled for
  outcome,           \* durable: outcome of each run row; none, or gone
  at, signedBy,      \* durable: scheduled_at and secret_generation of a run
  attached,          \* durable: runs with a search_job_id
  delivery,          \* durable: runs with a delivery_id
  search,            \* external: the search of each run
  posts, received,   \* external: POSTs sent for a run; runs whose POST arrived
  call,              \* each caller: where it is, slots held, runs to push
  slots, queue,      \* Coordinator.slots, Coordinator.queue
  work,              \* each worker: its run, where it is, what it will write
  phase,             \* of Close: open, closing, drained, closed
  deadline,          \* the grace period is over: completionContext cancelled
  lost,              \* history: runs committed by a claim that was reported failed
  now, upsets

alertRows == <<alerts, enabled, next, gen>>
runRows == <<last, outcome, at, signedBy, attached, delivery>>
outside == <<search, posts, received>>
memory == <<call, slots, queue, work>>
closing == <<phase, deadline>>
bounds == <<lost, now, upsets>>
vars == <<alertRows, runRows, outside, memory, closing, bounds>>

Finals == {"search_failed", "search_canceled", "search_expired", "not_triggered", "indeterminate",
           "delivered", "delivery_failed", "delivery_unknown", "delivery_skipped",
           "overlap_skipped", "interrupted"}
Steps == {"start", "attach", "poll", "extend", "secret", "authorize", "read", "post", "complete"}
Idle == [pc |-> "idle", held |-> 0, runs |-> <<>>, for |-> None]
Free == [run |-> None, pc |-> "idle", says |-> None]

Cancelled == phase # "open"
Rows(a) == {r \in Run : r[1] = a /\ outcome[r] \notin {"none", "gone"}}
Active(a) == {r \in Run : r[1] = a /\ outcome[r] = "active"}
Claimed(a) == {r \in Run : r[1] = a /\ outcome[r] # "none"}
NewRun(a) == <<a, Cardinality(Claimed(a)) + 1>>
Occurrence(n) == n * (MaxRuns + 1)
Time == 0 .. Occurrence(MaxNow + 1)
Busy == {w \in Workers : work[w].pc \in Steps}
Smaller(m, n) == IF m < n THEN m ELSE n

TypeOK ==
  /\ enabled \subseteq alerts /\ alerts \subseteq Alert
  /\ next \in [Alert -> 1 .. MaxNow + 1] /\ gen \in [Alert -> 1 .. MaxUpsets + 1]
  /\ last \in [Alert -> [at : Time, outcome : Finals \cup {"active", "none"}]]
  /\ outcome \in [Run -> Finals \cup {"none", "active", "gone"}]
  /\ at \in [Run -> Time] /\ signedBy \in [Run -> 0 .. MaxUpsets + 1]
  /\ attached \subseteq Run /\ delivery \subseteq Run /\ received \subseteq Run
  /\ search \in [Run -> SearchVerdicts \cup {"none", "running"}] /\ posts \in [Run -> 0 .. 2]
  /\ \A c \in Caller : call[c].pc \in {"idle", "claim", "push"} /\ call[c].held \in 0 .. Capacity
  /\ slots \in 0 .. Capacity /\ Len(queue) =< Capacity
  /\ \A w \in Workers : work[w].pc \in Steps \cup {"idle", "out"}
                        /\ work[w].says \in Finals \cup {None}
  /\ phase \in {"open", "closing", "drained", "closed"} /\ deadline \in BOOLEAN

Init ==
  /\ lost = {} /\ alerts = Alert /\ enabled = Alert /\ next = [a \in Alert |-> 1]
  /\ gen = [a \in Alert |-> 1] /\ last = [a \in Alert |-> [at |-> 0, outcome |-> "none"]]
  /\ outcome = [r \in Run |-> "none"] /\ at = [r \in Run |-> 0]
  /\ signedBy = [r \in Run |-> 0] /\ attached = {} /\ delivery = {}
  /\ search = [r \in Run |-> "none"] /\ posts = [r \in Run |-> 0] /\ received = {}
  /\ call = [c \in Caller |-> Idle] /\ slots = 0 /\ queue = <<>>
  /\ work = [w \in Workers |-> Free] /\ phase = "open" /\ deadline = FALSE
  /\ now = 0 /\ upsets = 0

\* A call may fail while the bound allows it; one under the executor's context
\* may also fail because that is cancelled.
Upset == upsets < MaxUpsets /\ upsets' = upsets + 1
Falters == IF Cancelled THEN UNCHANGED upsets ELSE Upset

-----------------------------------------------------------------------------
(* What the transactions write.                                             *)

\* Mutant: a run that ends late overwrites the status of a later occurrence.
SummarizedAlways(was, r, t, verdict) == [at |-> t, outcome |-> verdict]

\* The alert's last outcome is that of its latest scheduled occurrence.
Summarized(was, r, t, verdict) ==
  IF was.at =< t THEN [at |-> t, outcome |-> verdict] ELSE was

\* The finished rows of an alert beyond its history, oldest occurrences first.
Pruned(a, verdicts, times) ==
  LET kept == {r \in Run : r[1] = a /\ verdicts[r] \in Finals}
      newer(r) == {s \in kept : times[s] > times[r]}
  IN  {r \in kept : Cardinality(newer(r)) >= MaxHistory}

\* The rows of the alerts after some of their runs were written.
Written(as, verdicts, times) ==
  LET gone == UNION {Pruned(a, verdicts, times) : a \in as}
  IN  [r \in Run |-> IF r \in gone THEN "gone" ELSE verdicts[r]]

\* Only one run of an alert may be active; a further one is an overlap.
ClaimVerdict(a) == IF Active(a) = {} THEN "active" ELSE "overlap_skipped"

\* Claiming the alerts in set as, all scheduled for time t.
Claim(as, t) ==
  LET new == {NewRun(a) : a \in as}
      verdicts == [r \in Run |-> IF r \in new THEN ClaimVerdict(r[1]) ELSE outcome[r]]
      times == [r \in Run |-> IF r \in new THEN t ELSE at[r]]
  IN  /\ as \subseteq alerts /\ new \subseteq Run
      /\ at' = times
      /\ outcome' = Written({a \in as : Active(a) # {}}, verdicts, times)
      /\ signedBy' = [r \in Run |-> IF r \in new THEN gen[r[1]] ELSE signedBy[r]]
      /\ last' = [a \in Alert |-> IF a \in as THEN Summarized(last[a], NewRun(a), t, ClaimVerdict(a))
                                              ELSE last[a]]

-----------------------------------------------------------------------------
(* Step and RunNow: reserve, claim, push.                                   *)

Reserve(c, n, a) ==
  /\ call[c] = Idle /\ ~Cancelled /\ n > 0 /\ slots + n =< Capacity
  /\ slots' = slots + n
  /\ call' = [call EXCEPT ![c] = [pc |-> "claim", held |-> n, runs |-> <<>>, for |-> a]]
  /\ UNCHANGED <<alertRows, runRows, outside, queue, work, closing, bounds>>

StepBegins == Reserve(Tick, Smaller(ClaimLimit, Capacity - slots), None)
RunNowBegins(u) == \E a \in Alert : Reserve(u, 1, a)

\* The slots of the runs to push stay with the caller, the others are released.
Return(c, runs) ==
  /\ slots' = slots - (call[c].held - Len(runs))
  /\ call' = [call EXCEPT ![c] = IF runs = <<>> THEN Idle
                ELSE [pc |-> "push", held |-> Len(runs), runs |-> runs, for |-> None]]

Due == {a \in alerts \cap enabled : next[a] =< now}

\* The due alerts whose occurrence is the earliest, as many as there are slots.
DueFirst(n) == {d \in SUBSET Due :
  /\ Cardinality(d) = Smaller(n, Cardinality(Due))
  /\ \A a \in d, b \in Due \ d : next[a] =< next[b]}

\* Missed occurrences are coalesced: the run is scheduled for the latest one.
ClaimDue ==
  /\ call[Tick].pc = "claim"
  /\ \E d \in DueFirst(call[Tick].held) :
       /\ Claim(d, Occurrence(now))
       /\ next' = [a \in Alert |-> IF a \in d THEN now + 1 ELSE next[a]]
       /\ \/ Return(Tick, SetToSeq({NewRun(a) : a \in {b \in d : Active(b) = {}}}))
             /\ UNCHANGED <<upsets, lost>>
          \/ d # {} /\ Falters /\ Return(Tick, <<>>) /\ lost' = lost \cup {NewRun(a) : a \in d}
  /\ UNCHANGED <<alerts, enabled, gen, attached, delivery, outside, queue, work, closing,
                 now>>

\* An immediate run leaves the cursor of the schedule alone.
ClaimRunNow(u) ==
  /\ call[u].pc = "claim" /\ call[u].for \in alerts
  /\ LET a == call[u].for IN
       /\ \E i \in 1 .. MaxRuns :
            /\ \A r \in Claimed(a) : at[r] # Occurrence(now) + i
            /\ Claim({a}, Occurrence(now) + i)
       /\ \/ Return(u, IF Active(a) = {} THEN <<NewRun(a)>> ELSE <<>>)
             /\ UNCHANGED <<upsets, lost>>
          \/ Falters /\ Return(u, <<>>) /\ lost' = lost \cup {NewRun(a)}
  /\ UNCHANGED <<alertRows, attached, delivery, outside, queue, work, closing,
                 now>>

\* The transaction fails, or the alert of a RunNow is not there any more.
ClaimFails(c) ==
  /\ call[c].pc = "claim"
  /\ IF c \in Users /\ call[c].for \notin alerts THEN UNCHANGED upsets ELSE Falters
  /\ Return(c, <<>>)
  /\ UNCHANGED <<alertRows, runRows, outside, queue, work, closing, lost, now>>

Push(c) ==
  /\ call[c].pc = "push" /\ Len(queue) < Capacity
  /\ queue' = Append(queue, Head(call[c].runs))
  /\ LET rest == Tail(call[c].runs) IN
       call' = [call EXCEPT ![c] = IF rest = <<>> THEN Idle
                  ELSE [@ EXCEPT !.runs = rest, !.held = Len(rest)]]
  /\ UNCHANGED <<alertRows, runRows, outside, slots, work, closing, bounds>>

-----------------------------------------------------------------------------
(* A worker executes a run.                                                 *)

At(w, pc) == work[w].pc = pc
Goes(w, pc) == work' = [work EXCEPT ![w].pc = pc]
Says(w, verdict) == work' = [work EXCEPT ![w].pc = "complete", ![w].says = verdict]
Elsewhere == <<alertRows, call, slots, queue, closing, lost, now>>

Take(w) ==
  /\ work[w] = Free /\ queue # <<>>
  /\ work' = [work EXCEPT ![w] = [run |-> Head(queue), pc |-> "start", says |-> None]]
  /\ queue' = Tail(queue)
  /\ UNCHANGED <<alertRows, runRows, outside, call, slots, closing, bounds>>

\* Admission of the search; a server that is stopping does not begin one.
Start(w) ==
  /\ At(w, "start")
  /\ \/ Cancelled /\ Says(w, "interrupted") /\ UNCHANGED <<search, upsets>>
     \/ ~Cancelled /\ search' = [search EXCEPT ![work[w].run] = "running"]
        /\ Goes(w, "attach") /\ UNCHANGED upsets
     \/ ~Cancelled /\ Upset /\ Says(w, "search_failed") /\ UNCHANGED search
  /\ UNCHANGED <<Elsewhere, runRows, posts, received>>

Attach(w) ==
  /\ At(w, "attach")
  /\ LET r == work[w].run IN
       \/ outcome[r] = "active" /\ attached' = attached \cup {r}
          /\ \/ Goes(w, "poll") /\ UNCHANGED upsets
             \/ Falters /\ Says(w, "search_failed")
       \/ Falters /\ Says(w, "search_failed") /\ UNCHANGED attached
  /\ UNCHANGED <<Elsewhere, last, outcome, at, signedBy, delivery, outside>>

\* What a run is whose search ended, and whose condition was evaluated.
Judgement(verdict) ==
  CASE verdict = "true" -> "triggered"
    [] verdict = "false" -> "not_triggered"
    [] verdict = "unsure" -> "indeterminate"
    [] verdict = "failed" -> "search_failed"
    [] verdict = "canceled" -> "search_canceled"
    [] verdict = "expired" -> "search_expired"
    [] verdict = "interrupted" -> "interrupted"

\* The poller reads the search until it is over, which is when SearchJobs says,
\* a read fails or the executor is cancelled; a triggered run checks once more.
Poll(w) ==
  /\ At(w, "poll")
  /\ \/ \E verdict \in Verdicts :
          /\ search' = [search EXCEPT ![work[w].run] = verdict]
          /\ IF Judgement(verdict) # "triggered" THEN Says(w, Judgement(verdict))
             ELSE IF Cancelled THEN Says(w, "interrupted")
             ELSE Goes(w, "extend")
          /\ UNCHANGED upsets
     \/ Cancelled /\ Says(w, "interrupted") /\ UNCHANGED <<search, upsets>>
     \/ ~Cancelled /\ Upset /\ Says(w, "search_failed") /\ UNCHANGED search
  /\ UNCHANGED <<Elsewhere, runRows, posts, received>>

\* The link to the results, then their retention.
Extend(w) ==
  /\ At(w, "extend")
  /\ \/ Goes(w, "secret") /\ UNCHANGED upsets
     \/ Falters /\ Says(w, "delivery_failed")
  /\ UNCHANGED <<Elsewhere, runRows, outside>>

\* The first look at the secret's generation, outside the transaction.
CheckSecret(w) ==
  /\ At(w, "secret")
  /\ LET r == work[w].run IN
       \/ gen[r[1]] = signedBy[r] /\ Goes(w, "authorize") /\ UNCHANGED upsets
       \/ gen[r[1]] # signedBy[r] /\ Says(w, "delivery_skipped") /\ UNCHANGED upsets
       \/ Falters /\ Says(w, "delivery_failed")
  /\ UNCHANGED <<Elsewhere, runRows, outside>>

\* One transaction compares the generation again and records the delivery;
\* afterwards the answer may be lost, or the secret not open.
Authorize(w) ==
  /\ At(w, "authorize")
  /\ LET r == work[w].run
         current == gen[r[1]] = signedBy[r]
         first == outcome[r] = "active" /\ r \notin delivery IN
       \/ current /\ first /\ delivery' = delivery \cup {r}
          /\ \/ Goes(w, "read") /\ UNCHANGED upsets
             \/ Falters /\ Says(w, "delivery_failed")
       \/ current /\ ~first /\ Says(w, IF r \in delivery THEN "delivery_unknown" ELSE "delivery_failed")
          /\ UNCHANGED <<delivery, upsets>>
       \/ ~current /\ Says(w, "delivery_skipped") /\ UNCHANGED <<delivery, upsets>>
       \/ Falters /\ Says(w, "delivery_failed") /\ UNCHANGED delivery
  /\ UNCHANGED <<Elsewhere, last, outcome, at, signedBy, attached, outside>>

\* The sample of the results for the payload.
ReadResults(w) ==
  /\ At(w, "read")
  /\ \/ Goes(w, "post") /\ UNCHANGED upsets
     \/ Falters /\ Says(w, "delivery_unknown")
  /\ UNCHANGED <<Elsewhere, runRows, outside>>

\* One POST: accepted, or refused, or it arrived and its answer did not.
Post(w) ==
  /\ At(w, "post")
  /\ LET r == work[w].run IN
       /\ posts' = [posts EXCEPT ![r] = Smaller(2, @ + 1)]
       /\ \/ received' = received \cup {r} /\ Says(w, "delivered")
          \/ received' \in {received, received \cup {r}} /\ Says(w, "delivery_failed")
  /\ UNCHANGED <<Elsewhere, runRows, search, upsets>>

\* The worker lets go of the run and of its slot.
Leaves(w) == work' = [work EXCEPT ![w] = Free] /\ slots' = slots - 1

Settle(r, verdict) ==
  LET verdicts == [outcome EXCEPT ![r] = verdict] IN
  /\ outcome' = Written({r[1]}, verdicts, at)
  /\ last' = [last EXCEPT ![r[1]] = Summarized(@, r, at[r], verdict)]

\* Mutant: an attempt that failed is not repeated.
CompleteOnce(w) ==
  /\ At(w, "complete")
  /\ LET r == work[w].run IN
       \/ outcome[r] = "active" /\ Settle(r, work[w].says) /\ Leaves(w) /\ UNCHANGED upsets
       \/ Upset /\ Leaves(w) /\ UNCHANGED <<outcome, last>>
  /\ UNCHANGED <<alertRows, at, signedBy, attached, delivery, outside, call, queue, closing,
                 lost, now>>

\* An attempt is repeated until it is answered; a row that is final already
\* ends it too, whether it says the same or something else.
Complete(w) ==
  /\ At(w, "complete")
  /\ LET r == work[w].run IN
       \/ outcome[r] = "active" /\ Settle(r, work[w].says)
          /\ \/ Leaves(w) /\ UNCHANGED upsets
             \/ Upset /\ UNCHANGED <<work, slots>>
       \/ outcome[r] # "active" /\ Leaves(w) /\ UNCHANGED <<outcome, last, upsets>>
       \/ ~deadline /\ Upset /\ UNCHANGED <<outcome, last, work, slots>>
       \/ deadline /\ Leaves(w) /\ UNCHANGED <<outcome, last, upsets>>
  /\ UNCHANGED <<alertRows, at, signedBy, attached, delivery, outside, call, queue, closing,
                 lost, now>>

-----------------------------------------------------------------------------
(* The API, the clock, shutdown and restart.                                *)

Around == <<outside, memory, closing, lost, now>>

RotateSecret(a) ==
  /\ a \in alerts /\ Upset
  /\ gen' = [gen EXCEPT ![a] = @ + 1]
  /\ UNCHANGED <<alerts, enabled, next, runRows, Around>>

\* Enabling, and an update of an enabled alert, schedule it from now on.
SetState(a) ==
  /\ a \in alerts /\ Upset
  /\ IF a \in enabled THEN enabled' = enabled \ {a} /\ UNCHANGED next
     ELSE enabled' = enabled \cup {a} /\ next' = [next EXCEPT ![a] = now + 1]
  /\ UNCHANGED <<alerts, gen, runRows, Around>>

Update(a) ==
  /\ a \in enabled /\ Upset
  /\ next' = [next EXCEPT ![a] = now + 1]
  /\ UNCHANGED <<alerts, enabled, gen, runRows, Around>>

\* The rows of its runs go with it.
DeleteIfIdle(a) ==
  /\ a \in alerts /\ Active(a) = {} /\ Upset
  /\ alerts' = alerts \ {a} /\ enabled' = enabled \ {a}
  /\ outcome' = [r \in Run |-> IF r \in Rows(a) THEN "gone" ELSE outcome[r]]
  /\ UNCHANGED <<next, gen, last, at, signedBy, attached, delivery, Around>>

Passes ==
  /\ now < MaxNow /\ now' = now + 1
  /\ UNCHANGED <<alertRows, runRows, outside, memory, closing, lost, upsets>>

CloseBegins ==
  /\ phase = "open" /\ phase' = "closing" /\ Upset
  /\ UNCHANGED <<alertRows, runRows, outside, memory, deadline, lost, now>>

\* Mutant: the queue is closed without waiting for the calls in progress.
CloseQueueEarly ==
  /\ phase = "closing" /\ phase' = "drained"
  /\ UNCHANGED <<alertRows, runRows, outside, memory, deadline, bounds>>

CloseQueue ==
  /\ phase = "closing" /\ \A c \in Caller : call[c] = Idle
  /\ phase' = "drained"
  /\ UNCHANGED <<alertRows, runRows, outside, memory, deadline, bounds>>

Leave(w) ==
  /\ phase = "drained" /\ work[w] = Free /\ queue = <<>>
  /\ work' = [work EXCEPT ![w].pc = "out"]
  /\ UNCHANGED <<alertRows, runRows, outside, call, slots, queue, closing, bounds>>

GraceEnds ==
  /\ phase \in {"closing", "drained"} /\ ~deadline /\ deadline' = TRUE
  /\ UNCHANGED <<alertRows, runRows, outside, memory, phase, bounds>>

CloseEnds ==
  /\ phase = "drained" /\ \A w \in Workers : At(w, "out")
  /\ phase' = "closed"
  /\ UNCHANGED <<alertRows, runRows, outside, memory, deadline, bounds>>

Unfinished == {r \in Run : outcome[r] = "active"}

\* The process ends, crashed or stopped, and its successor recovers the rows
\* before it claims anything.
Restart ==
  /\ Upset
  /\ LET verdicts == [r \in Run |-> IF r \in Unfinished THEN "interrupted" ELSE outcome[r]]
         hit == {r[1] : r \in Unfinished}
     IN  /\ outcome' = Written(hit, verdicts, at)
         /\ last' = [a \in Alert |->
              IF a \notin hit THEN last[a]
              ELSE LET r == CHOOSE r \in Active(a) : TRUE
                   IN  Summarized(last[a], r, at[r], "interrupted")]
  /\ call' = [c \in Caller |-> Idle] /\ slots' = 0 /\ queue' = <<>>
  /\ work' = [w \in Workers |-> Free] /\ phase' = "open" /\ deadline' = FALSE
  /\ UNCHANGED <<alertRows, at, signedBy, attached, delivery, outside, lost, now>>

-----------------------------------------------------------------------------
Submit ==
  \/ StepBegins \/ ClaimDue
  \/ \E u \in Users : RunNowBegins(u) \/ ClaimRunNow(u)
  \/ \E c \in Caller : ClaimFails(c) \/ Push(c)

Execute(w) ==
  \/ Take(w) \/ Start(w) \/ Attach(w) \/ Poll(w) \/ Extend(w) \/ CheckSecret(w)
  \/ Authorize(w) \/ ReadResults(w) \/ Post(w) \/ Complete(w) \/ Leave(w)

Next ==
  \/ Submit
  \/ \E w \in Workers : Execute(w)
  \/ \E a \in Alert : RotateSecret(a) \/ SetState(a) \/ Update(a) \/ DeleteIfIdle(a)
  \/ Passes \/ CloseBegins \/ CloseQueue \/ GraceEnds \/ CloseEnds \/ Restart

Spec == Init /\ [][Next]_vars

\* Calls in progress and workers go on; a search that was admitted ends, which
\* is what SearchJobs shows.
FairSpec ==
  /\ Spec
  /\ WF_vars(ClaimDue) /\ \A u \in Users : WF_vars(ClaimRunNow(u))
  /\ \A c \in Caller : WF_vars(ClaimFails(c)) /\ WF_vars(Push(c))
  /\ \A w \in Workers : WF_vars(Execute(w))
  /\ WF_vars(CloseQueue) /\ WF_vars(CloseEnds)

-----------------------------------------------------------------------------
(* Properties.                                                              *)

\* "Delivery is one best-effort HTTPS POST with ... no retry": however a run is
\* interrupted, recovered or completed again, it posts at most once, for a search
\* that completed with a true condition and after its delivery was recorded, and
\* its row never says that nothing was delivered.
OnePost ==
  \A r \in Run : posts[r] > 0 =>
    /\ posts[r] = 1
    /\ r \in delivery \cap attached /\ search[r] = "true"
    /\ outcome[r] \in {"active", "delivered", "delivery_failed", "interrupted", "gone"}

\* The alert shows the outcome of its latest scheduled run, in whatever order
\* the runs of a late occurrence and of RunNow are claimed and completed.
LastOutcomeIsLatest ==
  \A a \in alerts : Rows(a) # {} =>
    \E r \in Rows(a) : /\ \A s \in Rows(a) : at[s] =< at[r]
                       /\ last[a] = [at |-> at[r], outcome |-> outcome[r]]

\* The outcome of a run is what happened to its search and to its POST, and the
\* alert shows that of its latest run.
OutcomeIsTrue ==
  /\ OnePost /\ LastOutcomeIsLatest
  /\ \A r \in Run :
       /\ outcome[r] = "delivered" => r \in received /\ search[r] = "true"
       /\ outcome[r] = "not_triggered" => search[r] = "false"
       /\ outcome[r] = "delivery_skipped" => gen[r[1]] > signedBy[r] /\ r \notin delivery
       /\ outcome[r] = "overlap_skipped" => search[r] = "none"

\* The slots in the hands of callers, each caller's numbered.
HeldSlots == {x \in Caller \X (1 .. Capacity) : x[2] =< call[x[1]].held}

\* Every slot taken is that of a run claimed, queued or executed, so that none
\* leaks and a push finds room in the queue.
SlotsBalance ==
  /\ slots = Cardinality(HeldSlots) + Len(queue) + Cardinality(Busy)
  /\ \A c \in Caller : call[c].pc = "push" => Len(queue) < Capacity

\* An active run is with exactly one of the caller that claimed it, the queue
\* and a worker, unless its claim was reported failed or a shutdown ran out of
\* its grace period.
ActiveIsHeld ==
  \A r \in Unfinished \ lost : deadline
    \/ Cardinality({c \in Caller : r \in Range(call[c].runs)})
       + Cardinality({i \in 1 .. Len(queue) : queue[i] = r})
       + Cardinality({w \in Busy : work[w].run = r}) = 1

\* An alert has one active run at most, whoever claimed it, with one holder and
\* one slot; after Close nothing is held that could still touch the repository.
RunsAreHeld ==
  /\ \A a \in Alert : Cardinality(Active(a)) =< 1
  /\ ActiveIsHeld /\ SlotsBalance
  /\ phase = "closed" => queue = <<>> /\ slots = 0 /\ Busy = {} /\ \A c \in Caller : call[c] = Idle

\* An outcome is final, and an active run is not deleted with its alert.
OutcomesAdvance ==
  [][\A r \in Run : /\ outcome[r] \in Finals => outcome'[r] \in {outcome[r], "gone"}
                    /\ outcome[r] = "active" => outcome'[r] \in Finals \cup {"active", "gone"}
                    /\ outcome[r] = "active" /\ outcome'[r] = "gone" => r[1] \in alerts'
     ]_vars

\* Rotation is a line: a delivery is recorded only while the run's generation
\* of the secret is the alert's, also when they parted after the first look.
OnlyCurrentSecret ==
  [][\A r \in delivery' \ delivery : gen[r[1]] = signedBy[r] /\ outcome[r] = "active"]_vars

\* Every claimed run ends, so that the alert is not skipped for ever and can be
\* deleted: except one whose claim was reported failed, and those a shutdown ran
\* out of its grace period with, which wait for the next start.
EveryRunEnds ==
  \A r \in Run : outcome[r] = "active" ~> outcome[r] # "active" \/ r \in lost \/ deadline

\* A claim that was reported as failed leaves no active run behind, though its
\* transaction committed (coordinator.go Step; does not hold before a restart).
FailedClaimEnds == \A r \in Run : r \in lost ~> r \notin Unfinished

\* Close joins every submission and every worker.
ShutdownEnds == phase = "closing" ~> phase # "closing" /\ phase # "drained"
=============================================================================
