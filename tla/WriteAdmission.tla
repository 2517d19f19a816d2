---------------------------- MODULE WriteAdmission ----------------------------
(***************************************************************************)
(* The admission gate of the ClickHouse store and what it protects         *)
(* (internal/clickhouse/write_admission.go, and closeContext in store.go). *)
(*                                                                         *)
(* Writers (Store, Stage, RejectBatch, and the reconciler behind its slot) *)
(* share the gate; WithWritesFrozen holds it exclusively while a callback  *)
(* drains the durable outbox and then deletes index data.  A goroutine     *)
(* that has to wait parks on the channel "changed" and runs again only     *)
(* when notifyLocked closes that channel, or when its context ends.        *)
(*                                                                         *)
(* The outbox is the set of writers whose batch is staged and not yet      *)
(* committed.  Everything done under the gate's mutex is one action.       *)
(***************************************************************************)
EXTENDS Integers, FiniteSets, SequencesExt

CONSTANTS
    Submitters,   \* goroutines in Store
    Reconcilers,  \* goroutines that replay the outbox behind reconcileSlot
    Worker,       \* the reconciler that Close joins
    Freezers,     \* goroutines in WithWritesFrozen
    Closer,       \* the goroutine in CloseContext
    Tasks,        \* goroutines that use a FrozenWrites capability
    NoOne

VARIABLES
    active,         \* writers inside the gate
    frozen,         \* a freeze holds the gate
    closed,         \* the gate is closed
    waiters,        \* queued freezes, oldest first
    writer,         \* where each writer is
    reconcileSlot,  \* the reconciler that holds the slot
    freezer,        \* where each freeze is
    capability,     \* [valid, drained] of each frozenWrites
    task,           \* [pc, op, of] of each privileged operation
    outbox,         \* staged batches that are not committed
    closer,         \* progress of closeContext
    late            \* closeContext ran out of its budget

gateVars == <<active, frozen, closed, waiters>>
processVars == <<writer, freezer>>
vars == <<gateVars, processVars, reconcileSlot, capability, task, outbox, closer, late>>

Writers == Submitters \cup Reconcilers
Freezes == Freezers \cup {Closer}

ASSUME ProcessesAssumption ==
    /\ IsFiniteSet(Writers)
    /\ Submitters \cap Reconcilers = {}
    /\ Worker \in Reconcilers
    /\ Closer \notin Freezers
    /\ NoOne \notin Writers \cup Freezes

Operations == {"drain", "maintain"}
IdleTask == [pc |-> "idle", op |-> "drain", of |-> NoOne]
NoCapability == [valid |-> FALSE, drained |-> FALSE]

\* beginOperation refuses every call once closeContext has started.
StoreOpen == closer = "open"

\* lifecycleCancel ends the context of every operation, and reconcileCancel
\* that of the worker.
Cancelled(p) == closer \in {"waiting", "closed"} \/ (p = Worker /\ ~ StoreOpen)

(***************************************************************************)
(* The gate                                                                *)
(***************************************************************************)
\* notifyLocked: every parked goroutine looks at the gate again; wr and fr are
\* the positions the action gives to its own goroutine.
NotifyLocked(wr, fr) ==
    /\ writer' = [w \in Writers |-> IF wr[w] = "parked" THEN "entering" ELSE wr[w]]
    /\ freezer' = [f \in Freezes |-> IF fr[f] = "queued" THEN "woken" ELSE fr[f]]

NotifyIf(condition, wr, fr) ==
    IF condition THEN NotifyLocked(wr, fr) ELSE writer' = wr /\ freezer' = fr

IsHead(f) == waiters # <<>> /\ Head(waiters) = f

RemoveWaiterLocked(f) ==
    \E i \in 1..Len(waiters) : waiters[i] = f /\ waiters' = RemoveAt(waiters, i)

(***************************************************************************)
(* Writers                                                                 *)
(***************************************************************************)
WriterTo(w, pc) == [writer EXCEPT ![w] = pc]
NotWriting == <<capability, task, closer, late>>

\* Seeded fault: the call is counted after Close began.
BeginWriteAfterClose(w) ==
    /\ writer[w] = "out"
    /\ writer' = WriterTo(w, "entering")
    /\ UNCHANGED <<gateVars, freezer, reconcileSlot, outbox, NotWriting>>

\* beginOperation.  A reconciler takes its slot before it joins the gate.
BeginWrite(w) ==
    /\ StoreOpen /\ writer[w] = "out"
    /\ writer' = WriterTo(w, IF w \in Reconcilers THEN "slot" ELSE "entering")
    /\ UNCHANGED <<gateVars, freezer, reconcileSlot, outbox, NotWriting>>

TakeReconcileSlot(w) ==
    /\ writer[w] = "slot" /\ reconcileSlot = NoOne
    /\ reconcileSlot' = w
    /\ writer' = WriterTo(w, "entering")
    /\ UNCHANGED <<gateVars, freezer, outbox, NotWriting>>

\* Seeded fault: a writer that ignores the freeze.
EnterFrozen(w) ==
    /\ writer[w] = "entering" /\ ~ closed /\ waiters = <<>>
    /\ active' = active + 1
    /\ writer' = WriterTo(w, "in")
    /\ UNCHANGED <<frozen, closed, waiters, freezer, reconcileSlot, outbox, NotWriting>>

Enter(w) ==
    /\ writer[w] = "entering"
    /\ ~ closed /\ ~ frozen /\ waiters = <<>>
    /\ active' = active + 1
    /\ writer' = WriterTo(w, "in")
    /\ UNCHANGED <<frozen, closed, waiters, freezer, reconcileSlot, outbox, NotWriting>>

Park(w) ==
    /\ writer[w] = "entering"
    /\ ~ closed /\ (frozen \/ waiters # <<>>)
    /\ writer' = WriterTo(w, "parked")
    /\ UNCHANGED <<gateVars, freezer, reconcileSlot, outbox, NotWriting>>

ReturnSlot(w) == reconcileSlot' = IF reconcileSlot = w THEN NoOne ELSE reconcileSlot

\* ErrStoreClosed, or the context of the call ended while it waited.
Refuse(w) ==
    /\ \/ writer[w] = "entering" /\ closed
       \/ writer[w] \in {"slot", "entering", "parked", "waiting"}
             /\ (w \in Submitters \/ Cancelled(w))
    /\ writer' = WriterTo(w, "out")
    /\ ReturnSlot(w)
    /\ UNCHANGED <<gateVars, freezer, outbox, NotWriting>>

\* reserveForGroupedStore.
Stage(w) ==
    /\ w \in Submitters /\ writer[w] = "in"
    /\ outbox' = outbox \cup {w}
    /\ writer' = WriterTo(w, "staged")
    /\ UNCHANGED <<gateVars, freezer, reconcileSlot, NotWriting>>

\* One committed batch of reconcileWriteGroups.
Reconcile(w, b) ==
    /\ w \in Reconcilers /\ writer[w] = "in"
    /\ b \in outbox /\ outbox' = outbox \ {b}
    /\ UNCHANGED <<gateVars, processVars, reconcileSlot, NotWriting>>

\* Seeded fault: the outcome is awaited inside the gate.
LeaveAnswered(w) ==
    /\ writer[w] \in {"in", "staged"} /\ w \notin outbox
    /\ active' = active - 1
    /\ NotifyIf(active' = 0 /\ waiters # <<>>, WriterTo(w, "out"), freezer)
    /\ ReturnSlot(w)
    /\ UNCHANGED <<frozen, closed, waiters, outbox, NotWriting>>

\* leave.  storeGrouped leaves the gate before it waits for the outcome.
Leave(w) ==
    /\ writer[w] \in {"in", "staged"}
    /\ active' = active - 1
    /\ NotifyIf(active' = 0 /\ waiters # <<>>,
                WriterTo(w, IF writer[w] = "staged" THEN "waiting" ELSE "out"), freezer)
    /\ ReturnSlot(w)
    /\ UNCHANGED <<frozen, closed, waiters, outbox, NotWriting>>

\* The durable outcome is there.
Answer(w) ==
    /\ writer[w] = "waiting" /\ w \notin outbox
    /\ writer' = WriterTo(w, "out")
    /\ UNCHANGED <<gateVars, freezer, reconcileSlot, outbox, NotWriting>>

(***************************************************************************)
(* Freezes                                                                 *)
(***************************************************************************)
FreezerTo(f, pc) == [freezer EXCEPT ![f] = pc]
NotFreezing == <<reconcileSlot, outbox, closer, late>>

BeginFreeze(f) ==
    /\ f \in Freezers /\ StoreOpen /\ freezer[f] = "out"
    /\ freezer' = FreezerTo(f, "beginning")
    /\ UNCHANGED <<gateVars, writer, capability, task, NotFreezing>>

\* The freeze holds the gate; WithWritesFrozen makes a new capability.
Granted(f) ==
    /\ frozen' = TRUE
    /\ freezer' = FreezerTo(f, "holding")
    /\ capability' = [capability EXCEPT ![f] = [valid |-> TRUE, drained |-> FALSE]]

\* freeze joins the queue and, in the same critical section, looks at the gate.
QueueFreeze(f) ==
    /\ freezer[f] = "beginning" /\ ~ closed
    /\ IF waiters = <<>> /\ active = 0 /\ ~ frozen
       THEN Granted(f) /\ UNCHANGED waiters
       ELSE /\ waiters' = Append(waiters, f)
            /\ freezer' = FreezerTo(f, "queued")
            /\ UNCHANGED <<frozen, capability>>
    /\ UNCHANGED <<active, closed, writer, task, NotFreezing>>

\* A woken freeze takes the gate if it is its turn, or parks again.
RetryFreeze(f) ==
    /\ freezer[f] = "woken" /\ ~ closed
    /\ IF IsHead(f) /\ active = 0 /\ ~ frozen
       THEN RemoveWaiterLocked(f) /\ Granted(f)
       ELSE freezer' = FreezerTo(f, "queued") /\ UNCHANGED <<waiters, frozen, capability>>
    /\ UNCHANGED <<active, closed, writer, task, NotFreezing>>

\* Seeded fault: a cancelled head tells nobody.
CancelFreezeSilently(f) ==
    /\ freezer[f] \in {"queued", "woken"} /\ ~ closed
    /\ RemoveWaiterLocked(f)
    /\ freezer' = FreezerTo(f, "out")
    /\ UNCHANGED <<writer, active, frozen, closed, capability, task, reconcileSlot, outbox>>

\* The context ended in the queue: a head that leaves lets the others look again.
CancelFreeze(f) ==
    /\ freezer[f] \in {"queued", "woken"} /\ ~ closed
    /\ RemoveWaiterLocked(f)
    /\ NotifyIf(IsHead(f), writer, FreezerTo(f, "out"))
    /\ UNCHANGED <<active, frozen, closed, capability, task, reconcileSlot, outbox>>

\* The context ended, before or after the freeze was queued.
GiveUpFreeze(f) ==
    \/ CancelFreeze(f)
    \/ /\ freezer[f] = "beginning"
       /\ freezer' = FreezerTo(f, "out")
       /\ UNCHANGED <<gateVars, writer, capability, task, reconcileSlot, outbox>>

AbandonFreeze(f) == f \in Freezers /\ GiveUpFreeze(f) /\ UNCHANGED <<closer, late>>

RefuseFreeze(f) ==
    /\ closed
    /\ \/ freezer[f] = "beginning" /\ UNCHANGED waiters
       \/ freezer[f] \in {"queued", "woken"} /\ RemoveWaiterLocked(f)
    /\ freezer' = FreezerTo(f, "out")
    /\ UNCHANGED <<active, frozen, closed, writer, capability, task, NotFreezing>>

\* The callback returned: invalidate, which then waits for its operations.
EndCallback(f) ==
    /\ f \in Freezers /\ freezer[f] = "holding"
    /\ freezer' = FreezerTo(f, "invalidating")
    /\ capability' = [capability EXCEPT ![f].valid = FALSE]
    /\ UNCHANGED <<gateVars, writer, task, NotFreezing>>

TasksOf(f) == {t \in Tasks : task[t].of = f}

\* Seeded fault: invalidate does not wait.
ReleaseFreezeEarly(f) ==
    /\ freezer[f] = "invalidating"
    /\ frozen' = FALSE
    /\ NotifyLocked(writer, FreezerTo(f, "out"))
    /\ UNCHANGED <<active, closed, waiters, capability, task, NotFreezing>>

ReleaseFreeze(f) ==
    /\ freezer[f] = "invalidating" /\ TasksOf(f) = {}
    /\ frozen' = FALSE
    /\ NotifyLocked(writer, FreezerTo(f, "out"))
    /\ UNCHANGED <<active, closed, waiters, capability, task, NotFreezing>>

(***************************************************************************)
(* Privileged operations of a callback                                     *)
(***************************************************************************)
NotTask == <<gateVars, processVars, reconcileSlot, closer, late>>
Running(f) == {t \in TasksOf(f) : task[t].pc = "running"}
TaskDone(t) == task' = [task EXCEPT ![t] = IdleTask]

\* beginPrivilegedOperation, up to its wait for drainSlot.
BeginTask(t, f, op) ==
    /\ task[t].pc = "idle"
    /\ capability[f].valid /\ f # Closer
    /\ task' = [task EXCEPT ![t] = [pc |-> "waiting", op |-> op, of |-> f]]
    /\ UNCHANGED <<NotTask, capability, outbox>>

\* It got drainSlot: the capability is checked again.
StartTask(t) ==
    LET f == task[t].of
    IN  /\ task[t].pc = "waiting" /\ Running(f) = {}
        /\ IF capability[f].valid /\ (task[t].op = "drain" \/ capability[f].drained)
           THEN /\ task' = [task EXCEPT ![t].pc = "running"]
                /\ capability' = [capability EXCEPT ![f].drained = @ /\ task[t].op # "drain"]
           ELSE TaskDone(t) /\ UNCHANGED capability
        /\ UNCHANGED <<NotTask, outbox>>

AbandonTask(t) ==
    /\ task[t].pc = "waiting"
    /\ TaskDone(t)
    /\ UNCHANGED <<NotTask, capability, outbox>>

\* Seeded fault: the drain queues for reconcileSlot.
FinishDrainInSlot(t) ==
    /\ task[t].pc = "running" /\ task[t].op = "drain"
    /\ reconcileSlot = NoOne
    /\ TaskDone(t)
    /\ outbox' = {}
    /\ capability' = [capability EXCEPT ![task[t].of].drained = TRUE]
    /\ UNCHANGED NotTask

\* DrainPending replays the outbox without reconcileSlot, and has drained it
\* only if PendingUsage then proves it empty.
FinishDrain(t) ==
    /\ task[t].pc = "running" /\ task[t].op = "drain"
    /\ TaskDone(t)
    /\ outbox' \in SUBSET outbox
    /\ \/ outbox' = {} /\ capability' = [capability EXCEPT ![task[t].of].drained = TRUE]
       \/ UNCHANGED capability
    /\ UNCHANGED NotTask

\* IndexDataDeletionTarget or AdvanceIndexDataDeletion.
FinishMaintenance(t) ==
    /\ task[t].pc = "running" /\ task[t].op = "maintain"
    /\ TaskDone(t)
    /\ UNCHANGED <<NotTask, capability, outbox>>

(***************************************************************************)
(* closeContext                                                            *)
(***************************************************************************)
NotClosing == <<active, capability, task, reconcileSlot>>

BeginClose ==
    /\ closer = "open" /\ closer' = "joining"
    /\ UNCHANGED <<gateVars, processVars, NotClosing, outbox, late>>

\* The worker is gone, so it cannot keep reconcileSlot behind the freeze.
JoinWorker ==
    /\ closer = "joining" /\ writer[Worker] = "out"
    /\ closer' = "freezing"
    /\ freezer' = FreezerTo(Closer, "beginning")
    /\ UNCHANGED <<gateVars, writer, NotClosing, outbox, late>>

CloseDrains ==
    /\ closer = "freezing" /\ freezer[Closer] = "holding"
    /\ outbox' \in SUBSET outbox
    /\ frozen' = FALSE
    /\ NotifyLocked(writer, FreezerTo(Closer, "out"))
    /\ capability' = [capability EXCEPT ![Closer] = NoCapability]
    /\ closer' = "closing"
    /\ UNCHANGED <<active, closed, waiters, task, reconcileSlot, late>>

\* writeAdmission.close, then lifecycleCancel.
CloseAdmission ==
    /\ closer = "closing"
    /\ closed' = TRUE
    /\ NotifyLocked(writer, freezer)
    /\ closer' = "waiting"
    /\ UNCHANGED <<frozen, waiters, NotClosing, outbox, late>>

\* The operations that beginOperation admitted.
InOperation == {w \in Writers : writer[w] # "out"} \cup {f \in Freezers : freezer[f] # "out"}

\* waitForStoreOperations, then the connections are closed.
CloseConnections ==
    /\ closer = "waiting" /\ InOperation = {}
    /\ closer' = "closed"
    /\ UNCHANGED <<gateVars, processVars, NotClosing, outbox, late>>

\* The budget ends while closeContext waits for the worker, for the gate or for
\* the operations; it goes on with the next step.
CloseTimesOut ==
    /\ \/ /\ closer = "joining" /\ closer' = "closing"
          /\ UNCHANGED <<gateVars, processVars, NotClosing, outbox>>
       \/ closer = "freezing" /\ closer' = "closing" /\ GiveUpFreeze(Closer)
       \/ /\ closer = "waiting" /\ closer' = "closed"
          /\ UNCHANGED <<gateVars, processVars, NotClosing, outbox>>
    /\ late' = TRUE

Init ==
    /\ active = 0 /\ frozen = FALSE /\ closed = FALSE /\ waiters = <<>>
    /\ writer = [w \in Writers |-> "out"]
    /\ reconcileSlot = NoOne
    /\ freezer = [f \in Freezes |-> "out"]
    /\ capability = [f \in Freezes |-> NoCapability]
    /\ task = [t \in Tasks |-> IdleTask]
    /\ outbox = {}
    /\ closer = "open" /\ late = FALSE

GateStep(w) == TakeReconcileSlot(w) \/ Enter(w) \/ Park(w) \/ Leave(w) \/ Answer(w)
FreezeStep(f) == QueueFreeze(f) \/ RetryFreeze(f) \/ RefuseFreeze(f)
                 \/ EndCallback(f) \/ ReleaseFreeze(f)
TaskStep(t) == StartTask(t) \/ FinishDrain(t) \/ FinishMaintenance(t)
CloseStep == JoinWorker \/ CloseDrains \/ CloseAdmission \/ CloseConnections

Next ==
    \/ \E w \in Writers :
          \/ BeginWrite(w) \/ GateStep(w) \/ Refuse(w) \/ Stage(w)
          \/ \E b \in Submitters : Reconcile(w, b)
    \/ \E f \in Freezes : BeginFreeze(f) \/ FreezeStep(f) \/ AbandonFreeze(f)
    \/ \E t \in Tasks :
          \/ TaskStep(t) \/ AbandonTask(t)
          \/ \E f \in Freezes, op \in Operations : BeginTask(t, f, op)
    \/ BeginClose \/ CloseStep \/ CloseTimesOut

Spec == Init /\ [][Next]_vars

\* Goroutines that can run do run, callbacks and inserts end, and a cancelled
\* call returns.  Nothing has to arrive, to be cancelled or to time out.
Fairness ==
    /\ \A w \in Writers : WF_vars(GateStep(w)) /\ WF_vars((closed \/ Cancelled(w)) /\ Refuse(w))
    /\ \A f \in Freezes : WF_vars(FreezeStep(f))
    /\ \A t \in Tasks : WF_vars(TaskStep(t))
    /\ WF_vars(CloseStep)

FairSpec == Spec /\ Fairness

(***************************************************************************)
(* Properties                                                              *)
(***************************************************************************)
Inside == {w \in Writers : writer[w] \in {"in", "staged"}}
Holding == {f \in Freezes : freezer[f] \in {"holding", "invalidating"}}

\* The type of the gate and of the goroutines at it.
TypeOK ==
    /\ active \in Nat
    /\ frozen \in BOOLEAN /\ closed \in BOOLEAN /\ late \in BOOLEAN
    /\ waiters \in Seq(Freezes)
    /\ writer \in [Writers -> {"out", "slot", "entering", "parked", "in", "staged", "waiting"}]
    /\ reconcileSlot \in Writers \cup {NoOne}
    /\ freezer \in [Freezes -> {"out", "beginning", "queued", "woken", "holding", "invalidating"}]
    /\ capability \in [Freezes -> [valid : BOOLEAN, drained : BOOLEAN]]
    /\ task \in [Tasks -> [pc : {"idle", "waiting", "running"}, op : Operations,
                           of : Freezes \cup {NoOne}]]
    /\ outbox \in SUBSET Submitters
    /\ closer \in {"open", "joining", "freezing", "closing", "waiting", "closed"}

\* enter, leave and freeze: a freeze excludes every writer and every other
\* freeze, and the counter that decides this is the number of writers inside.
FreezeExcludesWriters ==
    /\ active = Cardinality(Inside)
    /\ frozen => Inside = {}
    /\ frozen <=> Holding # {}
    /\ \A f, g \in Holding : f = g

\* notifyLocked is called whenever it has to be: nobody stays parked with the
\* gate free, behind a queue whose head is parked with the gate free, or after
\* close.  The queue holds each waiting freeze once.
NobodyIsStranded ==
    /\ \A w \in Writers : writer[w] = "parked" => ~ closed /\ (frozen \/ waiters # <<>>)
    /\ \A f \in Freezes : freezer[f] = "queued" => ~ closed
    /\ waiters # <<>> /\ freezer[Head(waiters)] = "queued" => frozen \/ active > 0
    /\ \A f \in Freezes : freezer[f] \in {"queued", "woken"} =>
          Cardinality({i \in DOMAIN waiters : waiters[i] = f}) = 1

\* beginPrivilegedOperation and invalidate: index data is deleted only inside
\* the freeze of the callback, after a drain that left nothing in the outbox
\* that a replay could still insert.
MaintenanceIsSafe ==
    \A t \in Tasks : task[t].pc = "running" =>
        /\ task[t].of \in Holding
        /\ \A u \in Tasks : task[u].pc = "running" => u = t
        /\ task[t].op = "maintain" => outbox = {} /\ Inside = {}

\* closeContext within its budget closes the connections under no operation.
NoUseAfterClose ==
    closer = "closed" /\ ~ late => InOperation = {} /\ TasksOf(Closer) = {} /\ ~ frozen

\* Every freeze ends: it gets its turn although writers keep arriving, because
\* the queue makes later ones wait, and the drain of its callback never waits
\* for a writer that waits for the callback with the reconciler's slot.
FreezeEnds == \A f \in Freezes : (freezer[f] # "out") ~> (freezer[f] = "out")

\* closeContext ends, from any state of writers, freezes and tasks.
CloseCompletes == (closer # "open") ~> (closer = "closed")
===============================================================================
