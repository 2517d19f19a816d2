------------------------- MODULE WriteAdmission_proofs -------------------------
(***************************************************************************)
(* Theorems about the write admission gate, for any number of writers,     *)
(* freezes and privileged operations.                                      *)
(***************************************************************************)
EXTENDS WriteAdmission, FiniteSetTheorems, TLAPS

(***************************************************************************)
(* The inductive invariant                                                 *)
(***************************************************************************)
\* closeContext takes part in the gate only while it drains.
CloserAtGate == closer # "freezing" => freezer[Closer] = "out"

\* A capability is valid during its callback only, and a capability that has
\* drained the outbox is right about it as long as its freeze lasts.
CapabilitiesTrue ==
    \A f \in Freezes :
        /\ capability[f].valid => freezer[f] = "holding"
        /\ capability[f].drained /\ f \in Holding => outbox = {}

\* An operation under way belongs to a freeze that holds the gate.
TasksHeld ==
    \A t \in Tasks :
        IF task[t].pc = "idle" THEN task[t].of = NoOne ELSE task[t].of \in Holding \ {Closer}

\* Operations of one capability run one at a time, and maintenance on an empty
\* outbox.
TasksSerial ==
    \A t \in Tasks : task[t].pc = "running" =>
        /\ \A u \in Tasks : task[u].pc = "running" => u = t
        /\ task[t].op = "maintain" => outbox = {}

\* After a close in time no operation is left.
ClosedIsQuiet == closer = "closed" /\ ~ late => InOperation = {}

GateInv ==
    /\ TypeOK
    /\ FreezeExcludesWriters
    /\ CloserAtGate
    /\ CapabilitiesTrue
    /\ TasksHeld
    /\ TasksSerial
    /\ ClosedIsQuiet

WriterPcs == {"out", "slot", "entering", "parked", "in", "staged", "waiting"}
FreezerPcs == {"out", "beginning", "queued", "woken", "holding", "invalidating"}

\* A new gate is open, empty and trusted by nobody.
LEMMA InitInv == Init => GateInv
  <1> SUFFICES ASSUME Init PROVE GateInv
    OBVIOUS
  <1>1. Inside = {} /\ Holding = {} /\ InOperation = {}
    BY DEF Init, Inside, Holding, InOperation, Freezes
  <1>2. FreezeExcludesWriters
    BY <1>1, FS_EmptySet DEF Init, FreezeExcludesWriters
  <1>3. TypeOK
    <2>1. task \in [Tasks -> [pc : {"idle", "waiting", "running"}, op : Operations,
                             of : Freezes \cup {NoOne}]]
      BY DEF Init, IdleTask, Operations
    <2>2. capability \in [Freezes -> [valid : BOOLEAN, drained : BOOLEAN]]
      BY DEF Init, NoCapability
    <2>3. waiters \in Seq(Freezes)
      BY DEF Init
    <2>4. writer \in [Writers -> WriterPcs] /\ freezer \in [Freezes -> FreezerPcs]
      BY DEF Init, WriterPcs, FreezerPcs
    <2> QED BY <2>1, <2>2, <2>3, <2>4 DEF Init, TypeOK, WriterPcs, FreezerPcs
  <1>4. CloserAtGate
    BY DEF Init, CloserAtGate, Freezes
  <1>5. CapabilitiesTrue
    BY DEF Init, CapabilitiesTrue, NoCapability
  <1>6. TasksHeld /\ TasksSerial
    BY DEF Init, TasksHeld, TasksSerial, IdleTask
  <1>7. ClosedIsQuiet
    BY <1>1 DEF ClosedIsQuiet
  <1> QED BY <1>2, <1>3, <1>4, <1>5, <1>6, <1>7 DEF GateInv

(***************************************************************************)
(* Waking parked goroutines moves nobody into or out of the gate.          *)
(***************************************************************************)
LEMMA Wake ==
  ASSUME NEW wr \in [Writers -> WriterPcs], NEW fr \in [Freezes -> FreezerPcs],
         NotifyLocked(wr, fr) \/ (writer' = wr /\ freezer' = fr)
  PROVE  /\ writer' \in [Writers -> WriterPcs] /\ freezer' \in [Freezes -> FreezerPcs]
         /\ \A w \in Writers : /\ writer'[w] \in {"in", "staged"} <=> wr[w] \in {"in", "staged"}
                               /\ writer'[w] = "out" <=> wr[w] = "out"
         /\ \A f \in Freezes : /\ freezer'[f] = "holding" <=> fr[f] = "holding"
                               /\ freezer'[f] = "invalidating" <=> fr[f] = "invalidating"
                               /\ freezer'[f] = "out" <=> fr[f] = "out"
  BY DEF NotifyLocked, WriterPcs, FreezerPcs

\* A freeze that leaves the queue leaves a queue of freezes.
LEMMA QueueShrinks ==
  ASSUME waiters \in Seq(Freezes), NEW f, RemoveWaiterLocked(f)
  PROVE  waiters' \in Seq(Freezes)
  <1>1. PICK i \in 1..Len(waiters) : waiters' = RemoveAt(waiters, i)
    BY DEF RemoveWaiterLocked
  <1>2. /\ SubSeq(waiters, 1, i - 1) \in Seq(Freezes)
        /\ SubSeq(waiters, i + 1, Len(waiters)) \in Seq(Freezes)
    BY <1>1
  <1> QED BY <1>1, <1>2 DEF RemoveAt

(***************************************************************************)
(* Quiet steps: nobody enters or leaves the gate, no freeze is granted or  *)
(* ends, and no privileged operation moves.                                *)
(***************************************************************************)
QuietStep ==
    /\ TypeOK' /\ CloserAtGate' /\ ClosedIsQuiet'
    /\ UNCHANGED <<active, frozen, capability, task>>
    /\ outbox' \subseteq outbox
    /\ \A w \in Writers : writer'[w] \in {"in", "staged"} <=> writer[w] \in {"in", "staged"}
    /\ \A f \in Freezes : /\ freezer'[f] = "holding" <=> freezer[f] = "holding"
                          /\ freezer'[f] = "invalidating" <=> freezer[f] = "invalidating"

\* A quiet step keeps the invariant if it keeps the types and the shutdown's part.
LEMMA QuietKeepsInv ==
  ASSUME GateInv, QuietStep
  PROVE  GateInv'
  <1>1. Inside' = Inside /\ Holding' = Holding
    BY DEF QuietStep, Inside, Holding
  <1>2. FreezeExcludesWriters'
    BY <1>1 DEF GateInv, FreezeExcludesWriters, QuietStep
  <1>3. CapabilitiesTrue'
    BY <1>1 DEF GateInv, CapabilitiesTrue, QuietStep
  <1>4. TasksHeld'
    BY <1>1 DEF GateInv, TasksHeld, QuietStep
  <1>5. TasksSerial'
    BY DEF GateInv, TasksSerial, QuietStep
  <1> QED BY <1>2, <1>3, <1>4, <1>5 DEF GateInv, QuietStep

\* A writer that waits, is refused or is answered.
LEMMA QuietWriters ==
  ASSUME GateInv, NEW w \in Writers,
         BeginWrite(w) \/ TakeReconcileSlot(w) \/ Park(w) \/ Refuse(w) \/ Answer(w)
  PROVE  QuietStep
  <1> USE DEF BeginWrite, TakeReconcileSlot, Park, Refuse, Answer, WriterTo, gateVars, NotWriting
  <1>1. TypeOK'
    BY ProcessesAssumption DEF GateInv, TypeOK, ReturnSlot
  <1>2. CloserAtGate'
    BY DEF GateInv, CloserAtGate
  <1>3. ClosedIsQuiet'
    BY DEF GateInv, ClosedIsQuiet, InOperation, StoreOpen, TypeOK
  <1>4. \A v \in Writers : writer'[v] \in {"in", "staged"} <=> writer[v] \in {"in", "staged"}
    BY DEF GateInv, TypeOK
  <1> QED BY <1>1, <1>2, <1>3, <1>4 DEF QuietStep

\* The first half of closeContext, its end, and a budget that runs out.
LEMMA QuietClosing ==
  ASSUME GateInv, BeginClose \/ JoinWorker \/ CloseAdmission \/ CloseConnections
  PROVE  QuietStep
  <1> USE DEF BeginClose, JoinWorker, CloseAdmission, CloseConnections, FreezerTo, gateVars,
        processVars, NotClosing
  <1>0. /\ writer' \in [Writers -> WriterPcs] /\ freezer' \in [Freezes -> FreezerPcs]
        /\ \A w \in Writers : writer'[w] \in {"in", "staged"} <=> writer[w] \in {"in", "staged"}
        /\ \A f \in Freezes : /\ freezer'[f] = "holding" <=> freezer[f] = "holding"
                              /\ freezer'[f] = "invalidating" <=> freezer[f] = "invalidating"
        /\ closer # "joining" => \A f \in Freezes : freezer'[f] = "out" <=> freezer[f] = "out"
    <2>1. CASE CloseAdmission
      BY <2>1, Wake DEF GateInv, TypeOK, WriterPcs, FreezerPcs
    <2>2. CASE BeginClose \/ JoinWorker \/ CloseConnections
      BY <2>2 DEF GateInv, TypeOK, WriterPcs, FreezerPcs, CloserAtGate
    <2> QED BY <2>1, <2>2
  <1>1. TypeOK'
    BY <1>0 DEF GateInv, TypeOK, WriterPcs, FreezerPcs
  <1>2. CloserAtGate'
    BY <1>0 DEF GateInv, CloserAtGate, Freezes
  <1>3. ClosedIsQuiet'
    BY DEF GateInv, ClosedIsQuiet, InOperation
  <1> QED BY <1>0, <1>1, <1>2, <1>3 DEF QuietStep

\* A freeze that arrives.
LEMMA QuietArrival ==
  ASSUME GateInv, NEW f \in Freezes, BeginFreeze(f)
  PROVE  QuietStep
  <1> USE DEF BeginFreeze, FreezerTo, gateVars, NotFreezing
  <1>1. TypeOK'
    BY DEF GateInv, TypeOK
  <1>2. CloserAtGate'
    BY ProcessesAssumption DEF GateInv, CloserAtGate, TypeOK, Freezes
  <1>3. ClosedIsQuiet'
    BY DEF GateInv, ClosedIsQuiet, StoreOpen
  <1>4. \A g \in Freezes : /\ freezer'[g] = "holding" <=> freezer[g] = "holding"
                          /\ freezer'[g] = "invalidating" <=> freezer[g] = "invalidating"
    BY DEF GateInv, TypeOK
  <1> QED BY <1>1, <1>2, <1>3, <1>4 DEF QuietStep

\* A freeze that leaves the queue without the gate.
LEMMA LeavesQueue ==
  ASSUME GateInv, NEW f \in Freezes, GiveUpFreeze(f) \/ RefuseFreeze(f)
  PROVE  /\ waiters' \in Seq(Freezes)
         /\ freezer[f] \notin {"out", "holding", "invalidating"}
         /\ \/ NotifyLocked(writer, FreezerTo(f, "out"))
            \/ writer' = writer /\ freezer' = FreezerTo(f, "out")
         /\ UNCHANGED <<active, frozen, closed, capability, task, reconcileSlot, outbox>>
  <1>1. waiters \in Seq(Freezes)
    BY DEF GateInv, TypeOK
  <1>2. CASE CancelFreeze(f)
    <2>1. RemoveWaiterLocked(f)
      BY <1>2 DEF CancelFreeze
    <2>2. waiters' \in Seq(Freezes)
      BY <1>1, <2>1, QueueShrinks
    <2> QED BY <1>2, <2>2 DEF CancelFreeze, NotifyIf
  <1>3. CASE RefuseFreeze(f)
    <2>1. waiters' = waiters \/ RemoveWaiterLocked(f)
      BY <1>3 DEF RefuseFreeze
    <2>2. waiters' \in Seq(Freezes)
      BY <1>1, <2>1, QueueShrinks
    <2> QED BY <1>3, <2>2 DEF RefuseFreeze, NotFreezing
  <1>4. CASE GiveUpFreeze(f) /\ ~ CancelFreeze(f)
    BY <1>1, <1>4 DEF GiveUpFreeze, gateVars
  <1> QED BY <1>2, <1>3, <1>4
\* Where everybody is after a freeze has left the queue.
LEMMA LeavesPositions ==
  ASSUME GateInv, NEW f \in Freezes, GiveUpFreeze(f) \/ RefuseFreeze(f)
  PROVE  /\ writer' \in [Writers -> WriterPcs] /\ freezer' \in [Freezes -> FreezerPcs]
         /\ freezer'[f] = "out"
         /\ \A w \in Writers : /\ writer'[w] \in {"in", "staged"} <=> writer[w] \in {"in", "staged"}
                               /\ writer'[w] = "out" <=> writer[w] = "out"
         /\ \A g \in Freezes : /\ freezer'[g] = "holding" <=> freezer[g] = "holding"
                               /\ freezer'[g] = "invalidating" <=> freezer[g] = "invalidating"
                               /\ freezer[g] = "out" => freezer'[g] = "out"
  <1>1. writer \in [Writers -> WriterPcs] /\ freezer \in [Freezes -> FreezerPcs]
    BY DEF GateInv, TypeOK, WriterPcs, FreezerPcs
  <1>2. FreezerTo(f, "out") \in [Freezes -> FreezerPcs]
    BY <1>1 DEF FreezerTo, FreezerPcs
  <1>3. /\ FreezerTo(f, "out")[f] = "out"
        /\ \A g \in Freezes : g # f => FreezerTo(f, "out")[g] = freezer[g]
    BY <1>1 DEF FreezerTo
  <1> QED BY <1>1, <1>2, <1>3, LeavesQueue, Wake

\* A freeze whose context ended, or that finds the gate closed.
LEMMA QuietRefusal ==
  ASSUME GateInv, NEW f \in Freezes, AbandonFreeze(f) \/ RefuseFreeze(f)
  PROVE  QuietStep
  <1>1. GiveUpFreeze(f) \/ RefuseFreeze(f)
    BY DEF AbandonFreeze
  <1>2. closer' = closer /\ late' = late
    BY DEF AbandonFreeze, RefuseFreeze, NotFreezing
  <1>3. TypeOK'
    BY <1>1, <1>2, LeavesQueue, LeavesPositions DEF GateInv, TypeOK, WriterPcs, FreezerPcs
  <1>4. CloserAtGate'
    BY <1>1, <1>2, LeavesPositions DEF GateInv, CloserAtGate, Freezes
  <1>5. ClosedIsQuiet'
    BY <1>1, <1>2, LeavesPositions DEF GateInv, ClosedIsQuiet, InOperation, Freezes
  <1> QED BY <1>1, <1>3, <1>4, <1>5, LeavesQueue, LeavesPositions DEF QuietStep

\* The budget of closeContext runs out.
LEMMA QuietTimeout ==
  ASSUME GateInv, CloseTimesOut
  PROVE  QuietStep
  <1>1. late'
    BY DEF CloseTimesOut
  <1>2. ClosedIsQuiet'
    BY <1>1 DEF ClosedIsQuiet
  <1>3. CASE closer = "freezing" /\ closer' = "closing" /\ GiveUpFreeze(Closer)
    <2>1. Closer \in Freezes
      BY DEF Freezes
    <2>2. TypeOK'
      BY <1>1, <1>3, <2>1, LeavesQueue, LeavesPositions
         DEF GateInv, TypeOK, WriterPcs, FreezerPcs, CloseTimesOut
    <2>3. CloserAtGate'
      BY <1>3, <2>1, LeavesPositions DEF CloserAtGate
    <2> QED BY <1>2, <1>3, <2>1, <2>2, <2>3, LeavesQueue, LeavesPositions DEF QuietStep
  <1>4. CASE ~ (closer = "freezing" /\ closer' = "closing" /\ GiveUpFreeze(Closer))
    <2>1. /\ closer \in {"joining", "waiting"} /\ closer' \in {"closing", "closed"}
          /\ UNCHANGED <<gateVars, processVars, NotClosing, outbox>>
      BY <1>4 DEF CloseTimesOut
    <2>2. TypeOK'
      BY <2>1, CloseTimesOut DEF GateInv, TypeOK, gateVars, processVars, NotClosing, CloseTimesOut
    <2>3. CloserAtGate'
      BY <2>1 DEF GateInv, CloserAtGate, processVars
    <2> QED BY <1>2, <2>1, <2>2, <2>3 DEF QuietStep, gateVars, processVars, NotClosing
  <1> QED BY <1>3, <1>4
\* A freeze that queues, or looks at the gate and parks again.
LEMMA QuietQueue ==
  ASSUME GateInv, NEW f \in Freezes, QueueFreeze(f) \/ RetryFreeze(f), ~ Granted(f)
  PROVE  QuietStep
  <1>1. /\ freezer[f] \in {"beginning", "woken"} /\ freezer' = FreezerTo(f, "queued")
        /\ waiters' = Append(waiters, f) \/ waiters' = waiters
        /\ UNCHANGED <<active, frozen, closed, writer, capability, task, NotFreezing>>
    BY DEF QueueFreeze, RetryFreeze
  <1>2. waiters' \in Seq(Freezes)
    BY <1>1 DEF GateInv, TypeOK
  <1>3. TypeOK'
    BY <1>1, <1>2 DEF GateInv, TypeOK, FreezerTo, NotFreezing
  <1>4. CloserAtGate'
    BY <1>1 DEF GateInv, TypeOK, CloserAtGate, FreezerTo, NotFreezing
  <1>5. ClosedIsQuiet'
    <2>1. ASSUME closer = "closed", ~ late PROVE FALSE
      BY <1>1, <2>1 DEF GateInv, ClosedIsQuiet, CloserAtGate, InOperation, Freezes
    <2> QED BY <1>1, <2>1 DEF ClosedIsQuiet, NotFreezing
  <1>6. \A g \in Freezes : /\ freezer'[g] = "holding" <=> freezer[g] = "holding"
                           /\ freezer'[g] = "invalidating" <=> freezer[g] = "invalidating"
    BY <1>1 DEF GateInv, TypeOK, FreezerTo
  <1> QED BY <1>1, <1>3, <1>4, <1>5, <1>6 DEF QuietStep, NotFreezing

(***************************************************************************)
(* Steps inside the gate                                                   *)
(***************************************************************************)
\* The set of writers inside is finite, so that it can be counted.
LEMMA InsideFinite == IsFiniteSet(Inside)
  BY ProcessesAssumption, FS_Subset DEF Inside

\* Without a freeze there is no privileged operation.
LEMMA NoTasks ==
  ASSUME GateInv, Holding = {}
  PROVE  \A t \in Tasks : task[t].pc = "idle"
  BY DEF GateInv, TasksHeld

\* A writer that enters.
LEMMA EnterKeepsInv ==
  ASSUME GateInv, NEW w \in Writers, Enter(w)
  PROVE  GateInv'
  <1> USE DEF Enter, WriterTo, NotWriting
  <1>1. TypeOK'
    BY DEF GateInv, TypeOK
  <1>2. Inside' = Inside \cup {w} /\ w \notin Inside
    BY DEF GateInv, TypeOK, Inside
  <1>3. Holding' = Holding /\ Holding = {}
    BY DEF GateInv, FreezeExcludesWriters, Holding
  <1>4. Cardinality(Inside') = Cardinality(Inside) + 1
    BY <1>2, InsideFinite, FS_AddElement
  <1>5. FreezeExcludesWriters'
    BY <1>3, <1>4 DEF GateInv, FreezeExcludesWriters
  <1>6. CloserAtGate' /\ CapabilitiesTrue' /\ TasksHeld' /\ TasksSerial'
    BY <1>3 DEF GateInv, CloserAtGate, CapabilitiesTrue, TasksHeld, TasksSerial
  <1>7. ClosedIsQuiet'
    BY DEF GateInv, TypeOK, ClosedIsQuiet, InOperation
  <1> QED BY <1>1, <1>5, <1>6, <1>7 DEF GateInv

\* A writer that leaves, and wakes the queue if it is the last.
LEMMA LeaveKeepsInv ==
  ASSUME GateInv, NEW w \in Writers, Leave(w)
  PROVE  GateInv'
  <1> DEFINE wr == WriterTo(w, IF writer[w] = "staged" THEN "waiting" ELSE "out")
  <1>1. wr \in [Writers -> WriterPcs] /\ freezer \in [Freezes -> FreezerPcs]
    BY DEF GateInv, TypeOK, WriterTo, WriterPcs, FreezerPcs
  <1>2. /\ wr[w] \notin {"in", "staged"}
        /\ \A v \in Writers : v # w => wr[v] = writer[v]
    BY DEF GateInv, TypeOK, WriterTo
  <1>3. NotifyLocked(wr, freezer) \/ (writer' = wr /\ freezer' = freezer)
    BY DEF Leave, NotifyIf
  <1>4. /\ writer' \in [Writers -> WriterPcs] /\ freezer' \in [Freezes -> FreezerPcs]
        /\ \A v \in Writers : writer'[v] \in {"in", "staged"} <=> wr[v] \in {"in", "staged"}
        /\ \A f \in Freezes : /\ freezer'[f] = "holding" <=> freezer[f] = "holding"
                              /\ freezer'[f] = "invalidating" <=> freezer[f] = "invalidating"
                              /\ freezer'[f] = "out" <=> freezer[f] = "out"
    <2> HIDE DEF wr
    <2> QED BY <1>1, <1>3, Wake
  <1> HIDE DEF wr
  <1>5. /\ writer[w] \in {"in", "staged"} /\ active' = active - 1
        /\ UNCHANGED <<frozen, closed, waiters, outbox, NotWriting>>
        /\ ReturnSlot(w)
    BY DEF Leave
  <1>6. Inside' = Inside \ {w} /\ w \in Inside
    BY <1>2, <1>4, <1>5 DEF Inside
  <1>7. Holding' = Holding /\ Holding = {}
    BY <1>4, <1>6 DEF GateInv, FreezeExcludesWriters, Holding
  <1>8. Cardinality(Inside') = Cardinality(Inside) - 1 /\ Cardinality(Inside') \in Nat
    BY <1>6, InsideFinite, FS_RemoveElement, FS_CardinalityType, FS_Subset
  <1>9. TypeOK'
    BY <1>4, <1>5, <1>8 DEF GateInv, FreezeExcludesWriters, TypeOK, WriterPcs, FreezerPcs,
       ReturnSlot, NotWriting
  <1>10. FreezeExcludesWriters'
    BY <1>5, <1>7, <1>8 DEF GateInv, FreezeExcludesWriters
  <1>11. CloserAtGate' /\ CapabilitiesTrue' /\ TasksHeld' /\ TasksSerial'
    BY <1>4, <1>5, <1>7 DEF GateInv, CloserAtGate, CapabilitiesTrue, TasksHeld, TasksSerial,
       NotWriting, Freezes
  <1>12. ClosedIsQuiet'
    BY <1>5 DEF GateInv, ClosedIsQuiet, InOperation, NotWriting
  <1> QED BY <1>9, <1>10, <1>11, <1>12 DEF GateInv

\* A batch is staged only while no freeze trusts the outbox to be empty.
LEMMA StageKeepsInv ==
  ASSUME GateInv, NEW w \in Writers, Stage(w)
  PROVE  GateInv'
  <1> USE DEF Stage, WriterTo, NotWriting, gateVars
  <1>1. TypeOK'
    BY DEF GateInv, TypeOK
  <1>2. Inside' = Inside /\ w \in Inside
    BY DEF GateInv, TypeOK, Inside
  <1>3. Holding' = Holding /\ Holding = {}
    BY <1>2 DEF GateInv, FreezeExcludesWriters, Holding
  <1>4. FreezeExcludesWriters'
    BY <1>2, <1>3 DEF GateInv, FreezeExcludesWriters
  <1>5. CloserAtGate' /\ CapabilitiesTrue' /\ TasksHeld'
    BY <1>3 DEF GateInv, CloserAtGate, CapabilitiesTrue, TasksHeld
  <1>6. TasksSerial'
    BY <1>3, NoTasks DEF TasksSerial
  <1>7. ClosedIsQuiet'
    BY DEF GateInv, ClosedIsQuiet, InOperation
  <1> QED BY <1>1, <1>4, <1>5, <1>6, <1>7 DEF GateInv

\* A replayed batch.
LEMMA QuietReplay ==
  ASSUME GateInv, NEW w \in Writers, NEW b \in Submitters, Reconcile(w, b)
  PROVE  QuietStep
  BY DEF GateInv, TypeOK, CloserAtGate, ClosedIsQuiet, InOperation, QuietStep, Reconcile,
     gateVars, processVars, NotWriting
(***************************************************************************)
(* A freeze takes and gives back the gate                                  *)
(***************************************************************************)
\* The gate is granted when nobody is inside, and with a capability that trusts
\* nothing yet.
LEMMA GrantKeepsInv ==
  ASSUME GateInv, NEW f \in Freezes, QueueFreeze(f) \/ RetryFreeze(f), Granted(f)
  PROVE  GateInv'
  <1> USE DEF Granted, FreezerTo, NotFreezing
  <1>1. /\ freezer[f] \in {"beginning", "woken"} /\ active = 0
        /\ UNCHANGED <<active, closed, writer, task, NotFreezing>>
        /\ waiters' = waiters \/ RemoveWaiterLocked(f)
    <2>1. CASE QueueFreeze(f)
      <3>1. waiters = <<>> /\ active = 0 /\ ~ frozen
        BY <2>1 DEF QueueFreeze, GateInv, TypeOK
      <3> QED BY <2>1, <3>1 DEF QueueFreeze
    <2>2. CASE RetryFreeze(f)
      <3>1. IsHead(f) /\ active = 0 /\ ~ frozen
        BY <2>2 DEF RetryFreeze, GateInv, TypeOK
      <3> QED BY <2>2, <3>1 DEF RetryFreeze
    <2> QED BY <2>1, <2>2
  <1>2. ~ frozen
    BY DEF QueueFreeze, RetryFreeze, GateInv, TypeOK
  <1>3. waiters' \in Seq(Freezes)
    BY <1>1, QueueShrinks DEF GateInv, TypeOK
  <1>4. TypeOK'
    BY <1>1, <1>3 DEF GateInv, TypeOK
  <1>5. Inside' = Inside /\ Inside = {}
    BY <1>1, InsideFinite, FS_EmptySet DEF GateInv, FreezeExcludesWriters, Inside
  <1>6. Holding = {} /\ Holding' = {f}
    BY <1>2 DEF GateInv, FreezeExcludesWriters, TypeOK, Holding
  <1>7. FreezeExcludesWriters'
    BY <1>1, <1>5, <1>6 DEF GateInv, FreezeExcludesWriters
  <1>8. CloserAtGate'
    BY <1>1 DEF GateInv, TypeOK, CloserAtGate
  <1>9. CapabilitiesTrue'
    <2>1. capability'[f] = [valid |-> TRUE, drained |-> FALSE] /\ freezer'[f] = "holding"
      BY DEF GateInv, TypeOK
    <2>2. \A g \in Freezes : g # f => capability'[g] = capability[g] /\ freezer'[g] = freezer[g]
      BY DEF GateInv, TypeOK
    <2> QED BY <1>6, <2>1, <2>2 DEF GateInv, CapabilitiesTrue
  <1>10. TasksHeld' /\ TasksSerial'
    BY <1>1, <1>6, NoTasks DEF GateInv, TasksHeld, TasksSerial
  <1>11. ClosedIsQuiet'
    <2>1. ASSUME closer = "closed", ~ late PROVE FALSE
      BY <1>1, <2>1 DEF GateInv, ClosedIsQuiet, CloserAtGate, InOperation, Freezes
    <2> QED BY <1>1, <2>1 DEF ClosedIsQuiet
  <1> QED BY <1>4, <1>7, <1>8, <1>9, <1>10, <1>11 DEF GateInv

\* The callback returned, and its capability is invalid.
LEMMA EndCallbackKeepsInv ==
  ASSUME GateInv, NEW f \in Freezes, EndCallback(f)
  PROVE  GateInv'
  <1> USE DEF EndCallback, FreezerTo, NotFreezing, gateVars
  <1>1. TypeOK'
    BY DEF GateInv, TypeOK
  <1>2. Inside' = Inside /\ Holding' = Holding
    BY DEF GateInv, TypeOK, Inside, Holding
  <1>3. FreezeExcludesWriters'
    BY <1>2 DEF GateInv, FreezeExcludesWriters
  <1>4. CloserAtGate'
    BY ProcessesAssumption DEF GateInv, TypeOK, CloserAtGate, Freezes
  <1>5. CapabilitiesTrue'
    <2>1. ~ capability'[f].valid /\ capability'[f].drained = capability[f].drained
      BY DEF GateInv, TypeOK
    <2>2. \A g \in Freezes : g # f => capability'[g] = capability[g] /\ freezer'[g] = freezer[g]
      BY DEF GateInv, TypeOK
    <2> QED BY <1>2, <2>1, <2>2 DEF GateInv, CapabilitiesTrue
  <1>6. TasksHeld' /\ TasksSerial'
    BY <1>2 DEF GateInv, TasksHeld, TasksSerial
  <1>7. ClosedIsQuiet'
    BY DEF GateInv, ClosedIsQuiet, InOperation
  <1> QED BY <1>1, <1>3, <1>4, <1>5, <1>6, <1>7 DEF GateInv

\* A freeze ends after its last operation; closeContext runs none.
LEMMA ReleaseKeepsInv ==
  ASSUME GateInv, NEW f \in Freezes, ReleaseFreeze(f) \/ (f = Closer /\ CloseDrains)
  PROVE  GateInv'
  <1>1. /\ f \in Holding /\ ~ frozen' /\ NotifyLocked(writer, FreezerTo(f, "out"))
        /\ UNCHANGED <<active, closed, waiters, task, reconcileSlot, late>>
        /\ outbox' \subseteq outbox
        /\ \/ UNCHANGED <<capability, closer>> /\ freezer[f] = "invalidating"
           \/ /\ capability' = [capability EXCEPT ![f] = NoCapability]
              /\ f = Closer /\ closer' = "closing"
    BY DEF ReleaseFreeze, CloseDrains, Holding, NotFreezing
  <1>2. /\ writer \in [Writers -> WriterPcs] /\ FreezerTo(f, "out") \in [Freezes -> FreezerPcs]
        /\ FreezerTo(f, "out")[f] = "out"
        /\ \A g \in Freezes : g # f => FreezerTo(f, "out")[g] = freezer[g]
    BY DEF GateInv, TypeOK, FreezerTo, WriterPcs, FreezerPcs
  <1>3. /\ writer' \in [Writers -> WriterPcs] /\ freezer' \in [Freezes -> FreezerPcs]
        /\ \A w \in Writers : /\ writer'[w] \in {"in", "staged"} <=> writer[w] \in {"in", "staged"}
                              /\ writer'[w] = "out" <=> writer[w] = "out"
        /\ freezer'[f] = "out"
        /\ \A g \in Freezes : g # f =>
              /\ freezer'[g] = "holding" <=> freezer[g] = "holding"
              /\ freezer'[g] = "invalidating" <=> freezer[g] = "invalidating"
              /\ freezer'[g] = "out" <=> freezer[g] = "out"
    BY <1>1, <1>2, Wake
  <1>4. TypeOK'
    <2>0. NoCapability \in [valid : BOOLEAN, drained : BOOLEAN]
      BY DEF NoCapability
    <2>1. capability' \in [Freezes -> [valid : BOOLEAN, drained : BOOLEAN]]
      <3>1. capability \in [Freezes -> [valid : BOOLEAN, drained : BOOLEAN]]
        BY DEF GateInv, TypeOK
      <3>2. capability' = capability \/ capability' = [capability EXCEPT ![f] = NoCapability]
        BY <1>1
      <3> QED BY <2>0, <3>1, <3>2
    <2>2. outbox' \in SUBSET Submitters
      BY <1>1 DEF GateInv, TypeOK
    <2>3. frozen' = FALSE
      BY DEF ReleaseFreeze, CloseDrains
    <2> QED BY <1>1, <1>3, <2>1, <2>2, <2>3 DEF GateInv, TypeOK, WriterPcs, FreezerPcs
  <1>5. Holding = {f} /\ Holding' = {} /\ Inside' = Inside
    BY <1>1, <1>3 DEF GateInv, FreezeExcludesWriters, Holding, Inside
  <1>6. FreezeExcludesWriters'
    BY <1>1, <1>5 DEF GateInv, FreezeExcludesWriters
  <1>7. CloserAtGate'
    BY <1>1, <1>3 DEF GateInv, CloserAtGate, Freezes
  <1>8. CapabilitiesTrue'
    <2>1. \A g \in Freezes : ~ capability'[g].valid
      <3>1. \A g \in Freezes : g # f => ~ capability[g].valid
        BY <1>5 DEF GateInv, CapabilitiesTrue, Holding
      <3>2. ~ capability'[f].valid
        BY <1>1 DEF GateInv, TypeOK, CapabilitiesTrue, NoCapability
      <3> QED BY <1>1, <3>1, <3>2 DEF GateInv, TypeOK
    <2> QED BY <1>5, <2>1 DEF CapabilitiesTrue
  <1>9. \A t \in Tasks : task[t].pc = "idle"
    BY <1>1, <1>5 DEF GateInv, TasksHeld, ReleaseFreeze, TasksOf
  <1>10. TasksHeld' /\ TasksSerial'
    BY <1>1, <1>9 DEF GateInv, TasksHeld, TasksSerial
  <1>11. ClosedIsQuiet'
    BY <1>1, <1>3 DEF GateInv, ClosedIsQuiet, InOperation, Freezes
  <1> QED BY <1>4, <1>6, <1>7, <1>8, <1>10, <1>11 DEF GateInv
(***************************************************************************)
(* Privileged operations                                                   *)
(***************************************************************************)
\* What no privileged operation touches.
LEMMA TaskFrame ==
  ASSUME GateInv, UNCHANGED NotTask
  PROVE  /\ Inside' = Inside /\ Holding' = Holding
         /\ FreezeExcludesWriters' /\ CloserAtGate' /\ ClosedIsQuiet'
  <1> USE DEF NotTask, gateVars, processVars
  <1>1. Inside' = Inside /\ Holding' = Holding
    BY DEF Inside, Holding
  <1>2. FreezeExcludesWriters'
    BY <1>1 DEF GateInv, FreezeExcludesWriters
  <1> QED BY <1>1, <1>2 DEF GateInv, CloserAtGate, ClosedIsQuiet, InOperation

\* An operation that begins to wait belongs to a callback that is running.
LEMMA BeginTaskKeepsInv ==
  ASSUME GateInv, NEW t \in Tasks, NEW f \in Freezes, NEW op \in Operations, BeginTask(t, f, op)
  PROVE  GateInv'
  <1> USE DEF BeginTask
  <1>1. TypeOK'
    BY DEF GateInv, TypeOK, NotTask, gateVars, processVars
  <1>2. f \in Holding \ {Closer}
    BY DEF GateInv, CapabilitiesTrue, Holding
  <1>3. /\ task'[t] = [pc |-> "waiting", op |-> op, of |-> f]
        /\ \A u \in Tasks : u # t => task'[u] = task[u]
    BY DEF GateInv, TypeOK
  <1>4. TasksHeld'
    BY <1>2, <1>3, TaskFrame DEF GateInv, TasksHeld
  <1>5. CapabilitiesTrue'
    BY TaskFrame DEF GateInv, CapabilitiesTrue, NotTask, processVars
  <1>6. TasksSerial'
    BY <1>3 DEF GateInv, TasksSerial
  <1> QED BY <1>1, <1>4, <1>5, <1>6, TaskFrame DEF GateInv

\* The end of an operation: t becomes idle and the outbox does not grow.
LEMMA TaskEnds ==
  ASSUME GateInv, NEW t \in Tasks, UNCHANGED NotTask, TaskDone(t), outbox' \subseteq outbox,
         \/ UNCHANGED capability
         \/ outbox' = {} /\ capability' = [capability EXCEPT ![task[t].of].drained = TRUE]
  PROVE  GateInv'
  <1>0. IdleTask \in [pc : {"idle", "waiting", "running"}, op : Operations,
                     of : Freezes \cup {NoOne}]
    BY DEF IdleTask, Operations
  <1>1. TypeOK'
    <2>1. task' \in [Tasks -> [pc : {"idle", "waiting", "running"}, op : Operations,
                              of : Freezes \cup {NoOne}]]
      BY <1>0 DEF GateInv, TypeOK, TaskDone
    <2>2. capability' \in [Freezes -> [valid : BOOLEAN, drained : BOOLEAN]]
      <3>1. capability \in [Freezes -> [valid : BOOLEAN, drained : BOOLEAN]]
        BY DEF GateInv, TypeOK
      <3>2. [capability EXCEPT ![task[t].of].drained = TRUE]
              \in [Freezes -> [valid : BOOLEAN, drained : BOOLEAN]]
        BY <3>1
      <3> QED BY <3>1, <3>2
    <2> QED BY <2>1, <2>2 DEF GateInv, TypeOK, NotTask, gateVars, processVars
  <1>2. /\ task'[t].pc = "idle" /\ task'[t].of = NoOne
        /\ \A u \in Tasks : u # t => task'[u] = task[u]
    BY DEF GateInv, TypeOK, TaskDone, IdleTask
  <1>3. TasksHeld'
    BY <1>2, TaskFrame DEF GateInv, TasksHeld
  <1>4. TasksSerial'
    BY <1>2 DEF GateInv, TasksSerial
  <1>5. CapabilitiesTrue'
    <2>1. \A g \in Freezes : /\ capability'[g].valid = capability[g].valid
                             /\ outbox' # {} => capability'[g] = capability[g]
      BY DEF GateInv, TypeOK
    <2>2. UNCHANGED freezer
      BY DEF NotTask, processVars
    <2> QED BY <2>1, <2>2, TaskFrame DEF GateInv, CapabilitiesTrue
  <1> QED BY <1>1, <1>3, <1>4, <1>5, TaskFrame DEF GateInv

\* The operation that gets the slot of its capability runs alone: there is one
\* freeze, and no other operation of it is running.
LEMMA StartTaskKeepsInv ==
  ASSUME GateInv, NEW t \in Tasks, StartTask(t)
  PROVE  GateInv'
  <1> DEFINE f == task[t].of
  <1>1. UNCHANGED <<NotTask, outbox>> /\ task[t].pc = "waiting" /\ Running(f) = {}
    BY DEF StartTask
  <1>2. CASE TaskDone(t) /\ UNCHANGED capability
    BY <1>1, <1>2, TaskEnds
  <1>3. CASE ~ (TaskDone(t) /\ UNCHANGED capability)
    <2>1. /\ capability[f].valid /\ (task[t].op = "drain" \/ capability[f].drained)
          /\ task' = [task EXCEPT ![t].pc = "running"]
          /\ capability' = [capability EXCEPT ![f].drained = @ /\ task[t].op # "drain"]
      BY <1>3 DEF StartTask
    <2>2. f \in Holding \ {Closer} /\ f \in Freezes
      BY <1>1 DEF GateInv, TasksHeld, Holding
    <2>3. TypeOK'
      <3>1. task' \in [Tasks -> [pc : {"idle", "waiting", "running"}, op : Operations,
                                of : Freezes \cup {NoOne}]]
        BY <2>1 DEF GateInv, TypeOK
      <3>2. capability' \in [Freezes -> [valid : BOOLEAN, drained : BOOLEAN]]
        BY <2>1 DEF GateInv, TypeOK
      <3> QED BY <1>1, <3>1, <3>2 DEF GateInv, TypeOK, NotTask, gateVars, processVars
    <2>4. /\ task'[t].pc = "running" /\ task'[t].op = task[t].op /\ task'[t].of = f
          /\ \A u \in Tasks : u # t => task'[u] = task[u]
      BY <2>1 DEF GateInv, TypeOK
    <2>5. /\ capability'[f].valid = capability[f].valid
          /\ capability'[f].drained => capability[f].drained
          /\ \A g \in Freezes : g # f => capability'[g] = capability[g]
      BY <2>1, <2>2 DEF GateInv, TypeOK
    <2>6. TasksHeld'
      BY <1>1, <2>2, <2>4, TaskFrame DEF GateInv, TasksHeld
    <2>7. CapabilitiesTrue'
      BY <1>1, <2>5, TaskFrame DEF GateInv, CapabilitiesTrue, NotTask, processVars
    <2>8. \A u \in Tasks : task[u].pc # "running"
      BY <1>1, <2>2 DEF GateInv, TasksHeld, FreezeExcludesWriters, Running, TasksOf
    <2>9. task[t].op = "maintain" => outbox = {}
      BY <2>1, <2>2 DEF GateInv, CapabilitiesTrue
    <2>10. TasksSerial'
      BY <1>1, <2>4, <2>8, <2>9 DEF TasksSerial
    <2> QED BY <1>1, <2>3, <2>6, <2>7, <2>10, TaskFrame DEF GateInv
  <1> QED BY <1>2, <1>3

\* Every step of a privileged operation that has begun to wait.
LEMMA TaskStepKeepsInv ==
  ASSUME GateInv, NEW t \in Tasks, TaskStep(t) \/ AbandonTask(t)
  PROVE  GateInv'
  <1>1. CASE StartTask(t)
    BY <1>1, StartTaskKeepsInv
  <1>2. CASE FinishDrain(t)
    <2>1. /\ UNCHANGED NotTask /\ TaskDone(t) /\ outbox' \subseteq outbox
          /\ \/ UNCHANGED capability
             \/ outbox' = {} /\ capability' = [capability EXCEPT ![task[t].of].drained = TRUE]
      BY <1>2 DEF FinishDrain
    <2> QED BY <2>1, TaskEnds
  <1>3. CASE FinishMaintenance(t) \/ AbandonTask(t)
    <2>1. UNCHANGED NotTask /\ TaskDone(t) /\ outbox' = outbox /\ UNCHANGED capability
      BY <1>3 DEF FinishMaintenance, AbandonTask
    <2> QED BY <2>1, TaskEnds
  <1> QED BY <1>1, <1>2, <1>3 DEF TaskStep
(***************************************************************************)
(* Every step                                                              *)
(***************************************************************************)
\* Every step of a writer.
LEMMA WriterKeepsInv ==
  ASSUME GateInv, NEW w \in Writers,
         \/ BeginWrite(w) \/ GateStep(w) \/ Refuse(w) \/ Stage(w)
         \/ \E b \in Submitters : Reconcile(w, b)
  PROVE  GateInv'
  <1>1. CASE BeginWrite(w) \/ TakeReconcileSlot(w) \/ Park(w) \/ Refuse(w) \/ Answer(w)
    BY <1>1, QuietWriters, QuietKeepsInv
  <1>2. CASE Enter(w)
    BY <1>2, EnterKeepsInv
  <1>3. CASE Leave(w)
    BY <1>3, LeaveKeepsInv
  <1>4. CASE Stage(w)
    BY <1>4, StageKeepsInv
  <1>5. CASE \E b \in Submitters : Reconcile(w, b)
    BY <1>5, QuietReplay, QuietKeepsInv
  <1> QED BY <1>1, <1>2, <1>3, <1>4, <1>5 DEF GateStep

\* Every step of WithWritesFrozen, and of closeContext at the gate.
LEMMA FreezeKeepsInv ==
  ASSUME GateInv, NEW f \in Freezes, BeginFreeze(f) \/ FreezeStep(f) \/ AbandonFreeze(f)
  PROVE  GateInv'
  <1>1. CASE BeginFreeze(f)
    BY <1>1, QuietArrival, QuietKeepsInv
  <1>2. CASE QueueFreeze(f) \/ RetryFreeze(f)
    BY <1>2, GrantKeepsInv, QuietQueue, QuietKeepsInv
  <1>3. CASE AbandonFreeze(f) \/ RefuseFreeze(f)
    BY <1>3, QuietRefusal, QuietKeepsInv
  <1>4. CASE EndCallback(f)
    BY <1>4, EndCallbackKeepsInv
  <1>5. CASE ReleaseFreeze(f)
    BY <1>5, ReleaseKeepsInv
  <1> QED BY <1>1, <1>2, <1>3, <1>4, <1>5 DEF FreezeStep

\* Every step of closeContext.
LEMMA CloseKeepsInv ==
  ASSUME GateInv, BeginClose \/ CloseStep \/ CloseTimesOut
  PROVE  GateInv'
  <1>1. CASE CloseDrains
    BY <1>1, ReleaseKeepsInv DEF Freezes
  <1>2. CASE CloseTimesOut
    BY <1>2, QuietTimeout, QuietKeepsInv
  <1>3. CASE BeginClose \/ JoinWorker \/ CloseAdmission \/ CloseConnections
    BY <1>3, QuietClosing, QuietKeepsInv
  <1> QED BY <1>1, <1>2, <1>3 DEF CloseStep

\* A step of nobody.
LEMMA StutterKeepsInv ==
  ASSUME GateInv, UNCHANGED vars
  PROVE  GateInv'
  <1>1. UNCHANGED NotTask /\ UNCHANGED <<capability, task, outbox>>
    BY DEF vars, NotTask
  <1> QED BY <1>1, TaskFrame DEF GateInv, TypeOK, CapabilitiesTrue, TasksHeld, TasksSerial,
       NotTask, gateVars, processVars

\* The invariant is inductive.
LEMMA StepInv == GateInv /\ [Next]_vars => GateInv'
  <1> SUFFICES ASSUME GateInv, [Next]_vars PROVE GateInv'
    OBVIOUS
  <1>1. CASE \E w \in Writers : \/ BeginWrite(w) \/ GateStep(w) \/ Refuse(w) \/ Stage(w)
                                \/ \E b \in Submitters : Reconcile(w, b)
    BY <1>1, WriterKeepsInv
  <1>2. CASE \E f \in Freezes : BeginFreeze(f) \/ FreezeStep(f) \/ AbandonFreeze(f)
    BY <1>2, FreezeKeepsInv
  <1>3. CASE \E t \in Tasks : TaskStep(t) \/ AbandonTask(t)
    BY <1>3, TaskStepKeepsInv
  <1>4. CASE \E t \in Tasks, f \in Freezes, op \in Operations : BeginTask(t, f, op)
    BY <1>4, BeginTaskKeepsInv
  <1>5. CASE BeginClose \/ CloseStep \/ CloseTimesOut
    BY <1>5, CloseKeepsInv
  <1>6. CASE UNCHANGED vars
    BY <1>6, StutterKeepsInv
  <1> QED BY <1>1, <1>2, <1>3, <1>4, <1>5, <1>6 DEF Next

(***************************************************************************)
(* Theorems                                                                *)
(***************************************************************************)
\* The gate, its queue, the capabilities and the shutdown keep the inductive
\* invariant, however many goroutines there are.
THEOREM GateInvariant == Spec => []GateInv
  BY InitInv, StepInv, PTL DEF Spec

\* newWriteAdmission and every operation of the gate keep its state well formed.
THEOREM GateTypeCorrect == Spec => []TypeOK
  <1>1. GateInv => TypeOK
    BY DEF GateInv
  <1> QED BY <1>1, GateInvariant, PTL

\* enter, leave and freeze: a freeze excludes every writer and every other
\* freeze, and "active" counts the writers inside.
THEOREM FreezeExcludes == Spec => []FreezeExcludesWriters
  <1>1. GateInv => FreezeExcludesWriters
    BY DEF GateInv
  <1> QED BY <1>1, GateInvariant, PTL

\* Index data is deleted only under the freeze of the callback that deletes it,
\* one operation at a time, with nothing left in the outbox to be replayed.
THEOREM MaintenanceSafe == Spec => []MaintenanceIsSafe
  <1>1. GateInv => MaintenanceIsSafe
    <2> SUFFICES ASSUME GateInv, NEW t \in Tasks, task[t].pc = "running"
                 PROVE  /\ task[t].of \in Holding
                        /\ \A u \in Tasks : task[u].pc = "running" => u = t
                        /\ task[t].op = "maintain" => outbox = {} /\ Inside = {}
      BY DEF MaintenanceIsSafe
    <2>1. task[t].of \in Holding
      BY DEF GateInv, TasksHeld
    <2>2. Inside = {}
      BY <2>1 DEF GateInv, FreezeExcludesWriters
    <2> QED BY <2>1, <2>2 DEF GateInv, TasksSerial
  <1> QED BY <1>1, GateInvariant, PTL

\* closeContext closes the connections within its budget only when no operation,
\* no freeze and no privileged operation of its own is left.
THEOREM CloseIsClean == Spec => []NoUseAfterClose
  <1>1. GateInv => NoUseAfterClose
    <2> SUFFICES ASSUME GateInv, closer = "closed", ~ late
                 PROVE  InOperation = {} /\ TasksOf(Closer) = {} /\ ~ frozen
      BY DEF NoUseAfterClose
    <2>1. InOperation = {}
      BY DEF GateInv, ClosedIsQuiet
    <2>2. \A f \in Freezes : freezer[f] = "out"
      BY <2>1 DEF GateInv, CloserAtGate, InOperation, Freezes
    <2>3. ~ frozen
      BY <2>2 DEF GateInv, FreezeExcludesWriters, Holding
    <2>4. TasksOf(Closer) = {}
      BY ProcessesAssumption DEF GateInv, TasksHeld, TasksOf, Freezes
    <2> QED BY <2>1, <2>3, <2>4
  <1> QED BY <1>1, GateInvariant, PTL

(***************************************************************************)
(* Nobody is stranded: the queue and the wake-ups                          *)
(***************************************************************************)
Waiting == {"queued", "woken"}

\* The queue holds exactly the freezes that wait, each of them once.
QueueTrue ==
    /\ \A i, j \in DOMAIN waiters : waiters[i] = waiters[j] => i = j
    /\ \A f \in Freezes : freezer[f] \in Waiting <=> \E i \in DOMAIN waiters : waiters[i] = f

\* Whoever sleeps has a reason to: somebody is there who will call notifyLocked.
SleepersHaveReason ==
    /\ \A w \in Writers : writer[w] = "parked" => ~ closed /\ (frozen \/ waiters # <<>>)
    /\ \A f \in Freezes : freezer[f] = "queued" => ~ closed
    /\ waiters # <<>> /\ freezer[Head(waiters)] = "queued" => frozen \/ active > 0

WakeInv == GateInv /\ QueueTrue /\ SleepersHaveReason

\* What slices.Delete leaves of the queue.
LEMMA RemovedFrom ==
  ASSUME NEW S, NEW s \in Seq(S), NEW i \in 1..Len(s)
  PROVE  /\ RemoveAt(s, i) \in Seq(S) /\ Len(RemoveAt(s, i)) = Len(s) - 1
         /\ \A k \in 1..Len(s) - 1 : RemoveAt(s, i)[k] = IF k < i THEN s[k] ELSE s[k + 1]
  <1> DEFINE a == SubSeq(s, 1, i - 1)
             b == SubSeq(s, i + 1, Len(s))
  <1>1. /\ a \in Seq(S) /\ Len(a) = i - 1 /\ \A k \in 1..i - 1 : a[k] = s[k]
    BY SMT
  <1>2. /\ b \in Seq(S) /\ Len(b) = Len(s) - i /\ \A k \in 1..Len(s) - i : b[k] = s[i + k]
    BY SMT
  <1>3. RemoveAt(s, i) = a \o b
    BY DEF RemoveAt
  <1> HIDE DEF a, b
  <1>4. Len(a \o b) = Len(s) - 1 /\ a \o b \in Seq(S)
    <2>0. a \in Seq(S) /\ b \in Seq(S)
      BY <1>1, <1>2
    <2>1. a \o b \in Seq(S) /\ Len(a \o b) = Len(a) + Len(b)
      BY <2>0
    <2>2. Len(s) \in Nat
      OBVIOUS
    <2> QED BY <2>1, <2>2, <1>1, <1>2
  <1>5. \A k \in 1..Len(s) - 1 : (a \o b)[k] = IF k < i THEN s[k] ELSE s[k + 1]
    <2> SUFFICES ASSUME NEW k \in 1..Len(s) - 1
                 PROVE  (a \o b)[k] = IF k < i THEN s[k] ELSE s[k + 1]
      OBVIOUS
    <2>1. CASE k < i
      BY <1>1, <1>2, <2>1
    <2>2. CASE ~ (k < i)
      <3>1. (a \o b)[k] = b[k - (i - 1)] /\ k - (i - 1) \in 1..Len(s) - i
        BY <1>1, <1>2, <2>2
      <3> QED BY <1>2, <2>2, <3>1
    <2> QED BY <2>1, <2>2
  <1> QED BY <1>3, <1>4, <1>5

\* Nobody joins or leaves the queue.
LEMMA SameQueue ==
  ASSUME QueueTrue, waiters' = waiters,
         \A f \in Freezes : freezer'[f] \in Waiting <=> freezer[f] \in Waiting
  PROVE  QueueTrue'
  BY DEF QueueTrue

\* A freeze joins at the end.
LEMMA JoinsQueue ==
  ASSUME WakeInv, NEW f \in Freezes, freezer[f] \notin Waiting,
         waiters' = Append(waiters, f), freezer' = FreezerTo(f, "queued")
  PROVE  /\ QueueTrue' /\ waiters' # <<>>
         /\ Head(waiters') = IF waiters = <<>> THEN f ELSE Head(waiters)
  <1>1. /\ waiters \in Seq(Freezes) /\ freezer \in [Freezes -> FreezerPcs]
        /\ Len(waiters) \in Nat /\ DOMAIN waiters = 1..Len(waiters)
    BY DEF WakeInv, GateInv, TypeOK, FreezerPcs
  <1>2. /\ DOMAIN waiters' = 1..Len(waiters) + 1 /\ waiters'[Len(waiters) + 1] = f
        /\ \A i \in DOMAIN waiters : waiters'[i] = waiters[i]
    BY <1>1
  <1>3. \A i \in DOMAIN waiters : waiters[i] # f
    BY DEF WakeInv, QueueTrue
  <1>4. \A i, j \in DOMAIN waiters' : waiters'[i] = waiters'[j] => i = j
    BY <1>1, <1>2, <1>3 DEF WakeInv, QueueTrue
  <1>5. ASSUME NEW g \in Freezes
        PROVE  freezer'[g] \in Waiting <=> \E i \in DOMAIN waiters' : waiters'[i] = g
    <2>1. CASE g = f
      BY <1>1, <1>2, <2>1 DEF FreezerTo, Waiting
    <2>2. CASE g # f
      <3>1. freezer'[g] = freezer[g]
        BY <1>1, <2>2 DEF FreezerTo
      <3>2. (\E i \in DOMAIN waiters' : waiters'[i] = g) <=> (\E i \in DOMAIN waiters : waiters[i] = g)
        BY <1>1, <1>2, <2>2
      <3> QED BY <3>1, <3>2 DEF WakeInv, QueueTrue
    <2> QED BY <2>1, <2>2
  <1>6. waiters' # <<>> /\ Head(waiters') = IF waiters = <<>> THEN f ELSE Head(waiters)
    BY <1>1
  <1> QED BY <1>4, <1>5, <1>6 DEF QueueTrue

\* A freeze leaves, from any place in the queue.
LEMMA LeavesInOrder ==
  ASSUME WakeInv, NEW f \in Freezes, RemoveWaiterLocked(f), freezer'[f] \notin Waiting,
         \A g \in Freezes \ {f} : freezer'[g] \in Waiting <=> freezer[g] \in Waiting
  PROVE  QueueTrue' /\ (~ IsHead(f) => waiters' # <<>> /\ Head(waiters') = Head(waiters))
  <1>1. /\ waiters \in Seq(Freezes)
        /\ Len(waiters) \in Nat /\ DOMAIN waiters = 1..Len(waiters)
    BY DEF WakeInv, GateInv, TypeOK
  <1>2. PICK i \in 1..Len(waiters) : waiters[i] = f /\ waiters' = RemoveAt(waiters, i)
    BY DEF RemoveWaiterLocked
  <1>3. /\ waiters' \in Seq(Freezes) /\ DOMAIN waiters' = 1..Len(waiters) - 1
        /\ Len(waiters') = Len(waiters) - 1
        /\ \A k \in 1..Len(waiters) - 1 : waiters'[k] = IF k < i THEN waiters[k] ELSE waiters[k + 1]
    <2>1. /\ waiters' \in Seq(Freezes) /\ Len(waiters') = Len(waiters) - 1
          /\ \A k \in 1..Len(waiters) - 1 : waiters'[k] = IF k < i THEN waiters[k] ELSE waiters[k + 1]
      BY <1>1, <1>2, RemovedFrom, Zenon
    <2>2. DOMAIN waiters' = 1..Len(waiters')
      BY <2>1
    <2> QED BY <2>1, <2>2
  <1>4. \A j, k \in DOMAIN waiters : waiters[j] = waiters[k] => j = k
    BY DEF WakeInv, QueueTrue
  <1>5. ASSUME NEW j \in DOMAIN waiters', NEW k \in DOMAIN waiters', waiters'[j] = waiters'[k]
        PROVE  j = k
    <2> DEFINE old(n) == IF n < i THEN n ELSE n + 1
    <2>1. \A n \in DOMAIN waiters' : old(n) \in DOMAIN waiters /\ waiters'[n] = waiters[old(n)]
      BY <1>1, <1>2, <1>3
    <2>2. old(j) = old(k)
      BY <1>4, <1>5, <2>1, Zenon
    <2> QED BY <1>1, <1>3, <2>2
  <1>6. \A k \in DOMAIN waiters' : waiters'[k] # f
    BY <1>1, <1>2, <1>3, <1>4
  <1>7. ASSUME NEW g \in Freezes, g # f
        PROVE  (\E k \in DOMAIN waiters' : waiters'[k] = g) <=> (\E k \in DOMAIN waiters : waiters[k] = g)
    <2>1. ASSUME NEW k \in DOMAIN waiters', waiters'[k] = g PROVE \E j \in DOMAIN waiters : waiters[j] = g
      BY <1>1, <1>3, <2>1
    <2>2. ASSUME NEW k \in DOMAIN waiters, waiters[k] = g PROVE \E j \in DOMAIN waiters' : waiters'[j] = g
      <3>1. k # i
        BY <1>2, <1>7, <2>2
      <3>2. CASE k < i
        BY <1>1, <1>2, <1>3, <2>2, <3>2
      <3>3. CASE k > i
        <4>1. k - 1 \in DOMAIN waiters' /\ waiters'[k - 1] = g
          BY <1>1, <1>2, <1>3, <2>2, <3>3
        <4> QED BY <4>1
      <3> QED BY <1>1, <1>2, <3>1, <3>2, <3>3
    <2> QED BY <2>1, <2>2
  <1>8. \A g \in Freezes : freezer'[g] \in Waiting <=> \E k \in DOMAIN waiters' : waiters'[k] = g
    BY <1>6, <1>7 DEF WakeInv, QueueTrue
  <1>9. ~ IsHead(f) => waiters' # <<>> /\ Head(waiters') = Head(waiters)
    <2> SUFFICES ASSUME ~ IsHead(f) PROVE waiters' # <<>> /\ Head(waiters') = Head(waiters)
      OBVIOUS
    <2>1. waiters # <<>> /\ Head(waiters) = waiters[1]
      BY <1>1, <1>2
    <2>2. i > 1
      BY <1>2, <2>1 DEF IsHead
    <2>3. 1 \in 1..Len(waiters) - 1 /\ waiters'[1] = waiters[1]
      BY <1>1, <1>2, <1>3, <2>2
    <2>4. waiters' # <<>> /\ Head(waiters') = waiters'[1]
      BY <1>3, <2>3
    <2> QED BY <2>1, <2>3, <2>4
  <1> QED BY <1>5, <1>8, <1>9 DEF QueueTrue

\* Steps that move no freeze and keep the gate shut to the sleeping.
LEMMA WriterStranded ==
  ASSUME WakeInv, GateInv', NEW w \in Writers,
         \/ BeginWrite(w) \/ GateStep(w) \/ Refuse(w) \/ Stage(w)
         \/ \E b \in Submitters : Reconcile(w, b)
  PROVE  QueueTrue' /\ SleepersHaveReason'
  <1>0. /\ writer \in [Writers -> WriterPcs] /\ freezer \in [Freezes -> FreezerPcs]
        /\ active \in Nat /\ active' \in Nat /\ waiters \in Seq(Freezes)
        /\ QueueTrue /\ SleepersHaveReason
    BY DEF WakeInv, GateInv, TypeOK, WriterPcs, FreezerPcs
  <1>1. CASE Leave(w)
    <2>1. /\ UNCHANGED <<frozen, closed, waiters>> /\ active' = active - 1
          /\ NotifyIf(active' = 0 /\ waiters # <<>>,
                      WriterTo(w, IF writer[w] = "staged" THEN "waiting" ELSE "out"), freezer)
      BY <1>1 DEF Leave
    <2>2. \A f \in Freezes : /\ freezer'[f] \in Waiting <=> freezer[f] \in Waiting
                             /\ freezer'[f] = "queued" => freezer[f] = "queued"
      BY <1>0, <2>1 DEF NotifyIf, NotifyLocked, Waiting
    <2>3. QueueTrue'
      BY <1>0, <2>1, <2>2, SameQueue
    <2>4. \A v \in Writers : writer'[v] = "parked" => writer[v] = "parked"
      BY <1>0, <2>1 DEF NotifyIf, NotifyLocked, WriterTo
    <2>5. ASSUME waiters # <<>>, freezer'[Head(waiters)] = "queued" PROVE frozen \/ active' > 0
      <3>1. Head(waiters) \in Freezes
        BY <1>0, <2>5
      <3>2. ~ (active' = 0 /\ waiters # <<>>)
        BY <2>1, <2>5, <3>1 DEF NotifyIf, NotifyLocked
      <3> QED BY <1>0, <2>5, <3>2
    <2> QED BY <1>0, <2>1, <2>2, <2>3, <2>4, <2>5 DEF SleepersHaveReason
  <1>2. CASE ~ Leave(w)
    <2>1. /\ UNCHANGED <<frozen, closed, waiters, freezer>> /\ active' >= active
          /\ \A v \in Writers : writer'[v] = "parked" =>
                writer[v] = "parked" \/ (~ closed /\ (frozen \/ waiters # <<>>))
      BY <1>0, <1>2 DEF BeginWrite, GateStep, TakeReconcileSlot, Enter, Park, Answer, Refuse, Stage,
         Reconcile, WriterTo, gateVars, processVars
    <2>2. QueueTrue'
      BY <1>0, <2>1, SameQueue
    <2> QED BY <1>0, <2>1, <2>2 DEF SleepersHaveReason
  <1> QED BY <1>1, <1>2

\* notifyLocked: nobody sleeps after it.
LEMMA AllAwake ==
  ASSUME NEW wr \in [Writers -> WriterPcs], NEW fr \in [Freezes -> FreezerPcs],
         NotifyLocked(wr, fr), waiters' \in Seq(Freezes)
  PROVE  /\ SleepersHaveReason'
         /\ \A f \in Freezes : freezer'[f] \in Waiting <=> fr[f] \in Waiting
  <1>1. \A w \in Writers : writer'[w] # "parked"
    BY DEF NotifyLocked
  <1>2. \A f \in Freezes : freezer'[f] # "queued" /\ (freezer'[f] \in Waiting <=> fr[f] \in Waiting)
    BY DEF NotifyLocked, Waiting
  <1>3. waiters' # <<>> => Head(waiters') \in Freezes
    OBVIOUS
  <1> QED BY <1>1, <1>2, <1>3 DEF SleepersHaveReason

\* A freeze that gives up or is refused, in the queue or before it.
LEMMA LeavingStranded ==
  ASSUME WakeInv, GateInv', NEW f \in Freezes, GiveUpFreeze(f) \/ RefuseFreeze(f)
  PROVE  QueueTrue' /\ SleepersHaveReason'
  <1>0. /\ writer \in [Writers -> WriterPcs] /\ freezer \in [Freezes -> FreezerPcs]
        /\ waiters \in Seq(Freezes) /\ waiters' \in Seq(Freezes)
        /\ QueueTrue /\ SleepersHaveReason
    BY DEF WakeInv, GateInv, TypeOK, WriterPcs, FreezerPcs
  <1>1. FreezerTo(f, "out") \in [Freezes -> FreezerPcs]
        /\ \A g \in Freezes : FreezerTo(f, "out")[g] = IF g = f THEN "out" ELSE freezer[g]
    BY <1>0 DEF FreezerTo, FreezerPcs
  <1>2. CASE freezer[f] = "beginning"
    <2>1. UNCHANGED <<active, frozen, closed, waiters, writer>> /\ freezer' = FreezerTo(f, "out")
      BY <1>2 DEF GiveUpFreeze, CancelFreeze, RefuseFreeze, gateVars
    <2>2. QueueTrue'
      BY <1>0, <1>1, <1>2, <2>1, SameQueue DEF Waiting
    <2>3. waiters # <<>> => Head(waiters) \in Freezes
      BY <1>0
    <2> QED BY <1>0, <1>1, <2>1, <2>2, <2>3 DEF SleepersHaveReason
  <1>3. CASE CancelFreeze(f)
    <2>1. /\ RemoveWaiterLocked(f) /\ UNCHANGED <<active, frozen, closed>>
          /\ NotifyIf(IsHead(f), writer, FreezerTo(f, "out"))
      BY <1>3 DEF CancelFreeze
    <2>2. \A g \in Freezes : freezer'[g] \in Waiting <=> FreezerTo(f, "out")[g] \in Waiting
      BY <1>0, <1>1, <2>1, AllAwake DEF NotifyIf
    <2>3. freezer'[f] \notin Waiting /\ \A g \in Freezes \ {f} : freezer'[g] \in Waiting <=> freezer[g] \in Waiting
      BY <1>1, <2>2 DEF Waiting
    <2>4. QueueTrue' /\ (~ IsHead(f) => waiters' # <<>> /\ Head(waiters') = Head(waiters))
      BY <2>1, <2>3, LeavesInOrder
    <2>5. CASE IsHead(f)
      BY <1>0, <1>1, <2>1, <2>4, <2>5, AllAwake DEF NotifyIf
    <2>6. CASE ~ IsHead(f)
      <3>1. writer' = writer /\ freezer' = FreezerTo(f, "out") /\ waiters' # <<>> /\ Head(waiters') = Head(waiters)
        BY <2>1, <2>4, <2>6 DEF NotifyIf
      <3>2. waiters # <<>> /\ Head(waiters) \in Freezes
        BY <1>0, <2>1 DEF RemoveWaiterLocked
      <3> QED BY <1>0, <1>1, <2>1, <2>4, <3>1, <3>2 DEF SleepersHaveReason
    <2> QED BY <2>4, <2>5, <2>6
  <1>4. CASE RefuseFreeze(f) /\ freezer[f] # "beginning"
    <2>1. /\ closed /\ RemoveWaiterLocked(f) /\ UNCHANGED <<active, frozen, closed, writer>>
          /\ freezer' = FreezerTo(f, "out")
      BY <1>4 DEF RefuseFreeze
    <2>2. freezer'[f] \notin Waiting /\ \A g \in Freezes \ {f} : freezer'[g] \in Waiting <=> freezer[g] \in Waiting
      BY <1>1, <2>1 DEF Waiting
    <2>3. QueueTrue'
      BY <2>1, <2>2, LeavesInOrder
    <2>4. \A w \in Writers : writer'[w] # "parked"
      BY <1>0, <2>1 DEF SleepersHaveReason
    <2>5. \A g \in Freezes : freezer'[g] # "queued"
      BY <1>0, <1>1, <2>1 DEF SleepersHaveReason
    <2>6. waiters' # <<>> => Head(waiters') \in Freezes
      BY <1>0
    <2> QED BY <2>3, <2>4, <2>5, <2>6 DEF SleepersHaveReason
  <1> QED BY <1>2, <1>3, <1>4 DEF GiveUpFreeze

\* A freeze that looks at the gate: it takes it, or queues with a reason.
LEMMA LookingStranded ==
  ASSUME WakeInv, GateInv', NEW f \in Freezes, QueueFreeze(f) \/ RetryFreeze(f)
  PROVE  QueueTrue' /\ SleepersHaveReason'
  <1>0. /\ writer \in [Writers -> WriterPcs] /\ freezer \in [Freezes -> FreezerPcs]
        /\ waiters \in Seq(Freezes) /\ waiters' \in Seq(Freezes) /\ active \in Nat
        /\ QueueTrue /\ SleepersHaveReason
        /\ UNCHANGED <<active, closed, writer>> /\ ~ closed
    BY DEF WakeInv, GateInv, TypeOK, WriterPcs, FreezerPcs, QueueFreeze, RetryFreeze
  <1>1. waiters' # <<>> => Head(waiters') \in Freezes
    BY <1>0
  <1>2. CASE Granted(f)
    <2>1. freezer' = FreezerTo(f, "holding") /\ frozen'
      BY <1>2 DEF Granted
    <2>2. freezer'[f] = "holding" /\ \A g \in Freezes \ {f} : freezer'[g] = freezer[g]
      BY <1>0, <2>1 DEF FreezerTo
    <2>3. QueueTrue'
      <3>1. CASE QueueFreeze(f)
        <4>1. freezer[f] = "beginning" /\ waiters' = waiters
          BY <1>0, <2>2, <3>1 DEF QueueFreeze, FreezerTo
        <4> QED BY <1>0, <2>2, <4>1, SameQueue DEF Waiting
      <3>2. CASE RetryFreeze(f)
        <4>1. RemoveWaiterLocked(f)
          BY <1>0, <2>2, <3>2 DEF RetryFreeze, FreezerTo
        <4> QED BY <2>2, <4>1, LeavesInOrder DEF Waiting
      <3> QED BY <3>1, <3>2
    <2> QED BY <1>0, <2>1, <2>2, <2>3 DEF SleepersHaveReason
  <1>3. CASE ~ Granted(f)
    <2>1. freezer' = FreezerTo(f, "queued") /\ frozen' = frozen
      BY <1>3 DEF QueueFreeze, RetryFreeze
    <2>2. freezer'[f] = "queued" /\ \A g \in Freezes \ {f} : freezer'[g] = freezer[g]
      BY <1>0, <2>1 DEF FreezerTo
    <2>3. CASE QueueFreeze(f)
      <3>1. freezer[f] = "beginning" /\ waiters' = Append(waiters, f)
            /\ ~ (waiters = <<>> /\ active = 0 /\ ~ frozen)
        BY <1>3, <2>3 DEF QueueFreeze
      <3>2. QueueTrue' /\ waiters' # <<>> /\ Head(waiters') = IF waiters = <<>> THEN f ELSE Head(waiters)
        BY <2>1, <3>1, JoinsQueue DEF Waiting
      <3>3. freezer'[Head(waiters')] = "queued" => frozen \/ active > 0
        <4>1. CASE waiters = <<>>
          BY <1>0, <3>1, <4>1
        <4>2. CASE waiters # <<>>
          <5>1. Head(waiters') = Head(waiters) /\ Head(waiters) # f
            <6>1. Head(waiters) = waiters[1] /\ 1 \in DOMAIN waiters
              BY <1>0, <4>2
            <6> QED BY <3>1, <3>2, <4>2, <6>1 DEF WakeInv, QueueTrue, Waiting
          <5> QED BY <1>0, <1>1, <2>2, <3>2, <4>2, <5>1 DEF SleepersHaveReason
        <4> QED BY <4>1, <4>2
      <3> QED BY <1>0, <2>1, <2>2, <3>2, <3>3 DEF SleepersHaveReason
    <2>4. CASE RetryFreeze(f)
      <3>1. freezer[f] = "woken" /\ waiters' = waiters /\ ~ (IsHead(f) /\ active = 0 /\ ~ frozen)
        BY <1>3, <2>4 DEF RetryFreeze
      <3>2. QueueTrue'
        BY <1>0, <2>2, <3>1, SameQueue DEF Waiting
      <3>3. waiters # <<>> /\ freezer'[Head(waiters)] = "queued" => frozen \/ active > 0
        BY <1>0, <1>1, <2>2, <3>1 DEF SleepersHaveReason, IsHead
      <3> QED BY <1>0, <2>1, <2>2, <3>1, <3>2, <3>3 DEF SleepersHaveReason
    <2> QED BY <2>3, <2>4
  <1> QED BY <1>2, <1>3

\* A freeze that arrives, ends its callback or gives the gate back.
LEMMA HoldingStranded ==
  ASSUME WakeInv, GateInv', NEW f \in Freezes,
         BeginFreeze(f) \/ EndCallback(f) \/ ReleaseFreeze(f)
  PROVE  QueueTrue' /\ SleepersHaveReason'
  <1>0. /\ writer \in [Writers -> WriterPcs] /\ freezer \in [Freezes -> FreezerPcs]
        /\ waiters \in Seq(Freezes) /\ QueueTrue /\ SleepersHaveReason
        /\ (waiters # <<>> => Head(waiters) \in Freezes)
    BY DEF WakeInv, GateInv, TypeOK, WriterPcs, FreezerPcs
  <1>1. CASE BeginFreeze(f) \/ EndCallback(f)
    <2>1. UNCHANGED <<active, frozen, closed, waiters, writer>>
          /\ \A g \in Freezes : /\ freezer'[g] \in Waiting <=> freezer[g] \in Waiting
                                /\ freezer'[g] = "queued" => freezer[g] = "queued"
      BY <1>0, <1>1 DEF BeginFreeze, EndCallback, FreezerTo, Waiting, gateVars
    <2>2. QueueTrue'
      BY <1>0, <2>1, SameQueue
    <2> QED BY <1>0, <2>1, <2>2 DEF SleepersHaveReason
  <1>2. CASE ReleaseFreeze(f)
    <2>1. freezer[f] = "invalidating" /\ NotifyLocked(writer, FreezerTo(f, "out")) /\ waiters' = waiters
      BY <1>2 DEF ReleaseFreeze
    <2>2. FreezerTo(f, "out") \in [Freezes -> FreezerPcs]
          /\ \A g \in Freezes : FreezerTo(f, "out")[g] \in Waiting <=> freezer[g] \in Waiting
      BY <1>0, <2>1 DEF FreezerTo, FreezerPcs, Waiting
    <2>3. SleepersHaveReason' /\ \A g \in Freezes : freezer'[g] \in Waiting <=> FreezerTo(f, "out")[g] \in Waiting
      BY <1>0, <2>1, <2>2, AllAwake
    <2> QED BY <1>0, <2>1, <2>2, <2>3, SameQueue
  <1> QED BY <1>1, <1>2

\* closeContext: its own freeze, and the wake-up of everybody at the end.
LEMMA ClosingStranded ==
  ASSUME WakeInv, GateInv', BeginClose \/ CloseStep \/ CloseTimesOut
  PROVE  QueueTrue' /\ SleepersHaveReason'
  <1>0. /\ writer \in [Writers -> WriterPcs] /\ freezer \in [Freezes -> FreezerPcs]
        /\ waiters \in Seq(Freezes) /\ QueueTrue /\ SleepersHaveReason
        /\ (waiters # <<>> => Head(waiters) \in Freezes)
        /\ Closer \in Freezes /\ CloserAtGate
    BY DEF WakeInv, GateInv, TypeOK, WriterPcs, FreezerPcs, Freezes
  <1>1. CASE UNCHANGED <<gateVars, processVars>>
    BY <1>0, <1>1, SameQueue DEF gateVars, processVars, SleepersHaveReason
  <1>2. CASE JoinWorker
    <2>1. UNCHANGED <<active, frozen, closed, waiters, writer>> /\ freezer' = FreezerTo(Closer, "beginning")
          /\ freezer[Closer] = "out"
      BY <1>0, <1>2 DEF JoinWorker, gateVars, CloserAtGate
    <2>2. \A g \in Freezes : /\ freezer'[g] \in Waiting <=> freezer[g] \in Waiting
                             /\ freezer'[g] = "queued" => freezer[g] = "queued"
      BY <1>0, <2>1 DEF FreezerTo, Waiting
    <2> QED BY <1>0, <2>1, <2>2, SameQueue DEF SleepersHaveReason
  <1>3. CASE CloseDrains
    <2>1. freezer[Closer] = "holding" /\ NotifyLocked(writer, FreezerTo(Closer, "out")) /\ waiters' = waiters
      BY <1>3 DEF CloseDrains
    <2>2. FreezerTo(Closer, "out") \in [Freezes -> FreezerPcs]
          /\ \A g \in Freezes : FreezerTo(Closer, "out")[g] \in Waiting <=> freezer[g] \in Waiting
      BY <1>0, <2>1 DEF FreezerTo, FreezerPcs, Waiting
    <2>3. SleepersHaveReason'
          /\ \A g \in Freezes : freezer'[g] \in Waiting <=> FreezerTo(Closer, "out")[g] \in Waiting
      BY <1>0, <2>1, <2>2, AllAwake
    <2> QED BY <1>0, <2>1, <2>2, <2>3, SameQueue
  <1>4. CASE CloseAdmission
    <2>1. NotifyLocked(writer, freezer) /\ waiters' = waiters
      BY <1>4 DEF CloseAdmission
    <2> QED BY <1>0, <2>1, AllAwake, SameQueue
  <1>5. CASE CloseTimesOut /\ GiveUpFreeze(Closer)
    BY <1>0, <1>5, LeavingStranded
  <1> QED BY <1>1, <1>2, <1>3, <1>4, <1>5
      DEF BeginClose, CloseStep, CloseConnections, CloseTimesOut

\* Every step of the gate keeps somebody who will wake each waiter.
LEMMA WakeStep == WakeInv /\ [Next]_vars => WakeInv'
  <1> SUFFICES ASSUME WakeInv, [Next]_vars PROVE WakeInv'
    OBVIOUS
  <1>0. GateInv'
    BY StepInv DEF WakeInv
  <1>1. CASE \E w \in Writers : \/ BeginWrite(w) \/ GateStep(w) \/ Refuse(w) \/ Stage(w)
                                \/ \E b \in Submitters : Reconcile(w, b)
    BY <1>0, <1>1, WriterStranded DEF WakeInv
  <1>2. CASE \E f \in Freezes : BeginFreeze(f) \/ FreezeStep(f) \/ AbandonFreeze(f)
    <2>1. PICK f \in Freezes : BeginFreeze(f) \/ FreezeStep(f) \/ AbandonFreeze(f)
      BY <1>2
    <2> QED BY <1>0, <2>1, LeavingStranded, LookingStranded, HoldingStranded
        DEF WakeInv, FreezeStep, AbandonFreeze
  <1>3. CASE UNCHANGED <<gateVars, processVars>>
    BY <1>0, <1>3, SameQueue DEF WakeInv, SleepersHaveReason, gateVars, processVars
  <1>4. CASE \E t \in Tasks : \/ TaskStep(t) \/ AbandonTask(t)
                              \/ \E f \in Freezes, op \in Operations : BeginTask(t, f, op)
    BY <1>3, <1>4 DEF TaskStep, StartTask, FinishDrain, FinishMaintenance, AbandonTask, BeginTask, NotTask
  <1>5. CASE BeginClose \/ CloseStep \/ CloseTimesOut
    BY <1>0, <1>5, ClosingStranded DEF WakeInv
  <1> QED BY <1>1, <1>2, <1>3, <1>4, <1>5 DEF Next, vars

\* notifyLocked and removeWaiterLocked: however many goroutines wait, nobody
\* stays parked with the gate free, behind a parked head, or after close, and
\* the queue holds each waiting freeze once.
THEOREM NobodyStranded == Spec => []NobodyIsStranded
  <1>1. Init => WakeInv
    <2>1. Init => QueueTrue /\ SleepersHaveReason
      BY DEF Init, QueueTrue, SleepersHaveReason, Waiting
    <2> QED BY <2>1, InitInv DEF WakeInv
  <1>2. WakeInv => NobodyIsStranded
    <2> SUFFICES ASSUME WakeInv, NEW f \in Freezes, freezer[f] \in {"queued", "woken"}
                 PROVE  Cardinality({i \in DOMAIN waiters : waiters[i] = f}) = 1
      BY DEF WakeInv, SleepersHaveReason, NobodyIsStranded
    <2>1. PICK i \in DOMAIN waiters : waiters[i] = f
      BY DEF WakeInv, QueueTrue, Waiting
    <2>2. {k \in DOMAIN waiters : waiters[k] = f} = {i}
      BY <2>1 DEF WakeInv, QueueTrue
    <2> QED BY <2>2, FS_Singleton
  <1> QED BY <1>1, <1>2, WakeStep, PTL DEF Spec
===============================================================================
