--------------------------- MODULE IndexDeletion ---------------------------
(***************************************************************************)
(* Deletion of the data of an archived index: the catalog in SQLite        *)
(* (internal/control), the coordinator that works off durable deletion     *)
(* operations (internal/indexes/deletion_coordinator.go), the mutation it  *)
(* submits to ClickHouse (internal/clickhouse/index_deletion_mutation.go), *)
(* the registry that keeps searches away (internal/indexread), and the     *)
(* writers of events, native and HEC, that were authorised before.         *)
(*                                                                         *)
(* The write gate is WriteAdmission's: here a call under the gate is one   *)
(* step that cannot happen while the coordinator holds the freeze.         *)
(***************************************************************************)
EXTENDS Integers, FiniteSets, Sequences

CONSTANTS
  Index,          \* the indexes of the catalog
  NativeWriters,  \* collector streams: authority is read before the store call
  HecWriters,     \* HEC requests: authority is read again when staging
  Readers,        \* searches
  MaxWrites,      \* bound: batches authorised
  MaxFaults,      \* bound: calls that fail, answers that are lost
  MaxCrashes,     \* bound: restarts of the server
  None

ASSUME DeletionConstants ==
  /\ None \notin Index
  /\ NativeWriters \cap HecWriters = {}
  /\ MaxWrites \in Nat /\ MaxFaults \in Nat /\ MaxCrashes \in Nat

Writers == NativeWriters \cup HecWriters

VARIABLES
  life,       \* durable: state of each index; "hidden" and "deleted" have a tombstone
  ops,        \* durable: indexes with an outstanding deletion operation, oldest first
  attempts,   \* durable: indexes whose operation has its mutation attempt
  outbox,     \* durable: batches of each index that are staged, not yet inserted
  rows,       \* ClickHouse: the block numbers of each index's rows
  block,      \* ClickHouse: the last block number handed out
  mutations,  \* ClickHouse: the correlated mutations it remembers
  flight,     \* ClickHouse: submissions that may still take effect
  granted,    \* the index each writer is authorised for
  reader,     \* each search: its step and the indexes it reads
  retired,    \* Registry.retired
  frozen,     \* whether the coordinator holds the write freeze
  pc, cur, known, before,  \* the coordinator's step and its current work
  writes, faults, crashes

catalogVars == <<life, ops, attempts>>
storeVars == <<outbox, rows, block, mutations, flight>>
clientVars == <<granted, reader, retired>>
coordVars == <<frozen, pc, cur, known, before>>
bounds == <<writes, faults, crashes>>
vars == <<catalogVars, storeVars, clientVars, coordVars, bounds>>

Steps == {"scan", "retire", "join", "attempt", "status", "freeze", "drain",
          "ensure", "reconcile", "prove", "submit", "answer", "compare",
          "reprove", "complete", "audit"}

TypeOK ==
  /\ life \in [Index -> {"active", "archived", "deleting", "deleted", "hidden"}]
  /\ ops \in Seq(Index) /\ attempts \subseteq Index
  /\ outbox \in [Index -> Nat]
  /\ rows \in [Index -> SUBSET (1 .. block)] /\ block \in Nat
  /\ mutations \subseteq [index : Index, block : 1 .. block, done : BOOLEAN]
  /\ flight \subseteq Index
  /\ granted \in [Writers -> Index \cup {None}]
  /\ reader \in [Readers -> [at : {"idle", "checked", "reading"}, scope : SUBSET Index]]
  /\ retired \subseteq Index
  /\ frozen \in BOOLEAN /\ known \in BOOLEAN /\ before \in Nat
  /\ pc \in Steps /\ cur \in Index \cup {None}
  /\ (cur = None) <=> (pc = "scan")
  /\ frozen <=> pc \in {"drain", "ensure", "reconcile", "prove", "submit",
                        "answer", "compare", "reprove", "complete"}
  /\ writes \in 0 .. MaxWrites /\ faults \in 0 .. MaxFaults /\ crashes \in 0 .. MaxCrashes

Init ==
  /\ life = [i \in Index |-> "active"] /\ ops = <<>> /\ attempts = {}
  /\ outbox = [i \in Index |-> 0] /\ rows = [i \in Index |-> {}] /\ block = 0
  /\ mutations = {} /\ flight = {}
  /\ granted = [w \in Writers |-> None]
  /\ reader = [r \in Readers |-> [at |-> "idle", scope |-> {}]] /\ retired = {}
  /\ frozen = FALSE /\ pc = "scan" /\ cur = None /\ known = FALSE /\ before = 0
  /\ writes = 0 /\ faults = 0 /\ crashes = 0

Fault == faults < MaxFaults /\ faults' = faults + 1

-----------------------------------------------------------------------------
(* The administrator's calls, each one SQLite transaction.                 *)

Archive(i) ==
  /\ life[i] = "active"
  /\ life' = [life EXCEPT ![i] = "archived"]
  /\ UNCHANGED <<ops, attempts, storeVars, clientVars, coordVars, bounds>>

DeleteKeepingData(i) ==
  /\ life[i] = "archived"
  /\ life' = [life EXCEPT ![i] = "hidden"]
  /\ UNCHANGED <<ops, attempts, storeVars, clientVars, coordVars, bounds>>

BeginDeletion(i) ==
  /\ life[i] = "archived"
  /\ life' = [life EXCEPT ![i] = "deleting"]
  /\ ops' = Append(ops, i)
  /\ UNCHANGED <<attempts, storeVars, clientVars, coordVars, bounds>>

-----------------------------------------------------------------------------
(* Writers.  A native stream takes its policy snapshot first and stores     *)
(* with it later; a HEC request is checked again when it is staged.         *)

Authorize(w, i) ==
  /\ granted[w] = None /\ life[i] = "active" /\ writes < MaxWrites
  /\ granted' = [granted EXCEPT ![w] = i]
  /\ writes' = writes + 1
  /\ UNCHANGED <<catalogVars, storeVars, reader, retired, coordVars, faults, crashes>>

StillAuthorized(w) == w \in HecWriters => life[granted[w]] = "active"

StageBatch(w) ==
  /\ granted[w] # None /\ ~frozen
  /\ granted' = [granted EXCEPT ![w] = None]
  /\ outbox' = IF StillAuthorized(w) THEN [outbox EXCEPT ![granted[w]] = @ + 1] ELSE outbox
  /\ UNCHANGED <<catalogVars, rows, block, mutations, flight, reader, retired, coordVars, bounds>>

\* The store or its reconciler inserts a staged batch, inside the gate.
Insert(i) ==
  /\ ~frozen /\ outbox[i] > 0
  /\ outbox' = [outbox EXCEPT ![i] = @ - 1]
  /\ block' = block + 1
  /\ rows' = [rows EXCEPT ![i] = @ \cup {block'}]
  /\ UNCHANGED <<catalogVars, mutations, flight, clientVars, coordVars, bounds>>

-----------------------------------------------------------------------------
(* Searches.  The durable check comes first, then the live registry.        *)

CheckCatalog(r, S) ==
  /\ reader[r].at = "idle" /\ S # {}
  /\ \A i \in S : life[i] \in {"active", "archived"}
  /\ reader' = [reader EXCEPT ![r] = [at |-> "checked", scope |-> S]]
  /\ UNCHANGED <<catalogVars, storeVars, granted, retired, coordVars, bounds>>

\* Mutant: the live registry is not asked.
AcquireUnfenced(r) ==
  /\ reader[r].at = "checked"
  /\ reader' = [reader EXCEPT ![r].at = "reading"]
  /\ UNCHANGED <<catalogVars, storeVars, granted, retired, coordVars, bounds>>

Acquire(r) ==
  /\ reader[r].at = "checked"
  /\ reader' = [reader EXCEPT ![r] =
       IF @.scope \cap retired = {} THEN [@ EXCEPT !.at = "reading"]
       ELSE [at |-> "idle", scope |-> {}]]
  /\ UNCHANGED <<catalogVars, storeVars, granted, retired, coordVars, bounds>>

ReleaseRead(r) ==
  /\ reader[r].at = "reading"
  /\ reader' = [reader EXCEPT ![r] = [at |-> "idle", scope |-> {}]]
  /\ UNCHANGED <<catalogVars, storeVars, granted, retired, coordVars, bounds>>

Reads(i) == {r \in Readers : reader[r].at = "reading" /\ i \in reader[r].scope}

-----------------------------------------------------------------------------
(* ClickHouse.  A mutation works part by part on the rows that are older    *)
(* than itself, and old finished mutations are forgotten.                   *)

MutationLands(i) ==
  /\ i \in flight
  /\ flight' = flight \ {i}
  /\ block' = block + 1
  /\ mutations' = mutations \cup {[index |-> i, block |-> block', done |-> FALSE]}
  /\ UNCHANGED <<catalogVars, outbox, rows, clientVars, coordVars, bounds>>

SubmissionIsLost(i) ==
  /\ i \in flight /\ Fault
  /\ flight' = flight \ {i}
  /\ UNCHANGED <<catalogVars, outbox, rows, block, mutations, clientVars, coordVars, writes, crashes>>

Older(m) == {b \in rows[m.index] : b < m.block}

MutatePart(m) ==
  /\ ~m.done
  /\ \E b \in Older(m) : rows' = [rows EXCEPT ![m.index] = @ \ {b}]
  /\ UNCHANGED <<catalogVars, outbox, block, mutations, flight, clientVars, coordVars, bounds>>

FinishMutation(m) ==
  /\ ~m.done /\ Older(m) = {}
  /\ mutations' = (mutations \ {m}) \cup {[m EXCEPT !.done = TRUE]}
  /\ UNCHANGED <<catalogVars, outbox, rows, block, flight, clientVars, coordVars, bounds>>

ForgetMutation(m) ==
  /\ m.done
  /\ mutations' = mutations \ {m}
  /\ UNCHANGED <<catalogVars, outbox, rows, block, flight, clientVars, coordVars, bounds>>

Correlated(i) == {m \in mutations : m.index = i}
Pending(i) == \E m \in Correlated(i) : ~m.done
LatestBlock(i) ==
  CHOOSE b \in {0} \cup {m.block : m \in Correlated(i)} : \A m \in Correlated(i) : m.block <= b

-----------------------------------------------------------------------------
(* The coordinator: reconcileStep and advanceFrozen, one call at a time.    *)
(* An error ends the step, with the freeze released; the work is kept and   *)
(* the next step retires the reads again.                                   *)

Goto(step) == pc' = step /\ UNCHANGED <<frozen, cur, known, before>>
KeepWork == UNCHANGED <<cur, known, before>>

StepOver == pc' = "retire" /\ frozen' = FALSE

WorkDone == pc' = "scan" /\ frozen' = FALSE /\ cur' = None /\ known' = FALSE /\ UNCHANGED before

Scan ==
  /\ pc = "scan" /\ ops # <<>>
  /\ cur' = Head(ops) /\ pc' = "retire" /\ known' = FALSE
  /\ UNCHANGED <<frozen, before, catalogVars, storeVars, clientVars, bounds>>

Retire ==
  /\ pc = "retire"
  /\ retired' = retired \cup {cur}
  /\ Goto("join")
  /\ UNCHANGED <<catalogVars, storeVars, granted, reader, bounds>>

JoinReads ==
  /\ pc = "join" /\ Reads(cur) = {}
  /\ Goto(IF known THEN "status" ELSE "attempt")
  /\ UNCHANGED <<catalogVars, storeVars, clientVars, bounds>>

GetAttempt ==
  /\ pc = "attempt"
  /\ known' = (cur \in attempts)
  /\ pc' = IF known' THEN "status" ELSE "freeze"
  /\ UNCHANGED <<frozen, cur, before, catalogVars, storeVars, clientVars, bounds>>

PollStatus ==
  /\ pc = "status"
  /\ Goto(IF Pending(cur) THEN "retire" ELSE "freeze")
  /\ UNCHANGED <<catalogVars, storeVars, clientVars, bounds>>

Freeze ==
  /\ pc = "freeze"
  /\ frozen' = TRUE /\ pc' = "drain"
  /\ KeepWork
  /\ UNCHANGED <<catalogVars, storeVars, clientVars, bounds>>

\* DrainPending returns when every staged batch of the store is inserted.
DrainOne(i) ==
  /\ pc = "drain" /\ outbox[i] > 0
  /\ outbox' = [outbox EXCEPT ![i] = @ - 1]
  /\ block' = block + 1
  /\ rows' = [rows EXCEPT ![i] = @ \cup {block'}]
  /\ UNCHANGED <<catalogVars, mutations, flight, clientVars, coordVars, bounds>>

Drained ==
  /\ pc = "drain" /\ \A i \in Index : outbox[i] = 0
  /\ Goto(IF known THEN "reconcile" ELSE "ensure")
  /\ UNCHANGED <<catalogVars, storeVars, clientVars, bounds>>

EnsureAttempt ==
  /\ pc = "ensure"
  /\ attempts' = attempts \cup {cur}
  /\ \/ known' = TRUE /\ pc' = "reconcile" /\ UNCHANGED <<frozen, cur, before, faults>>
     \/ Fault /\ StepOver /\ KeepWork   \* committed, but its answer is an error
  /\ UNCHANGED <<life, ops, storeVars, clientVars, writes, crashes>>

Reconcile ==
  /\ pc = "reconcile"
  /\ before' = LatestBlock(cur)
  /\ IF Pending(cur) THEN StepOver ELSE pc' = "prove" /\ UNCHANGED frozen
  /\ UNCHANGED <<cur, known, catalogVars, storeVars, clientVars, bounds>>

\* Mutant: a submission that returned stands for an empty index.
ProveEmptyByHistory ==
  /\ pc \in {"prove", "reprove"}
  /\ IF rows[cur] = {} \/ pc = "reprove" THEN Goto("complete") ELSE Goto("submit")
  /\ UNCHANGED <<catalogVars, storeVars, clientVars, bounds>>

\* The exact absence check, before and after the submission.
ProveEmpty ==
  /\ pc \in {"prove", "reprove"}
  /\ \/ rows[cur] = {} /\ Goto("complete")
     \/ rows[cur] # {} /\ pc = "prove" /\ Goto("submit")
     \/ rows[cur] # {} /\ pc = "reprove" /\ StepOver /\ KeepWork
  /\ UNCHANGED <<catalogVars, storeVars, clientVars, bounds>>

\* One query id for all submissions of an attempt: ClickHouse refuses a
\* second one while the first is running.
Submit ==
  /\ pc = "submit"
  /\ flight' = flight \cup {cur}
  /\ Goto(IF cur \in flight THEN "compare" ELSE "answer")
  /\ UNCHANGED <<catalogVars, outbox, rows, block, mutations, clientVars, bounds>>

SubmitReturns ==
  /\ pc = "answer"
  /\ \/ cur \notin flight /\ UNCHANGED faults
     \/ cur \in flight /\ Fault     \* the answer does not come in time
  /\ Goto("compare")
  /\ UNCHANGED <<catalogVars, storeVars, clientVars, writes, crashes>>

CompareAfterSubmit ==
  /\ pc = "compare"
  /\ IF LatestBlock(cur) > before /\ Pending(cur)
     THEN StepOver /\ KeepWork
     ELSE Goto("reprove")
  /\ UNCHANGED <<catalogVars, storeVars, clientVars, bounds>>

\* Mutant: the operation is not consumed.
CompletionCommitsKeepingOperation ==
  /\ life' = [life EXCEPT ![cur] = "deleted"]
  /\ ops' = ops /\ attempts' = attempts \ {cur}

\* CompleteIndexDataDeletion: the trigger writes the tombstone and consumes
\* the operation and its attempt.  A completion that is there already is
\* returned as it is.  Only the coordinator consumes operations, oldest first.
CompletionCommits ==
  /\ life' = [life EXCEPT ![cur] = "deleted"]
  /\ ops' = IF ops # <<>> /\ Head(ops) = cur THEN Tail(ops) ELSE ops
  /\ attempts' = attempts \ {cur}

Complete ==
  /\ pc = "complete"
  /\ \/ CompletionCommits /\ WorkDone /\ UNCHANGED faults
     \/ /\ Fault
        /\ CompletionCommits \/ UNCHANGED catalogVars
        /\ pc' = "audit" /\ frozen' = FALSE /\ KeepWork
  /\ UNCHANGED <<storeVars, clientVars, writes, crashes>>

ReadTerminalAudit ==
  /\ pc = "audit"
  /\ IF life[cur] = "deleted" THEN WorkDone ELSE StepOver /\ KeepWork
  /\ UNCHANGED <<catalogVars, storeVars, clientVars, bounds>>

\* Any call but the submission and the commits fails without an effect, or
\* the step's deadline passes.
CallFails ==
  /\ pc \in {"join", "attempt", "status", "freeze", "drain", "ensure",
             "reconcile", "prove", "compare", "reprove", "audit"}
  /\ Fault /\ StepOver /\ KeepWork
  /\ UNCHANGED <<catalogVars, storeVars, clientVars, writes, crashes>>

\* The process ends at any point; what is not durable is gone.
Crash ==
  /\ crashes < MaxCrashes /\ crashes' = crashes + 1
  /\ granted' = [w \in Writers |-> None]
  /\ reader' = [r \in Readers |-> [at |-> "idle", scope |-> {}]]
  /\ retired' = {}
  /\ pc' = "scan" /\ frozen' = FALSE /\ cur' = None /\ known' = FALSE /\ before' = 0
  /\ UNCHANGED <<catalogVars, storeVars, writes, faults>>

-----------------------------------------------------------------------------
Coordinator ==
  \/ Scan \/ Retire \/ JoinReads \/ GetAttempt \/ PollStatus \/ Freeze
  \/ \E i \in Index : DrainOne(i)
  \/ Drained \/ EnsureAttempt \/ Reconcile \/ ProveEmpty \/ Submit \/ SubmitReturns
  \/ CompareAfterSubmit \/ Complete \/ ReadTerminalAudit \/ CallFails

ClickHouse ==
  \/ \E i \in Index : MutationLands(i) \/ SubmissionIsLost(i)
  \/ \E m \in mutations : MutatePart(m) \/ FinishMutation(m) \/ ForgetMutation(m)

Clients ==
  \/ \E i \in Index : Archive(i) \/ DeleteKeepingData(i) \/ BeginDeletion(i) \/ Insert(i)
  \/ \E w \in Writers : StageBatch(w) \/ \E i \in Index : Authorize(w, i)
  \/ \E r \in Readers : Acquire(r) \/ ReleaseRead(r) \/ \E S \in SUBSET Index : CheckCatalog(r, S)

Next == Coordinator \/ ClickHouse \/ Clients \/ Crash

Spec == Init /\ [][Next]_vars

(* The worker goroutine runs; ClickHouse works its mutations off and a       *)
(* submission arrives or is lost; a search whose context is cancelled ends.  *)
Fairness ==
  /\ WF_vars(Coordinator)
  /\ \A i \in Index : WF_vars(MutationLands(i))
  /\ WF_vars(\E m \in mutations : MutatePart(m) \/ FinishMutation(m))
  /\ \A r \in Readers : WF_vars(ReleaseRead(r))

FairSpec == Spec /\ Fairness

-----------------------------------------------------------------------------
(* Properties.                                                              *)

\* An operation is completed only on the proof the coordinator holds: under
\* the freeze, with nothing staged and no row of the index left, even if
\* answers were lost and the proof is an earlier call's.
CompletionIsProven ==
  [][\A i \in Index : life[i] # "deleted" /\ life'[i] = "deleted" =>
       frozen /\ rows[i] = {} /\ outbox[i] = 0]_vars

\* Rows disappear only from an index whose deletion was begun, and never
\* under a search that was admitted to it: retirement joins the searches
\* before the first mutation, also after a restart has emptied the registry.
RowsSurviveReaders ==
  [][\A i \in Index : ~(rows[i] \subseteq rows'[i]) =>
       life[i] \in {"deleting", "deleted"} /\ Reads(i) = {}]_vars

\* The durable records of one deletion belong together: an operation per
\* deleting index, an attempt only for an operation, and a submission or a
\* mutation only after its attempt is durable - the correlation by which a
\* restarted coordinator finds it.
RecordsAgree ==
  /\ \A i \in Index : (life[i] = "deleting") <=> (\E k \in DOMAIN ops : ops[k] = i)
  /\ \A j, k \in DOMAIN ops : ops[j] = ops[k] => j = k
  /\ \A i \in attempts : life[i] = "deleting"
  /\ \A i \in Index :
       i \in flight \/ Correlated(i) # {} => i \in attempts \/ life[i] = "deleted"

\* A completed deletion is final: no row of the index comes back.
DeletedStaysEmpty == \A i \in Index : life[i] = "deleted" => rows[i] = {} /\ outbox[i] = 0

\* Every admitted deletion completes, through failed calls, lost answers,
\* searches that have to be joined and restarts.
DeletionCompletes == \A i \in Index : (life[i] = "deleting") ~> (life[i] = "deleted")

\* The freeze is always given back, so ingestion never stops for good.
FreezeIsReleased == []<>~frozen

\* What the administrator is promised, without the protocol behind it.
Promise == INSTANCE DeletionPromise WITH data <- rows
KeepsPromise == Promise!Spec
=============================================================================
