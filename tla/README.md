# Open Splunk: formal models of delivery, storage and search

This directory specifies, model-checks and proves properties of Open Splunk:
how an event gets from a collected file or an HTTP request into ClickHouse once
and only once, how index data is deleted, how searches run and are streamed to a
browser, and how alerts act on them.  TLC checks the modules on small instances;
TLAPS proves the theorems of the `*_proofs` modules for all values of the
constants.

- [1 The system](#1-the-system): inventory of parts, state and hazards
- [2 Modules](#2-modules): what each one models, and how it maps to the code
- [3 Runs](#3-runs): the instances, their bounds, and what they show
- [4 Fairness](#4-fairness)
- [5 Proofs](#5-proofs)
- [6 Disagreements and observations](#6-disagreements-and-observations)
- [7 What is not modelled](#7-what-is-not-modelled)
- [8 Plan](#8-plan)

## 1 The system

A collector process tails files into a disk queue and delivers batches over a
stream.  A single server process accepts batches from collectors and from HEC
clients (HTTP), keeps them first in a SQLite ledger, writes them to ClickHouse in
groups, and runs SPL searches over the rows below a *visibility cutoff*.  Searches
are jobs with durable records; browsers follow them over a WebSocket, reports and
alerts start them on a schedule.

| Part | Code (`internal/`) | State | Operations | Hard behaviour | Correct when |
|---|---|---|---|---|---|
| Visibility ledger | `visibility/sqlite.go`, `sqlite_write_groups.go` | reservations, batch identities, write groups and members, cutoff (SQLite); attempt leases (process) | Lookup, Reserve, Reject, AcquirePending, AcquireUngroupedReplay, FormOrAcquireWriteGroup, Mark/Commit/Release for rows and groups, Abandon, PruneTerminal, NewSQLite | out-of-order commits; lost transaction results; leases of dead attempts; pruning with limits | cutoff exact; one outcome per batch; groups whole; sends in doubt replayed unchanged |
| ClickHouse ingest store | `clickhouse/store.go`, `commit_waiters.go`, `outbox.go` | wake channel, retry/linger timer, waiters; rows and deduplication log in ClickHouse | Store, ResumeBatch, Stage, RejectBatch, the reconciler goroutine | lookup/reserve races; send in doubt; crash between send and commit; dropped wake-ups | rows stored exactly once; answers true; pending work gets done |
| Write admission and shutdown | `clickhouse/write_admission.go`, `closeContext` | active count, frozen, closed, queue of freezes, capability of a callback, reconcile slot | enter, leave, freeze, WithWritesFrozen, DrainPending, close, CloseContext | cancellation in the queue; drain behind a blocked reconciler; stale capability; close under running calls | freezes exclude writers; nobody stranded; deletion only on a drained table; shutdown ends |
| Index data deletion | `indexes/deletion_coordinator.go`, `clickhouse/index_deletion_mutation.go`, `indexread`, `control/index_*` | durable deletion operations and mutation attempts; retired reads; ClickHouse mutations | archive, begin, scan, retire, freeze, drain, ensure, submit, prove, complete, audit | a submission in doubt; a restart between submission and record; reads and writers authorised earlier | no row of a live index deleted; nothing left at completion; the deletion ends |
| Ingest quotas | `ingestquota`, `visibility/sqlite_rejection_quota.go` | buckets per token and index, admissions | plan and charge in the ledger's transaction | repeated calls, changing rates, restores | one charge per admitted batch; the rate is kept |
| HEC | `hec`, `hechttp`, `hecadapter`, `visibility/hec_*.go` | requests, channels, acknowledgments | admit, follow the reservation, query, prune | pruned batch vs. retained acknowledgment; ids after a restore | acknowledged only when stored |
| Server ingest service | `ingest` | batch stream sessions | admit, look up, store, resume, answer | overlapping store calls, answers out of order, lookups that fail | every acknowledged batch durable; slots bounded |
| Collector | `collector/{wal,sender,input}`, `checkpoint_*.go`, `daemon*.go` | disk queue, input checkpoints, connection | read, flush, append, send, acknowledge, repack, checkpoint, recover | crash between acknowledgment, queue and checkpoint; torn and damaged records; full queue | no event lost, skipped or stored twice |
| Collector admission, fleet | `collectoradmission`, `collectorfleet` | leases, heartbeats, catalog | admit, heartbeat, list | liveness vs. clock | one owner per identity |
| Search jobs | `searchjobs`, `searchartifacts`, `searchhistory`, `scheduledreports` | job table, artefact rows and files, history, report runs | Create, cancel, execute, publish, lease, expire, Close, recover | three records written one after the other; cancel racing completion; Close | nothing shown before it is published; records agree; admitted searches end |
| Search streaming | `searchws`, browser `lib/api/search-websocket.ts` | targets, journal ring, subscribers, poller; client checkpoint and rows | subscribe, poll, publish, replay, resynchronize, retire | eviction, new epochs, lost connections, events that do not fit | the checkpoint is true; invalid rows go; everybody learns of the end |
| Query compiler | `spl`, `plan`, `queryexec`, `clickhouse/*` (SQL), `patterns` | none | parse, plan, compile, run | none to model | output equals semantics |
| Export | `export`, `exportjournal` | jobs, journal, files | create, run, resume, expire | restart in a job | a finished file is complete |
| Alerts, reports, scheduler | `alerts`, `alertstore`, `alertwebhook`, `scheduledreports`, `scheduler` | schedules, claims, deliveries | claim, run, deliver, complete, recover | lost claim, overlap, restart, Close | one POST at most; outcome true; every run ends |
| Catalogs | `knowledgecatalog`, `lookupcatalog`, `savedobjects`, ... | versioned rows | compare-and-set edits | stale version | single transactions |
| Control, backup, recovery | `control`, `controlbackup`, `recoveryset`, `privatefs` | SQLite database, files | migrate, back up, restore | operator-run | restorable set |
| Auth, audit, idempotency | `auth`, `audit`, `requestidempotency` | keys, records | check, append | none | append-only |
| Process, server, browser app | `cmd`, `server`, `shutdownbarrier`, `app`, `gen` | wiring | - | shutdown order | - |

How they interact:

```
 source --read--> [ batcher ] --append--> [ disk queue ] --send--> [ sender ]
                      ^ restart              | forget after           |  ^ outcomes
                      '---- checkpoint <-----'  the checkpoint        v  |
                                                            [ ingest service ]   [ HEC ]
                                                                      |             |
 Store / ResumeBatch / Stage / RejectBatch <--------------------------+-------------'
        | enter, leave
        v
   [ write admission gate ] <- reconciler slot - [ reconciler ]     [ deletion coordinator ]
        |                                          |  ^ wake, timer       | freeze, drain
        | Lookup, Reserve, Release, Reject         |  |                   | retire reads
        v                                          v  |                   | submit mutation
   [ SQLite visibility ledger ] <- form, mark, commit                     |
     quota and HEC rows in the same transactions   |                      v
        | cutoff                                   '- insert with token -> [ ClickHouse ]
        v                                                                  |
   [ search jobs ] <------- rows with sequence <= cutoff ------------------'
        |  ^ admit                       journal
        |  '-- [ alert coordinator ], report scheduler
        v
   [ search WebSocket ] --events, resynchronization--> [ browser client ]
```

The hazards, each at the line where it bites and with the properties that watch
it, are listed in `PROJECT.json`.
## 2 Modules

| Module | Role |
|---|---|
| `VisibilityLedger` | the ledger: one action per SQLite transaction |
| `IngestStore` | requests, reconciler, ClickHouse and crashes, on top of the ledger (EXTENDS it) |
| `SearchLog` | abstract: what a search may rely on; `IngestStore` implements it |
| `WriteAdmission` | the gate, privileged callbacks and shutdown |
| `IngestAccounts` | quota and HEC rows that the ledger's transactions write beside a reservation (EXTENDS the ledger) |
| `IndexDeletion` | archive and deletion of an index, the coordinator, ClickHouse's mutations, reads and writers |
| `DeletionPromise` | abstract: what a deletion promises; `IndexDeletion` implements it without late native writers |
| `CollectorQueue` | the collector's disk queue and its recovery |
| `Collector` | the daemon over its queue (EXTENDS it): source, batcher, sender, checkpoint |
| `SourceDelivery` | abstract: what the collector promises to a source; `Collector` implements it |
| `CollectStream` | the stream between sender and ingest service, both ends |
| `SearchJobs` | the job manager with its three durable records, and the runs of one report |
| `SearchStream` | the search WebSocket, server and browser |
| `AlertRuns` | the alert coordinator with its rows, workers and webhook |
| `*_proofs` | theorems of the module of that name (section 5) |
| `Ingest_proofs` | theorems of `VisibilityLedger`, `IngestStore` and `IngestAccounts` |
| `CollectorSteps_proofs` | the collector's invariant and the steps of its ordinary work, which `Collector_proofs` extends |
| `MC*` | constants of the small instances |

How they fit together:

- `IngestStore` and `IngestAccounts` EXTEND `VisibilityLedger`.  The store calls the
  ledger as the code does; `IngestAccounts` lets anybody make any ledger call
  (`LedgerCall`) and adds what the same transaction does to quota and HEC rows.
- `WriteAdmission` stands on its own.  `IngestStore` leaves the gate out, since it
  only delays calls; `IndexDeletion` takes from it that nothing passes the gate
  while a freeze is held, and makes a call under the gate one step.
- `CollectStream` reduces `IngestStore` to `stored`, the outcome a batch identity is
  bound to; `Collector` reduces the stream to a server that decides once per identity
  and repeats its answer.
- `AlertRuns` takes from `SearchJobs` that a search that was admitted ends.

Definitions under a comment "Seeded fault" or "Mutant" are mutated forms of the
definition that follows them.  No specification uses them; `PROJECT.json` lists
which property each one must break.

### VisibilityLedger

| Variable | Code |
|---|---|
| `lastAssigned`, `committedThrough` | `ingest_visibility_state` |
| `identities` | `ingest_batch_identities` |
| `state`, `phase`, `batchOf`, `owner` | `ingest_visibility_reservations` (`attempt_id` is `owner`) |
| `group`, `groupState`, `groupOwner` | `ingest_write_group_members`, `ingest_write_groups` |

Every public call runs one serializable transaction, so it is one action.
`BeginTx` with SQLite's single writer justifies that; a transaction whose
*result* is lost is the same action with owner `Stale`.

- **Leases.**  The code keeps an attempt id durably and, in `processLeases`,
  the set of attempts that still run.  Both are merged into `owner`: a caller
  while its attempt runs, `Stale` when only the durable half is left, `Nobody`
  for the empty id.  This loses nothing because attempt ids are random and never
  reused, and the code only ever asks whether an owner is running or is the
  asker.  `Reopen` is `releaseDurableAttemptLeases` in `NewSQLite`.
- **Groups** have a random id in the code and the number of their first member
  here; a sequence is first in one group at most.
- **Grouping** (`Selection`, `HardBoundary`, `Sealable`) is the scan of
  `selectWriteGroupMembers` stated as the set it collects.  Byte limits work like
  the row limits and are left out.
- **Pruning** follows the three statements of `PruneTerminal`: whole groups by
  their oldest prunable member, then rows, then identities without rows, each
  with its own `LIMIT`.
- **Upgrades.**  `Legacy` is the table as an older version left it: rows with
  no accounting (`outbox_sha256` empty) that must be replayed singly.

### IngestStore and SearchLog

A request moves through `lookup`, `reserve`, `holding` (it has the lease),
`waiting`; `reject` is `RejectBatch`.  The transitions of `storeGrouped`,
`reserveForGroupedStore`, `stageAdmitted` and `rejectBatchAdmitted` are one
action each, `mode` says which call it is.  The reconciler (`worker`) is
`runReconciler` with `reconcileWriteGroups`, `writeGroup` and `writeReservation`:
`asleep`, `replay`, `form`, `prepared`, `marked`, `sent`, `acknowledged`,
`failed`, `prune`.  `wake` is the channel of capacity one, `timer` the one
`time.Timer` that serves as retry or linger timer, and a wake that arrives while
a retry is scheduled is consumed and dropped, as in the code.

Failures.  Any transaction may fail, or persist and lose its result; marking may
persist and fail; `Send` may fail while the insert stays in `inserts` and is
applied later, in parts (`Apply` works on one sequence's rows at a time);
closing a committed insert may fail; the process may crash between any two
actions.  `MaxFaults` bounds their number in one behaviour.

ClickHouse is external and modelled by what `store.go` relies on: a token's
part is dropped while the token is among the last `Window` recorded
(`non_replicated_deduplication_window`, 10 000 in
`migrations/clickhouse/0001_baseline.sql`), and an insert the client gave up on
is over before `Window` newer tokens were recorded.  The second point is an
assumption about ClickHouse and the store's timeouts, not something the code
enforces: without it no token scheme could be exact.

Commit waiters only shorten the wait: `storeGrouped` reads the ledger again
after every notification and on a timer, so `AwaitOutcome` reads the ledger
whenever it likes.  With a single worker (`reconcileSlot` serialises the others)
a replay row or a group is never leased when the worker asks for it; those
branches of the code are reachable only in `VisibilityLedger`.

`SearchLog` has one variable, the log a search can read, and one action that
appends to it.  `Visible` maps the store's `rows` below the cutoff to it: an
entry is the batch stored once, `Gap` for a sequence without rows, and anything
else (a duplicated row) is no entry at all.  So `PublishesLog` says at once that
the visible prefix never changes, that no row in it is doubled, and that a batch
is repeated only after `Retained` others.

### WriteAdmission

Everything under the gate's mutex is one action; a goroutine that waits is
`parked` or `queued` until `NotifyLocked` (closing the channel `changed`) makes
it look again.  Between the wake and the look, others run.  `Submitters` are
calls of Store, `Reconcilers` the worker and a direct `ReconcilePending`, which
take `reconcileSlot` before they join the gate; `Freezers` are
`WithWritesFrozen`, `Tasks` goroutines that use the capability inside (or after)
a callback, `Closer` is `closeContext`.  The outbox is the set of submitters
whose batch is staged and not committed; `drainSlot` is held by the running
task.  `writeAdmission.close` and `lifecycleCancel` follow each other without a
wait and are one action.  The wake after `releaseFreeze` is not needed here, as a
reconciler may begin at any time; `IngestStore` models wake-ups.

### IngestAccounts

| Variable | Code |
|---|---|
| `bucket` | `ingest_quota_buckets`, per meter: a dimension (events, bytes) of a scope (token, index, rejections) |
| `admissions` | `ingest_quota_admissions` |
| `requests`, `ordinal` | `hec_requests` with its `hec_acknowledgments` row, `hec_channels` |
| `epoch` | the random key of the process in every acknowledgment id |
| `snapshot` | a coordinated backup |
| `taken`, `since`, `bills`, `stored`, `handed` | history, for the properties |

A `Call` is a step of the ledger; `Reserve` plans and charges the quota first
(`AdmitQuota`, `Evaluate` is `Allowed`), then writes the HEC rows (`AdmitHec`); every
other call is followed by the triggers `hec_request_visibility_committed` and
`_failed` and the cascades of deleted identities (`SettleAccounts`).  `Duration` is
`scheduleDuration` with its rounding up.  The clock only goes forward and rates are
read at the call; one token is modelled.

### IndexDeletion and DeletionPromise

The coordinator's program counter `pc` follows `deletion_coordinator.go`: scan the
durable operations, retire and join the reads, ensure the attempt, look for the
mutation, freeze, drain, reconcile, prove that no row is left, submit, compare, prove
again, complete and write the audit.  `known` and `before` are what it remembers of
ClickHouse between calls.  `mutations` and `flight` are ClickHouse's: a submission
whose answer was lost may still take effect, once, and a mutation deletes rows part by
part, those with block numbers below its own.  A native writer's authority is read
before its store call; a HEC writer's again by `preflightHECAdmission`.

`DeletionPromise` sees an index's life and its data (rows and staged batches): data
shrinks only while the index is being deleted, and is empty when that is reported.

### CollectorQueue, Collector and SourceDelivery

A call that holds the queue's mutex is one step; a call that fails at a write is
another step that leaves the files as they were at that point, and a process that dies
inside a call is such a step followed by `Crash`.  `segments`, `meta` and `manifests`
are the files of `collector/wal`; recovery (`QuarantineSuccessor`, `QuarantineTail`,
`Recover`) handles one file per step and may be interrupted.  A record is one unit
long per event; an event of `Huge` makes it longer than the queue may be, which is how
batches come to be split and dead-lettered.

`Collector` is one source with events 1 to `Events`: the input reads in order, the
batcher flushes, the sender sends, receives an outcome, commits the checkpoint and
then acknowledges to the queue; `Start` resumes behind the checkpoint and everything
the queue holds.  `SourceDelivery` has the settled events and the position: the
position never passes an unsettled event and never goes back.

### CollectStream

The sender's pump, receive loop and retry goroutines, and the service's admission in
order with overlapping store calls.  `cursor`, `held`, `inflight`, `retry`, `deferred`
and `throttled` are the sender's; `worker`, `admitting`, `highest` and `pending` the
service's (`highestBatchSequence`, `pendingBatches`); `requests` and `responses` are
the wire.  A broken stream loses the wire; store calls under way go on as `orphans`.
`Lingers` says whether a retry may be answered before the deferred function of the
goroutine that sent it has run, as the code allows (section 6).

### SearchJobs

Create reserves, admits to the three journals in order, publishes and queues; a worker
claims, executes and finalizes; a canceller, an expiry and Close may claim instead.
`step` and `todo` are where that call of a job is, so every write to a record is a step
that may fail or lose its answer.  `art` and `files` are the artefact store's row and
files, `hist` the history entry, `run` the report's run with the retrying journal's
queue in `retry`.  A row of results is one Boolean; parsing and planning are part of
running; the recoveries at a start are one step; one saved report is modelled.

### SearchStream

One target with its journal: numbered events, a replay ring, the newest event of each
category, subscribers with bounded queues, one poller.  Numbers start at a random base
per epoch (`bases`); an evicted target or a restarted server begins a new one.  The
client keeps the last number it processed, resumes after it, and on a
resynchronization reads the job over HTTP.  State, progress and schema are one
category; rows are counted; each client has one subscription.

The browser's watch of the search reads the job at any time (`JobRead`, `Finish`,
`NotFound`: the watchdog's timer, an error or a terminal event), one GET at a time, and
a resynchronization waits for the GET that is under way (`fetchAuthoritative`).  So
`client.get` holds an answer of any age until `Recover` commits the checkpoint with it;
a live update that was shown before it returned makes it `Void`
(`liveUpdateEpoch`).  `behind` marks a checkpoint committed with an answer older than
the resynchronization.  A client reconnects only when the handler of its last frame has
returned.  A refused subscription leaves the watch polling; the end, a missing job or
any other terminal answer ends it and disposes its socket.

`target.quiet` marks a target that failed to deliver events while it was incomplete:
`applyProjection` then sends neither events nor a resynchronization.

### AlertRuns

Callers (the scheduler's `Tick` and the API's `Users`) reserve slots, claim in one
transaction and push to the queue; workers admit and poll a search, evaluate,
authorize, post and complete.  `outcome`, `at`, `signedBy`, `attached` and `delivery`
are the run's row, `last` the alert's summary, `search`, `posts` and `received` the
outside world.  One tick of the clock is one occurrence of the schedule; the RunNow
calls of a tick read it at instants of their own.  `lost` remembers the runs whose
claim was committed and reported as failed.

## 3 Runs

Every run finishes within five minutes with two workers.  Deadlock is checked in the
store runs.  It is off where the system may really come to rest: a ledger that has
used up its sequences (`ledger`, `accounts`), a closed gate, a collector whose source
is delivered, a stream with every batch settled, and idle deletion coordinators, job
managers, alert coordinators and WebSockets.

| Run | Specification | Question |
|---|---|---|
| `ledger` | `LedgerSpec` | Do any calls in any order, with lost results, restarts and pruning, break the ledger? |
| `store_concurrent` | `Spec` | Do two clients racing on the same batches, through a failure, a crash or a late insert, get true answers, are rows stored once, and do searches see a growing log? |
| `store_live` | `FairSpec` | After an upgrade with a send in doubt and one more failure: does everything pending get committed and every call return? |
| `admission` | `FairSpec` | Exclusion, wake-ups, drained deletion, no use after close, and do freezes and shutdown end? |
| `accounts` | `AccountsSpec` | One charge per batch, rates kept, requests in step with reservations, and acknowledgments true across restarts and a restore? |
| `index_deletion` | `FairSpec` | Do rows go only from an index under deletion that nobody reads, is completion proven, and do deletions complete? |
| `collector` | `FairSpec` | Does every event reach one durable end, through any two of ten kinds of failure? |
| `stream` | `FairSpec` | Are slots bounded, do outcomes agree with the store, and does every batch settle? |
| `search_jobs` | `FairSpec` | Do the three records agree, is nothing shown before it is published, and does every admitted search end, unless its lease or its last word is refused? |
| `search_stream` | `FairSpec` | Is the client's checkpoint true, do invalid rows go, and does everybody learn of the end? |
| `alert_runs` | `FairSpec` | Does a run post once at most, does its row tell the truth, and does every claimed run end? |
| `index_deletion_late_writer` | `Spec` | A disagreement: a deleted index gets rows again (section 6) |

Bounds, and why they are enough to be interesting:

- `ledger`: 4 sequences, 3 batches of which two share a key and two share a
  principal, 2 callers; groups of at most 2 members or 3 rows with a batch of 2
  rows, so that groups end by count, by target and by hard row limit;
  `Retained` = `RetainedRejected` = `PruneLimit` = 1, so that pruning cuts through
  groups and identities and every limit is reached; `MaxPending` 3 and
  `MaxPrincipalPending` 2, so that both refusals happen.  Callers make calls in
  any order, more freely than the store does, hence no assumption about callers.
- `store_concurrent`: 2 batches, 2 requests (symmetric), Store and RejectBatch, 2
  sequences, `Window` 1 and `Retained` 1, so that the token of a batch is forgotten
  while its row is, and one failure of any kind.
- `store_live`: 3 batches, 3 sequences, a ledger left by an older version with one
  reservation in doubt and one unsent, one tombstone, and one failure.
- `admission`: 1 submitter, the worker and a second reconciler, 2 freezes and the
  closer's own, 1 privileged task.
- `accounts`: 3 batches of which two are HEC requests with one acknowledgment channel,
  two meters, a rate that can be switched off and on, 2 sequences, `Retained` 0 so that
  an identity is pruned and reserved again, one restart or restore (`MaxEpoch` 2).
- `index_deletion`: 2 indexes, a native and a HEC writer, a search, 2 batches, one
  failed or lost call and one restart.  Two indexes make the coordinator carry its
  knowledge of one into the work on the other, if it could.
- `collector`: 5 events, one too large for the queue, one undecodable and one refused
  by the server, batches of 2, a queue and segments of 2 units, so that the queue is
  full with one batch; repacking to single events; any two of crash, power loss,
  damage, a failing append, acknowledgment, reclaim, checkpoint or repacking, a broken
  stream and an expired grace period.  (Event 1 is the large one: section 6 says what
  happens if a later one is.)
- `stream`: 3 batches over 2 slots, 2 transient failures, failing lookups, 1 break.
- `search_jobs`: 2 searches, one an occurrence of the report, 1 worker, 1 reader,
  limits that change, and one upset (a failed or lost journal call, a restart, Close).
  One result lease, which the reader may hold when the other search completes, so that
  its publication is refused; `SearchJobsWide` has two.
- `search_stream`: 1 client with previews and its watchdog, a search that is done and
  then expires, which takes its rows back (with failures beside it the properties hold
  as well, and the run takes twice as long), 2 of six kinds of fault, a second epoch whose base is above or below the
  first, a ring and a queue of 3, which overflow.  An epoch has 9 numbers, enough for
  every projection of the job once; behaviours that rebuild more often are cut off
  there (`SearchStreamFaults` has 14).
- `alert_runs`: 1 alert with 2 runs, 1 worker, the scheduler and one API user, a queue
  of 2, all seven ends of a search, a history of 1 and one upset.

The properties, by what they would catch.  Some are conjunctions, one for each record
or actor that must agree:

- *Ledger.* `CutoffExact`, `GroupAllOrNone`, `OneOutcomePerIdentity` (states);
  `AmbiguousIsReplayed`, `OutcomeIsFinal`, `RetryWindowKept` (steps).  (`TypeOK`,
  `OneUnresolvedGroup` and `MembershipIsSealed` are proved and not listed.)
- *Store.* `StoredExactlyOnce`, `AnswersAreTrue`; `PublishesLog` (refinement);
  `PendingIsCommitted`, `CallsReturn` (liveness).
- *Admission.* `FreezeExcludesWriters`, `NobodyIsStranded`, `MaintenanceIsSafe`,
  `NoUseAfterClose`; `FreezeEnds`, `CloseCompletes` (liveness).
- *Accounts.* `BillsAreRight` (`OneBillPerBatch`, `WithinRate`),
  `RequestFollowsReservation`, `AckTellsTruth`.
- *Deletion.* `CompletionIsProven`, `RowsSurviveReaders` (steps), `DeletedStaysEmpty`;
  `DeletionCompletes` (liveness).
- *Collector.* `QueueIsSound` (`NothingSkipped`, `EveryBatchHasItsRecord`,
  `SequenceNamesOneBatch`, `AlwaysOpens`), `StoredOnce`; `ImplementsSource`
  (refinement); `EverythingSettles` (liveness).
- *Stream.* `PendingHasSlot`, `OutcomesAgree`; `EveryBatchSettles` (liveness).
- *Searches.* `PublicationBarrier`, `RecordsAgree` (`OneVerdict`, `NothingLeftActive`),
  `ManagerIsSound` (`ResultsLiveAsPinned`, `ReservationHolds`, `NoLostWakeup`,
  `CloseIsClean`); `AdmittedSettles` (liveness).
- *Streaming.* `CheckpointIsTrue`, `NoRowsAfterInvalidation` (steps); `EveryoneLearns`
  (liveness).
- *Alerts.* `OutcomeIsTrue` (`OnePost`, `LastOutcomeIsLatest`, what each outcome says),
  `RunsAreHeld` (one active run, `ActiveIsHeld`, `SlotsBalance`, quiet after Close);
  `EveryRunEnds` (liveness).

Other instances are kept as configurations and are not listed as runs: they ask the
same modules narrower questions, and hold unless said otherwise.

| Configuration | Question |
|---|---|
| `IngestStoreModes` | one client that mixes all four calls, two failures; also `TokenNamesOneBlock`, `StoreTypeOK` |
| `IngestAccountsHec` | three HEC batches over 3 sequences: `AckStaysTrue` |
| `IndexDeletionHecOnly` | without native writers: `DeletedStaysEmpty`, `KeepsPromise` (refinement), `RecordsAgree`, `FreezeIsReleased` |
| `CollectorUnsynced` | `SyncAlways` off: `QueueIsSound` and `ImplementsSource` hold; `StoredOnce` would not |
| `SearchJobsWide`, `SearchJobsLive`, `SearchJobsSameRequest` | two upsets; `QueuedIsServed` and `CloseEnds`; `OneSearchPerRequest` |
| `AlertRunsClose` | `ShutdownEnds` |
| `SearchStreamFaults` | searches that fail, three faults, a ring and a queue of 4, epochs of 14; also `TypeOK`, `TerminalClearsRows` |
| `CollectorReclaimFails`, `CollectorRepackFails`, `CollectStreamLostRetry`, `CollectStreamConflict`, `SearchJobsNoLease`, `AlertRunsLostClaim`, `SearchStreamOldEpoch`, `SearchStreamSuspended`, `SearchStreamStaleRows` | violated: section 6 |

## 4 Fairness

Weak fairness, on what the Go runtime and the outside world do anyway.

- Every goroutine that can take its next step takes it: requests and the worker of the
  store, each writer, freeze, task and the closer of the gate, the collector's
  pipeline and delivery, the sender's and the service's goroutines, workers and
  callers of searches and alerts.
- A timer that has expired is eventually received although wakes keep coming
  (`TimerFires` on its own: Go's `select` picks at random among ready cases).
- The clock advances (`Linger`) and ClickHouse applies or ends what it was sent, and
  works off its mutations part by part.
- A process that stopped is started again (`Restarts` of the collector), and a broken
  stream is connected again (`Connect`).
- The server answers what it receives (`ServerAnswers`); a read that was retired lets
  go (`ReleaseRead`); a search that was admitted ends (`AlertRuns`, from `SearchJobs`).
- A call whose context was cancelled by `Close` returns.
- `SearchStream`: where each step of a goroutine ends its own guard, its fairness is
  stated as what it means, that the guard does not hold for ever (`[]<>` of its
  negation).  For a subscription on the server this includes the refresh, which takes a
  mutex that the poller takes again and again: Go's `sync.Mutex` hands itself to a
  starved waiter after a millisecond.  The watchdog's GETs and the end of the search are
  not assumed: `EveryoneLearns` is what the socket and the GETs of resynchronizations
  achieve alone.

Nothing obliges clients to arrive, to go away or to cancel, and failures stop
because they are counted: the liveness properties say "once failures stop".

## 5 Proofs

The theorems hold for every value of the constants that satisfies the named
assumptions (`ASSUME`) of the module they are about: any number of batches, callers,
failures and restarts.  Each module proves one inductive invariant (it holds at first,
every step keeps it) and takes the properties from it.

### Ingest_proofs: the ledger

| Theorem | Property |
|---|---|
| `LedgerInvariant`, `TypeCorrect` | `LedgerInv`, `TypeOK` |
| `CutoffIsExact` | `CutoffExact` |
| `GroupsAllOrNone`, `OneGroup`, `MembershipSealed` | `GroupAllOrNone`, `OneUnresolvedGroup`, `MembershipIsSealed` |
| `OneOutcome`, `OutcomesFinal` | `OneOutcomePerIdentity`, `OutcomeIsFinal` |
| `AmbiguousReplayed` | `AmbiguousIsReplayed` |
| `RetryWindow` | `RetryWindowKept` |

These are theorems of `LedgerSpec`, the ledger under any calls.  Assumptions.
`BoundsAssumption`: limits are naturals, a group has room for a member, a prune
deletes at least a row, and no batch is larger than a group may be (`Reserve` refuses
larger ones).  `NamesAssumption`: names differ, and sharing a key is symmetric and
irreflexive.  `LegacyAssumption`: an upgraded database has no two rows of one batch or
one key (unique indexes of the old schema).

Argument.  `LedgerInv` adds three facts to the properties: `NothingAhead` (no row or
membership beyond `lastAssigned`, so a fresh sequence is clean and the cutoff can jump
to it), `GroupsNamed` (a group that exists has its naming member, so a new group
cannot take an old name), and `RowsHaveBatch`.  `StepKinds` reduces the two dozen
actions to nine kinds; each conjunct has its own preservation lemma (`TypeStep`,
`CutoffStep`, `RowsStep`, `IdentityStep`, `GroupStep`), with a case per kind.  The
subtle one is pruning: groups and rows are deleted by two statements with separate
limits, so a grouped row among the oldest `PruneLimit` prunable rows must belong to a
group among the oldest `PruneLimit` prunable groups.  `PrunedWithGroup` shows it by
counting: the head of the row's group is at least as old as the row, so the heads
before it are prunable rows older than the row, fewer than `PruneLimit` of them.
`RetryWindow` is a count as well: whatever goes is below `Retained` committed rows
that stay, because what is above the greatest row that goes stays (`NewestStay`).

### Ingest_proofs: the store

| Theorem | Property |
|---|---|
| `StoreInvariant`, `StoreTypeCorrect` | `StoreInv`, `StoreTypeOK` |
| `StoredOnce` | `StoredExactlyOnce` |
| `AnswersAreHonest` | `AnswersAreTrue` |
| `StoreKeepsLedger` | every step is a step of the ledger or none |
| `StorePublishesLog` | `PublishesLog`, the refinement of `SearchLog` |

Hypothesis.  `LegacyFits`: an upgrade leaves at most `Window` sends in doubt.  The
window is 10,000 (`migrations/clickhouse/0001_baseline.sql:72`), and the barrier in
`MarkSending` admits no new send while another is in doubt, so a ledger of this code
never leaves more than one.  Without the hypothesis TLC finds a duplicate with two
sends in doubt and a window of one.

Argument.  A *unit* is what is sent at once: a group, or a single row of an upgrade.  It
is open while its send is in doubt.  `StoreInv` says where rows can come from:
`InsertsKnown` (an insert under way is of an open unit, with exactly that unit's rows,
or has nothing left to add), `LandedOnce` (a row lands under one token, and only while
its unit is open or when it is over), and `TokensKept` (the token of whatever may be
sent again is still in ClickHouse's window: an upgrade's sends because they fit, any
other because it is sent alone).  Most steps of the ledger are `Calm`: they neither open
nor close a unit, and keep all of it (`CalmKeeps`).  `Opens` and `Closes` are the two
others, and `SendKeeps`, `ApplyKeeps`, `ExpireKeeps` are ClickHouse's.  Answers are
`Truthful` at the step that gives them, and what they say is final by the ledger's
`OutcomeIsFinal`.  For the refinement `LogInv` adds that what is below the cutoff is
final, so an advance of the cutoff appends; that the appended batches are not among the
last `Retained` is the ledger's retry window again (`RetentionStep`).

### Ingest_proofs: the accounts

| Theorem | Property |
|---|---|
| `AccountsInvariant` | `AccountsInv` |
| `BillsRight` | `BillsAreRight` |
| `RequestsFollow` | `RequestFollowsReservation` |
| `AcksTrue`, `AckStays` | `AckTellsTruth`, `AckStaysTrue` |

Hypothesis.  `FreshDatabase`: no rows of the first ledger format, which have neither a
charge nor a request.  `AccountsAssumption` says that costs and rates are naturals.

Argument.  A restore puts an old database in place of the current one.  Therefore what
the tables keep is a statement `Sound(D, time, given)` about a database `D`, and the
invariant says it of the tables and of the backup.  It has five parts: rows, bills,
meters, requests and acknowledgments.  `MetersOf` is the one that had to be found: what
was taken under a policy is at most the rate times the time until the bucket opens
again, and what was taken but for the last batch is at most the rate times the time
that has passed; `DurationPays` shows that the rounding in `scheduleDuration` is on the
right side.  `IdsNotReused` says that an id that was handed out is behind the process's
key and the channel's ordinal: a restore takes back the ordinal, and the new key is why
no id is given twice.  `CallKinds` reduces the calls of the ledger to an allocation or
a move of existing rows.

### WriteAdmission_proofs

| Theorem | Property |
|---|---|
| `GateInvariant`, `GateTypeCorrect` | `GateInv`, `TypeOK` |
| `FreezeExcludes` | `FreezeExcludesWriters` |
| `MaintenanceSafe` | `MaintenanceIsSafe` |
| `CloseIsClean` | `NoUseAfterClose` |
| `NobodyStranded` | `NobodyIsStranded` |

Assumption.  `ProcessesAssumption`: finitely many writers; submitters and reconcilers
differ; `Closer` is no freezer; `NoOne` is nobody.

Argument.  Exclusion alone does not say why maintenance is safe.  `GateInv` adds
what ties a privileged operation to the gate: `TasksHeld` (an operation under way
belongs to a freeze that holds the gate, because `invalidate` waits),
`CapabilitiesTrue` (a valid capability belongs to a running callback, and one
that is drained is right about the outbox while its freeze lasts), `TasksSerial`, and
for the shutdown `CloserAtGate` and `ClosedIsQuiet`.  Most steps are quiet
(`QuietStep`: no entry, no grant, no operation moves) and keep the invariant for one
reason (`QuietKeepsInv`).  The others have a lemma each: `EnterKeepsInv` and
`LeaveKeepsInv` count the writers inside, `GrantKeepsInv` turns `active = 0` into an
empty gate, `StageKeepsInv` uses that a writer inside means no freeze, and
`ReleaseKeepsInv` that the only holder has no operation left.

For the wake-ups `WakeInv` says that the queue holds exactly the waiting freezes, each
once (`QueueTrue`), and that whoever sleeps has a reason that will end with a wake
(`SleepersHaveReason`).  A cancelled freeze leaves from the middle of the queue; that
the others keep their order and the new head is woken is `LeavesInOrder`.

### IndexDeletion_proofs

| Theorem | Property |
|---|---|
| `DeletionInvariant`, `DeletionTypeCorrect`, `DeletionRecordsAgree` | `DeletionInv`, `TypeOK`, `RecordsAgree` |
| `CompletionProven` | `CompletionIsProven` |
| `ReadersAreJoined` | `RowsSurviveReaders` |
| `DeletedIsFinal` | `DeletedStaysEmpty`, if `NativeWriters = {}` |
| `DeletionKeepsPromise` | `KeepsPromise`, the refinement of `DeletionPromise`, if `NativeWriters = {}` |

The condition on native writers is needed: the run `index_deletion_late_writer` violates
`DeletedStaysEmpty` with one (section 6).  `DeletionConstants` says that names differ and
bounds are naturals.

Argument.  `WorkInHand` says where the coordinator stands with the operation it is
working on, also when its completion was committed and the answer lost.
`StagedIsDrained` and `ProofIsFresh` say why the proof is not stale when the completion
is written.  `MutatedIsFenced` is about readers: searches are fenced off before the
attempt becomes durable, and ever after, so that a mutation whose submission was lost
and takes effect much later still meets no reader.

### CollectStream_proofs

| Theorem | Property |
|---|---|
| `StreamInvariant`, `StreamTypeCorrect` | `StreamInv`, `StreamTypeOK` |
| `OutcomesMatch` | `OutcomesAgree` |
| `PendingInSlots` | `PendingHasSlot` |
| `RetainedUnlessLate` | `RetainedIsResent`, if `Lingers = FALSE` |
| `NotResentEarly` | `NoEarlyResend` |

Argument.  A batch in flight is in one place: among the requests, with a worker of the
server, among the responses, or with a retry that waits (`OnItsWayOnce`).  Every step
moves a batch from one place to the next; `AppendOnce`, `TailOnce`, `TailBack` and
`AnswerBack` are what that means for the sequences on the wire.  `WorkersTruthful` and
`AnswersTruthful` carry the store's answer to the sender.  `RetainedUnlessLate` says
that the late-joined retry of section 6 is the only way in which a retained batch is
not sent again.

### AlertRuns_proofs

| Theorem | Property |
|---|---|
| `AlertsInvariant`, `AlertsTypeCorrect` | `AlertsInv`, `TypeOK` |
| `OutcomesTrue` | `OutcomeIsTrue` |
| `RunsHeld` | `RunsAreHeld` |
| `OutcomesOnlyAdvance` | `OutcomesAdvance` |
| `SecretIsCurrent` | `OnlyCurrentSecret` |

Assumption.  `AlertRunsConstants`: finitely many alerts, users and workers; at least one
worker and no more than the capacity; limits are naturals.

Argument.  `AlertsInv` has two halves.  `RowsInv` is about the database: an alert's runs
are claimed in order (`RowsInOrder`), each row says what happened (`RowsTrue`), one run
is active (`OneActive`), and the summary is that of the latest run (`LastTrue`).  The
last one has to survive the trimming of the history inside the claims and completions:
a row that goes has a later finished one that stays (`LatestTrimmed`), and a completion
writes the summary only if its run is not older than the last one (`LatestSummarized`).
`HandsInv` is about memory: a run is with one caller, in the queue or with one worker
(`HeldApart`, `ActiveSomewhere`), the slots are the sum of what these hold (`Balance`),
and what each of them knows of its run is true (`HeldTrue`).  `WorkTrue` is what makes a
result lost after its commit harmless: a worker that is about to post holds a run with a
recorded delivery and no POST, and one that completes holds a verdict that is true of its
run, whatever the row says by then.  `ActiveSomewhere` leaves out `lost` runs, whose claim
was reported as failed: that is section 6's `AlertRunsLostClaim`.

### SearchJobs_proofs

| Theorem | Property |
|---|---|
| `JobsInvariant`, `JobsTypeCorrect` | `JobsInv`, `TypeOK` |
| `BarrierHolds` | `PublicationBarrier` |
| `RecordsInAgreement` | `RecordsAgree` |
| `ManagerSound` | `ManagerIsSound` |
| `RequestsRunOnce` | `OneSearchPerRequest` |
| `OneOccurrence` | `OneRunAtATime` |
| `OutcomesStay` | `TerminalStays` |

Assumption.  `SearchJobsConstants`: finitely many jobs, workers and readers, whose names
differ from each other's and from `None`; limits are positive, bounds are naturals.

Argument.  `JobsInv` has a part about one job and a part about all.  `JobInv(j)` reads
the records from where the call of the job is.  `Judged` and `Agrees` say that what is
in a record, or in the retrying journal's queue, is the outcome callers were told or
nothing yet; `InOrder` and `Settling` say that a record the call has already visited is
no longer active, unless the last write to it failed; `Barred` is the publication
barrier with the steps before it: `record` has its files, `project` a completed
artefact.  Almost every action moves one job, so there is one lemma per action for the
job it moves, and `SameKeeps` for the others.

`ManagerInv` relates jobs to the pool.  `Held`: a job a worker has claimed is still that
worker's until the records are told, so `Close`, which joins its workers, waits for it.
`Awake` is behind `NoLostWakeup`: if a worker sleeps, those that are ready to look are
as many as the queued jobs, or reach the limit with the jobs that run.  `Rooms` counts
the places `Create` reserved among the jobs and the queue, which is why a publication
finds its place.  `Shutting` says what each phase of
`Close` has behind it.  `Moves` and `Claims` reduce the actions to the few moves of a
job that these parts can tell apart.  `Receipted` carries a request's receipt over a
restart, where the job is forgotten and the receipt stays.

### CollectorSteps_proofs and Collector_proofs

| Theorem | Property |
|---|---|
| `CollectorInvariant`, `CollectorTypeCorrect` | `CollectorInv`, `CollectorTypeOK` |
| `QueueHolds` | `EveryBatchHasItsRecord`, `SequenceNamesOneBatch`, `AlwaysOpens` |
| `QueueSound` | `QueueIsSound`, if `NoOversized` |
| `StoresOnce` | `StoredOnce`, if `SyncAlways` |
| `SourceKept` | `ImplementsSource`, the refinement of `SourceDelivery`, if `NoOversized` |

Assumptions.  `QueueAssumption`, `CollectorAssumption`: sizes and limits are positive,
the kinds of events, answers and failures are those modelled.  Everything else is free:
the number of events, which of them are too large, undecodable or refused by the server,
the server's answers, and which failures happen, how often and where.

Hypotheses.  `NoOversized` is `Huge = {} \/ "repack" \notin Faults`: no event is larger
than the queue, or no repacking fails half-way.  It is needed, since with both TLC finds
that the checkpoint passes a lost event (`CollectorRepackFails`, section 6).  The listed
run `collector` has both and passes, because its one large event comes first: it
lies outside of the theorem and is evidence beyond it.  `SyncAlways` is the sync policy
that makes a record durable before the sender may see it; without it a loss of power
takes records whose batches were delivered, they are read and delivered again under a
new identity, and the server stores them twice.  `QueueHolds` needs neither.

Argument.  `CollectorInv` follows an event from the source to its end.  Behind the
reader it is in the batcher's hand, in a record, or done (`InOrder`); what the batcher
holds lies behind everything stored before, so a record's events have no gap in front of
them (`Coverage`), which is what a restart relies on when it resumes behind the last sound
record.  A batch keeps its identity: all that files, children, flight and verdicts name
with one sequence is the same (`Identity`), and sequences grow over restarts because the
metadata reserves them ahead (`Used`).  A plan splits its parent completely, once, and
only on the server's demand (`Families`), and its record stays on disk as long as a
child is unfinished (`Kept`, `Guarded`).

The queue's memory and its files are related by `Memory`, with the exception that had
to be found: after a failed write a queue may know less than its files, but only of
batches behind everything it holds.  `Sending` says that a batch leaves only with an
outcome and that the checkpoint is written before the queue forgets; `Finished` and
`Past` turn that into the property of the source.  `Once` carries `StoredOnce`: batches
that may still be sent, and those that have an outcome, are pairwise disjoint, and no
record in doubt is known to the queue.

An acknowledgment may complete a parent when its last child is done, that parent's
parent and so on.  `CompletedParents` is stated without recursion, as the parents that
are in no *stuck* set, one of whose members each waits for another of the set or for a
batch that is not done; `CompletedLeast` shows that they are the least set closed under
"every child is over", which is what the code's loop computes.  Recovery handles one file
a step; quarantining a torn tail is the only step of it that takes records, and
`References` says that what is left suffices for every plan the metadata refers to.  The
proof has one lemma per action of the queue and of the daemon, and `SourceStep` maps each
step to one of `SourceDelivery` or a stutter.

### Only model-checked

Liveness under fairness and `ENABLED` are out of the prover's reach: every liveness
property stays with TLC.  So does one safety property, `CheckpointIsTrue` of
`SearchStream`: what a browser shows is a fold over the journal's events in the
order of their sequences (`FoldLeft`, `SetToSortSeq`), and what such a fold computes
needs induction over sequences.  `StoredOnce` without `SyncAlways` does not hold, and
outside of `NoOversized` only `collector` and `CollectorUnsynced` check `QueueIsSound`.
`OutcomesAdvance`, `OnlyCurrentSecret`, `NoEarlyResend`, `RetainedIsResent`,
`AckStaysTrue` and, of `SearchJobs`, `TypeOK`, `OneSearchPerRequest`, `OneRunAtATime`
and `TerminalStays` are proved, and no listed run checks them (`SearchJobsWide` and
`SearchJobsSameRequest` check those of `SearchJobs`).

## 6 Disagreements and observations

One run is expected to fail, and nine other configurations do: in each, the code
does something a comment or a document of the repository says it does not (or, in
`CollectorRepackFails`, breaks a property of section 3).

| Configuration | The code | What should hold |
|---|---|---|
| `index_deletion_late_writer` (run) | The native path reads a stream's index policies before `Store` (`ingest/batch.go:358`), and `Reserve` does not look again: a batch that waited at the gate is inserted after the deletion of its index has completed | `control/index_data_deletion_completion.go:16-17`: "the immutable terminal audit for one physically deleted index generation" |
| `CollectorReclaimFails` | `collector/wal/queue.go:804`: when reclaiming fails after the last acknowledgment, its segments count against `MaxQueueBytes` until a restart, and `Append` answers `ErrQueueFull` for ever | `collector/daemon_pipeline.go:310-311`: "ErrQueueFull is transient backpressure and is retried" |
| `CollectorRepackFails` | `collector/wal/repack.go:158-162`: the plan is in memory before `persistMetaLocked` makes it durable; when that fails the plan has no children, `Stats().QueuedBatches` (`queue.go:1479-1484`) counts none and `advanceCheckpoints` passes the batch's events, so a restart skips them if they are lost. (In the listed run only event 1 is too large, so nothing is before it.) | `ImplementsSource`: the position never passes an unsettled event |
| `CollectStreamLostRetry` | `collector/sender/connection.go:964`: a `RetryBatch` that answers a resend before the deferred function of the goroutine that sent it has run is joined to that goroutine, and nobody sends the batch again on this stream | `collector.proto:245-246`: "must retain and resend the exact same durable batch" |
| `CollectStreamConflict` | `ingest/batch.go:955`: a batch whose lookup failed is below the highest sequence when it comes again, and is turned away each time with an answer for which the sender resends on the same stream | `ingest/batch.go:182`: "reconnect and retry" |
| `SearchJobsNoLease` | `searchjobs/manager.go:1220`: when readers hold all result leases a completed search is recorded nowhere, and stays queued until a restart | `searchjobs/composite_journal.go:245-246`: "must not remain an externally queued durable job" |
| `AlertRunsLostClaim` | `alerts/coordinator.go:206`: a claim that was committed and reported as failed is forgotten; the run stays active until a restart | `alerts/coordinator.go:190-192`: "persists due claims, and enqueues them" |
| `SearchStreamOldEpoch` | `searchws/connection.go:520`: a client with a larger checkpoint of an older epoch is answered with a smaller one, which it refuses, and reconnects for ever | `docs/api.md:151-153`; `search-websocket.ts:1067`: "recovery can move this boundary backward" |
| `SearchStreamSuspended` | `search-websocket.ts:1002`: a failed recovery leaves the target suspended on the new connection if the server's own reason has passed | `search-websocket.ts:1047-1050`: "The server will replay the same resynchronization requirement" |
| `SearchStreamStaleRows` | `searchws/target.go:842`: a preview that did not fit leaves no category to invalidate, so the end of a failed search is not preceded by an empty RESET and old rows stay visible | `searchws/target.go:802-805`: "A target-wide empty RESET is a replayable tombstone" |

Two more disagreements of the search WebSocket are written into the properties as
exceptions, each with a state that marks it:

- `behind`: `search-workspace.tsx:4110` shares the GET that is under way, so a
  resynchronization may be acknowledged with a snapshot older than it.  The client is
  then at the newest number without the newest state, or without the end, until the
  next event or GET; the watchdog's next GET mends it.  `search-websocket.ts:53-54`
  says of `acknowledge`: "Call this only after restoring authoritative state".
- `quiet`: `target.go:971` sends no resynchronization when the target is incomplete
  already.  A target whose journal lacks an event, and which then fails to keep or to fit
  another one, loses both silently and may be complete afterwards, also when the second
  is the empty RESET of which `target.go:836-838` says: "omission must force
  resynchronization so a client cannot keep displaying rows that are no longer valid".
  Again the watchdog brings the end.

In `SearchStreamSuspended` too the watchdog still brings the end of the search; what is
lost is the live display.  `SearchStreamStaleRows` is the exception `RowsOmitted` of
`CheckpointIsTrue`.  `SearchJobsNoLease` (`NoneLeftQueued`) is the exception
`unpublished` of `AdmittedSettles` and `CloseIsClean`.

Seen while modelling, and contradicting nothing that is written down:

- *Collector.*  Quarantined tails count against `MaxQueueBytes`.
- *Stream.*  The server's Throttle only sets a minimum delay.
- *Searches.*  A crash between publishing the artefact and projecting the history
  leaves the two different until recovery; `Close` does not wait for a canceller's
  finalization; a `Finish` that fails in `service.admit` leaves a report's run active
  until a restart; a job that completes while `Close` begins has its lease refused; an
  admission to the history whose answer is lost leaves a canceled entry.
- *Alerts.*  A crash after the authorization records "interrupted", and `Close` may
  record `delivery_failed`, although the POST may have arrived; a run that outlives the
  grace period of `Close` stays active until the next start; a wall clock that was set
  back makes `CompleteRun` violate a CHECK (`sql_repository.go:841`), and it is retried
  for ever.
- *Streaming.*  A preview without
  its schema makes it fail again and again; a projection that times out at subscribe
  rejects the subscription for good; a removed job and a client that reconnects fast
  retry for ever.
- *Store.*  `Window` sends in doubt are what ClickHouse can tell apart (section 5); the
  limit of pending reservations is twice the window, but the barrier keeps them from
  being in doubt together.

## 7 What is not modelled

- *Ledger.*  Byte limits (the row limits work the same way), the ceiling on rejected
  metadata bytes, digests.
- *Store.*  Encoding of rows and of the outbox, retention lookup, telemetry, error
  classes, and the path for a sequencer without write groups (`storeAdmitted`; its
  ledger calls are in the ledger).  A corrupt outbox blocks, as any failure.
- *Gate.*  Parent contexts other than "may end at any time", panics on misuse.
- *Accounts.*  Clocks that go back, policies that change inside a call, several tokens;
  a HEC `Stage` never abandons.
- *Collector.*  That the server forgets an outcome after the retry window (a batch
  resent after it is decided anew; `VisibilityLedger` and `IngestStore` have the
  window); several sources (they share only the queue), decoding and file
  rotation in `input`, the byte format of records.
- *Searches.*  Parsing and planning, the content and size of results, byte budgets and
  retention limits, expiry before finalization, several saved reports.
- *Streaming.*  Several targets, export targets, byte budgets, acknowledgments, pings.
- *Alerts.*  Creation, versions and encryption of alerts, payloads and the destination
  policy, cron syntax.
- *The rest of the system.*  `PROJECT.json` names each part and the reason.  SQL and
  SPL compilation are large pure functions over syntax; the browser application and
  generated code have no protocol of their own.  Therefore the definitions map to some
  4% of the repository's lines, and to most of the lines that decide who writes what
  and in which order.

## 8 Plan

To prove: `CheckpointIsTrue` of `SearchStream`, once the browser's rows are
stated without a fold.

To model: the export jobs (`export`, `exportjournal`), collector admission and fleet leases.
