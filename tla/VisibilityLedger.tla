--------------------------- MODULE VisibilityLedger ---------------------------
(***************************************************************************)
(* The durable ingest ledger of the server: SQLiteSequencer in             *)
(* internal/visibility (sqlite.go and sqlite_write_groups.go).             *)
(*                                                                         *)
(* Every batch admitted for indexing gets the next visibility sequence.    *)
(* A reservation is "reserved" until its rows are in ClickHouse            *)
(* ("committed"), until it is refused ("rejected", which takes a sequence  *)
(* of its own) or until it is given up before any Send ("abandoned").      *)
(* Searches read rows whose sequence is at most committedThrough, the end  *)
(* of the longest prefix without a "reserved" row.  Unsent reservations    *)
(* are sealed into write groups, one ClickHouse insert each.               *)
(*                                                                         *)
(* Every operation is one serializable SQLite transaction, hence one       *)
(* action.  An attempt lease lives twice in the code: durably as           *)
(* attempt_id, and in processLeases as long as the attempt that wrote it   *)
(* is running.  Attempt ids are never reused, so the two are merged here:  *)
(* an owner is the running caller that holds the lease, Stale for an       *)
(* attempt_id whose attempt is over, or Nobody for the empty attempt_id.   *)
(* A write group has a random id in the code; here it is named by its      *)
(* first sequence, which no other group can have.                          *)
(***************************************************************************)
EXTENDS Integers, Sequences, FiniteSetsExt

CONSTANTS
    MaxSequence,          \* last sequence allocateSequence can hand out
    Batches,              \* batch identities that clients submit
    SharesKey,            \* pairs of different batches with an equal batch or sequence key
    Tombstoned,           \* batches with a tombstone of the first ledger format
    Callers,              \* goroutines that hold attempt leases
    PrincipalOf,          \* the ingestion principal charged for a batch
    Rows,                 \* rows a batch expands to
    MaxPending,           \* MaxPendingReservations
    MaxPrincipalPending,  \* MaxPrincipalPendingReservations
    MaxMembers,           \* WriteGroupLimits.MaxMembers
    TargetRows,           \* WriteGroupLimits.TargetRows
    HardMaxRows,          \* WriteGroupLimits.HardMaxRows
    Retained,             \* TerminalRetention.Committed
    RetainedRejected,     \* TerminalRetention.Rejected
    PruneLimit,           \* rows one PruneTerminal deletes at most
    Legacy,               \* reservations found in the database by an upgrade
    Nobody, Stale, NoBatch

VARIABLES
    lastAssigned,      \* ingest_visibility_state.last_assigned
    committedThrough,  \* ingest_visibility_state.committed_through
    identities,        \* ingest_batch_identities
    state,             \* state of each reservation; "none" when there is no row
    phase,             \* "unsent", "ambiguous" (a Send may have happened) or "final"
    batchOf,           \* the batch a sequence was allocated to
    owner,             \* attempt lease of each reservation
    group,             \* ingest_write_group_members: the group of a sequence, 0 if none
    groupState,        \* ingest_write_groups.state; "none" when there is no row
    groupOwner         \* attempt lease of each group

reservationVars == <<state, phase, batchOf, owner>>
groupVars == <<group, groupState, groupOwner>>
ledgerVars == <<lastAssigned, committedThrough, identities,
                reservationVars, groupVars>>

Seqs == 1..MaxSequence
Owners == Callers \cup {Nobody, Stale}

LegacyRow == [batch : Batches, phase : {"unsent", "ambiguous"}]

ASSUME BoundsAssumption ==
    /\ MaxSequence \in Nat
    /\ MaxPending \in Nat /\ MaxPrincipalPending \in Nat
    /\ MaxMembers \in Nat \ {0}
    /\ TargetRows \in Nat \ {0} /\ HardMaxRows \in Nat /\ TargetRows <= HardMaxRows
    /\ Retained \in Nat /\ RetainedRejected \in Nat /\ PruneLimit \in Nat \ {0}
    /\ Rows \in [Batches -> 1..HardMaxRows]

ASSUME NamesAssumption ==
    /\ Nobody \notin Callers /\ Stale \notin Callers /\ Nobody # Stale
    /\ NoBatch \notin Batches
    /\ Tombstoned \subseteq Batches
    /\ SharesKey \subseteq Batches \X Batches
    /\ \A b \in Batches : <<b, b>> \notin SharesKey
    /\ \A b, d \in Batches : <<b, d>> \in SharesKey => <<d, b>> \in SharesKey

ASSUME LegacyAssumption ==
    /\ Legacy \in Seq(LegacyRow)
    /\ Len(Legacy) <= MaxSequence
    /\ \A i, j \in DOMAIN Legacy : i # j =>
          /\ Legacy[i].batch # Legacy[j].batch
          /\ <<Legacy[i].batch, Legacy[j].batch>> \notin SharesKey

(***************************************************************************)
(* Rows of the tables                                                      *)
(***************************************************************************)
Reserved == {s \in Seqs : state[s] = "reserved"}
Unsent == {s \in Reserved : phase[s] = "unsent"}
Ambiguous == {s \in Reserved : phase[s] = "ambiguous"}
Ungrouped == {s \in Seqs : group[s] = 0}
Members(g) == {s \in Seqs : group[s] = g}

\* The rows an upgrade left without write-group accounting and principal.
Unaccounted == DOMAIN Legacy

\* A reservation or group whose attempt still runs in this process.
Leased(o) == o \in Callers

\* Every call makes a fresh attempt id, so a caller that starts one holds none.
Free(c) == /\ \A s \in Seqs : owner[s] # c
           /\ \A g \in Seqs : groupOwner[g] # c

\* The rows of a batch that still decide its outcome.
Active(b) ==
    {s \in Seqs : batchOf[s] = b /\ state[s] \in {"reserved", "committed", "rejected"}}

\* legacyBatchTombstoned, or resolveIdentity finds another identity with the
\* batch key or the sequence key of the batch.
IdentityConflict(b) == b \in Tombstoned \/ \E i \in identities : <<b, i>> \in SharesKey

\* Seeded fault: the cutoff takes in the first reserved sequence.
AdvanceCutoffPastPending(st, last) ==
    committedThrough' \in
        {c \in committedThrough..last :
            /\ \A s \in (committedThrough + 1)..(c - 1) : st[s] # "reserved"
            /\ c = last \/ (c > committedThrough /\ st[c] = "reserved")}

(***************************************************************************)
(* advanceCutoff, on the reservation states st and the last sequence       *)
(* assigned that the transaction is about to write: up to the sequence     *)
(* before the first reserved one, or up to last when none is reserved.     *)
(***************************************************************************)
AdvanceCutoff(st, last) ==
    committedThrough' \in
        {c \in committedThrough..last :
            /\ \A s \in (committedThrough + 1)..c : st[s] # "reserved"
            /\ c = last \/ st[c + 1] = "reserved"}

(***************************************************************************)
(* Reserve.  The lease o of the new row is the caller's, or Stale when the *)
(* transaction commits but its result is lost, which ends the attempt.     *)
(***************************************************************************)
\* A possible side effect in ClickHouse that no running attempt looks after.
OrphanedAmbiguous == \E s \in Ambiguous \cap Ungrouped : ~ Leased(owner[s])

HasCapacity(b) ==
    /\ Cardinality(Reserved) < MaxPending
    /\ Cardinality({s \in Reserved : \/ s \in Unaccounted
                                     \/ PrincipalOf[batchOf[s]] = PrincipalOf[b]})
          < MaxPrincipalPending

\* Seeded fault: a sequence abandoned above the cutoff is handed out again.
AllocateSequenceReused(b, st, ph, o) ==
    \E s \in {lastAssigned + 1}
              \cup {t \in Seqs : t > committedThrough /\ state[t] = "abandoned"} :
        /\ s <= MaxSequence
        /\ lastAssigned' = IF s > lastAssigned THEN s ELSE lastAssigned
        /\ identities' = identities \cup {b}
        /\ state' = [state EXCEPT ![s] = st]
        /\ phase' = [phase EXCEPT ![s] = ph]
        /\ batchOf' = [batchOf EXCEPT ![s] = b]
        /\ owner' = [owner EXCEPT ![s] = o]

AllocateSequence(b, st, ph, o) ==
    LET s == lastAssigned + 1
    IN  /\ s <= MaxSequence
        /\ lastAssigned' = s
        /\ identities' = identities \cup {b}
        /\ state' = [state EXCEPT ![s] = st]
        /\ phase' = [phase EXCEPT ![s] = ph]
        /\ batchOf' = [batchOf EXCEPT ![s] = b]
        /\ owner' = [owner EXCEPT ![s] = o]

ReserveFresh(b, o) ==
    /\ ~ IdentityConflict(b)
    /\ Active(b) = {}
    /\ ~ OrphanedAmbiguous
    /\ HasCapacity(b)
    /\ AllocateSequence(b, "reserved", "unsent", o)
    /\ UNCHANGED <<committedThrough, groupVars>>

\* The batch has a pending row that no group and no running attempt holds.
ReserveExisting(b, o) ==
    /\ ~ IdentityConflict(b)
    /\ \E s \in Active(b) \cap Reserved \cap Ungrouped :
          /\ ~ Leased(owner[s])
          /\ owner' = [owner EXCEPT ![s] = o]
    /\ UNCHANGED <<lastAssigned, committedThrough, identities, state, phase, batchOf, groupVars>>

(***************************************************************************)
(* Reject: a terminal outcome for a batch that has none.                   *)
(***************************************************************************)
Reject(b) ==
    /\ ~ IdentityConflict(b)
    /\ Active(b) = {}
    /\ AllocateSequence(b, "rejected", "final", Nobody)
    /\ AdvanceCutoff(state', lastAssigned')
    /\ UNCHANGED groupVars

(***************************************************************************)
(* Attempts on one reservation                                             *)
(***************************************************************************)
\* Ambiguous rows first, then by sequence.
Precedes(s, t) ==
    \/ phase[s] = "ambiguous" /\ phase[t] = "unsent"
    \/ phase[s] = phase[t] /\ s < t

TakeReservation(s, o) ==
    /\ owner' = [owner EXCEPT ![s] = o]
    /\ UNCHANGED <<lastAssigned, committedThrough, identities, state, phase, batchOf, groupVars>>

\* AcquirePending: the first ungrouped reservation no running attempt holds.
Acquirable == {s \in Reserved \cap Ungrouped : ~ Leased(owner[s])}

AcquirePending(s, o) ==
    /\ s \in Acquirable
    /\ \A t \in Acquirable : t = s \/ Precedes(s, t)
    /\ TakeReservation(s, o)

\* Seeded fault: reservations without accounting are left to the groups.
AmbiguousBeforeGroups ==
    {s \in Reserved \cap Ungrouped :
        /\ phase[s] = "ambiguous"
        /\ ~ \E g \in Seqs : groupState[g] = "ambiguous" /\ g < s}

\* AcquireUngroupedReplay: the first reservation that may have been sent, or
\* that has no accounting, before groups existed.
ReplayBeforeGroups ==
    {s \in Reserved \cap Ungrouped :
        /\ phase[s] = "ambiguous" \/ s \in Unaccounted
        /\ ~ \E g \in Seqs : groupState[g] = "ambiguous" /\ g < s}

FirstUngroupedReplay(s) ==
    /\ s \in ReplayBeforeGroups
    /\ \A t \in ReplayBeforeGroups : t = s \/ Precedes(s, t)

AcquireUngroupedReplay(s, o) ==
    /\ FirstUngroupedReplay(s)
    /\ ~ Leased(owner[s])
    /\ TakeReservation(s, o)

\* An unsent row waits for every ambiguous one, an ambiguous row for the
\* earlier ones.
SendingBarrier(s) ==
    \E t \in Ambiguous \ {s} : phase[s] = "unsent" \/ t < s

MarkSending(s, c) ==
    /\ s \in Reserved /\ owner[s] = c
    /\ ~ SendingBarrier(s)
    /\ phase' = [phase EXCEPT ![s] = "ambiguous"]
    /\ UNCHANGED <<lastAssigned, committedThrough, identities, state, batchOf, owner, groupVars>>

\* finish, for the two targets that end a reservation.
FinishTerminal(s, c, from, target) ==
    /\ s \in Reserved /\ owner[s] = c
    /\ phase[s] = from
    /\ state' = [state EXCEPT ![s] = target]
    /\ phase' = [phase EXCEPT ![s] = "final"]
    /\ owner' = [owner EXCEPT ![s] = Nobody]
    /\ AdvanceCutoff(state', lastAssigned)
    /\ UNCHANGED <<lastAssigned, identities, batchOf, groupVars>>

\* Seeded fault: a send in doubt is given up.
AbandonAnyPhase(s, c) == FinishTerminal(s, c, phase[s], "abandoned")

CommitReservation(s, c) == FinishTerminal(s, c, "ambiguous", "committed")
Abandon(s, c) == FinishTerminal(s, c, "unsent", "abandoned")

\* Release, with o = Nobody, and any finish that fails, with o = Stale: the
\* process lease ends in both.
Release(s, c, o) ==
    /\ s \in Reserved /\ owner[s] = c
    /\ TakeReservation(s, o)

(***************************************************************************)
(* Write groups                                                            *)
(***************************************************************************)
Recoverable == {g \in Seqs : groupState[g] \in {"ready", "ambiguous"}}

GroupPrecedes(g, h) ==
    \/ groupState[g] = "ambiguous" /\ groupState[h] = "ready"
    \/ groupState[g] = groupState[h] /\ g < h

FirstRecoverable(g) ==
    /\ g \in Recoverable
    /\ \A h \in Recoverable : h = g \/ GroupPrecedes(g, h)

AcquireExistingWriteGroup(g, o) ==
    /\ FirstRecoverable(g)
    /\ ~ Leased(groupOwner[g])
    /\ groupOwner' = [groupOwner EXCEPT ![g] = o]
    /\ UNCHANGED <<lastAssigned, committedThrough, identities, reservationVars, group, groupState>>

Candidates == {s \in Unsent \cap Ungrouped : ~ Leased(owner[s])}
TotalRows(P) == MapThenSumSet(LAMBDA s : Rows[batchOf[s]], P)

Target(P) == TotalRows(P) >= TargetRows

\* The scan stopped before row t: the group has its members, or t would
\* exceed the hard row limit.
HardBoundary(P) ==
    \E t \in Unsent \cap Ungrouped :
        /\ \A s \in P : s < t
        /\ \/ Cardinality(P) = MaxMembers
           \/ /\ t \in Candidates
              /\ \A r \in Candidates \ P : t <= r
              /\ TotalRows(P) + Rows[batchOf[t]] > HardMaxRows

\* What selectWriteGroupMembers collects, in sequence order, before it stops.
Selection(P) ==
    /\ P # {} /\ P \subseteq Candidates /\ P \cap Unaccounted = {}
    /\ \A s \in P, t \in Candidates : t < s => t \in P
    /\ Cardinality(P) <= MaxMembers
    /\ TotalRows(P) <= HardMaxRows
    /\ \A s \in P : ~ Target({t \in P : t < s})
    /\ P = Candidates \/ Target(P) \/ HardBoundary(P)

\* due: ForceSeal, or the oldest member reached its linger deadline.
Sealable(P, due) == due \/ HardBoundary(P) \/ Target(P)

ReclaimOwners(P) == owner' = [s \in Seqs |-> IF s \in P THEN Nobody ELSE owner[s]]

FormWriteGroup(P, g, o, due) ==
    /\ Recoverable = {}
    /\ Selection(P) /\ Sealable(P, due)
    /\ g \in P /\ \A s \in P : g <= s
    /\ ReclaimOwners(P)
    /\ group' = [s \in Seqs |-> IF s \in P THEN g ELSE group[s]]
    /\ groupState' = [groupState EXCEPT ![g] = "ready"]
    /\ groupOwner' = [groupOwner EXCEPT ![g] = o]
    /\ UNCHANGED <<lastAssigned, committedThrough, identities, state, phase, batchOf>>

\* Sparse work waits for its linger deadline; dead leases are still reclaimed.
DeferWriteGroup(P, due) ==
    /\ Recoverable = {}
    /\ Selection(P) /\ ~ Sealable(P, due)
    /\ ReclaimOwners(P)
    /\ UNCHANGED <<lastAssigned, committedThrough, identities, state, phase, batchOf, groupVars>>

GroupBarrier(g) ==
    \E h \in Seqs \ {g} :
        /\ groupState[h] = "ambiguous"
        /\ groupState[g] = "ready" \/ h < g

MarkWriteGroupSending(g, c) ==
    /\ groupOwner[g] = c /\ g \in Recoverable
    /\ ~ GroupBarrier(g)
    /\ \A s \in Members(g) :
          /\ s \in Reserved /\ owner[s] = Nobody
          /\ phase[s] = IF groupState[g] = "ready" THEN "unsent" ELSE "ambiguous"
    /\ phase' = [s \in Seqs |-> IF s \in Members(g) THEN "ambiguous" ELSE phase[s]]
    /\ groupState' = [groupState EXCEPT ![g] = "ambiguous"]
    /\ UNCHANGED <<lastAssigned, committedThrough, identities, state, batchOf, owner,
                   group, groupOwner>>

\* Seeded fault: only the first member is committed with the group.
CommitWriteGroupFirst(g, c) ==
    /\ groupOwner[g] = c /\ groupState[g] = "ambiguous"
    /\ state' = [state EXCEPT ![g] = "committed"]
    /\ phase' = [phase EXCEPT ![g] = "final"]
    /\ groupState' = [groupState EXCEPT ![g] = "committed"]
    /\ groupOwner' = [groupOwner EXCEPT ![g] = Nobody]
    /\ AdvanceCutoff(state', lastAssigned)
    /\ UNCHANGED <<lastAssigned, identities, batchOf, owner, group>>

CommitWriteGroup(g, c) ==
    /\ groupOwner[g] = c /\ groupState[g] = "ambiguous"
    /\ \A s \in Members(g) : s \in Ambiguous /\ owner[s] = Nobody
    /\ state' = [s \in Seqs |-> IF s \in Members(g) THEN "committed" ELSE state[s]]
    /\ phase' = [s \in Seqs |-> IF s \in Members(g) THEN "final" ELSE phase[s]]
    /\ groupState' = [groupState EXCEPT ![g] = "committed"]
    /\ groupOwner' = [groupOwner EXCEPT ![g] = Nobody]
    /\ AdvanceCutoff(state', lastAssigned)
    /\ UNCHANGED <<lastAssigned, identities, batchOf, owner, group>>

\* Seeded fault: a failed attempt dissolves its group.
ReleaseWriteGroupMembers(g, c, o) ==
    /\ groupOwner[g] = c /\ g \in Recoverable
    /\ group' = [s \in Seqs |-> IF group[s] = g THEN 0 ELSE group[s]]
    /\ groupState' = [groupState EXCEPT ![g] = "none"]
    /\ groupOwner' = [groupOwner EXCEPT ![g] = Nobody]
    /\ UNCHANGED <<lastAssigned, committedThrough, identities, reservationVars>>

\* ReleaseWriteGroup (o = Nobody); a release or commit that fails leaves Stale.
ReleaseWriteGroup(g, c, o) ==
    /\ groupOwner[g] = c /\ g \in Recoverable
    /\ groupOwner' = [groupOwner EXCEPT ![g] = o]
    /\ UNCHANGED <<lastAssigned, committedThrough, identities, reservationVars, group, groupState>>

(***************************************************************************)
(* PruneTerminal                                                           *)
(***************************************************************************)
CommittedRows == {s \in 1..committedThrough : state[s] = "committed"}
RejectedRows == {s \in Seqs : state[s] = "rejected"}

\* Seeded fault: one row too few is kept.
BeyondNewestButOne(T, n) == {s \in T : Cardinality({t \in T : t > s}) >= n - 1}

\* The newest n rows of T, by sequence, are kept.
BeyondNewest(T, n) == {s \in T : Cardinality({t \in T : t > s}) >= n}

Prunable ==
    {s \in Seqs : state[s] = "abandoned" /\ s <= lastAssigned - Retained}
        \cup BeyondNewest(CommittedRows, Retained)
        \cup BeyondNewest(RejectedRows, RetainedRejected)

\* The first n elements of T in sequence order.
OldestOf(T, n) == {s \in T : Cardinality({t \in T : t < s}) < n}

\* The earliest prunable member of a group orders the groups.
GroupHeads == {s \in Prunable : /\ group[s] # 0 /\ groupState[group[s]] = "committed"
                                /\ \A t \in Prunable : group[t] = group[s] => s <= t}

\* Seeded fault: an identity goes with any of its rows.
PruneTerminalIdentity ==
    LET rows == OldestOf(Prunable, PruneLimit)
    IN  /\ rows # {}
        /\ state' = [s \in Seqs |-> IF s \in rows THEN "none" ELSE state[s]]
        /\ identities' = identities \ {batchOf[s] : s \in rows}
        /\ UNCHANGED <<lastAssigned, committedThrough, phase, batchOf, owner, groupVars>>

PruneTerminal ==
    LET rows == OldestOf(Prunable, PruneLimit)
        groups == {group[s] : s \in OldestOf(GroupHeads, PruneLimit)}
    IN  /\ rows # {}
        /\ state' = [s \in Seqs |-> IF s \in rows THEN "none" ELSE state[s]]
        /\ group' = [s \in Seqs |-> IF group[s] \in groups THEN 0 ELSE group[s]]
        /\ groupState' = [g \in Seqs |-> IF g \in groups THEN "none" ELSE groupState[g]]
        /\ identities' = {b \in identities :
                             \E s \in Seqs : batchOf[s] = b /\ state'[s] # "none"}
        /\ UNCHANGED <<lastAssigned, committedThrough, phase, batchOf, owner, groupOwner>>

(***************************************************************************)
(* A crash or shutdown and the next NewSQLite: releaseDurableAttemptLeases *)
(* clears every lease of the process that is gone.                         *)
(***************************************************************************)
Reopen ==
    /\ owner' = [s \in Seqs |-> IF s \in Reserved THEN Nobody ELSE owner[s]]
    /\ groupOwner' = [g \in Seqs |-> IF g \in Recoverable THEN Nobody ELSE groupOwner[g]]
    /\ UNCHANGED <<lastAssigned, committedThrough, identities, state, phase, batchOf,
                   group, groupState>>

LedgerInit ==
    /\ lastAssigned = Len(Legacy)
    /\ committedThrough = 0
    /\ identities = {Legacy[i].batch : i \in DOMAIN Legacy}
    /\ state = [s \in Seqs |-> IF s \in DOMAIN Legacy THEN "reserved" ELSE "none"]
    /\ phase = [s \in Seqs |-> IF s \in DOMAIN Legacy THEN Legacy[s].phase ELSE "final"]
    /\ batchOf = [s \in Seqs |-> IF s \in DOMAIN Legacy THEN Legacy[s].batch ELSE NoBatch]
    /\ owner = [s \in Seqs |-> Nobody]
    /\ group = [s \in Seqs |-> 0]
    /\ groupState = [g \in Seqs |-> "none"]
    /\ groupOwner = [g \in Seqs |-> Nobody]

\* Any caller may make any call, in any order; o says whether the caller sees
\* the result of the transaction.
Acquire(c, o) ==
    /\ Free(c)
    /\ \/ \E b \in Batches : ReserveFresh(b, o) \/ ReserveExisting(b, o)
       \/ \E s \in Seqs : AcquirePending(s, o) \/ AcquireUngroupedReplay(s, o)
       \/ \E g \in Seqs : AcquireExistingWriteGroup(g, o)
       \/ \E P \in SUBSET Seqs, g \in Seqs, due \in BOOLEAN : FormWriteGroup(P, g, o, due)

LedgerCall ==
    \/ \E c \in Callers : Acquire(c, c) \/ Acquire(c, Stale)
    \/ \E P \in SUBSET Seqs, due \in BOOLEAN : DeferWriteGroup(P, due)
    \/ \E b \in Batches : Reject(b)
    \/ \E c \in Callers, s \in Seqs :
          \/ MarkSending(s, c)
          \/ CommitReservation(s, c)
          \/ Abandon(s, c)
          \/ Release(s, c, Nobody)
          \/ Release(s, c, Stale)
    \/ \E c \in Callers, g \in Seqs :
          \/ MarkWriteGroupSending(g, c)
          \/ CommitWriteGroup(g, c)
          \/ ReleaseWriteGroup(g, c, Nobody)
          \/ ReleaseWriteGroup(g, c, Stale)
    \/ PruneTerminal

LedgerNext == LedgerCall \/ Reopen

LedgerSpec == LedgerInit /\ [][LedgerNext]_ledgerVars

(***************************************************************************)
(* Properties                                                              *)
(***************************************************************************)
\* The type of the ledger.
TypeOK ==
    /\ lastAssigned \in 0..MaxSequence
    /\ committedThrough \in 0..MaxSequence
    /\ identities \subseteq Batches
    /\ state \in [Seqs -> {"none", "reserved", "committed", "rejected", "abandoned"}]
    /\ phase \in [Seqs -> {"unsent", "ambiguous", "final"}]
    /\ batchOf \in [Seqs -> Batches \cup {NoBatch}]
    /\ owner \in [Seqs -> Owners]
    /\ group \in [Seqs -> 0..MaxSequence]
    /\ groupState \in [Seqs -> {"none", "ready", "ambiguous", "committed"}]
    /\ groupOwner \in [Seqs -> Owners]

\* advanceCutoff: the cutoff is exactly the end of the longest prefix without
\* a pending reservation.  A pending row below it would let a search miss rows
\* it must see later; a cutoff that stops short of it hides committed rows.
CutoffExact ==
    /\ committedThrough <= lastAssigned
    /\ \A s \in 1..committedThrough : state[s] # "reserved"
    /\ committedThrough < lastAssigned => state[committedThrough + 1] = "reserved"

\* CommitWriteGroup and MarkWriteGroupSending change a group and all its
\* members in one transaction: no member is ahead of or behind its group, and
\* no per-reservation lease ever holds one.
GroupAllOrNone ==
    \A s \in Seqs : group[s] # 0 =>
        /\ owner[s] = Nobody
        /\ CASE groupState[group[s]] = "ready" -> s \in Unsent
             [] groupState[group[s]] = "ambiguous" -> s \in Ambiguous
             [] groupState[group[s]] = "committed" -> state[s] = "committed"
             [] OTHER -> FALSE

\* FormOrAcquireWriteGroup: a new group is sealed only when no sealed group is
\* still to be committed, so a retry never competes with a newer insert for
\* ClickHouse's deduplication window.
OneUnresolvedGroup ==
    \A g, h \in Recoverable : g = h

\* resolveIdentity and PruneTerminal: every batch has at most one deciding row,
\* that row keeps its identity, and no two batches that share a key are both
\* known, however reservations, rejections, abandons and prunes interleave.
OneOutcomePerIdentity ==
    /\ \A s, t \in Seqs :
          batchOf[s] = batchOf[t] /\ s \in Active(batchOf[s]) /\ t \in Active(batchOf[t])
             => s = t
    /\ \A s \in Seqs : state[s] # "none" => batchOf[s] \in identities
    /\ \A b, d \in identities : <<b, d>> \notin SharesKey

\* A row that may have reached ClickHouse is replayed under its own token until
\* it commits: it is never abandoned, never sent back to "unsent", and never
\* moves to another group.
AmbiguousIsReplayed ==
    [][\A s \in Ambiguous :
          /\ group'[s] = group[s]
          /\ \/ state'[s] = "reserved" /\ phase'[s] = "ambiguous"
             \/ state'[s] = "committed"]_ledgerVars

\* The outcome told to a client stands: a terminal row may be pruned but never
\* changes, the cutoff never moves back, and no commit below the cutoff is added.
OutcomeIsFinal ==
    [][/\ committedThrough' >= committedThrough
       /\ \A s \in 1..lastAssigned :
             /\ state[s] \in {"committed", "rejected", "abandoned"}
                   => state'[s] \in {state[s], "none"}
             /\ state[s] = "none" => state'[s] = "none"]_ledgerVars

\* The membership sealed by persistWriteGroup is the content of the insert: no
\* row joins or leaves a group until the group is committed and pruned whole.
MembershipIsSealed ==
    [][\A g \in Seqs : groupState[g] # "none" =>
          \/ Members(g)' = Members(g)
          \/ groupState[g] = "committed" /\ groupState'[g] = "none" /\ Members(g)' = {}]_ledgerVars

\* PruneTerminal keeps the newest Retained commits below the cutoff
\* replayable: a retry of one of them is answered and not inserted again.
RetryWindowKept ==
    [][\A s \in Seqs : state[s] = "committed" /\ state'[s] = "none" =>
          Cardinality({t \in s..committedThrough : state'[t] = "committed"}) >= Retained]_ledgerVars
===============================================================================
