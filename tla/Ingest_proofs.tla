------------------------------ MODULE Ingest_proofs ------------------------------
(***************************************************************************)
(* Theorems about the visibility ledger and the two specifications that    *)
(* stand on it, the ClickHouse ingest store and the accounts.              *)
(*                                                                         *)
(* The first part speaks of the ledger alone (LedgerSpec), for every       *)
(* number of sequences, batches and callers and every setting of its       *)
(* limits.                                                                 *)
(*                                                                         *)
(* The second part speaks of the store (Spec), for every number of         *)
(* requests, batches and failures: every step of the store is a step of    *)
(* the ledger, and retries, lost answers, late inserts and crashes store   *)
(* every committed batch exactly once.                                     *)
(*                                                                         *)
(* The third part speaks of quotas and HEC requests (AccountsSpec), for    *)
(* every number of batches, sequences and meters, every policy and every   *)
(* limit. A restore puts an older database in the place of the current     *)
(* one, so what the tables keep is stated of a database D and holds of     *)
(* both, the current tables (Tables) and the backup.                       *)
(***************************************************************************)
EXTENDS IngestStore, IngestAccounts, FiniteSetTheorems, WellFoundedInduction,
        SequenceTheorems, TLAPS

(***************************************************************************)
(* The ledger: its inductive invariant                                     *)
(***************************************************************************)
\* Nothing is stored beyond the last sequence handed out.
NothingAhead == \A s \in Seqs : s > lastAssigned => state[s] = "none" /\ group[s] = 0

\* A group is named by one of its members.
GroupsNamed == \A g \in Seqs : groupState[g] # "none" => group[g] = g

\* A row belongs to a batch.
RowsHaveBatch == \A s \in Seqs : state[s] # "none" => batchOf[s] \in Batches

LedgerInv ==
    /\ TypeOK
    /\ NothingAhead
    /\ GroupsNamed
    /\ RowsHaveBatch
    /\ CutoffExact
    /\ GroupAllOrNone
    /\ OneUnresolvedGroup
    /\ OneOutcomePerIdentity

(***************************************************************************)
(* Steps that only move leases: every acquisition of an existing row or    *)
(* group, every release, a deferred group and a reopened database.         *)
(***************************************************************************)
LeaseStep ==
    /\ UNCHANGED <<lastAssigned, committedThrough, identities, state, phase, batchOf,
                   group, groupState>>
    /\ owner' \in [Seqs -> Owners]
    /\ groupOwner' \in [Seqs -> Owners]
    /\ \A s \in Seqs : group[s] # 0 => owner'[s] = Nobody

\* Taking or giving back the lease of an ungrouped row is a lease step.
LEMMA TakeIsLeaseStep ==
  ASSUME LedgerInv, NEW s \in Seqs, NEW o \in Owners, group[s] = 0, TakeReservation(s, o)
  PROVE  LeaseStep
  BY DEF LedgerInv, LeaseStep, TakeReservation, TypeOK, GroupAllOrNone, groupVars

\* The calls that select rows by themselves select ungrouped ones.
LEMMA RowLeases ==
  ASSUME LedgerInv, NEW s \in Seqs, NEW o \in Owners, NEW c \in Callers,
         AcquirePending(s, o) \/ AcquireUngroupedReplay(s, o) \/ Release(s, c, o)
  PROVE  LeaseStep
  <1>1. group[s] = 0
    BY NamesAssumption DEF AcquirePending, AcquireUngroupedReplay, Release, Acquirable,
       FirstUngroupedReplay, ReplayBeforeGroups, Ungrouped, LedgerInv, GroupAllOrNone
  <1>2. TakeReservation(s, o)
    BY DEF AcquirePending, AcquireUngroupedReplay, Release
  <1> QED BY <1>1, <1>2, TakeIsLeaseStep

\* Reserving a batch that has its row changes leases only.
LEMMA ExistingLease ==
  ASSUME LedgerInv, NEW b \in Batches, NEW o \in Owners, ReserveExisting(b, o)
  PROVE  LeaseStep
  BY DEF ReserveExisting, LedgerInv, LeaseStep, TypeOK, GroupAllOrNone, groupVars, Ungrouped

\* Taking up or giving back a group changes leases only.
LEMMA GroupLeases ==
  ASSUME LedgerInv, NEW g \in Seqs, NEW o \in Owners, NEW c \in Callers,
         AcquireExistingWriteGroup(g, o) \/ ReleaseWriteGroup(g, c, o)
  PROVE  LeaseStep
  BY DEF AcquireExistingWriteGroup, ReleaseWriteGroup, LedgerInv, LeaseStep, TypeOK,
     GroupAllOrNone, reservationVars

\* Deferring a group changes leases only.
LEMMA DeferLease ==
  ASSUME LedgerInv, NEW P \in SUBSET Seqs, NEW due \in BOOLEAN, DeferWriteGroup(P, due)
  PROVE  LeaseStep
  BY DEF DeferWriteGroup, ReclaimOwners, LedgerInv, LeaseStep, TypeOK, GroupAllOrNone,
     groupVars, Owners

\* A restart changes leases only.
LEMMA ReopenLease ==
  ASSUME LedgerInv, Reopen
  PROVE  LeaseStep
  BY DEF Reopen, LedgerInv, LeaseStep, TypeOK, GroupAllOrNone, Owners

(***************************************************************************)
(* Every step of the ledger, by what it changes.                           *)
(***************************************************************************)
LedgerStep ==
    \/ \E b \in Batches, o \in Owners : ReserveFresh(b, o)
    \/ \E b \in Batches : Reject(b)
    \/ \E s \in Seqs, c \in Callers : CommitReservation(s, c) \/ Abandon(s, c)
    \/ \E s \in Seqs, c \in Callers : MarkSending(s, c)
    \/ \E P \in SUBSET Seqs, g \in Seqs, o \in Owners, due \in BOOLEAN :
          FormWriteGroup(P, g, o, due)
    \/ \E g \in Seqs, c \in Callers : MarkWriteGroupSending(g, c)
    \/ \E g \in Seqs, c \in Callers : CommitWriteGroup(g, c)
    \/ PruneTerminal
    \/ LeaseStep

\* Every call is of one of the kinds of LedgerStep.
LEMMA StepKinds ==
  ASSUME LedgerInv, LedgerNext
  PROVE  LedgerStep
  <1>0. Callers \subseteq Owners /\ Nobody \in Owners /\ Stale \in Owners
    BY DEF Owners
  <1>1. ASSUME NEW c \in Callers, NEW o \in {c, Stale}, Acquire(c, o)
        PROVE  LedgerStep
    <2>0. o \in Owners
      BY <1>0
    <2>1. CASE \E b \in Batches : ReserveFresh(b, o)
      BY <2>0, <2>1 DEF LedgerStep
    <2>2. CASE \E b \in Batches : ReserveExisting(b, o)
      BY <2>0, <2>2, ExistingLease DEF LedgerStep
    <2>3. CASE \E s \in Seqs : AcquirePending(s, o) \/ AcquireUngroupedReplay(s, o)
      BY <2>0, <2>3, RowLeases DEF LedgerStep
    <2>4. CASE \E g \in Seqs : AcquireExistingWriteGroup(g, o)
      BY <2>0, <2>4, GroupLeases DEF LedgerStep
    <2>5. CASE \E P \in SUBSET Seqs, g \in Seqs, due \in BOOLEAN : FormWriteGroup(P, g, o, due)
      BY <2>0, <2>5 DEF LedgerStep
    <2> QED BY <1>1, <2>1, <2>2, <2>3, <2>4, <2>5 DEF Acquire
  <1>2. CASE \E c \in Callers : Acquire(c, c) \/ Acquire(c, Stale)
    BY <1>1, <1>2
  <1>3. CASE \E P \in SUBSET Seqs, due \in BOOLEAN : DeferWriteGroup(P, due)
    BY <1>3, DeferLease DEF LedgerStep
  <1>4. CASE \E b \in Batches : Reject(b)
    BY <1>4 DEF LedgerStep
  <1>5. CASE \E c \in Callers, s \in Seqs :
                \/ MarkSending(s, c) \/ CommitReservation(s, c) \/ Abandon(s, c)
                \/ Release(s, c, Nobody) \/ Release(s, c, Stale)
    BY <1>5, <1>0, RowLeases DEF LedgerStep
  <1>6. CASE \E c \in Callers, g \in Seqs :
                \/ MarkWriteGroupSending(g, c) \/ CommitWriteGroup(g, c)
                \/ ReleaseWriteGroup(g, c, Nobody) \/ ReleaseWriteGroup(g, c, Stale)
    BY <1>6, <1>0, GroupLeases DEF LedgerStep
  <1>7. CASE PruneTerminal
    BY <1>7 DEF LedgerStep
  <1>8. CASE Reopen
    BY <1>8, ReopenLease DEF LedgerStep
  <1> QED BY <1>2, <1>3, <1>4, <1>5, <1>6, <1>7, <1>8 DEF LedgerNext, LedgerCall

(***************************************************************************)
(* Initial states                                                          *)
(***************************************************************************)
LEMMA InitInv == LedgerInit => LedgerInv
  <1> SUFFICES ASSUME LedgerInit PROVE LedgerInv
    OBVIOUS
  <1>1. /\ DOMAIN Legacy = 1..Len(Legacy) /\ Len(Legacy) \in Nat
        /\ \A s \in DOMAIN Legacy :
              Legacy[s].batch \in Batches /\ Legacy[s].phase \in {"unsent", "ambiguous"}
    <2>1. DOMAIN Legacy = 1..Len(Legacy) /\ Len(Legacy) \in Nat
      BY LegacyAssumption
    <2>2. \A s \in DOMAIN Legacy : Legacy[s] \in LegacyRow
      BY LegacyAssumption, <2>1
    <2> QED BY <2>1, <2>2 DEF LegacyRow
  <1>2. DOMAIN Legacy \subseteq Seqs
    BY <1>1, LegacyAssumption, BoundsAssumption DEF Seqs
  <1>3. TypeOK
    <2>1. identities \subseteq Batches
      BY <1>1 DEF LedgerInit
    <2>2. /\ lastAssigned \in 0..MaxSequence
          /\ committedThrough \in 0..MaxSequence
          /\ group \in [Seqs -> 0..MaxSequence]
      BY <1>1, LegacyAssumption, BoundsAssumption DEF LedgerInit
    <2>3. /\ state \in [Seqs -> {"none", "reserved", "committed", "rejected", "abandoned"}]
          /\ phase \in [Seqs -> {"unsent", "ambiguous", "final"}]
          /\ batchOf \in [Seqs -> Batches \cup {NoBatch}]
      BY <1>1 DEF LedgerInit
    <2>4. /\ owner \in [Seqs -> Owners]
          /\ groupState \in [Seqs -> {"none", "ready", "ambiguous", "committed"}]
          /\ groupOwner \in [Seqs -> Owners]
      BY DEF LedgerInit, Owners
    <2> QED BY <2>1, <2>2, <2>3, <2>4 DEF TypeOK
  <1>4. NothingAhead /\ GroupsNamed /\ RowsHaveBatch
    BY <1>1, <1>2 DEF LedgerInit, NothingAhead, GroupsNamed, RowsHaveBatch, Seqs
  <1>5. CutoffExact
    BY <1>1, <1>2, BoundsAssumption DEF LedgerInit, CutoffExact, Seqs
  <1>6. GroupAllOrNone /\ OneUnresolvedGroup
    BY DEF LedgerInit, GroupAllOrNone, OneUnresolvedGroup, Recoverable
  <1>7. OneOutcomePerIdentity
    <2>1. ASSUME NEW s \in Seqs, NEW t \in Seqs, batchOf[s] = batchOf[t],
                 s \in Active(batchOf[s]), t \in Active(batchOf[t])
          PROVE  s = t
      BY <2>1, <1>1, <1>2, LegacyAssumption DEF LedgerInit, Active
    <2>2. \A s \in Seqs : state[s] # "none" => batchOf[s] \in identities
      BY <1>1, <1>2 DEF LedgerInit
    <2>3. \A b, d \in identities : <<b, d>> \notin SharesKey
      BY <1>1, LegacyAssumption, NamesAssumption DEF LedgerInit
    <2> QED BY <2>1, <2>2, <2>3 DEF OneOutcomePerIdentity
  <1> QED BY <1>3, <1>4, <1>5, <1>6, <1>7 DEF LedgerInv

(***************************************************************************)
(* Rows: allocation, the cutoff and pruning                                *)
(***************************************************************************)
\* What a step that allocates a sequence writes.
LEMMA SequenceAllocated ==
  ASSUME LedgerInv, NEW b \in Batches, NEW o \in Owners, NEW st, NEW ph,
         AllocateSequence(b, st, ph, o)
  PROVE  /\ lastAssigned + 1 \in Seqs /\ lastAssigned' = lastAssigned + 1
         /\ state[lastAssigned + 1] = "none" /\ group[lastAssigned + 1] = 0
         /\ state' = [state EXCEPT ![lastAssigned + 1] = st]
         /\ phase' = [phase EXCEPT ![lastAssigned + 1] = ph]
         /\ batchOf' = [batchOf EXCEPT ![lastAssigned + 1] = b]
         /\ owner' = [owner EXCEPT ![lastAssigned + 1] = o]
         /\ identities' = identities \cup {b}
  BY BoundsAssumption DEF LedgerInv, TypeOK, NothingAhead, AllocateSequence, Seqs

\* PruneTerminal deletes rows that have an outcome.
LEMMA PrunableHasOutcome ==
  ASSUME LedgerInv
  PROVE  \A s \in Prunable : s \in Seqs /\ state[s] \in {"abandoned", "committed", "rejected"}
  BY BoundsAssumption DEF Prunable, BeyondNewest, CommittedRows, RejectedRows, LedgerInv, TypeOK, Seqs

\* advanceCutoff keeps the cutoff exact when the step frees or adds no row
\* below the old cutoff.
LEMMA CutoffAdvances ==
  ASSUME LedgerInv, NEW last \in 0..MaxSequence, last >= lastAssigned,
         state' \in [Seqs -> {"none", "reserved", "committed", "rejected", "abandoned"}],
         \A s \in 1..committedThrough : state'[s] # "reserved",
         lastAssigned' = last,
         AdvanceCutoff(state', last)
  PROVE  CutoffExact' /\ committedThrough' \in 0..MaxSequence /\ committedThrough' >= committedThrough
  <1> DEFINE c == committedThrough'
  <1>1. /\ c \in committedThrough..last
        /\ \A s \in (committedThrough + 1)..c : state'[s] # "reserved"
        /\ c = last \/ state'[c + 1] = "reserved"
    BY DEF AdvanceCutoff
  <1>2. committedThrough \in 0..MaxSequence /\ lastAssigned \in 0..MaxSequence /\ MaxSequence \in Nat
    BY BoundsAssumption DEF LedgerInv, TypeOK
  <1>3. c \in 0..MaxSequence /\ c >= committedThrough /\ c <= last
    BY <1>1, <1>2
  <1>4. \A s \in 1..c : s \in 1..committedThrough \/ s \in (committedThrough + 1)..c
    BY <1>2, <1>3
  <1> QED BY <1>1, <1>3, <1>4 DEF CutoffExact
(***************************************************************************)
(* Each part of the invariant is kept by every step                        *)
(***************************************************************************)
LEMMA TypeStep ==
  ASSUME LedgerInv, LedgerStep
  PROVE  TypeOK'
  <1> USE DEF LedgerInv
  <1>0. Nobody \in Owners
    BY DEF Owners
  <1>1. ASSUME NEW b \in Batches, NEW o \in Owners, ReserveFresh(b, o)
        PROVE  TypeOK'
    <2>1. AllocateSequence(b, "reserved", "unsent", o) /\ UNCHANGED <<committedThrough, groupVars>>
      BY <1>1 DEF ReserveFresh
    <2>2. lastAssigned' \in 0..MaxSequence
      BY <2>1, SequenceAllocated, BoundsAssumption DEF Seqs, TypeOK
    <2> QED BY <2>1, <2>2, SequenceAllocated DEF TypeOK, groupVars
  <1>2. ASSUME NEW b \in Batches, Reject(b)
        PROVE  TypeOK'
    <2>1. /\ AllocateSequence(b, "rejected", "final", Nobody)
          /\ AdvanceCutoff(state', lastAssigned') /\ UNCHANGED groupVars
      BY <1>2 DEF Reject
    <2>2. lastAssigned' \in 0..MaxSequence
      BY <2>1, <1>0, SequenceAllocated, BoundsAssumption DEF Seqs, TypeOK
    <2>3. committedThrough' \in 0..MaxSequence
      BY <2>1, <2>2, BoundsAssumption DEF AdvanceCutoff, TypeOK
    <2> QED BY <2>1, <2>2, <2>3, <1>0, SequenceAllocated DEF TypeOK, groupVars
  <1>3. ASSUME NEW s \in Seqs, NEW c \in Callers, CommitReservation(s, c) \/ Abandon(s, c)
        PROVE  TypeOK'
    <2>1. committedThrough' \in 0..MaxSequence
      BY <1>3, BoundsAssumption
         DEF CommitReservation, Abandon, FinishTerminal, AdvanceCutoff, TypeOK
    <2> QED BY <2>1, <1>3, <1>0 DEF CommitReservation, Abandon, FinishTerminal, TypeOK, groupVars
  <1>4. ASSUME NEW s \in Seqs, NEW c \in Callers, MarkSending(s, c)
        PROVE  TypeOK'
    BY <1>4 DEF MarkSending, TypeOK, groupVars
  <1>5. ASSUME NEW P \in SUBSET Seqs, NEW g \in Seqs, NEW o \in Owners, NEW due \in BOOLEAN,
               FormWriteGroup(P, g, o, due)
        PROVE  TypeOK'
    BY <1>5, <1>0 DEF FormWriteGroup, ReclaimOwners, TypeOK, Seqs
  <1>6. ASSUME NEW g \in Seqs, NEW c \in Callers, MarkWriteGroupSending(g, c)
        PROVE  TypeOK'
    BY <1>6 DEF MarkWriteGroupSending, TypeOK
  <1>7. ASSUME NEW g \in Seqs, NEW c \in Callers, CommitWriteGroup(g, c)
        PROVE  TypeOK'
    <2>1. committedThrough' \in 0..MaxSequence
      BY <1>7, BoundsAssumption DEF CommitWriteGroup, AdvanceCutoff, TypeOK
    <2> QED BY <2>1, <1>7, <1>0 DEF CommitWriteGroup, TypeOK
  <1>8. CASE PruneTerminal
    BY <1>8, BoundsAssumption DEF PruneTerminal, TypeOK
  <1>9. CASE LeaseStep
    BY <1>9 DEF LeaseStep, TypeOK
  <1> QED BY <1>1, <1>2, <1>3, <1>4, <1>5, <1>6, <1>7, <1>8, <1>9 DEF LedgerStep

\* Every step keeps the cutoff exact, and never moves it back.
LEMMA CutoffStep ==
  ASSUME LedgerInv, LedgerStep
  PROVE  CutoffExact' /\ committedThrough' >= committedThrough
  <1>0. /\ TypeOK /\ CutoffExact /\ TypeOK' /\ MaxSequence \in Nat
        /\ \A s \in 1..committedThrough : s \in Seqs
    BY TypeStep, BoundsAssumption DEF LedgerInv, TypeOK, Seqs
  <1>1. ASSUME NEW b \in Batches, NEW o \in Owners, ReserveFresh(b, o)
        PROVE  CutoffExact' /\ committedThrough' >= committedThrough
    <2>1. AllocateSequence(b, "reserved", "unsent", o) /\ UNCHANGED committedThrough
      BY <1>1 DEF ReserveFresh
    <2>2. /\ lastAssigned' = lastAssigned + 1
          /\ state' = [state EXCEPT ![lastAssigned + 1] = "reserved"]
          /\ lastAssigned + 1 \in Seqs
      BY <2>1, SequenceAllocated
    <2>3. \A s \in 1..committedThrough : state'[s] # "reserved"
      BY <2>2, <1>0 DEF CutoffExact, TypeOK
    <2>4. state'[committedThrough + 1] = "reserved"
      BY <2>2, <1>0 DEF CutoffExact, TypeOK, Seqs
    <2> QED BY <2>1, <2>2, <2>3, <2>4, <1>0 DEF CutoffExact, TypeOK
  <1>2. ASSUME NEW b \in Batches, Reject(b)
        PROVE  CutoffExact' /\ committedThrough' >= committedThrough
    <2>1. /\ AllocateSequence(b, "rejected", "final", Nobody)
          /\ AdvanceCutoff(state', lastAssigned') /\ Nobody \in Owners
      BY <1>2 DEF Reject, Owners
    <2>2. /\ lastAssigned' = lastAssigned + 1
          /\ state' = [state EXCEPT ![lastAssigned + 1] = "rejected"]
      BY <2>1, SequenceAllocated
    <2>3. \A s \in 1..committedThrough : state'[s] # "reserved"
      BY <2>2, <1>0 DEF CutoffExact, TypeOK
    <2>4. /\ lastAssigned' \in 0..MaxSequence /\ lastAssigned' >= lastAssigned
          /\ state' \in [Seqs -> {"none", "reserved", "committed", "rejected", "abandoned"}]
      BY <2>2, <1>0 DEF TypeOK
    <2> QED BY <2>1, <2>3, <2>4, CutoffAdvances
  <1>3. ASSUME NEW s \in Seqs, NEW c \in Callers, CommitReservation(s, c) \/ Abandon(s, c)
        PROVE  CutoffExact' /\ committedThrough' >= committedThrough
    <2>1. /\ AdvanceCutoff(state', lastAssigned) /\ UNCHANGED lastAssigned
          /\ \/ state' = [state EXCEPT ![s] = "committed"]
             \/ state' = [state EXCEPT ![s] = "abandoned"]
      BY <1>3 DEF CommitReservation, Abandon, FinishTerminal
    <2>2. \A t \in 1..committedThrough : state'[t] # "reserved"
      BY <2>1, <1>0 DEF CutoffExact, TypeOK
    <2> QED BY <2>1, <2>2, <1>0, CutoffAdvances DEF TypeOK
  <1>4. ASSUME NEW g \in Seqs, NEW c \in Callers, CommitWriteGroup(g, c)
        PROVE  CutoffExact' /\ committedThrough' >= committedThrough
    <2>1. /\ AdvanceCutoff(state', lastAssigned) /\ UNCHANGED lastAssigned
          /\ state' = [s \in Seqs |-> IF s \in Members(g) THEN "committed" ELSE state[s]]
      BY <1>4 DEF CommitWriteGroup
    <2>2. \A t \in 1..committedThrough : state'[t] # "reserved"
      BY <2>1, <1>0 DEF CutoffExact
    <2> QED BY <2>1, <2>2, <1>0, CutoffAdvances DEF TypeOK
  <1>5. CASE PruneTerminal
    <2>1. /\ UNCHANGED <<lastAssigned, committedThrough>>
          /\ \A s \in Seqs : state'[s] = state[s] \/ (state'[s] = "none" /\ state[s] # "reserved")
      BY <1>5, PrunableHasOutcome DEF PruneTerminal, OldestOf
    <2>2. committedThrough < lastAssigned => committedThrough + 1 \in Seqs
      BY <1>0 DEF TypeOK, Seqs
    <2> QED BY <2>1, <2>2, <1>0 DEF CutoffExact, TypeOK
  <1>6. CASE UNCHANGED <<lastAssigned, committedThrough, state>>
    BY <1>6, <1>0 DEF CutoffExact, TypeOK
  <1> QED
    BY <1>1, <1>2, <1>3, <1>4, <1>5, <1>6
       DEF LedgerStep, MarkSending, FormWriteGroup, MarkWriteGroupSending, LeaseStep

\* Every step keeps rows, their batches and the groups they name.
LEMMA RowsStep ==
  ASSUME LedgerInv, LedgerStep
  PROVE  NothingAhead' /\ GroupsNamed' /\ RowsHaveBatch'
  <1>0. /\ TypeOK /\ NothingAhead /\ GroupsNamed /\ RowsHaveBatch
        /\ GroupAllOrNone /\ MaxSequence \in Nat
    BY BoundsAssumption DEF LedgerInv
  <1>1. ASSUME NEW b \in Batches, NEW o \in Owners, NEW st, NEW ph,
               AllocateSequence(b, st, ph, o), UNCHANGED groupVars
        PROVE  NothingAhead' /\ GroupsNamed' /\ RowsHaveBatch'
    <2>1. /\ lastAssigned + 1 \in Seqs /\ lastAssigned' = lastAssigned + 1
          /\ state' = [state EXCEPT ![lastAssigned + 1] = st]
          /\ batchOf' = [batchOf EXCEPT ![lastAssigned + 1] = b]
          /\ UNCHANGED <<group, groupState>>
      BY <1>1, SequenceAllocated DEF groupVars
    <2>2. NothingAhead'
      BY <2>1, <1>0 DEF NothingAhead, TypeOK, Seqs
    <2>3. GroupsNamed'
      BY <2>1, <1>0 DEF GroupsNamed
    <2>4. RowsHaveBatch'
      BY <2>1, <1>0 DEF RowsHaveBatch, TypeOK
    <2> QED BY <2>2, <2>3, <2>4
  <1>2. CASE \E b \in Batches, o \in Owners : ReserveFresh(b, o)
    BY <1>2, <1>1 DEF ReserveFresh
  <1>3. CASE \E b \in Batches : Reject(b)
    BY <1>3, <1>1 DEF Reject, Owners
  <1>4. ASSUME NEW s \in Seqs, NEW c \in Callers, CommitReservation(s, c) \/ Abandon(s, c)
        PROVE  NothingAhead' /\ GroupsNamed' /\ RowsHaveBatch'
    BY <1>4, <1>0 DEF CommitReservation, Abandon, FinishTerminal, Reserved, groupVars,
       NothingAhead, GroupsNamed, RowsHaveBatch, TypeOK
  <1>5. ASSUME NEW P \in SUBSET Seqs, NEW g \in Seqs, NEW o \in Owners, NEW due \in BOOLEAN,
               FormWriteGroup(P, g, o, due)
        PROVE  NothingAhead' /\ GroupsNamed' /\ RowsHaveBatch'
    <2>1. \A s \in P : state[s] = "reserved" /\ group[s] = 0
      BY <1>5 DEF FormWriteGroup, Selection, Candidates, Unsent, Reserved, Ungrouped
    <2>2. /\ group' = [s \in Seqs |-> IF s \in P THEN g ELSE group[s]]
          /\ groupState' = [groupState EXCEPT ![g] = "ready"] /\ g \in P
          /\ UNCHANGED <<lastAssigned, state, batchOf>>
      BY <1>5 DEF FormWriteGroup
    <2>3. ASSUME NEW h \in Seqs, groupState'[h] # "none"
          PROVE  group'[h] = h
      <3>1. CASE h = g
        BY <3>1, <2>2
      <3>2. CASE h # g
        <4>1. groupState[h] # "none" /\ group[h] = h
          BY <3>2, <2>2, <2>3, <1>0 DEF GroupsNamed, TypeOK
        <4>2. h \notin P
          BY <4>1, <2>1 DEF Seqs
        <4> QED BY <4>1, <4>2, <2>2
      <3> QED BY <3>1, <3>2
    <2> QED BY <2>1, <2>2, <2>3, <1>0 DEF NothingAhead, GroupsNamed, RowsHaveBatch
  <1>6. ASSUME NEW g \in Seqs, NEW c \in Callers, MarkWriteGroupSending(g, c)
        PROVE  NothingAhead' /\ GroupsNamed' /\ RowsHaveBatch'
    BY <1>6, <1>0 DEF MarkWriteGroupSending, Recoverable, NothingAhead, GroupsNamed,
       RowsHaveBatch, TypeOK
  <1>7. ASSUME NEW g \in Seqs, NEW c \in Callers, CommitWriteGroup(g, c)
        PROVE  NothingAhead' /\ GroupsNamed' /\ RowsHaveBatch'
    <2>1. \A s \in Members(g) : state[s] = "reserved"
      BY <1>7 DEF CommitWriteGroup, Ambiguous, Reserved
    <2> QED BY <1>7, <2>1, <1>0 DEF CommitWriteGroup, NothingAhead, GroupsNamed, RowsHaveBatch, TypeOK
  <1>8. CASE PruneTerminal
    <2>1. /\ UNCHANGED <<lastAssigned, batchOf>>
          /\ \A s \in Seqs : state'[s] = state[s] \/ state'[s] = "none"
      BY <1>8 DEF PruneTerminal
    <2>2. PICK groups :
             /\ group' = [s \in Seqs |-> IF group[s] \in groups THEN 0 ELSE group[s]]
             /\ groupState' = [g \in Seqs |-> IF g \in groups THEN "none" ELSE groupState[g]]
      BY <1>8 DEF PruneTerminal
    <2>3. \A g \in Seqs : groupState'[g] # "none" => group'[g] = g
      BY <2>2, <1>0 DEF GroupsNamed
    <2> QED BY <2>1, <2>2, <2>3, <1>0 DEF NothingAhead, GroupsNamed, RowsHaveBatch
  <1>9. CASE UNCHANGED <<lastAssigned, state, batchOf, group, groupState>>
    BY <1>9, <1>0 DEF NothingAhead, GroupsNamed, RowsHaveBatch
  <1> QED
    BY <1>2, <1>3, <1>4, <1>5, <1>6, <1>7, <1>8, <1>9
       DEF LedgerStep, MarkSending, LeaseStep, groupVars

\* The sequence or key of a batch decides it once.
LEMMA IdentityStep ==
  ASSUME LedgerInv, LedgerStep
  PROVE  OneOutcomePerIdentity'
  <1>0. /\ TypeOK /\ RowsHaveBatch /\ OneOutcomePerIdentity
    BY DEF LedgerInv
  <1> DEFINE Deciding(st) == st \in {"reserved", "committed", "rejected"}
  <1>1. \A s, t \in Seqs : batchOf[s] = batchOf[t] /\ Deciding(state[s]) /\ Deciding(state[t]) => s = t
    BY <1>0 DEF OneOutcomePerIdentity, Active
  <1>2. ASSUME NEW b \in Batches, NEW o \in Owners, NEW st, NEW ph,
               AllocateSequence(b, st, ph, o), Active(b) = {}, ~ IdentityConflict(b)
        PROVE  OneOutcomePerIdentity'
    <2>1. /\ state' = [state EXCEPT ![lastAssigned + 1] = st]
          /\ batchOf' = [batchOf EXCEPT ![lastAssigned + 1] = b]
          /\ identities' = identities \cup {b} /\ lastAssigned + 1 \in Seqs
      BY <1>2, SequenceAllocated
    <2>2. \A s \in Seqs : batchOf[s] = b => ~ Deciding(state[s])
      BY <1>2 DEF Active
    <2>3. \A s, t \in Seqs :
             batchOf'[s] = batchOf'[t] /\ Deciding(state'[s]) /\ Deciding(state'[t]) => s = t
      BY <2>1, <2>2, <1>1, <1>0 DEF TypeOK
    <2>4. \A s \in Seqs : state'[s] # "none" => batchOf'[s] \in identities'
      BY <2>1, <1>0 DEF TypeOK, OneOutcomePerIdentity
    <2>5. \A i, j \in identities' : <<i, j>> \notin SharesKey
      BY <2>1, <1>2, <1>0, NamesAssumption DEF IdentityConflict, OneOutcomePerIdentity, TypeOK
    <2> QED BY <2>3, <2>4, <2>5 DEF OneOutcomePerIdentity, Active
  <1>3. CASE \E b \in Batches, o \in Owners : ReserveFresh(b, o)
    BY <1>3, <1>2 DEF ReserveFresh
  <1>4. CASE \E b \in Batches : Reject(b)
    BY <1>4, <1>2 DEF Reject, Owners
  <1>5. ASSUME UNCHANGED <<identities, batchOf>>,
               \A s \in Seqs : state'[s] = state[s] \/ (state[s] = "reserved" /\ state'[s] # "none")
        PROVE  OneOutcomePerIdentity'
    <2>1. \A s \in Seqs : Deciding(state'[s]) => Deciding(state[s])
      BY <1>5
    <2>2. \A s, t \in Seqs :
             batchOf'[s] = batchOf'[t] /\ Deciding(state'[s]) /\ Deciding(state'[t]) => s = t
      BY <2>1, <1>1, <1>5
    <2> QED BY <2>2, <1>5, <1>0 DEF OneOutcomePerIdentity, Active
  <1>6. ASSUME NEW s \in Seqs, NEW c \in Callers, CommitReservation(s, c) \/ Abandon(s, c)
        PROVE  OneOutcomePerIdentity'
    <2>1. /\ UNCHANGED <<identities, batchOf>>
          /\ \A t \in Seqs : state'[t] = state[t] \/ (state[t] = "reserved" /\ state'[t] # "none")
      BY <1>6, <1>0 DEF CommitReservation, Abandon, FinishTerminal, Reserved, TypeOK
    <2> QED BY <2>1, <1>5
  <1>7. ASSUME NEW g \in Seqs, NEW c \in Callers, CommitWriteGroup(g, c)
        PROVE  OneOutcomePerIdentity'
    <2>1. /\ UNCHANGED <<identities, batchOf>>
          /\ \A t \in Seqs : state'[t] = state[t] \/ (state[t] = "reserved" /\ state'[t] # "none")
      BY <1>7, <1>0 DEF CommitWriteGroup, Ambiguous, Reserved, TypeOK
    <2> QED BY <2>1, <1>5
  <1>8. CASE PruneTerminal
    <2>1. /\ UNCHANGED batchOf
          /\ \A s \in Seqs : state'[s] = state[s] \/ state'[s] = "none"
          /\ identities' = {b \in identities : \E s \in Seqs : batchOf[s] = b /\ state'[s] # "none"}
      BY <1>8 DEF PruneTerminal
    <2>2. \A s, t \in Seqs :
             batchOf'[s] = batchOf'[t] /\ Deciding(state'[s]) /\ Deciding(state'[t]) => s = t
      BY <2>1, <1>1
    <2>3. \A s \in Seqs : state'[s] # "none" => batchOf'[s] \in identities'
      BY <2>1, <1>0 DEF OneOutcomePerIdentity
    <2> QED BY <2>1, <2>2, <2>3, <1>0 DEF OneOutcomePerIdentity, Active
  <1>9. CASE UNCHANGED <<identities, state, batchOf>>
    <2>1. \A s \in Seqs : state'[s] = state[s]
      BY <1>9
    <2> QED BY <2>1, <1>9, <1>5
  <1> QED
    BY <1>3, <1>4, <1>6, <1>7, <1>8, <1>9
       DEF LedgerStep, MarkSending, FormWriteGroup, MarkWriteGroupSending, LeaseStep

(***************************************************************************)
(* Pruning takes a group with the first of its rows                        *)
(***************************************************************************)
LEMMA LeastNatural ==
  ASSUME NEW T \in SUBSET Nat, T # {}
  PROVE  \E n \in T : \A t \in T : n <= t
  <1>1. \E n \in T : \A t \in T : ~ (<<t, n>> \in OpToRel(<, Nat))
    BY WFMin, NatLessThanWellFounded
  <1>2. PICK n \in T : \A t \in T : ~ (<<t, n>> \in OpToRel(<, Nat))
    BY <1>1
  <1>3. \A t \in T : ~ (t < n)
    BY <1>2 DEF OpToRel
  <1> QED BY <1>3

\* The groups PruneTerminal deletes contain every grouped row it deletes: the
\* head of the group is at least as old as the row, and fewer heads than rows
\* are older.
LEMMA PrunedWithGroup ==
  ASSUME LedgerInv, NEW s \in OldestOf(Prunable, PruneLimit), group[s] # 0
  PROVE  group[s] \in {group[h] : h \in OldestOf(GroupHeads, PruneLimit)}
  <1>0. /\ TypeOK /\ GroupAllOrNone /\ Prunable \subseteq Seqs /\ MaxSequence \in Nat
        /\ PruneLimit \in Nat /\ s \in Prunable /\ Seqs \subseteq Nat
    BY PrunableHasOutcome, BoundsAssumption DEF LedgerInv, OldestOf, Seqs
  <1> DEFINE mates == {t \in Prunable : group[t] = group[s]}
  <1>1. PICK h \in mates : \A t \in mates : h <= t
    <2>1. mates \in SUBSET Nat /\ mates # {}
      BY <1>0
    <2> HIDE DEF mates
    <2> QED BY <2>1, LeastNatural
  <1>2. groupState[group[s]] = "committed"
    BY <1>0, PrunableHasOutcome DEF GroupAllOrNone, Unsent, Ambiguous, Reserved
  <1>3. h \in GroupHeads /\ h <= s /\ h \in Prunable /\ group[h] = group[s]
    BY <1>0, <1>1, <1>2 DEF GroupHeads
  <1>4. {t \in GroupHeads : t < h} \subseteq {t \in Prunable : t < s}
    <2>1. GroupHeads \subseteq Prunable /\ Prunable \subseteq Nat /\ h \in Nat /\ s \in Nat
      BY <1>0, <1>3 DEF GroupHeads
    <2>2. \A t \in GroupHeads : t \in Prunable /\ t \in Nat /\ (t < h => t < s)
      BY <2>1, <1>3
    <2> QED BY <2>2
  <1>5. IsFiniteSet({t \in Prunable : t < s})
    <2>1. IsFiniteSet(Seqs)
      BY <1>0, FS_Interval DEF Seqs
    <2>2. {t \in Prunable : t < s} \in SUBSET Seqs
      BY <1>0
    <2> QED BY <2>1, <2>2, FS_Subset
  <1>6. /\ Cardinality({t \in GroupHeads : t < h}) <= Cardinality({t \in Prunable : t < s})
        /\ IsFiniteSet({t \in GroupHeads : t < h})
    BY <1>4, <1>5, FS_Subset
  <1>7. /\ Cardinality({t \in GroupHeads : t < h}) \in Nat
        /\ Cardinality({t \in Prunable : t < s}) \in Nat
    BY <1>5, <1>6, FS_CardinalityType
  <1>8. Cardinality({t \in Prunable : t < s}) < PruneLimit
    BY DEF OldestOf
  <1>9. h \in OldestOf(GroupHeads, PruneLimit)
    BY <1>0, <1>3, <1>6, <1>7, <1>8 DEF OldestOf
  <1> QED BY <1>3, <1>9

\* Every step moves a group and its members together.
LEMMA GroupStep ==
  ASSUME LedgerInv, LedgerStep
  PROVE  GroupAllOrNone' /\ OneUnresolvedGroup'
  <1>0. /\ TypeOK /\ TypeOK' /\ GroupAllOrNone /\ OneUnresolvedGroup /\ GroupsNamed
        /\ MaxSequence \in Nat
    BY TypeStep, BoundsAssumption DEF LedgerInv
  <1> USE DEF Recoverable, Reserved, Unsent, Ambiguous
  <1>1. ASSUME NEW b \in Batches, NEW o \in Owners, NEW st, NEW ph,
               AllocateSequence(b, st, ph, o), UNCHANGED groupVars
        PROVE  GroupAllOrNone' /\ OneUnresolvedGroup'
    <2>1. /\ state' = [state EXCEPT ![lastAssigned + 1] = st]
          /\ phase' = [phase EXCEPT ![lastAssigned + 1] = ph]
          /\ owner' = [owner EXCEPT ![lastAssigned + 1] = o]
          /\ group[lastAssigned + 1] = 0 /\ UNCHANGED <<group, groupState>>
      BY <1>1, SequenceAllocated DEF groupVars
    <2>2. GroupAllOrNone'
      BY <2>1, <1>0 DEF GroupAllOrNone, TypeOK
    <2>3. OneUnresolvedGroup'
      BY <2>1, <1>0 DEF OneUnresolvedGroup
    <2> QED BY <2>2, <2>3
  <1>2. CASE \E b \in Batches, o \in Owners : ReserveFresh(b, o)
    BY <1>2, <1>1 DEF ReserveFresh
  <1>3. CASE \E b \in Batches : Reject(b)
    BY <1>3, <1>1 DEF Reject, Owners
  <1>4. ASSUME NEW s \in Seqs, NEW c \in Callers,
               CommitReservation(s, c) \/ Abandon(s, c) \/ MarkSending(s, c)
        PROVE  GroupAllOrNone' /\ OneUnresolvedGroup'
    <2>1. owner[s] = c /\ owner[s] # Nobody
      BY <1>4, NamesAssumption DEF CommitReservation, Abandon, FinishTerminal, MarkSending
    <2>2. group[s] = 0
      BY <2>1, <1>0 DEF GroupAllOrNone
    <2>3. /\ UNCHANGED <<group, groupState>>
          /\ \A t \in Seqs \ {s} :
                state'[t] = state[t] /\ phase'[t] = phase[t] /\ owner'[t] = owner[t]
      BY <1>4, <1>0 DEF CommitReservation, Abandon, FinishTerminal, MarkSending, TypeOK, groupVars
    <2> QED BY <2>2, <2>3, <1>0 DEF GroupAllOrNone, OneUnresolvedGroup
  <1>5. ASSUME NEW P \in SUBSET Seqs, NEW g \in Seqs, NEW o \in Owners, NEW due \in BOOLEAN,
               FormWriteGroup(P, g, o, due)
        PROVE  GroupAllOrNone' /\ OneUnresolvedGroup'
    <2>1. \A s \in P : s \in Unsent /\ group[s] = 0
      BY <1>5 DEF FormWriteGroup, Selection, Candidates, Ungrouped
    <2>2. /\ group' = [s \in Seqs |-> IF s \in P THEN g ELSE group[s]]
          /\ owner' = [s \in Seqs |-> IF s \in P THEN Nobody ELSE owner[s]]
          /\ groupState' = [groupState EXCEPT ![g] = "ready"]
          /\ g \in P /\ Recoverable = {} /\ UNCHANGED <<state, phase>>
      BY <1>5 DEF FormWriteGroup, ReclaimOwners
    <2>3. groupState[g] = "none"
      BY <2>1, <2>2, <1>0 DEF GroupsNamed, Seqs
    <2>4. ASSUME NEW s \in Seqs \ P, group[s] # 0
          PROVE  group[s] # g
      BY <2>3, <2>4, <1>0 DEF GroupAllOrNone
    <2>5. GroupAllOrNone'
      BY <2>1, <2>2, <2>4, <1>0 DEF GroupAllOrNone, TypeOK
    <2>6. OneUnresolvedGroup'
      BY <2>2, <1>0 DEF OneUnresolvedGroup, TypeOK
    <2> QED BY <2>5, <2>6
  <1>6. ASSUME NEW g \in Seqs, NEW c \in Callers, MarkWriteGroupSending(g, c)
        PROVE  GroupAllOrNone' /\ OneUnresolvedGroup'
    <2>1. GroupAllOrNone'
      BY <1>6, <1>0 DEF MarkWriteGroupSending, Members, GroupAllOrNone, TypeOK
    <2>2. OneUnresolvedGroup'
      BY <1>6, <1>0 DEF MarkWriteGroupSending, OneUnresolvedGroup, TypeOK
    <2> QED BY <2>1, <2>2
  <1>7. ASSUME NEW g \in Seqs, NEW c \in Callers, CommitWriteGroup(g, c)
        PROVE  GroupAllOrNone' /\ OneUnresolvedGroup'
    <2>1. GroupAllOrNone'
      BY <1>7, <1>0 DEF CommitWriteGroup, Members, GroupAllOrNone, TypeOK
    <2>2. OneUnresolvedGroup'
      BY <1>7, <1>0 DEF CommitWriteGroup, OneUnresolvedGroup, TypeOK
    <2> QED BY <2>1, <2>2
  <1>8. CASE PruneTerminal
    <2> DEFINE gone == OldestOf(Prunable, PruneLimit)
               groups == {group[h] : h \in OldestOf(GroupHeads, PruneLimit)}
    <2>1. /\ state' = [s \in Seqs |-> IF s \in gone THEN "none" ELSE state[s]]
          /\ group' = [s \in Seqs |-> IF group[s] \in groups THEN 0 ELSE group[s]]
          /\ groupState' = [g \in Seqs |-> IF g \in groups THEN "none" ELSE groupState[g]]
          /\ UNCHANGED <<phase, owner>>
      BY <1>8 DEF PruneTerminal
    <2>2. \A s \in gone : group[s] # 0 => group[s] \in groups
      BY PrunedWithGroup
    <2> HIDE DEF gone, groups
    <2>3. ASSUME NEW s \in Seqs, group'[s] # 0
          PROVE  /\ group'[s] = group[s] /\ group[s] # 0 /\ state'[s] = state[s]
                 /\ group[s] \in Seqs /\ groupState'[group[s]] = groupState[group[s]]
      <3>1. group'[s] = group[s] /\ group[s] \notin groups /\ group[s] # 0
        BY <2>1, <2>3
      <3>2. group[s] \in Seqs
        BY <3>1, <1>0 DEF TypeOK, Seqs
      <3> QED BY <3>1, <3>2, <2>1, <2>2
    <2>4. GroupAllOrNone'
      BY <2>1, <2>3, <1>0 DEF GroupAllOrNone
    <2>5. OneUnresolvedGroup'
      BY <2>1, <1>0 DEF OneUnresolvedGroup
    <2> QED BY <2>4, <2>5
  <1>9. CASE LeaseStep
    <2>1. GroupAllOrNone'
      BY <1>9, <1>0 DEF LeaseStep, GroupAllOrNone
    <2>2. OneUnresolvedGroup'
      BY <1>9, <1>0 DEF LeaseStep, OneUnresolvedGroup
    <2> QED BY <2>1, <2>2
  <1> QED
    BY <1>2, <1>3, <1>4, <1>5, <1>6, <1>7, <1>8, <1>9 DEF LedgerStep

(***************************************************************************)
(* What a step does to a row or a group that exists                        *)
(***************************************************************************)
\* A row that may have reached ClickHouse stays in doubt until it commits.
LEMMA AmbiguousStep ==
  ASSUME LedgerInv, LedgerStep, NEW s \in Ambiguous
  PROVE  /\ group'[s] = group[s]
         /\ (state'[s] = "reserved" /\ phase'[s] = "ambiguous") \/ state'[s] = "committed"
  <1>0. /\ TypeOK /\ NothingAhead /\ GroupAllOrNone /\ s \in Seqs
        /\ state[s] = "reserved" /\ phase[s] = "ambiguous"
    BY DEF LedgerInv, Ambiguous, Reserved
  <1> DEFINE Goal == /\ group'[s] = group[s]
                     /\ (state'[s] = "reserved" /\ phase'[s] = "ambiguous") \/ state'[s] = "committed"
  <1>1. ASSUME NEW b \in Batches, NEW o \in Owners, NEW st, NEW ph,
               AllocateSequence(b, st, ph, o), UNCHANGED groupVars
        PROVE  Goal
    <2>1. /\ state' = [state EXCEPT ![lastAssigned + 1] = st]
          /\ phase' = [phase EXCEPT ![lastAssigned + 1] = ph]
          /\ state[lastAssigned + 1] = "none" /\ UNCHANGED group
      BY <1>1, SequenceAllocated DEF groupVars
    <2> QED BY <2>1, <1>0 DEF TypeOK
  <1>2. CASE \E b \in Batches, o \in Owners : ReserveFresh(b, o)
    BY <1>2, <1>1 DEF ReserveFresh
  <1>3. CASE \E b \in Batches : Reject(b)
    BY <1>3, <1>1 DEF Reject, Owners
  <1>4. ASSUME NEW t \in Seqs, NEW c \in Callers,
               CommitReservation(t, c) \/ Abandon(t, c) \/ MarkSending(t, c)
        PROVE  Goal
    BY <1>4, <1>0 DEF CommitReservation, Abandon, FinishTerminal, MarkSending, TypeOK, groupVars
  <1>5. ASSUME NEW P \in SUBSET Seqs, NEW g \in Seqs, NEW o \in Owners, NEW due \in BOOLEAN,
               FormWriteGroup(P, g, o, due)
        PROVE  Goal
    <2>1. s \notin P
      BY <1>5, <1>0 DEF FormWriteGroup, Selection, Candidates, Unsent
    <2> QED BY <2>1, <1>5, <1>0 DEF FormWriteGroup
  <1>6. ASSUME NEW g \in Seqs, NEW c \in Callers,
               MarkWriteGroupSending(g, c) \/ CommitWriteGroup(g, c)
        PROVE  Goal
    BY <1>6, <1>0 DEF MarkWriteGroupSending, CommitWriteGroup
  <1>7. CASE PruneTerminal
    <2> DEFINE gone == OldestOf(Prunable, PruneLimit)
               heads == OldestOf(GroupHeads, PruneLimit)
    <2>1. /\ state' = [t \in Seqs |-> IF t \in gone THEN "none" ELSE state[t]]
          /\ group' = [t \in Seqs |-> IF group[t] \in {group[h] : h \in heads} THEN 0 ELSE group[t]]
          /\ UNCHANGED phase
      BY <1>7 DEF PruneTerminal
    <2>2. s \notin gone
      BY <1>0, PrunableHasOutcome DEF OldestOf
    <2>3. \A h \in heads : group[h] # 0 /\ groupState[group[h]] = "committed"
      BY DEF OldestOf, GroupHeads
    <2>4. group[s] \notin {group[h] : h \in heads}
      BY <2>3, <1>0 DEF GroupAllOrNone
    <2> HIDE DEF gone, heads
    <2> QED BY <2>1, <2>2, <2>4, <1>0
  <1>8. CASE LeaseStep
    BY <1>8, <1>0 DEF LeaseStep
  <1> QED BY <1>2, <1>3, <1>4, <1>5, <1>6, <1>7, <1>8 DEF LedgerStep

\* A terminal row is pruned or stays.
LEMMA OutcomeStep ==
  ASSUME LedgerInv, LedgerStep, NEW s \in 1..lastAssigned
  PROVE  /\ state[s] \in {"committed", "rejected", "abandoned"} => state'[s] \in {state[s], "none"}
         /\ state[s] = "none" => state'[s] = "none"
  <1>0. TypeOK /\ s \in Seqs /\ s # lastAssigned + 1
    BY BoundsAssumption DEF LedgerInv, TypeOK, Seqs
  <1> DEFINE Goal ==
         /\ state[s] \in {"committed", "rejected", "abandoned"} => state'[s] \in {state[s], "none"}
         /\ state[s] = "none" => state'[s] = "none"
  <1>1. ASSUME NEW b \in Batches, NEW o \in Owners, NEW st, NEW ph, AllocateSequence(b, st, ph, o)
        PROVE  Goal
    BY <1>1, <1>0, SequenceAllocated DEF TypeOK
  <1>2. CASE \E b \in Batches, o \in Owners : ReserveFresh(b, o)
    BY <1>2, <1>1 DEF ReserveFresh
  <1>3. CASE \E b \in Batches : Reject(b)
    BY <1>3, <1>1 DEF Reject, Owners
  <1>4. ASSUME NEW t \in Seqs, NEW c \in Callers, CommitReservation(t, c) \/ Abandon(t, c)
        PROVE  Goal
    BY <1>4, <1>0 DEF CommitReservation, Abandon, FinishTerminal, Reserved, TypeOK
  <1>5. ASSUME NEW g \in Seqs, NEW c \in Callers, CommitWriteGroup(g, c)
        PROVE  Goal
    BY <1>5, <1>0 DEF CommitWriteGroup, Ambiguous, Reserved
  <1>6. CASE PruneTerminal
    BY <1>6, <1>0 DEF PruneTerminal
  <1>7. CASE UNCHANGED state
    BY <1>7
  <1>8. CASE \/ \E t \in Seqs, c \in Callers : MarkSending(t, c) \/ MarkWriteGroupSending(t, c)
             \/ \E P \in SUBSET Seqs, g \in Seqs, o \in Owners, due \in BOOLEAN :
                   FormWriteGroup(P, g, o, due)
             \/ LeaseStep
    BY <1>8, <1>7 DEF MarkSending, FormWriteGroup, MarkWriteGroupSending, LeaseStep
  <1> QED BY <1>2, <1>3, <1>4, <1>5, <1>6, <1>8 DEF LedgerStep

\* A group keeps its members until it is pruned as a whole.
LEMMA MembershipStep ==
  ASSUME LedgerInv, LedgerStep, NEW g \in Seqs, groupState[g] # "none"
  PROVE  \/ Members(g)' = Members(g)
         \/ groupState[g] = "committed" /\ groupState'[g] = "none" /\ Members(g)' = {}
  <1>0. TypeOK /\ GroupAllOrNone /\ GroupsNamed /\ g # 0
    BY DEF LedgerInv, Seqs
  <1>1. ASSUME NEW P \in SUBSET Seqs, NEW h \in Seqs, NEW o \in Owners, NEW due \in BOOLEAN,
               FormWriteGroup(P, h, o, due)
        PROVE  Members(g)' = Members(g)
    <2>1. /\ \A s \in P : group[s] = 0
          /\ group' = [s \in Seqs |-> IF s \in P THEN h ELSE group[s]] /\ h \in P
      BY <1>1 DEF FormWriteGroup, Selection, Candidates, Ungrouped
    <2>2. h # g
      BY <2>1, <1>0 DEF GroupsNamed
    <2>3. \A s \in Seqs : group'[s] = g <=> group[s] = g
      BY <2>1, <2>2, <1>0
    <2> QED BY <2>3 DEF Members
  <1>2. CASE PruneTerminal
    <2> DEFINE heads == OldestOf(GroupHeads, PruneLimit)
               groups == {group[h] : h \in heads}
    <2>1. /\ group' = [t \in Seqs |-> IF group[t] \in groups THEN 0 ELSE group[t]]
          /\ groupState' = [t \in Seqs |-> IF t \in groups THEN "none" ELSE groupState[t]]
      BY <1>2 DEF PruneTerminal
    <2>2. \A h \in groups : groupState[h] = "committed"
      BY DEF OldestOf, GroupHeads
    <2> HIDE DEF groups
    <2>3. CASE g \in groups
      <3>1. \A s \in Seqs : group'[s] # g
        BY <2>1, <2>3, <1>0
      <3> QED BY <3>1, <2>1, <2>2, <2>3 DEF Members
    <2>4. CASE g \notin groups
      <3>1. \A s \in Seqs : group'[s] = g <=> group[s] = g
        BY <2>1, <2>4, <1>0
      <3> QED BY <3>1 DEF Members
    <2> QED BY <2>3, <2>4
  <1>3. CASE UNCHANGED group
    BY <1>3 DEF Members
  <1> QED
    BY <1>1, <1>2, <1>3
       DEF LedgerStep, ReserveFresh, Reject, CommitReservation, Abandon, FinishTerminal,
           MarkSending, MarkWriteGroupSending, CommitWriteGroup, LeaseStep, groupVars

(***************************************************************************)
(* The retry window                                                        *)
(***************************************************************************)
LEMMA GreatestNatural ==
  ASSUME NEW N \in Nat, NEW T \in SUBSET (0..N), T # {}
  PROVE  \E n \in T : \A t \in T : t <= n
  <1> DEFINE D == {d \in 0..N : N - d \in T}
  <1>1. D \in SUBSET Nat /\ D # {}
    <2>1. PICK t \in T : TRUE
      OBVIOUS
    <2>2. N - t \in 0..N /\ N - (N - t) = t
      OBVIOUS
    <2>3. N - t \in D
      BY <2>2
    <2> QED BY <2>3
  <1>2. PICK d \in D : \A e \in D : d <= e
    <2> HIDE DEF D
    <2> QED BY <1>1, LeastNatural
  <1>3. ASSUME NEW t \in T
        PROVE  t <= N - d
    <2>1. N - t \in 0..N /\ N - (N - t) = t /\ d \in 0..N
      BY <1>2
    <2>2. N - t \in D
      BY <2>1
    <2> QED BY <1>2, <2>1, <2>2
  <1>4. N - d \in T
    BY <1>2
  <1> QED BY <1>3, <1>4

\* Whatever of the rows T goes, Keep rows above it stay: those above the greatest
\* row that goes.
LEMMA NewestStay ==
  ASSUME NEW N \in Nat, NEW T \in SUBSET (0..N), NEW Keep \in Nat, NEW s \in BeyondNewest(T, Keep)
  PROVE  /\ IsFiniteSet({t \in T \ BeyondNewest(T, Keep) : t > s})
         /\ Cardinality({t \in T \ BeyondNewest(T, Keep) : t > s}) >= Keep
  <1> DEFINE B == BeyondNewest(T, Keep)
             K == {t \in T \ B : t > s}
  <1>0. IsFiniteSet(0..N) /\ IsFiniteSet(T) /\ IsFiniteSet(K)
    <2>1. IsFiniteSet(0..N)
      BY FS_Interval
    <2>2. T \subseteq 0..N /\ K \subseteq 0..N
      OBVIOUS
    <2> HIDE DEF K
    <2> QED BY <2>1, <2>2, FS_Subset
  <1>1. PICK b \in B : \A t \in B : t <= b
    <2>1. B \in SUBSET (0..N) /\ B # {}
      BY DEF BeyondNewest
    <2> HIDE DEF B
    <2> QED BY <2>1, GreatestNatural
  <1>2. b \in T /\ s \in T /\ s <= b /\ Cardinality({t \in T : t > b}) >= Keep
    BY <1>1 DEF BeyondNewest
  <1>3. {t \in T : t > b} \subseteq K
    <2> SUFFICES ASSUME NEW t \in T, t > b PROVE t \notin B /\ t > s
      OBVIOUS
    <2>1. b \in 0..N /\ t \in 0..N /\ s \in 0..N
      BY <1>2
    <2> HIDE DEF B
    <2> QED BY <1>1, <1>2, <2>1
  <1>4. Cardinality({t \in T : t > b}) \in Nat /\ Cardinality(K) \in Nat
        /\ Cardinality({t \in T : t > b}) <= Cardinality(K)
    <2> DEFINE U == {t \in T : t > b}
    <2>1. U \subseteq K
      BY <1>3
    <2> HIDE DEF U, K
    <2>2. IsFiniteSet(U) /\ Cardinality(U) <= Cardinality(K)
      BY <1>0, <2>1, FS_Subset
    <2>3. Cardinality(U) \in Nat /\ Cardinality(K) \in Nat
      BY <1>0, <2>2, FS_CardinalityType
    <2> QED BY <2>2, <2>3 DEF U
  <1> HIDE DEF K
  <1>5. Cardinality(K) >= Keep
    BY <1>2, <1>4
  <1> QED BY <1>0, <1>5 DEF K

\* Only a prune deletes a committed row.
LEMMA CommittedGoes ==
  ASSUME LedgerInv, LedgerStep, NEW s \in Seqs, state[s] = "committed", state'[s] = "none"
  PROVE  PruneTerminal
  <1>0. TypeOK
    BY DEF LedgerInv
  <1>1. ASSUME NEW b \in Batches, NEW o \in Owners, NEW st, NEW ph, AllocateSequence(b, st, ph, o)
        PROVE  state'[s] = "committed"
    BY <1>1, <1>0, SequenceAllocated DEF TypeOK
  <1>2. CASE \E b \in Batches, o \in Owners : ReserveFresh(b, o)
    BY <1>2, <1>1 DEF ReserveFresh
  <1>3. CASE \E b \in Batches : Reject(b)
    BY <1>3, <1>1 DEF Reject, Owners
  <1>4. ASSUME NEW t \in Seqs, NEW c \in Callers, CommitReservation(t, c) \/ Abandon(t, c)
        PROVE  state'[s] = "committed"
    BY <1>4, <1>0 DEF CommitReservation, Abandon, FinishTerminal, Reserved, TypeOK
  <1>5. ASSUME NEW g \in Seqs, NEW c \in Callers, CommitWriteGroup(g, c)
        PROVE  state'[s] = "committed"
    BY <1>5, <1>0 DEF CommitWriteGroup
  <1>6. CASE \/ \E t \in Seqs, c \in Callers : MarkSending(t, c) \/ MarkWriteGroupSending(t, c)
             \/ \E P \in SUBSET Seqs, g \in Seqs, o \in Owners, due \in BOOLEAN :
                   FormWriteGroup(P, g, o, due)
             \/ LeaseStep
    BY <1>6 DEF MarkSending, FormWriteGroup, MarkWriteGroupSending, LeaseStep
  <1> QED BY <1>2, <1>3, <1>4, <1>5, <1>6 DEF LedgerStep

\* A committed row goes only when Retained newer ones below the cutoff stay.
LEMMA RetentionStep ==
  ASSUME LedgerInv, LedgerStep, NEW s \in Seqs, state[s] = "committed", state'[s] = "none"
  PROVE  LET kept == {t \in (s + 1)..committedThrough : state'[t] = "committed"}
         IN  IsFiniteSet(kept) /\ Cardinality(kept) >= Retained
  <1> DEFINE T == CommittedRows
             B == BeyondNewest(T, Retained)
             K == {t \in T \ B : t > s}
             kept == {t \in (s + 1)..committedThrough : state'[t] = "committed"}
  <1>0. /\ TypeOK /\ PruneTerminal /\ committedThrough \in Nat /\ Retained \in Nat
        /\ \A t \in 1..committedThrough : t \in Seqs
    BY CommittedGoes, BoundsAssumption DEF LedgerInv, TypeOK, Seqs
  <1>1. state' = [t \in Seqs |-> IF t \in OldestOf(Prunable, PruneLimit) THEN "none" ELSE state[t]]
    BY <1>0 DEF PruneTerminal
  <1>2. \A t \in Seqs : state[t] = "committed" /\ t \in Prunable => t \in B
    BY DEF Prunable, BeyondNewest, RejectedRows
  <1>3. s \in B
    BY <1>1, <1>2 DEF OldestOf
  <1>4. T \in SUBSET (0..committedThrough)
    BY <1>0 DEF CommittedRows
  <1>5. K \subseteq kept
    <2> SUFFICES ASSUME NEW t \in T, t \notin B, t > s PROVE t \in kept
      OBVIOUS
    <2>1. t \in 1..committedThrough /\ t \in Seqs /\ state[t] = "committed"
      BY <1>0 DEF CommittedRows
    <2>2. t \notin OldestOf(Prunable, PruneLimit)
      BY <1>2, <2>1 DEF OldestOf
    <2>3. state'[t] = "committed"
      BY <1>1, <2>1, <2>2
    <2> HIDE DEF B
    <2> QED BY <2>1, <2>3, BoundsAssumption DEF Seqs
  <1>6. IsFiniteSet(K) /\ Cardinality(K) >= Retained
    <2> HIDE DEF T
    <2> QED BY <1>0, <1>3, <1>4, NewestStay
  <1>7. IsFiniteSet(kept)
    <2>1. kept \subseteq 0..committedThrough /\ IsFiniteSet(0..committedThrough)
      BY <1>0, FS_Interval DEF Seqs
    <2> HIDE DEF kept
    <2> QED BY <2>1, FS_Subset
  <1> HIDE DEF K, kept
  <1>8. Cardinality(K) \in Nat /\ Cardinality(kept) \in Nat /\ Cardinality(K) <= Cardinality(kept)
    BY <1>5, <1>6, <1>7, FS_Subset, FS_CardinalityType
  <1>9. Cardinality(kept) >= Retained
    BY <1>0, <1>6, <1>8
  <1> QED BY <1>7, <1>9 DEF kept

(***************************************************************************)
(* Theorems                                                                *)
(***************************************************************************)
\* The inductive invariant holds in every state of every sequencer, however
\* callers, crashes and prunes interleave.
THEOREM LedgerInvariant == LedgerSpec => []LedgerInv
  <1>1. LedgerInv /\ [LedgerNext]_ledgerVars => LedgerInv'
    <2> SUFFICES ASSUME LedgerInv, [LedgerNext]_ledgerVars PROVE LedgerInv'
      OBVIOUS
    <2>1. CASE LedgerNext
      <3>1. LedgerStep
        BY <2>1, StepKinds
      <3> QED BY <3>1, TypeStep, RowsStep, CutoffStep, GroupStep, IdentityStep DEF LedgerInv
    <2>2. CASE UNCHANGED ledgerVars
      <3>1. LeaseStep
        BY <2>2 DEF ledgerVars, reservationVars, groupVars, LeaseStep, LedgerInv, TypeOK, GroupAllOrNone
      <3>2. LedgerStep
        BY <3>1 DEF LedgerStep
      <3> QED BY <3>2, TypeStep, RowsStep, CutoffStep, GroupStep, IdentityStep DEF LedgerInv
    <2> QED BY <2>1, <2>2
  <1> QED BY InitInv, <1>1, PTL DEF LedgerSpec

\* The ledger keeps its type: sequences stop at MaxSequence, the last one
\* allocateSequence can hand out, and leases belong to callers.
THEOREM TypeCorrect == LedgerSpec => []TypeOK
  <1>1. LedgerInv => TypeOK
    BY DEF LedgerInv
  <1> QED BY <1>1, LedgerInvariant, PTL

\* advanceCutoff: a search never reads past a pending sequence, and the cutoff
\* never stops before one.
THEOREM CutoffIsExact == LedgerSpec => []CutoffExact
  <1>1. LedgerInv => CutoffExact
    BY DEF LedgerInv
  <1> QED BY <1>1, LedgerInvariant, PTL

\* A write group and its members change together, through every send, commit,
\* crash and prune.
THEOREM GroupsAllOrNone == LedgerSpec => []GroupAllOrNone
  <1>1. LedgerInv => GroupAllOrNone
    BY DEF LedgerInv
  <1> QED BY <1>1, LedgerInvariant, PTL

\* FormOrAcquireWriteGroup never leaves two sealed groups to be committed.
THEOREM OneGroup == LedgerSpec => []OneUnresolvedGroup
  <1>1. LedgerInv => OneUnresolvedGroup
    BY DEF LedgerInv
  <1> QED BY <1>1, LedgerInvariant, PTL

\* A batch has one outcome, whose identity is kept, and no batch with one of
\* its keys is known beside it.
THEOREM OneOutcome == LedgerSpec => []OneOutcomePerIdentity
  <1>1. LedgerInv => OneOutcomePerIdentity
    BY DEF LedgerInv
  <1> QED BY <1>1, LedgerInvariant, PTL

\* A row that may be in ClickHouse is replayed, in its own group, until its
\* commit is recorded.
THEOREM AmbiguousReplayed == LedgerSpec => AmbiguousIsReplayed
  <1>1. LedgerInv /\ [LedgerNext]_ledgerVars =>
           [\A s \in Ambiguous :
               /\ group'[s] = group[s]
               /\ \/ state'[s] = "reserved" /\ phase'[s] = "ambiguous"
                  \/ state'[s] = "committed"]_ledgerVars
    BY StepKinds, AmbiguousStep
  <1> QED BY <1>1, LedgerInvariant, PTL DEF LedgerSpec, AmbiguousIsReplayed

\* The cutoff never moves back and no outcome below the last sequence changes
\* into another.
THEOREM OutcomesFinal == LedgerSpec => OutcomeIsFinal
  <1>1. LedgerInv /\ [LedgerNext]_ledgerVars =>
           [/\ committedThrough' >= committedThrough
            /\ \A s \in 1..lastAssigned :
                  /\ state[s] \in {"committed", "rejected", "abandoned"}
                        => state'[s] \in {state[s], "none"}
                  /\ state[s] = "none" => state'[s] = "none"]_ledgerVars
    BY StepKinds, CutoffStep, OutcomeStep
  <1> QED BY <1>1, LedgerInvariant, PTL DEF LedgerSpec, OutcomeIsFinal

\* The rows of a sealed group are fixed until the committed group is pruned.
THEOREM MembershipSealed == LedgerSpec => MembershipIsSealed
  <1>1. LedgerInv /\ [LedgerNext]_ledgerVars =>
           [\A g \in Seqs : groupState[g] # "none" =>
               \/ Members(g)' = Members(g)
               \/ groupState[g] = "committed" /\ groupState'[g] = "none" /\ Members(g)' = {}]_ledgerVars
    BY StepKinds, MembershipStep
  <1> QED BY <1>1, LedgerInvariant, PTL DEF LedgerSpec, MembershipIsSealed

\* PruneTerminal leaves the newest Retained commits below the cutoff in place,
\* so a redelivery of one of them still finds its outcome.
THEOREM RetryWindow == LedgerSpec => RetryWindowKept
  <1>1. LedgerInv /\ [LedgerNext]_ledgerVars =>
           [\A s \in Seqs : state[s] = "committed" /\ state'[s] = "none" =>
               Cardinality({t \in s..committedThrough : state'[t] = "committed"}) >= Retained]_ledgerVars
    <2> SUFFICES ASSUME LedgerInv, LedgerNext, NEW s \in Seqs,
                        state[s] = "committed", state'[s] = "none"
                 PROVE  Cardinality({t \in s..committedThrough : state'[t] = "committed"}) >= Retained
      OBVIOUS
    <2>1. LedgerStep
      BY StepKinds
    <2>2. {t \in s..committedThrough : state'[t] = "committed"}
             = {t \in (s + 1)..committedThrough : state'[t] = "committed"}
      BY BoundsAssumption DEF Seqs, LedgerInv, TypeOK
    <2> QED BY <2>1, <2>2, RetentionStep
  <1> QED BY <1>1, LedgerInvariant, PTL DEF LedgerSpec, RetryWindowKept

(***************************************************************************)
(* The store                                                               *)
(***************************************************************************)

\* Sequences whose send an upgrade found in doubt.
LegacyAmbiguous == {s \in DOMAIN Legacy : Legacy[s].phase = "ambiguous"}

\* The sends an upgrade left in doubt fit into ClickHouse's deduplication
\* window (10000 tokens, migrations/clickhouse/0001_baseline.sql): the store
\* replays them one by one, and none may be forgotten before its turn.
LegacyFits == Cardinality(LegacyAmbiguous) <= Window

(***************************************************************************)
(* The inductive invariant of the store                                    *)
(***************************************************************************)
\* Tokens of the units, single rows or groups, whose send is in doubt.
Open == (Ambiguous \cap Ungrouped) \cup {g \in Seqs : groupState[g] = "ambiguous"}

\* The rows an open unit's insert carries.
BlockOf(t) == IF groupState[t] = "ambiguous" THEN Members(t) ELSE {t}

\* Handed out and not to be sent any more.
Over(s) == s <= lastAssigned /\ state[s] \in {"committed", "none"}

\* The rows of an upgrade are never grouped, and groups begin after them.
LegacyFirst ==
    /\ Len(Legacy) <= lastAssigned
    /\ \A s \in Unaccounted : group[s] = 0
    /\ Ambiguous \cap Ungrouped \subseteq Unaccounted
    /\ LegacyAmbiguous \cap Reserved \subseteq Ambiguous
    /\ \A s \in Unaccounted \cap Reserved : phase[s] # "final"
    /\ Recoverable # {} \/ worker.pc = "form" => Unaccounted \cap Reserved = {}

\* The unit in the reconciler's hands is pending, has been marked before it is
\* sent, and is acknowledged only when all its rows are in the table.
WorkerHolds ==
    /\ worker.pc \in {"prepared", "marked", "sent", "acknowledged", "failed"} =>
          IF worker.kind = "group" THEN worker.unit \in Recoverable
                                   ELSE worker.unit \in Reserved \cap Unaccounted
    /\ worker.pc \in {"marked", "sent", "acknowledged"} => worker.unit \in Open
    /\ worker.pc = "acknowledged" => Block \subseteq landed[worker.unit]

\* An insert under way has nothing left to add, or carries an open unit.
InsertsKnown ==
    \A i \in inserts :
        /\ i.rows # {}
        /\ \/ i.rows \subseteq landed[i.token]
           \/ i.token \in Open /\ i.rows = BlockOf(i.token)

\* Rows land once, under one token, and only those of an open unit or of a row
\* that is over.
LandedOnce ==
    /\ \A s \in Seqs : rows[s] = IF \E t \in Seqs : s \in landed[t] THEN 1 ELSE 0
    /\ \A t, u \in Seqs : landed[t] \cap landed[u] # {} => t = u
    /\ \A t \in Seqs : \A s \in landed[t] : (t \in Open /\ s \in BlockOf(t)) \/ Over(s)
    /\ \A t \in Seqs : Recorded(t) => t \in Open \/ Over(t)
    /\ \A s \in Seqs : state[s] = "committed" => rows[s] = 1

\* A token that may be sent again, or still is under way, is remembered: the
\* units of an upgrade by their number, any other because it is sent alone.
TokensKept ==
    /\ \A t \in Seqs : Recorded(t) => tokenAt[t] \in 1..tokens
    /\ \A i \in inserts : Recorded(i.token) => Remembered(i.token)
    /\ Open \cap LegacyAmbiguous # {} =>
          /\ \A t \in Seqs : Recorded(t) => t \in LegacyAmbiguous
          /\ tokens <= Cardinality({t \in Seqs : Recorded(t)})
    /\ \A u \in Open \ LegacyAmbiguous : Open = {u} /\ (Recorded(u) => tokenAt[u] = tokens)

AnswersHold ==
    /\ AnswersAreTrue
    /\ \A s \in Seqs : answers[s] # "none" => s <= lastAssigned

\* A call under way is about a batch.
CallsHaveBatch == \A r \in Requests : request[r].pc # "idle" => request[r].batch \in Batches

StoreInv ==
    /\ StoreTypeOK /\ LedgerInv /\ CallsHaveBatch
    /\ LegacyFirst /\ WorkerHolds /\ InsertsKnown /\ LandedOnce /\ TokensKept /\ AnswersHold

(***************************************************************************)
(* Open units                                                              *)
(***************************************************************************)
LEMMA SeqsAreNat == Seqs \subseteq Nat /\ 0 \notin Seqs /\ MaxSequence \in Nat
  BY BoundsAssumption DEF Seqs

\* The rows an upgrade leaves are the first sequences.
LEMMA LegacySeqs ==
  /\ Unaccounted \subseteq Seqs /\ Unaccounted = 1..Len(Legacy) /\ Len(Legacy) \in Nat
  /\ LegacyAmbiguous \subseteq Unaccounted
  <1>1. Legacy \in Seq(LegacyRow) /\ Len(Legacy) <= MaxSequence
    BY LegacyAssumption
  <1>2. Len(Legacy) \in Nat /\ DOMAIN Legacy = 1..Len(Legacy)
    BY <1>1
  <1> QED BY <1>1, <1>2, SeqsAreNat DEF Unaccounted, Seqs, LegacyAmbiguous

\* The rows of an open unit are pending and in doubt, its token names one of
\* them, and two open units share none.
LEMMA OpenBlocks ==
  ASSUME LedgerInv
  PROVE  /\ Open \subseteq Seqs
         /\ \A t \in Open : t \in BlockOf(t) /\ BlockOf(t) \subseteq Ambiguous
         /\ \A t, u \in Open : BlockOf(t) \cap BlockOf(u) # {} => t = u
         /\ Open \subseteq Ambiguous
  <1>1. /\ Open \subseteq Seqs
        /\ \A s \in Seqs : group[s] # 0 /\ groupState[group[s]] = "ambiguous" => s \in Ambiguous
        /\ \A g \in Seqs : groupState[g] = "ambiguous" => group[g] = g
    BY SeqsAreNat DEF LedgerInv, Open, GroupAllOrNone, GroupsNamed, Ambiguous, Reserved
  <1>2. \A t \in Open : t \in BlockOf(t) /\ BlockOf(t) \subseteq Ambiguous
    BY <1>1, SeqsAreNat DEF Open, BlockOf, Members
  <1>3. \A t, u \in Open : BlockOf(t) \cap BlockOf(u) # {} => t = u
    BY <1>1, SeqsAreNat DEF Open, BlockOf, Members, Ungrouped
  <1> QED BY <1>1, <1>2, <1>3

\* Nothing of an open unit is over.
LEMMA OpenIsNotOver ==
  ASSUME LedgerInv, NEW t \in Open, NEW s \in BlockOf(t)
  PROVE  s \in Reserved /\ ~ Over(s) /\ ~ Over(t)
  BY OpenBlocks DEF Ambiguous, Reserved, Over

\* The block of the unit in the reconciler's hands is that of its token.
LEMMA UnitBlock ==
  ASSUME LedgerInv, LegacyFirst, WorkerHolds, worker.unit \in Open,
         worker.pc \in {"prepared", "marked", "sent", "acknowledged", "failed"}
  PROVE  Block = BlockOf(worker.unit)
  <1> DEFINE u == worker.unit
  <1>1. CASE worker.kind = "group"
    <2>1. u \in Recoverable /\ group[u] = u /\ u # 0
      BY <1>1, SeqsAreNat DEF WorkerHolds, Recoverable, LedgerInv, GroupsNamed
    <2>2. groupState[u] = "ambiguous"
      BY <2>1 DEF Open, Ungrouped
    <2> QED BY <1>1, <2>2 DEF Block, BlockOf
  <1>2. CASE worker.kind # "group"
    <2>1. u \in Reserved \cap Unaccounted /\ group[u] = 0 /\ u \in Seqs
      BY <1>2, LegacySeqs DEF WorkerHolds, LegacyFirst
    <2>2. groupState[u] = "none"
      BY <2>1, SeqsAreNat DEF LedgerInv, GroupsNamed
    <2> QED BY <1>2, <2>2 DEF Block, BlockOf
  <1> QED BY <1>1, <1>2

(***************************************************************************)
(* Steps of the ledger that neither open nor close a unit                  *)
(***************************************************************************)
Calm ==
    /\ Open' = Open
    /\ \A t \in Open : BlockOf(t)' = BlockOf(t)
    /\ Ambiguous \cap Ungrouped' \subseteq Ungrouped
    /\ \A g \in Seqs : groupState[g] = "ambiguous" => groupState'[g] = "ambiguous"
    /\ Recoverable \subseteq Recoverable'
    /\ Reserved \subseteq Reserved' /\ Ambiguous' = Ambiguous
    /\ \A s \in Seqs : s <= lastAssigned /\ s \in Reserved' => s \in Reserved
    /\ \A s \in Unaccounted : group[s] = 0 => group'[s] = 0
    /\ \A s \in Reserved : phase'[s] = phase[s]
    /\ lastAssigned <= lastAssigned' /\ lastAssigned' \in Nat
    /\ \A s \in Seqs : Over(s) => Over(s)'
    /\ \A s \in Seqs : state'[s] = "committed" => state[s] = "committed"

\* A step that leaves the rows, their phases and groups alone is calm.
LEMMA QuietIsCalm ==
  ASSUME LedgerInv, UNCHANGED <<lastAssigned, state, phase, group, groupState>>
  PROVE  Calm /\ Recoverable' = Recoverable
  BY DEF Calm, Open, BlockOf, Members, Ungrouped, Ambiguous, Reserved, Recoverable, Over,
         LedgerInv, TypeOK

\* A new row is unsent or final: no unit opens or closes.
LEMMA AllocationIsCalm ==
  ASSUME LedgerInv, NEW b \in Batches, NEW o \in Owners,
         NEW st \in {"reserved", "rejected"}, NEW ph \in {"unsent", "final"},
         AllocateSequence(b, st, ph, o), UNCHANGED groupVars
  PROVE  Calm /\ Recoverable' = Recoverable
  <1> DEFINE n == lastAssigned + 1
  <1>1. /\ n \in Seqs /\ state[n] = "none" /\ group[n] = 0 /\ lastAssigned' = n
        /\ state' = [state EXCEPT ![n] = st] /\ phase' = [phase EXCEPT ![n] = ph]
        /\ lastAssigned \in Nat /\ UNCHANGED <<group, groupState>>
    BY SequenceAllocated, SeqsAreNat DEF LedgerInv, TypeOK, groupVars
  <1>2. state \in [Seqs -> {"none", "reserved", "committed", "rejected", "abandoned"}]
        /\ phase \in [Seqs -> {"unsent", "ambiguous", "final"}]
    BY DEF LedgerInv, TypeOK
  <1>3. Ambiguous' = Ambiguous
    BY <1>1, <1>2 DEF Ambiguous, Reserved
  <1>4. /\ Open' = Open /\ (\A t \in Open : BlockOf(t)' = BlockOf(t)) /\ Recoverable' = Recoverable
        /\ Ungrouped' = Ungrouped
    BY <1>1, <1>3 DEF Open, BlockOf, Members, Ungrouped, Recoverable
  <1>5. \A s \in Seqs : Over(s) => Over(s)'
    BY <1>1, <1>2, SeqsAreNat DEF Over
  <1>6. /\ Reserved \subseteq Reserved'
        /\ \A s \in Reserved : phase'[s] = phase[s]
        /\ \A s \in Seqs : s <= lastAssigned /\ s \in Reserved' => s \in Reserved
        /\ \A s \in Seqs : state'[s] = "committed" => state[s] = "committed"
    BY <1>1, <1>2, SeqsAreNat DEF Reserved
  <1> QED BY <1>1, <1>3, <1>4, <1>5, <1>6, SeqsAreNat DEF Calm

\* Sealing a group sends nothing.
LEMMA FormIsCalm ==
  ASSUME LedgerInv, NEW P \in SUBSET Seqs, NEW g \in Seqs, NEW o \in Owners, NEW due \in BOOLEAN,
         FormWriteGroup(P, g, o, due)
  PROVE  Calm /\ g \in Recoverable'
  <1>1. /\ \A s \in P : s \in Unsent /\ group[s] = 0 /\ s \notin Unaccounted
        /\ group' = [s \in Seqs |-> IF s \in P THEN g ELSE group[s]] /\ g \in P
        /\ groupState' = [groupState EXCEPT ![g] = "ready"]
        /\ Recoverable = {}
        /\ UNCHANGED <<lastAssigned, state, phase>>
    BY DEF FormWriteGroup, Selection, Candidates, Ungrouped
  <1>2. groupState \in [Seqs -> {"none", "ready", "ambiguous", "committed"}]
        /\ group \in [Seqs -> 0..MaxSequence] /\ lastAssigned \in Nat
    BY SeqsAreNat DEF LedgerInv, TypeOK
  <1>3. Ambiguous' = Ambiguous /\ Reserved' = Reserved /\ Ambiguous \cap P = {}
    BY <1>1 DEF Ambiguous, Reserved, Unsent
  <1>4. groupState[g] = "none"
    BY <1>1, SeqsAreNat DEF LedgerInv, GroupsNamed
  <1>5. \A h \in Seqs : groupState[h] # "ambiguous" /\ groupState'[h] # "ambiguous"
    BY <1>1, <1>2 DEF Recoverable
  <1>6. Open' = Open /\ \A t \in Open : BlockOf(t)' = BlockOf(t)
    BY <1>1, <1>3, <1>5, SeqsAreNat DEF Open, BlockOf, Ungrouped
  <1>7. g \in Recoverable' /\ Ungrouped' \subseteq Ungrouped
    BY <1>1, <1>2, SeqsAreNat DEF Recoverable, Ungrouped
  <1> QED BY <1>1, <1>2, <1>3, <1>5, <1>6, <1>7, LegacySeqs DEF Calm, Over

\* Only rows that are over are pruned.
LEMMA PruneIsCalm ==
  ASSUME LedgerInv, PruneTerminal
  PROVE  Calm /\ Recoverable' = Recoverable
  <1> DEFINE pruned == OldestOf(Prunable, PruneLimit)
             heads == OldestOf(GroupHeads, PruneLimit)
             groups == {group[s] : s \in heads}
  <1>1. /\ state' = [s \in Seqs |-> IF s \in pruned THEN "none" ELSE state[s]]
        /\ group' = [s \in Seqs |-> IF group[s] \in groups THEN 0 ELSE group[s]]
        /\ groupState' = [g \in Seqs |-> IF g \in groups THEN "none" ELSE groupState[g]]
        /\ UNCHANGED <<lastAssigned, phase>>
    BY DEF PruneTerminal
  <1>2. \A s \in pruned : s \in Seqs /\ state[s] \in {"abandoned", "committed", "rejected"}
    BY PrunableHasOutcome DEF OldestOf
  <1>3. \A g \in groups : g # 0 /\ groupState[g] = "committed"
    BY DEF OldestOf, GroupHeads
  <1>4. \A s \in Seqs : group[s] \in groups => state[s] = "committed"
    BY <1>3 DEF LedgerInv, GroupAllOrNone
  <1>5. /\ state \in [Seqs -> {"none", "reserved", "committed", "rejected", "abandoned"}]
        /\ group \in [Seqs -> 0..MaxSequence] /\ lastAssigned \in Nat
        /\ groupState \in [Seqs -> {"none", "ready", "ambiguous", "committed"}]
    BY SeqsAreNat DEF LedgerInv, TypeOK
  <1> HIDE DEF pruned, groups
  <1>6. Reserved' = Reserved /\ Ambiguous' = Ambiguous
    BY <1>1, <1>2, <1>5 DEF Reserved, Ambiguous
  <1>7. Recoverable' = Recoverable
        /\ {g \in Seqs : groupState'[g] = "ambiguous"} = {g \in Seqs : groupState[g] = "ambiguous"}
    BY <1>1, <1>3, <1>5 DEF Recoverable
  <1>8. \A g \in Seqs : groupState[g] = "ambiguous" =>
           groupState'[g] = "ambiguous" /\ Members(g)' = Members(g)
    BY <1>1, <1>3, <1>5, SeqsAreNat DEF Members
  <1>9. Ambiguous \cap Ungrouped' = Ambiguous \cap Ungrouped
    BY <1>1, <1>4, <1>5 DEF Ambiguous, Reserved, Ungrouped
  <1>10. Open' = Open
    BY <1>6, <1>7, <1>9 DEF Open
  <1>11. \A t \in Open : BlockOf(t)' = BlockOf(t)
    BY <1>7, <1>8, OpenBlocks DEF BlockOf
  <1>12. \A s \in Seqs : (Over(s) => Over(s)') /\ (state'[s] = "committed" => state[s] = "committed")
    BY <1>1, <1>5 DEF Over
  <1>13. \A s \in Unaccounted : group[s] = 0 => group'[s] = 0
    BY <1>1, LegacySeqs
  <1> QED BY <1>1, <1>5, <1>6, <1>7, <1>8, <1>9, <1>10, <1>11, <1>12, <1>13 DEF Calm

(***************************************************************************)
(* Every step of the store is a step of the ledger, or none                *)
(***************************************************************************)
InLedger == LedgerStep \/ UNCHANGED ledgerVars

\* Calls and the worker are owners the ledger knows.
LEMMA StoreCallers ==
  /\ Requests \subseteq Callers /\ Worker \in Callers /\ Worker \notin Requests
  /\ Callers \subseteq Owners /\ Nobody \in Owners /\ Stale \in Owners
  BY StoreAssumption DEF Owners

\* A step that does not touch the ledger is calm.
LEMMA UnchangedIsCalm ==
  ASSUME LedgerInv, LedgerUnchanged
  PROVE  InLedger /\ Calm /\ Recoverable' = Recoverable
  BY QuietIsCalm DEF LedgerUnchanged, InLedger, ledgerVars, reservationVars, groupVars

\* A change of leases is calm.
LEMMA LeaseIsCalm ==
  ASSUME LedgerInv, LeaseStep
  PROVE  InLedger /\ Calm /\ Recoverable' = Recoverable
  BY QuietIsCalm DEF LeaseStep, LedgerStep, InLedger

\* Reserving a batch is calm.
LEMMA ReserveIsCalm ==
  ASSUME LedgerInv, NEW b \in Batches, NEW o \in Owners,
         ReserveFresh(b, o) \/ ReserveExisting(b, o)
  PROVE  InLedger /\ Calm /\ Recoverable' = Recoverable
  <1>1. CASE ReserveFresh(b, o)
    <2>1. AllocateSequence(b, "reserved", "unsent", o) /\ UNCHANGED groupVars
      BY <1>1 DEF ReserveFresh
    <2>2. Calm /\ Recoverable' = Recoverable
      BY <2>1, AllocationIsCalm
    <2> QED BY <1>1, <2>2 DEF InLedger, LedgerStep
  <1>2. CASE ReserveExisting(b, o)
    BY <1>2, ExistingLease, LeaseIsCalm
  <1> QED BY <1>1, <1>2

\* Rejecting a batch takes a new sequence, and is calm.
LEMMA RejectIsCalm ==
  ASSUME LedgerInv, NEW b \in Batches, Reject(b)
  PROVE  /\ InLedger /\ Calm /\ Recoverable' = Recoverable
         /\ lastAssigned' = lastAssigned + 1 /\ lastAssigned' \in Seqs
         /\ state' = [state EXCEPT ![lastAssigned'] = "rejected"]
  <1>1. AllocateSequence(b, "rejected", "final", Nobody) /\ UNCHANGED groupVars
    BY DEF Reject
  <1>2. Calm /\ Recoverable' = Recoverable
    BY <1>1, AllocationIsCalm, StoreCallers
  <1>3. LedgerStep
    BY DEF LedgerStep
  <1> QED BY <1>1, <1>2, <1>3, SequenceAllocated, StoreCallers DEF InLedger

\* Giving a reservation back is calm.
LEMMA ReleaseIsCalm ==
  ASSUME LedgerInv, NEW s, NEW c \in Callers, NEW o \in {Nobody, Stale}, Release(s, c, o)
  PROVE  InLedger /\ Calm /\ Recoverable' = Recoverable
  <1>1. s \in Seqs /\ o \in Owners
    BY StoreCallers DEF Release, Reserved
  <1> QED BY <1>1, RowLeases, LeaseIsCalm

\* What a request does besides its call of the ledger.
LEMMA RequestIsCalm ==
  ASSUME StoreInv, NEW r \in Requests, Arrive(r) \/ RequestNext(r) \/ CancelWait(r)
  PROVE  /\ InLedger /\ Calm /\ Recoverable' = Recoverable
         /\ UNCHANGED <<worker, timer, lingered, clickHouseVars>>
  <1>0. LedgerInv /\ (request[r].pc # "idle" => request[r].batch \in Batches)
        /\ r \in Callers /\ r \in Owners /\ Stale \in Owners
    BY StoreCallers DEF StoreInv, CallsHaveBatch
  <1>1. UNCHANGED <<worker, timer, lingered, clickHouseVars>>
    BY DEF Arrive, CancelWait, RequestNext, LookupBatch, ReserveBatch, ReserveInProgress,
           ReserveRefused, RecheckBatch, ReleaseAttempt, WaiterRefused, AwaitOutcome,
           RejectBatch, RequestStep
  <1> DEFINE Goal == InLedger /\ Calm /\ Recoverable' = Recoverable
  <1>2. LedgerUnchanged => Goal
    BY <1>0, UnchangedIsCalm
  <1>3. CASE \/ Arrive(r) \/ CancelWait(r) \/ LookupBatch(r) \/ ReserveInProgress(r)
             \/ ReserveRefused(r) \/ RecheckBatch(r) \/ AwaitOutcome(r)
    <2>1. LedgerUnchanged
      BY <1>3 DEF Arrive, CancelWait, LookupBatch, ReserveInProgress, ReserveRefused,
                  RecheckBatch, AwaitOutcome
    <2> QED BY <1>1, <1>2, <2>1
  <1>4. CASE ReserveBatch(r)
    <2>1. LedgerUnchanged \/ \E o \in {r, Stale} : ReserveFresh(request[r].batch, o)
                                                  \/ ReserveExisting(request[r].batch, o)
      BY <1>4 DEF ReserveBatch
    <2>2. request[r].batch \in Batches
      BY <1>4, <1>0 DEF ReserveBatch, RequestStep
    <2> QED BY <1>0, <1>1, <1>2, <2>1, <2>2, ReserveIsCalm
  <1>5. CASE ReleaseAttempt(r) \/ WaiterRefused(r)
    <2>1. \E o \in {Nobody, Stale} : Release(request[r].seq, r, o)
      BY <1>5 DEF ReleaseAttempt, WaiterRefused
    <2> QED BY <1>0, <1>1, <2>1, ReleaseIsCalm
  <1>6. CASE RejectBatch(r)
    <2>1. LedgerUnchanged \/ Reject(request[r].batch)
      BY <1>6 DEF RejectBatch
    <2>2. request[r].batch \in Batches
      BY <1>6, <1>0 DEF RejectBatch, RequestStep
    <2> QED BY <1>0, <1>1, <1>2, <2>1, <2>2, RejectIsCalm
  <1> QED BY <1>3, <1>4, <1>5, <1>6 DEF RequestNext

(***************************************************************************)
(* What a calm step keeps                                                  *)
(***************************************************************************)
\* What was told of a sequence stays true.
Truthful ==
    /\ lastAssigned <= lastAssigned'
    /\ \A s \in Seqs : s <= lastAssigned =>
          /\ rows[s] = 1 => rows'[s] = 1
          /\ s \notin Reserved => rows'[s] = rows[s] /\ s \notin Reserved'
          /\ s \in Reserved => s \in Reserved' \/ rows'[s] = 1

\* Calm steps keep what is known of inserts, rows and tokens.
LEMMA CalmKeeps ==
  ASSUME StoreInv, Calm, UNCHANGED clickHouseVars
  PROVE  InsertsKnown' /\ LandedOnce' /\ TokensKept' /\ Truthful
  <1>1. /\ UNCHANGED <<inserts, landed, tokenAt, tokens, rows>>
        /\ LedgerInv /\ InsertsKnown /\ LandedOnce /\ TokensKept
    BY DEF StoreInv, clickHouseVars
  <1>2. inserts \subseteq [token : Seqs, rows : SUBSET Seqs]
    BY DEF StoreInv, StoreTypeOK
  <1>3. InsertsKnown'
    BY <1>1 DEF InsertsKnown, Calm
  <1>4. LandedOnce'
    <2>1. \A t \in Seqs : \A s \in landed'[t] : (t \in Open' /\ s \in BlockOf(t)') \/ Over(s)'
      <3>1. \A t \in Seqs : landed[t] \subseteq Seqs
        BY DEF StoreInv, StoreTypeOK
      <3> QED BY <1>1, <3>1 DEF LandedOnce, Calm
    <2>2. \A t \in Seqs : Recorded(t)' => t \in Open' \/ Over(t)'
      BY <1>1 DEF LandedOnce, Calm, Recorded
    <2>3. \A s \in Seqs : state'[s] = "committed" => rows'[s] = 1
      BY <1>1 DEF LandedOnce, Calm
    <2> QED BY <1>1, <2>1, <2>2, <2>3 DEF LandedOnce
  <1>5. TokensKept'
    BY <1>1 DEF TokensKept, Calm, Recorded, Remembered
  <1>6. Truthful
    BY <1>1 DEF Truthful, Calm
  <1> QED BY <1>3, <1>4, <1>5, <1>6

\* The rows of an upgrade, when the reconciler does not turn to the groups.
LEMMA LegacyKept ==
  ASSUME StoreInv, Calm, Recoverable' # {} \/ worker'.pc = "form" =>
                            Recoverable # {} \/ worker.pc = "form"
  PROVE  LegacyFirst'
  <1>1. LedgerInv /\ LegacyFirst /\ lastAssigned \in Nat /\ lastAssigned' \in Nat
    BY SeqsAreNat DEF StoreInv, Calm, LedgerInv, TypeOK
  <1>2. Ambiguous' \cap Ungrouped' \subseteq Unaccounted
    BY <1>1 DEF Calm, LegacyFirst
  <1>3. \A s \in Unaccounted : s <= lastAssigned /\ s \in Seqs
    BY <1>1, LegacySeqs DEF LegacyFirst
  <1>4. Unaccounted \cap Reserved' = Unaccounted \cap Reserved
    BY <1>3 DEF Calm
  <1>5. LegacyAmbiguous \cap Reserved' \subseteq Ambiguous'
    BY <1>1, <1>4, LegacySeqs DEF Calm, LegacyFirst
  <1> QED BY <1>1, <1>2, <1>4, <1>5, LegacySeqs DEF Calm, LegacyFirst

\* The unit the reconciler holds stays as it was.
LEMMA HoldsKept ==
  ASSUME StoreInv, Calm, UNCHANGED worker, UNCHANGED landed
  PROVE  WorkerHolds'
  <1>1. WorkerHolds /\ LedgerInv
    BY DEF StoreInv
  <1>2. worker.pc \in {"prepared", "marked", "sent", "acknowledged", "failed"} =>
          IF worker.kind = "group" THEN worker.unit \in Recoverable'
                                   ELSE worker.unit \in Reserved' \cap Unaccounted
    BY <1>1 DEF WorkerHolds, Calm
  <1>3. worker.pc = "acknowledged" => Block' \subseteq landed[worker.unit]
    <2>1. CASE worker.pc # "acknowledged"
      BY <2>1
    <2>2. CASE worker.pc = "acknowledged"
      <3>1. worker.unit \in Open /\ Block \subseteq landed[worker.unit]
        BY <2>2, <1>1 DEF WorkerHolds
      <3>2. CASE worker.kind = "group"
        <4>1. worker.unit \in Seqs /\ groupState[worker.unit] = "ambiguous"
          BY <3>1, <3>2, <2>2, <1>1, SeqsAreNat
             DEF WorkerHolds, Open, Recoverable, LedgerInv, GroupsNamed, Ungrouped
        <4>2. Members(worker.unit)' = Members(worker.unit)
          BY <3>1, <4>1 DEF Calm, BlockOf
        <4> QED BY <3>1, <3>2, <4>2 DEF Block
      <3>3. CASE worker.kind # "group"
        BY <3>1, <3>3 DEF Block
      <3> QED BY <3>2, <3>3
    <2> QED BY <2>1, <2>2
  <1> QED BY <1>1, <1>2, <1>3 DEF WorkerHolds, Calm

(***************************************************************************)
(* Marking a unit opens it, committing it closes it                        *)
(***************************************************************************)
Opens(u) ==
    /\ u \in Reserved
    /\ Open' = Open \cup {u}
    /\ u \notin Open => Open = {} /\ u \notin LegacyAmbiguous
    /\ \A t \in Open : BlockOf(t)' = BlockOf(t)
    /\ UNCHANGED <<lastAssigned, state, group>>
    /\ \A s \in Reserved : phase'[s] \in {phase[s], "ambiguous"}
    /\ Recoverable' = Recoverable
    /\ Ambiguous \subseteq Ambiguous'
    /\ Ambiguous' \cap Ungrouped \subseteq Unaccounted

\* Marking an upgrade's row as sending opens it as a unit.
LEMMA SingleOpens ==
  ASSUME StoreInv, NEW u \in Unaccounted, MarkSending(u, Worker)
  PROVE  Opens(u) /\ InLedger
  <1>1. /\ LedgerInv /\ LegacyFirst /\ u \in Seqs /\ group[u] = 0
        /\ phase \in [Seqs -> {"unsent", "ambiguous", "final"}]
    BY LegacySeqs DEF StoreInv, LegacyFirst, LedgerInv, TypeOK
  <1>2. /\ u \in Reserved /\ ~ SendingBarrier(u)
        /\ phase' = [phase EXCEPT ![u] = "ambiguous"]
        /\ UNCHANGED <<lastAssigned, state, group, groupState>>
    BY DEF MarkSending, groupVars
  <1>3. Ambiguous' = Ambiguous \cup {u}
    BY <1>1, <1>2 DEF Ambiguous, Reserved
  <1>4. Open' = Open \cup {u}
    BY <1>1, <1>2, <1>3 DEF Open, Ungrouped
  <1>5. phase[u] \in {"unsent", "ambiguous"}
    <2>1. u \in Unaccounted \cap Reserved
      BY <1>2
    <2> QED BY <1>1, <2>1 DEF LegacyFirst
  <1>6. ASSUME u \notin Open
        PROVE  Open = {} /\ u \notin LegacyAmbiguous
    <2>1. u \notin Ambiguous /\ phase[u] = "unsent"
      BY <1>1, <1>2, <1>5, <1>6 DEF Open, Ungrouped, Ambiguous
    <2>2. Ambiguous = {}
      BY <1>2, <2>1 DEF SendingBarrier
    <2> QED BY <1>1, <1>2, <2>1, <2>2, OpenBlocks DEF LegacyFirst
  <1>7. \A t \in Open : BlockOf(t)' = BlockOf(t)
    BY <1>2 DEF BlockOf, Members
  <1>8. Ambiguous' \cap Ungrouped \subseteq Unaccounted
    BY <1>1, <1>3 DEF LegacyFirst
  <1>9. LedgerStep
    BY <1>1, StoreCallers DEF LedgerStep
  <1>10. \A s \in Reserved : phase'[s] \in {phase[s], "ambiguous"}
    BY <1>1, <1>2 DEF Reserved
  <1> QED BY <1>2, <1>3, <1>4, <1>6, <1>7, <1>8, <1>9, <1>10 DEF Opens, InLedger, Recoverable

\* Marking a group as sending opens it as a unit.
LEMMA GroupOpens ==
  ASSUME StoreInv, NEW g \in Seqs, MarkWriteGroupSending(g, Worker)
  PROVE  Opens(g) /\ InLedger
  <1>1. /\ LedgerInv /\ LegacyFirst /\ g \in Recoverable
        /\ phase \in [Seqs -> {"unsent", "ambiguous", "final"}]
        /\ groupState \in [Seqs -> {"none", "ready", "ambiguous", "committed"}]
    BY DEF StoreInv, MarkWriteGroupSending, LedgerInv, TypeOK
  <1>2. /\ \A s \in Members(g) : s \in Reserved
        /\ phase' = [s \in Seqs |-> IF s \in Members(g) THEN "ambiguous" ELSE phase[s]]
        /\ groupState' = [groupState EXCEPT ![g] = "ambiguous"]
        /\ UNCHANGED <<lastAssigned, state, group>>
    BY DEF MarkWriteGroupSending
  <1>3. group[g] = g /\ g \in Members(g) /\ g # 0
    BY <1>1, SeqsAreNat DEF LedgerInv, GroupsNamed, Recoverable, Members
  <1>4. Unaccounted \cap Reserved = {}
    BY <1>1 DEF LegacyFirst
  <1>5. Ambiguous \cap Ungrouped = {}
    BY <1>1, <1>4 DEF LegacyFirst, Ambiguous
  <1>6. Ambiguous' = Ambiguous \cup Members(g)
    BY <1>1, <1>2 DEF Ambiguous, Reserved, Members
  <1>7. Ambiguous' \cap Ungrouped = {} /\ Ungrouped' = Ungrouped
    BY <1>2, <1>3, <1>5, <1>6 DEF Members, Ungrouped
  <1>8. {h \in Seqs : groupState'[h] = "ambiguous"} = {h \in Seqs : groupState[h] = "ambiguous"} \cup {g}
    BY <1>1, <1>2
  <1>9. Open' = Open \cup {g}
    BY <1>5, <1>7, <1>8 DEF Open
  <1>10. g \notin Open => Open = {}
    BY <1>1, <1>5 DEF Open, LedgerInv, OneUnresolvedGroup, Recoverable
  <1>11. Open \subseteq {g}
    BY <1>10, <1>1, <1>5 DEF Open, LedgerInv, OneUnresolvedGroup, Recoverable
  <1>12. \A t \in Open : BlockOf(t)' = BlockOf(t)
    <2>1. ASSUME NEW t \in Open PROVE BlockOf(t)' = BlockOf(t)
      <3>1. t = g /\ groupState[g] = "ambiguous" /\ groupState'[g] = "ambiguous"
        BY <1>1, <1>2, <1>5, <1>11 DEF Open
      <3> QED BY <1>2, <3>1 DEF BlockOf, Members
    <2> QED BY <2>1
  <1>13. g \notin LegacyAmbiguous
    BY <1>2, <1>3, <1>4, LegacySeqs
  <1>14. Recoverable' = Recoverable
    BY <1>1, <1>2 DEF Recoverable
  <1>15. LedgerStep
    BY StoreCallers DEF LedgerStep
  <1>16. \A s \in Reserved : phase'[s] \in {phase[s], "ambiguous"}
    BY <1>2 DEF Reserved
  <1> QED BY <1>2, <1>3, <1>6, <1>7, <1>9, <1>10, <1>12, <1>13, <1>14, <1>15, <1>16
      DEF Opens, InLedger

\* Opening a unit keeps what is known of inserts, rows and tokens.
LEMMA OpensKeeps ==
  ASSUME StoreInv, NEW u, Opens(u), UNCHANGED clickHouseVars, worker'.pc # "form"
  PROVE  InsertsKnown' /\ LandedOnce' /\ TokensKept' /\ LegacyFirst' /\ Truthful
  <1>1. /\ UNCHANGED <<inserts, landed, tokenAt, tokens, rows>>
        /\ LedgerInv /\ LegacyFirst /\ InsertsKnown /\ LandedOnce /\ TokensKept
        /\ inserts \subseteq [token : Seqs, rows : SUBSET Seqs]
        /\ \A t \in Seqs : landed[t] \subseteq Seqs
        /\ lastAssigned \in Nat
    BY SeqsAreNat DEF StoreInv, StoreTypeOK, clickHouseVars, LedgerInv, TypeOK
  <1>2. InsertsKnown'
    BY <1>1 DEF InsertsKnown, Opens
  <1>3. \A s \in Seqs : Over(s)' <=> Over(s)
    BY DEF Over, Opens
  <1>4. LandedOnce'
    <2>1. \A t \in Seqs : \A s \in landed'[t] : (t \in Open' /\ s \in BlockOf(t)') \/ Over(s)'
      BY <1>1, <1>3 DEF LandedOnce, Opens
    <2>2. \A t \in Seqs : Recorded(t)' => t \in Open' \/ Over(t)'
      BY <1>1, <1>3 DEF LandedOnce, Opens, Recorded
    <2> QED BY <1>1, <2>1, <2>2 DEF LandedOnce, Opens
  <1>5. TokensKept'
    <2>1. u \notin Open => ~ Recorded(u)
      BY <1>1 DEF LandedOnce, Opens, Over, Reserved
    <2>2. Open' \cap LegacyAmbiguous = Open \cap LegacyAmbiguous
      BY DEF Opens
    <2>3. \A v \in Open' \ LegacyAmbiguous : Open' = {v} /\ (Recorded(v) => tokenAt[v] = tokens)
      BY <1>1, <2>1 DEF TokensKept, Opens
    <2> QED BY <1>1, <2>2, <2>3 DEF TokensKept, Recorded, Remembered
  <1>6. LegacyFirst'
    <2>1. Reserved' = Reserved /\ Ungrouped' = Ungrouped
      BY DEF Opens, Reserved, Ungrouped
    <2> QED BY <1>1, <2>1, LegacySeqs DEF LegacyFirst, Opens
  <1>7. Truthful
    BY <1>1 DEF Truthful, Opens, Reserved
  <1> QED BY <1>2, <1>4, <1>5, <1>6, <1>7

Closes(u) ==
    /\ Open' = Open \ {u}
    /\ \A t \in Open' : BlockOf(t)' = BlockOf(t)
    /\ UNCHANGED <<lastAssigned, group>>
    /\ \A s \in Seqs : IF s \in BlockOf(u) THEN state'[s] = "committed"
                                           ELSE state'[s] = state[s] /\ phase'[s] = phase[s]
    /\ Recoverable' \subseteq Recoverable

\* Committing the worker's unit closes it.
LEMMA UnitCloses ==
  ASSUME StoreInv, worker.pc = "acknowledged", CommitUnit
  PROVE  Closes(worker.unit) /\ InLedger
  <1> DEFINE u == worker.unit
  <1>1. /\ LedgerInv /\ LegacyFirst /\ u \in Open /\ u \in Seqs
        /\ state \in [Seqs -> {"none", "reserved", "committed", "rejected", "abandoned"}]
        /\ phase \in [Seqs -> {"unsent", "ambiguous", "final"}]
        /\ groupState \in [Seqs -> {"none", "ready", "ambiguous", "committed"}]
    BY OpenBlocks DEF StoreInv, WorkerHolds, LedgerInv, TypeOK
  <1>2. Block = BlockOf(u)
    BY UnitBlock DEF StoreInv, WorkerHolds
  <1>3. CASE worker.kind = "group"
    <2>1. /\ groupState[u] = "ambiguous" /\ BlockOf(u) = Members(u)
          /\ state' = [s \in Seqs |-> IF s \in Members(u) THEN "committed" ELSE state[s]]
          /\ phase' = [s \in Seqs |-> IF s \in Members(u) THEN "final" ELSE phase[s]]
          /\ groupState' = [groupState EXCEPT ![u] = "committed"]
          /\ UNCHANGED <<lastAssigned, group>>
          /\ CommitWriteGroup(u, Worker)
      BY <1>2, <1>3 DEF CommitUnit, CommitWriteGroup, Block
    <2>2. group[u] = u /\ u # 0 /\ \A s \in Seqs : s \in Members(u) <=> group[s] = u
      BY <1>1, <2>1, SeqsAreNat DEF LedgerInv, GroupsNamed, Members
    <2>3. Ambiguous' = Ambiguous \ Members(u)
      BY <1>1, <2>1 DEF Ambiguous, Reserved
    <2>4. {h \in Seqs : groupState'[h] = "ambiguous"} = {h \in Seqs : groupState[h] = "ambiguous"} \ {u}
      BY <1>1, <2>1
    <2>5. Ambiguous' \cap Ungrouped' = Ambiguous \cap Ungrouped /\ u \notin Ungrouped
      BY <2>1, <2>2, <2>3 DEF Ungrouped
    <2>6. Open' = Open \ {u}
      BY <2>4, <2>5 DEF Open
    <2>7. Recoverable' \subseteq Recoverable
      BY <1>1, <2>1 DEF Recoverable
    <2>8. \A t \in Open' : BlockOf(t)' = BlockOf(t)
      BY <1>1, <2>1, <2>6, OpenBlocks DEF BlockOf, Members
    <2>9. InLedger
      BY <1>1, <2>1, StoreCallers DEF InLedger, LedgerStep
    <2> QED BY <2>1, <2>6, <2>7, <2>8, <2>9 DEF Closes
  <1>4. CASE worker.kind # "group"
    <2>1. /\ BlockOf(u) = {u} /\ u \in Reserved /\ u \in Unaccounted
          /\ state' = [state EXCEPT ![u] = "committed"]
          /\ phase' = [phase EXCEPT ![u] = "final"]
          /\ UNCHANGED <<lastAssigned, group, groupState>>
          /\ CommitReservation(u, Worker)
      BY <1>2, <1>4 DEF CommitUnit, CommitReservation, FinishTerminal, groupVars, Block,
                        StoreInv, WorkerHolds
    <2>2. Ambiguous' = Ambiguous \ {u} /\ group[u] = 0 /\ groupState[u] = "none"
      BY <1>1, <2>1, SeqsAreNat DEF Ambiguous, Reserved, LegacyFirst, LedgerInv, GroupsNamed
    <2>3. Open' = Open \ {u}
      BY <1>1, <2>1, <2>2 DEF Open, Ungrouped
    <2>4. \A t \in Open' : BlockOf(t)' = BlockOf(t)
      BY <2>1 DEF BlockOf, Members
    <2>5. InLedger
      BY <1>1, <2>1, StoreCallers DEF InLedger, LedgerStep
    <2> QED BY <1>1, <2>1, <2>3, <2>4, <2>5 DEF Closes, Recoverable
  <1> QED BY <1>3, <1>4

\* A unit whose rows have landed may close.
LEMMA ClosesKeeps ==
  ASSUME StoreInv, NEW u \in Open, Closes(u), BlockOf(u) \subseteq landed[u],
         UNCHANGED clickHouseVars, worker'.pc # "form"
  PROVE  InsertsKnown' /\ LandedOnce' /\ TokensKept' /\ LegacyFirst' /\ Truthful
  <1>1. /\ UNCHANGED <<inserts, landed, tokenAt, tokens, rows>>
        /\ LedgerInv /\ LegacyFirst /\ InsertsKnown /\ LandedOnce /\ TokensKept
        /\ inserts \subseteq [token : Seqs, rows : SUBSET Seqs]
        /\ \A t \in Seqs : landed[t] \subseteq Seqs
        /\ lastAssigned \in Nat /\ NothingAhead
    BY SeqsAreNat DEF StoreInv, StoreTypeOK, clickHouseVars, LedgerInv, TypeOK
  <1>2. u \in BlockOf(u) /\ BlockOf(u) \subseteq Seqs /\ u \in Seqs /\ Open \subseteq Seqs
        /\ \A s \in BlockOf(u) : s \in Reserved
    BY <1>1, OpenBlocks DEF Ambiguous, Reserved
  <1>3. \A s \in BlockOf(u) : s <= lastAssigned
    <2> SUFFICES ASSUME NEW s \in BlockOf(u) PROVE s <= lastAssigned
      OBVIOUS
    <2>1. s \in Nat /\ s \in Seqs /\ state[s] = "reserved"
      BY <1>2, SeqsAreNat DEF Reserved
    <2>2. ~ (s > lastAssigned)
      BY <1>1, <2>1 DEF NothingAhead
    <2> QED BY <1>1, <2>1, <2>2
  <1>4. \A s \in Seqs : (Over(s) => Over(s)') /\ (s \in BlockOf(u) => Over(s)')
    BY <1>2, <1>3 DEF Over, Closes
  <1>5. InsertsKnown'
    BY <1>1 DEF InsertsKnown, Closes
  <1>6. \A s \in BlockOf(u) : rows[s] = 1
    BY <1>1, <1>2 DEF LandedOnce
  <1>7. LandedOnce'
    <2>1. \A t \in Seqs : \A s \in landed'[t] : (t \in Open' /\ s \in BlockOf(t)') \/ Over(s)'
      BY <1>1, <1>4 DEF LandedOnce, Closes
    <2>2. \A t \in Seqs : Recorded(t)' => t \in Open' \/ Over(t)'
      BY <1>1, <1>2, <1>4 DEF LandedOnce, Closes, Recorded
    <2>3. \A s \in Seqs : state'[s] = "committed" => rows'[s] = 1
      BY <1>1, <1>6 DEF LandedOnce, Closes
    <2> QED BY <1>1, <2>1, <2>2, <2>3 DEF LandedOnce
  <1>8. TokensKept'
    <2>1. \A v \in Open' \ LegacyAmbiguous : Open' = {v} /\ (Recorded(v) => tokenAt[v] = tokens)
      BY <1>1 DEF TokensKept, Closes
    <2>2. Open' \cap LegacyAmbiguous # {} => Open \cap LegacyAmbiguous # {}
      BY DEF Closes
    <2> QED BY <1>1, <2>1, <2>2 DEF TokensKept, Recorded, Remembered
  <1>9. LegacyFirst'
    <2>1. Reserved' \subseteq Reserved /\ Ungrouped' = Ungrouped /\ Ambiguous' \subseteq Ambiguous
      BY DEF Closes, Reserved, Ungrouped, Ambiguous
    <2>2. \A s \in Reserved' : phase'[s] = phase[s]
      BY DEF Closes, Reserved
    <2>3. LegacyAmbiguous \cap Reserved' \subseteq Ambiguous'
      BY <1>1, <2>1, <2>2 DEF LegacyFirst, Ambiguous
    <2> QED BY <1>1, <2>1, <2>2, <2>3, LegacySeqs DEF LegacyFirst, Closes
  <1>10. Truthful
    BY <1>1, <1>2, <1>6 DEF Truthful, Closes, Reserved
  <1> QED BY <1>5, <1>7, <1>8, <1>9, <1>10

(***************************************************************************)
(* ClickHouse                                                              *)
(***************************************************************************)
\* A token that may be sent is remembered, if it was recorded.
LEMMA OpenRemembered ==
  ASSUME StoreInv, LegacyFits, NEW u \in Open, Recorded(u)
  PROVE  Remembered(u)
  <1>1. /\ TokensKept /\ LedgerInv /\ tokens \in Nat /\ Window \in Nat \ {0} /\ u \in Seqs
        /\ tokenAt[u] \in 1..tokens
    BY StoreAssumption, OpenBlocks DEF StoreInv, StoreTypeOK, TokensKept
  <1>2. CASE u \notin LegacyAmbiguous
    BY <1>1, <1>2 DEF TokensKept, Remembered
  <1>3. CASE u \in LegacyAmbiguous
    <2>1. /\ {t \in Seqs : Recorded(t)} \subseteq LegacyAmbiguous
          /\ tokens <= Cardinality({t \in Seqs : Recorded(t)})
      BY <1>1, <1>3 DEF TokensKept
    <2>2. IsFiniteSet(LegacyAmbiguous)
      <3>1. IsFiniteSet(1..Len(Legacy))
        BY LegacySeqs, FS_Interval
      <3> QED BY <3>1, LegacySeqs, FS_Subset
    <2>3. Cardinality({t \in Seqs : Recorded(t)}) <= Cardinality(LegacyAmbiguous)
          /\ Cardinality({t \in Seqs : Recorded(t)}) \in Nat /\ Cardinality(LegacyAmbiguous) \in Nat
      BY <2>1, <2>2, FS_Subset, FS_CardinalityType
    <2> QED BY <1>1, <2>1, <2>3 DEF LegacyFits, Remembered
  <1> QED BY <1>2, <1>3

\* Sending, again or for the first time, adds an insert of an open unit.
LEMMA SendKeeps ==
  ASSUME StoreInv, LegacyFits, WorkerSends
  PROVE  InsertsKnown' /\ LandedOnce' /\ TokensKept' /\ Truthful
  <1>0. PICK u, B : u = worker.unit /\ B = Block
    OBVIOUS
  <1> DEFINE new == [token |-> u, rows |-> B]
  <1>1. /\ inserts' = inserts \cup {new} /\ UNCHANGED <<landed, tokenAt, tokens, rows>>
        /\ LedgerUnchanged /\ worker.pc = "marked"
    BY <1>0 DEF WorkerSends, WorkerStep
  <1>2. /\ LedgerInv /\ LegacyFirst /\ WorkerHolds /\ InsertsKnown /\ LandedOnce /\ TokensKept
        /\ inserts \subseteq [token : Seqs, rows : SUBSET Seqs] /\ u \in Open
    BY <1>0, <1>1 DEF StoreInv, StoreTypeOK, WorkerHolds
  <1>3. B = BlockOf(u) /\ u \in B
    BY <1>0, <1>1, <1>2, UnitBlock, OpenBlocks
  <1>4. /\ Open' = Open /\ (\A t \in Open : BlockOf(t)' = BlockOf(t))
        /\ UNCHANGED <<state, lastAssigned, phase, group, groupState>>
    BY <1>1, <1>2, UnchangedIsCalm DEF Calm, LedgerUnchanged, ledgerVars, reservationVars, groupVars
  <1>5. InsertsKnown'
    <2>1. \A i \in inserts : /\ i.rows # {}
                             /\ i.rows \subseteq landed'[i.token] \/ (i.token \in Open' /\ i.rows = BlockOf(i.token)')
      BY <1>1, <1>2, <1>4 DEF InsertsKnown
    <2>2. new.rows # {} /\ new.token \in Open' /\ new.rows = BlockOf(new.token)'
      BY <1>2, <1>3, <1>4
    <2> HIDE DEF new
    <2> QED BY <1>1, <2>1, <2>2 DEF InsertsKnown
  <1>6. LandedOnce'
    BY <1>1, <1>2, <1>4 DEF LandedOnce, BlockOf, Members, Over, Recorded
  <1>7. TokensKept'
    <2>1. Recorded(new.token) => Remembered(new.token)
      BY <1>2, OpenRemembered
    <2>2. \A i \in inserts' : Recorded(i.token) => Remembered(i.token)
      BY <1>1, <1>2, <2>1 DEF TokensKept
    <2> HIDE DEF new
    <2> QED BY <1>1, <1>2, <1>4, <2>2 DEF TokensKept, Recorded, Remembered
  <1>8. Truthful
    BY <1>1, <1>4, SeqsAreNat DEF Truthful, Reserved, StoreInv, LedgerInv, TypeOK
  <1> QED BY <1>5, <1>6, <1>7, <1>8

\* A row that is applied was not in the table: its token is remembered if it
\* was recorded, and only an open unit has rows that did not land.
LEMMA ApplyIsNew ==
  ASSUME StoreInv, NEW i \in inserts, NEW s \in i.rows, Apply(i, s)
  PROVE  /\ i.token \in Open /\ s \in BlockOf(i.token)
         /\ landed' = [landed EXCEPT ![i.token] = @ \cup {s}]
         /\ \A t \in Seqs : s \notin landed[t]
  <1> DEFINE t == i.token
  <1>1. /\ LedgerInv /\ InsertsKnown /\ LandedOnce /\ TokensKept
        /\ i \in [token : Seqs, rows : SUBSET Seqs] /\ landed \in [Seqs -> SUBSET Seqs]
    BY DEF StoreInv, StoreTypeOK
  <1>2. ~ (Remembered(t) /\ s \in landed[t])
        /\ landed' = [landed EXCEPT ![t] = IF Remembered(t) THEN @ \cup {s} ELSE {s}]
    BY DEF Apply
  <1>3. Recorded(t) => Remembered(t)
    BY DEF TokensKept, StoreInv
  <1>4. s \notin landed[t] /\ (~ Remembered(t) => landed[t] = {})
    BY <1>2, <1>3 DEF Recorded
  <1>5. t \in Open /\ s \in BlockOf(t)
    BY <1>1, <1>4 DEF InsertsKnown
  <1>6. landed' = [landed EXCEPT ![t] = @ \cup {s}]
    BY <1>1, <1>2, <1>4
  <1>7. \A u \in Seqs : s \notin landed[u]
    <2> SUFFICES ASSUME NEW u \in Seqs, s \in landed[u] PROVE FALSE
      OBVIOUS
    <2>1. u \in Open /\ s \in BlockOf(u)
      BY <1>1, <1>5, OpenIsNotOver DEF LandedOnce
    <2>2. u = t
      BY <1>1, <1>5, <2>1, OpenBlocks
    <2> QED BY <1>4, <2>2
  <1> QED BY <1>5, <1>6, <1>7

\* A row that ClickHouse applies lands once, or is found by its token.
LEMMA ApplyKeeps ==
  ASSUME StoreInv, NEW i \in inserts, NEW s \in i.rows, Apply(i, s)
  PROVE  InsertsKnown' /\ LandedOnce' /\ TokensKept' /\ Truthful
  <1> DEFINE t == i.token
  <1>1. /\ LedgerInv /\ InsertsKnown /\ LandedOnce /\ TokensKept
        /\ i \in [token : Seqs, rows : SUBSET Seqs] /\ landed \in [Seqs -> SUBSET Seqs]
        /\ inserts \subseteq [token : Seqs, rows : SUBSET Seqs]
        /\ rows \in [Seqs -> Nat] /\ tokens \in Nat /\ tokenAt \in [Seqs -> Nat]
        /\ Window \in Nat \ {0}
    BY StoreAssumption DEF StoreInv, StoreTypeOK
  <1>2. /\ t \in Open /\ s \in BlockOf(t) /\ t \in Seqs /\ s \in Seqs
        /\ landed' = [landed EXCEPT ![t] = @ \cup {s}]
        /\ \A u \in Seqs : s \notin landed[u]
    BY <1>1, ApplyIsNew
  <1>3. /\ RecordsToken(t) /\ rows' = [rows EXCEPT ![s] = @ + 1]
        /\ LedgerUnchanged /\ UNCHANGED inserts
    BY DEF Apply
  <1>4. /\ Open' = Open /\ (\A v \in Open : BlockOf(v)' = BlockOf(v))
        /\ UNCHANGED <<state, lastAssigned, phase, group, groupState>>
    BY <1>1, <1>3, UnchangedIsCalm DEF Calm, LedgerUnchanged, ledgerVars, reservationVars, groupVars
  <1>5. /\ \A u \in Seqs : landed[u] \subseteq landed'[u]
        /\ \A u \in Seqs : landed'[u] = IF u = t THEN landed[u] \cup {s} ELSE landed[u]
    BY <1>1, <1>2
  <1>6. InsertsKnown'
    BY <1>1, <1>3, <1>4, <1>5 DEF InsertsKnown
  <1>7. LandedOnce'
    <2>1. \A v \in Seqs : rows'[v] = IF \E u \in Seqs : v \in landed'[u] THEN 1 ELSE 0
      <3>1. rows'[s] = 1 /\ s \in landed'[t]
        BY <1>1, <1>2, <1>3, <1>5 DEF LandedOnce
      <3>2. \A v \in Seqs \ {s} : rows'[v] = rows[v]
        BY <1>1, <1>3
      <3> QED BY <1>1, <1>2, <1>5, <3>1, <3>2 DEF LandedOnce
    <2>2. \A u, v \in Seqs : landed'[u] \cap landed'[v] # {} => u = v
      BY <1>1, <1>2, <1>5 DEF LandedOnce
    <2>3. \A u \in Seqs : \A v \in landed'[u] : (u \in Open' /\ v \in BlockOf(u)') \/ Over(v)'
      <3>1. \A v : Over(v)' <=> Over(v)
        BY <1>4 DEF Over
      <3> QED BY <1>1, <1>2, <1>4, <1>5, <3>1 DEF LandedOnce
    <2>4. \A u \in Seqs : Recorded(u)' => u \in Open' \/ Over(u)'
      BY <1>1, <1>2, <1>4, <1>5 DEF LandedOnce, Recorded, Over
    <2>5. \A v \in Seqs : state'[v] = "committed" => rows'[v] = 1
      <3>1. state[s] # "committed"
        BY <1>1, <1>2, OpenIsNotOver DEF Reserved
      <3> QED BY <1>1, <1>3, <1>4, <3>1 DEF LandedOnce
    <2> QED BY <2>1, <2>2, <2>3, <2>4, <2>5 DEF LandedOnce
  <1>8. TokensKept'
    <2>1. \A u \in Seqs : Recorded(u)' <=> u = t \/ Recorded(u)
      BY <1>5 DEF Recorded
    <2>2. CASE Remembered(t)
      <3>1. UNCHANGED <<tokens, tokenAt>> /\ Recorded(t)
        BY <1>3, <2>2 DEF RecordsToken, Remembered
      <3>2. \A u \in Seqs : Recorded(u)' <=> Recorded(u)
        BY <2>1, <3>1
      <3>3. {u \in Seqs : Recorded(u)'} = {u \in Seqs : Recorded(u)}
        BY <3>2
      <3>4. \A j \in inserts : (Recorded(j.token) => Remembered(j.token))'
        BY <1>1, <3>1, <3>2 DEF TokensKept, Remembered
      <3> QED BY <1>1, <1>2, <1>3, <1>4, <3>1, <3>2, <3>3, <3>4, OpenBlocks DEF TokensKept
    <2>3. CASE ~ Remembered(t)
      <3>1. /\ tokens' = tokens + 1 /\ tokenAt' = [tokenAt EXCEPT ![t] = tokens + 1]
            /\ \A j \in inserts : j.token # t /\ Recorded(j.token)
                   => tokens + 1 - tokenAt[j.token] < Window
        BY <1>3, <2>3 DEF RecordsToken
      <3>2. ~ Recorded(t)
        BY <1>1, <2>3 DEF TokensKept
      <3>3. \A u \in Seqs : Recorded(u)' => tokenAt'[u] \in 1..tokens'
        BY <1>1, <2>1, <3>1 DEF TokensKept
      <3>4. \A j \in inserts : (Recorded(j.token) => Remembered(j.token))'
        <4> SUFFICES ASSUME NEW j \in inserts, Recorded(j.token)' PROVE Remembered(j.token)'
          BY Zenon
        <4>1. CASE j.token = t
          BY <1>1, <1>2, <3>1, <4>1 DEF Remembered
        <4>2. CASE j.token # t
          <5>1. j.token \in Seqs /\ Recorded(j.token)
            BY <1>1, <2>1, <4>2
          <5>2. tokens + 1 - tokenAt[j.token] < Window /\ tokenAt'[j.token] = tokenAt[j.token]
            BY <1>1, <1>2, <3>1, <4>2, <5>1
          <5> QED BY <1>1, <3>1, <5>2 DEF Remembered
        <4> QED BY <4>1, <4>2
      <3>5. ASSUME Open \cap LegacyAmbiguous # {}
            PROVE  /\ \A u \in Seqs : Recorded(u)' => u \in LegacyAmbiguous
                   /\ tokens' <= Cardinality({u \in Seqs : Recorded(u)'})
        <4>1. t \in LegacyAmbiguous
          BY <1>1, <1>2, <3>5 DEF TokensKept
        <4> DEFINE R == {u \in Seqs : Recorded(u)}
                   R2 == {u \in Seqs : Recorded(u)'}
        <4>2. R2 = R \cup {t} /\ t \notin R
          BY <1>2, <2>1, <3>2
        <4>3. IsFiniteSet(R)
          <5>1. IsFiniteSet(Seqs)
            BY SeqsAreNat, FS_Interval DEF Seqs
          <5> QED BY <5>1, FS_Subset
        <4>4. Cardinality(R \cup {t}) = Cardinality(R) + 1 /\ Cardinality(R) \in Nat
          BY <4>2, <4>3, FS_AddElement, FS_CardinalityType
        <4>5. tokens <= Cardinality(R)
          BY <1>1, <3>5 DEF TokensKept
        <4>6. tokens' <= Cardinality(R2)
          <5> HIDE DEF R, R2
          <5> QED BY <1>1, <3>1, <4>2, <4>4, <4>5
        <4> QED BY <1>1, <2>1, <3>5, <4>1, <4>6 DEF TokensKept
      <3>6. ASSUME NEW u \in Open \ LegacyAmbiguous
            PROVE  Open = {u} /\ (Recorded(u)' => tokenAt'[u] = tokens')
        <4>1. Open = {u} /\ u = t
          BY <1>1, <1>2, <3>6 DEF TokensKept
        <4> QED BY <1>1, <1>2, <3>1, <4>1
      <3> QED BY <1>3, <1>4, <3>3, <3>4, <3>5, <3>6 DEF TokensKept
    <2> QED BY <2>2, <2>3
  <1>9. Truthful
    <2>1. s \in Reserved
      BY <1>1, <1>2, OpenIsNotOver
    <2>2. rows[s] = 0
      BY <1>1, <1>2 DEF LandedOnce
    <2>3. lastAssigned' = lastAssigned /\ Reserved' = Reserved /\ lastAssigned \in Nat
      BY <1>1, <1>4, SeqsAreNat DEF Reserved, LedgerInv, TypeOK
    <2> QED BY <1>1, <1>3, <2>1, <2>2, <2>3 DEF Truthful
  <1> QED BY <1>6, <1>7, <1>8, <1>9

\* An insert that ends without effect takes nothing away.
LEMMA ExpireKeeps ==
  ASSUME StoreInv, NEW i \in inserts, Expire(i)
  PROVE  InsertsKnown' /\ LandedOnce' /\ TokensKept' /\ Truthful
  <1>1. /\ inserts' \subseteq inserts /\ UNCHANGED <<landed, tokenAt, tokens, rows>>
        /\ LedgerUnchanged /\ LedgerInv /\ InsertsKnown /\ LandedOnce /\ TokensKept
    BY DEF Expire, StoreInv
  <1>2. /\ Open' = Open /\ (\A t \in Open : BlockOf(t)' = BlockOf(t))
        /\ UNCHANGED <<state, lastAssigned, phase, group, groupState>>
    BY <1>1, UnchangedIsCalm DEF Calm, LedgerUnchanged, ledgerVars, reservationVars, groupVars
  <1>3. InsertsKnown'
    BY <1>1, <1>2 DEF InsertsKnown
  <1>4. LandedOnce'
    BY <1>1, <1>2 DEF LandedOnce, BlockOf, Members, Over, Recorded
  <1>5. TokensKept'
    BY <1>1, <1>2 DEF TokensKept, Recorded, Remembered
  <1>6. Truthful
    BY <1>1, <1>2, SeqsAreNat DEF Truthful, Reserved, LedgerInv, TypeOK
  <1> QED BY <1>3, <1>4, <1>5, <1>6

(***************************************************************************)
(* The reconciler                                                          *)
(***************************************************************************)
TableInv == InsertsKnown /\ LandedOnce /\ TokensKept /\ LegacyFirst /\ WorkerHolds

\* Between units the worker holds none.
LEMMA NothingHeld ==
  ASSUME worker'.pc \in {"asleep", "replay", "form", "prune"}
  PROVE  WorkerHolds'
  BY DEF WorkerHolds

\* A calm step of the reconciler that holds no unit afterwards and does not
\* turn to the groups.
LEMMA CalmAndIdle ==
  ASSUME StoreInv, InLedger, Calm, Recoverable' = Recoverable, UNCHANGED clickHouseVars,
         worker'.pc \in {"asleep", "replay", "prune"}
  PROVE  TableInv' /\ Truthful /\ InLedger
  BY CalmKeeps, LegacyKept, NothingHeld DEF TableInv

\* A worker that gives up goes to pruning or to sleep.
LEMMA GivesUp ==
  ASSUME WorkerGivesUp
  PROVE  worker'.pc \in {"asleep", "prune"}
  <1>1. [SleepingWorker EXCEPT !.pc = "prune", !.failed = TRUE].pc = "prune"
    BY DEF SleepingWorker
  <1>2. SleepingWorker.pc = "asleep"
    BY DEF SleepingWorker
  <1> QED BY <1>1, <1>2 DEF WorkerGivesUp, WorkerFails

\* The worker wakes, prunes and sleeps.
LEMMA WorkerTurns ==
  ASSUME StoreInv, WorkerWakes \/ TimerFires \/ WorkerPrunes
  PROVE  TableInv' /\ Truthful /\ InLedger
  <1>1. LedgerInv /\ UNCHANGED clickHouseVars /\ worker.pc \in {"asleep", "prune"}
        /\ worker \in [pc : WorkerPcs, kind : {"single", "group"}, unit : 0..MaxSequence, failed : BOOLEAN]
    BY DEF StoreInv, StoreTypeOK, WorkerWakes, TimerFires, WorkerPrunes, WorkerStep
  <1>2. worker'.pc \in {"asleep", "replay", "prune"}
    BY <1>1 DEF WorkerWakes, TimerFires, WorkerPrunes, WorkerGoto, SleepingWorker, WorkerStep
  <1>3. LedgerUnchanged \/ PruneTerminal
    BY DEF WorkerWakes, TimerFires, WorkerPrunes
  <1>4. InLedger /\ Calm /\ Recoverable' = Recoverable
    BY <1>1, <1>3, UnchangedIsCalm, PruneIsCalm DEF InLedger, LedgerStep
  <1> QED BY <1>1, <1>2, <1>4, CalmAndIdle

\* Only a row of an upgrade is replayed by itself.
LEMMA ReplayIsLegacy ==
  ASSUME StoreInv
  PROVE  /\ ReplayBeforeGroups \subseteq Reserved \cap Unaccounted
         /\ ReplayBeforeGroups = {} => Unaccounted \cap Reserved = {}
  <1>1. LedgerInv /\ LegacyFirst
    BY DEF StoreInv
  <1>2. ReplayBeforeGroups \subseteq Reserved \cap Unaccounted
    BY <1>1 DEF ReplayBeforeGroups, LegacyFirst, Ambiguous
  <1>3. ASSUME NEW s \in Unaccounted \cap Reserved
        PROVE  s \in ReplayBeforeGroups
    <2>1. s \in Reserved \cap Ungrouped
      BY <1>1, LegacySeqs DEF LegacyFirst, Ungrouped
    <2>2. ~ \E g \in Seqs : groupState[g] = "ambiguous" /\ g < s
      <3> SUFFICES ASSUME NEW g \in Seqs, groupState[g] = "ambiguous", g < s PROVE FALSE
        OBVIOUS
      <3>1. group[g] = g /\ g # 0
        BY <1>1, SeqsAreNat DEF LedgerInv, GroupsNamed
      <3>2. g \in Unaccounted
        BY LegacySeqs, SeqsAreNat DEF Seqs
      <3> QED BY <1>1, <3>1, <3>2 DEF LegacyFirst
    <2> QED BY <2>1, <2>2 DEF ReplayBeforeGroups
  <1> QED BY <1>2, <1>3

\* The worker looks for a unit to replay.
LEMMA WorkerAtReplay ==
  ASSUME StoreInv, WorkerReplays
  PROVE  TableInv' /\ Truthful /\ InLedger
  <1>1. LedgerInv /\ UNCHANGED clickHouseVars /\ worker.pc = "replay"
        /\ worker \in [pc : WorkerPcs, kind : {"single", "group"}, unit : 0..MaxSequence, failed : BOOLEAN]
    BY DEF StoreInv, StoreTypeOK, WorkerReplays, WorkerStep
  <1>2. ASSUME NEW s \in Seqs, NEW o \in {Worker, Stale}, AcquireUngroupedReplay(s, o),
               IF o = Worker THEN WorkerTakes("single", s) /\ UNCHANGED timer ELSE WorkerFails
        PROVE  TableInv' /\ Truthful /\ InLedger
    <2>1. InLedger /\ Calm /\ Recoverable' = Recoverable
      BY <1>1, <1>2, RowLeases, LeaseIsCalm, StoreCallers
    <2>2. s \in Reserved \cap Unaccounted
      BY <1>2, ReplayIsLegacy DEF AcquireUngroupedReplay, FirstUngroupedReplay
    <2>3. CASE o = Worker
      <3>1. worker' = [pc |-> "prepared", kind |-> "single", unit |-> s, failed |-> FALSE]
        BY <1>2, <2>3 DEF WorkerTakes
      <3>2. WorkerHolds'
        BY <2>1, <2>2, <3>1 DEF WorkerHolds, Calm
      <3> QED BY <1>1, <2>1, <3>1, <3>2, CalmKeeps, LegacyKept DEF TableInv
    <2>4. CASE o # Worker
      <3>1. worker'.pc = "asleep"
        BY <1>2, <2>4 DEF WorkerFails, SleepingWorker
      <3> QED BY <1>1, <2>1, <3>1, CalmAndIdle
    <2> QED BY <2>3, <2>4
  <1>3. CASE ReplayBeforeGroups = {} /\ WorkerGoto("form") /\ LedgerUnchanged
    <2>1. InLedger /\ Calm /\ Recoverable' = Recoverable
      BY <1>1, <1>3, UnchangedIsCalm
    <2>2. worker'.pc = "form"
      BY <1>1, <1>3 DEF WorkerGoto
    <2>3. LegacyFirst'
      <3>1. Unaccounted \cap Reserved = {}
        BY <1>3, ReplayIsLegacy
      <3>2. LegacyFirst /\ UNCHANGED <<lastAssigned, state, phase, group>>
        BY <1>3 DEF StoreInv, LedgerUnchanged, ledgerVars, reservationVars, groupVars
      <3> QED BY <2>1, <3>1, <3>2 DEF LegacyFirst, Ambiguous, Ungrouped, Reserved
    <2> QED BY <1>1, <2>1, <2>2, <2>3, CalmKeeps, NothingHeld DEF TableInv
  <1>4. CASE WorkerFails /\ LedgerUnchanged
    <2>1. worker'.pc = "asleep"
      BY <1>4 DEF WorkerFails, SleepingWorker
    <2> QED BY <1>1, <1>4, <2>1, UnchangedIsCalm, CalmAndIdle
  <1> QED BY <1>2, <1>3, <1>4 DEF WorkerReplays

\* The worker forms a group, or finds nothing to send.
LEMMA WorkerAtForm ==
  ASSUME StoreInv, WorkerForms
  PROVE  TableInv' /\ Truthful /\ InLedger
  <1>1. LedgerInv /\ UNCHANGED clickHouseVars /\ worker.pc = "form"
        /\ worker \in [pc : WorkerPcs, kind : {"single", "group"}, unit : 0..MaxSequence, failed : BOOLEAN]
        /\ lingered \in Nat
    BY SeqsAreNat DEF StoreInv, StoreTypeOK, WorkerForms, WorkerStep
  <1>2. ASSUME NEW g \in Seqs, NEW o \in {Worker, Stale}, InLedger, Calm, g \in Recoverable',
               IF o = Worker THEN WorkerTakes("group", g) /\ UNCHANGED timer ELSE WorkerFails
        PROVE  TableInv' /\ Truthful /\ InLedger
    <2>1. InsertsKnown' /\ LandedOnce' /\ TokensKept' /\ Truthful /\ LegacyFirst'
      BY <1>1, <1>2, CalmKeeps, LegacyKept
    <2>2. CASE o = Worker
      <3>1. worker' = [pc |-> "prepared", kind |-> "group", unit |-> g, failed |-> FALSE]
        BY <1>2, <2>2 DEF WorkerTakes
      <3>2. WorkerHolds'
        BY <1>2, <3>1 DEF WorkerHolds
      <3> QED BY <1>2, <2>1, <3>2 DEF TableInv
    <2>3. CASE o # Worker
      <3>1. worker'.pc = "asleep"
        BY <1>2, <2>3 DEF WorkerFails, SleepingWorker
      <3> QED BY <1>2, <2>1, <3>1, NothingHeld DEF TableInv
    <2> QED BY <2>2, <2>3
  <1>3. ASSUME NEW g \in Seqs, NEW o \in {Worker, Stale}, AcquireExistingWriteGroup(g, o)
        PROVE  InLedger /\ Calm /\ g \in Recoverable'
    <2>1. InLedger /\ Calm /\ Recoverable' = Recoverable
      BY <1>1, <1>3, GroupLeases, LeaseIsCalm, StoreCallers
    <2> QED BY <1>3, <2>1 DEF AcquireExistingWriteGroup, FirstRecoverable
  <1>4. ASSUME NEW g \in Seqs, NEW o \in {Worker, Stale}, NEW P \in SUBSET Seqs,
               FormWriteGroup(P, g, o, g <= lingered)
        PROVE  InLedger /\ Calm /\ g \in Recoverable'
    <2>1. (g <= lingered) \in BOOLEAN /\ o \in Owners
      BY StoreCallers
    <2>2. Calm /\ g \in Recoverable'
      BY <1>1, <1>4, <2>1, FormIsCalm
    <2> QED BY <1>4, <2>1, <2>2 DEF InLedger, LedgerStep
  <1>5. ASSUME NEW P \in SUBSET Seqs, NEW g \in Seqs, DeferWriteGroup(P, g <= lingered),
               WorkerGoto("prune")
        PROVE  TableInv' /\ Truthful /\ InLedger
    <2>1. worker'.pc = "prune" /\ (g <= lingered) \in BOOLEAN
      BY <1>1, <1>5 DEF WorkerGoto
    <2> QED BY <1>1, <1>5, <2>1, DeferLease, LeaseIsCalm, CalmAndIdle
  <1>6. CASE LedgerUnchanged /\ (WorkerGoto("prune") \/ WorkerFails)
    <2>1. worker'.pc \in {"prune", "asleep"}
      BY <1>1, <1>6 DEF WorkerGoto, WorkerFails, SleepingWorker
    <2> QED BY <1>1, <1>6, <2>1, UnchangedIsCalm, CalmAndIdle
  <1> QED BY <1>2, <1>3, <1>4, <1>5, <1>6 DEF WorkerForms

\* Giving a unit back is calm.
LEMMA ReleaseUnitIsCalm ==
  ASSUME StoreInv, NEW o \in {Nobody, Stale}, ReleaseUnit(o)
  PROVE  InLedger /\ Calm /\ Recoverable' = Recoverable
  <1>1. LedgerInv /\ Worker \in Callers /\ o \in Owners
    BY StoreCallers DEF StoreInv
  <1>2. CASE Release(worker.unit, Worker, o)
    BY <1>1, <1>2, ReleaseIsCalm
  <1>3. CASE ReleaseWriteGroup(worker.unit, Worker, o)
    <2>1. worker.unit \in Seqs
      BY <1>3 DEF ReleaseWriteGroup, Recoverable
    <2> QED BY <1>1, <1>3, <2>1, GroupLeases, LeaseIsCalm
  <1> QED BY <1>2, <1>3 DEF ReleaseUnit

\* The worker marks its unit as sending.
LEMMA WorkerMarksUnit ==
  ASSUME StoreInv, WorkerMarks
  PROVE  TableInv' /\ Truthful /\ InLedger
  <1>1. LedgerInv /\ UNCHANGED clickHouseVars /\ worker.pc = "prepared" /\ WorkerHolds
        /\ worker \in [pc : WorkerPcs, kind : {"single", "group"}, unit : 0..MaxSequence, failed : BOOLEAN]
    BY DEF StoreInv, StoreTypeOK, WorkerMarks, WorkerStep
  <1>2. worker'.pc \in {"marked", "failed"} /\ worker'.kind = worker.kind /\ worker'.unit = worker.unit
    BY <1>1 DEF WorkerMarks, WorkerGoto
  <1>3. CASE MarkUnit
    <2>1. Opens(worker.unit) /\ InLedger
      <3>1. CASE worker.kind = "group"
        <4>1. worker.unit \in Seqs /\ MarkWriteGroupSending(worker.unit, Worker)
          BY <1>1, <1>3, <3>1 DEF WorkerHolds, MarkUnit, Recoverable
        <4> QED BY <4>1, GroupOpens
      <3>2. CASE worker.kind # "group"
        <4>1. worker.unit \in Unaccounted /\ MarkSending(worker.unit, Worker)
          BY <1>1, <1>3, <3>2 DEF WorkerHolds, MarkUnit
        <4> QED BY <4>1, SingleOpens
      <3> QED BY <3>1, <3>2
    <2>2. WorkerHolds'
      BY <1>1, <1>2, <2>1 DEF WorkerHolds, Opens, Reserved
    <2> QED BY <1>1, <1>2, <2>1, <2>2, OpensKeeps DEF TableInv
  <1>4. CASE LedgerUnchanged /\ WorkerGoto("failed")
    <2>1. InLedger /\ Calm /\ Recoverable' = Recoverable /\ worker'.pc = "failed"
      BY <1>1, <1>4, UnchangedIsCalm DEF WorkerGoto
    <2>2. WorkerHolds'
      BY <1>1, <1>2, <2>1 DEF WorkerHolds, Calm
    <2> QED BY <1>1, <2>1, <2>2, CalmKeeps, LegacyKept DEF TableInv
  <1> QED BY <1>3, <1>4 DEF WorkerMarks

\* The worker sends its unit and hears of the outcome.
LEMMA WorkerSendsUnit ==
  ASSUME StoreInv, LegacyFits, WorkerSends \/ SendReturns
  PROVE  TableInv' /\ Truthful /\ InLedger
  <1>1. LedgerInv /\ LedgerUnchanged /\ UNCHANGED landed /\ worker.pc \in {"marked", "sent"} /\ WorkerHolds
        /\ worker \in [pc : WorkerPcs, kind : {"single", "group"}, unit : 0..MaxSequence, failed : BOOLEAN]
    BY DEF StoreInv, StoreTypeOK, WorkerSends, SendReturns, WorkerStep, clickHouseVars
  <1>2. worker'.pc \in {"sent", "acknowledged", "failed"} /\ worker'.kind = worker.kind /\ worker'.unit = worker.unit
    BY <1>1 DEF WorkerSends, SendReturns, WorkerGoto
  <1>3. InLedger /\ Calm /\ Recoverable' = Recoverable
    BY <1>1, UnchangedIsCalm
  <1>4. InsertsKnown' /\ LandedOnce' /\ TokensKept' /\ Truthful
    <2>1. CASE WorkerSends
      BY <2>1, SendKeeps
    <2>2. CASE SendReturns
      BY <1>3, <2>2, CalmKeeps DEF SendReturns
    <2> QED BY <2>1, <2>2
  <1>5. WorkerHolds'
    <2>1. worker'.pc = "acknowledged" => Block \subseteq landed[worker.unit]
      BY <1>1 DEF WorkerSends, SendReturns, WorkerGoto
    <2>2. Block' = Block
      BY <1>1, <1>2 DEF Block, Members, LedgerUnchanged, ledgerVars, groupVars
    <2> QED BY <1>1, <1>2, <1>3, <2>1, <2>2 DEF WorkerHolds, Calm
  <1> QED BY <1>1, <1>2, <1>3, <1>4, <1>5, LegacyKept DEF TableInv

\* The worker commits its unit or gives it back.
LEMMA WorkerEndsUnit ==
  ASSUME StoreInv, WorkerCommits \/ WorkerReleases
  PROVE  TableInv' /\ Truthful /\ InLedger
  <1>1. LedgerInv /\ UNCHANGED clickHouseVars /\ worker.pc \in {"acknowledged", "failed"} /\ WorkerHolds
        /\ LegacyFirst
    BY DEF StoreInv, WorkerCommits, WorkerReleases, WorkerStep
  <1>2. worker'.pc \in {"asleep", "replay", "prune"}
    <2>1. [SleepingWorker EXCEPT !.pc = "replay"].pc = "replay"
      BY DEF SleepingWorker
    <2> QED BY <2>1, GivesUp DEF WorkerCommits, WorkerReleases
  <1>3. CASE worker.pc = "acknowledged" /\ CommitUnit
    <2>1. Closes(worker.unit) /\ InLedger
      BY <1>3, UnitCloses
    <2>2. worker.unit \in Open /\ BlockOf(worker.unit) \subseteq landed[worker.unit]
      BY <1>1, <1>3, UnitBlock DEF WorkerHolds
    <2> QED BY <1>1, <1>2, <2>1, <2>2, ClosesKeeps, NothingHeld DEF TableInv
  <1>4. CASE \E o \in {Nobody, Stale} : ReleaseUnit(o)
    BY <1>1, <1>2, <1>4, ReleaseUnitIsCalm, CalmAndIdle
  <1>5. (worker.pc = "acknowledged" /\ CommitUnit) \/ \E o \in {Nobody, Stale} : ReleaseUnit(o)
    BY DEF WorkerCommits, WorkerReleases, WorkerStep
  <1> QED BY <1>3, <1>4, <1>5

(***************************************************************************)
(* Every step                                                              *)
(***************************************************************************)
LEMMA CrashIsCalm ==
  ASSUME StoreInv, Crash
  PROVE  TableInv' /\ Truthful /\ InLedger
  <1>1. LeaseStep /\ UNCHANGED clickHouseVars
    BY ReopenLease DEF Crash, StoreInv
  <1>2. InLedger /\ Calm /\ Recoverable' = Recoverable
    BY <1>1, LeaseIsCalm DEF StoreInv
  <1>3. worker'.pc = "asleep"
    BY DEF Crash, SleepingWorker
  <1> QED BY <1>1, <1>2, <1>3, CalmAndIdle

\* ClickHouse's steps and the clock.
LEMMA EnvironmentStep ==
  ASSUME StoreInv, \/ \E i \in inserts : Expire(i) \/ \E s \in i.rows : Apply(i, s)
                   \/ Linger
  PROVE  TableInv' /\ Truthful /\ InLedger
  <1>1. LedgerUnchanged /\ UNCHANGED worker /\ LedgerInv
        /\ \A t \in Seqs : landed[t] \subseteq landed'[t]
    <2>1. LedgerUnchanged /\ UNCHANGED worker /\ LedgerInv
      BY DEF Expire, Apply, Linger, StoreInv, processVars
    <2>2. CASE Linger
      BY <2>1, <2>2 DEF Linger, clickHouseVars
    <2>3. ASSUME NEW i \in inserts, Expire(i)
          PROVE  UNCHANGED landed
      BY <2>3 DEF Expire
    <2>4. ASSUME NEW i \in inserts, NEW s \in i.rows, Apply(i, s)
          PROVE  \A t \in Seqs : landed[t] \subseteq landed'[t]
      BY <2>4, ApplyIsNew DEF StoreInv, StoreTypeOK
    <2> QED BY <2>1, <2>2, <2>3, <2>4
  <1>2. InLedger /\ Calm /\ Recoverable' = Recoverable
    BY <1>1, UnchangedIsCalm
  <1>3. InsertsKnown' /\ LandedOnce' /\ TokensKept' /\ Truthful
    <2>1. CASE Linger
      BY <1>2, <2>1, CalmKeeps DEF Linger
    <2> QED BY <2>1, ApplyKeeps, ExpireKeeps
  <1>4. WorkerHolds'
    <2>1. Block' = Block
      BY <1>1 DEF Block, Members, LedgerUnchanged, ledgerVars, groupVars
    <2>2. WorkerHolds /\ (worker.pc \in {"marked", "sent", "acknowledged"} => worker.unit \in Seqs)
      BY OpenBlocks DEF StoreInv, WorkerHolds
    <2> QED BY <1>1, <1>2, <2>1, <2>2 DEF WorkerHolds, Calm
  <1> QED BY <1>1, <1>2, <1>3, <1>4, LegacyKept DEF TableInv

\* Every step keeps what is known of the tables, is truthful, and is the ledger's.
LEMMA TableStep ==
  ASSUME StoreInv, LegacyFits, [Next]_vars
  PROVE  TableInv' /\ Truthful /\ InLedger
  <1>1. ASSUME NEW r \in Requests, Arrive(r) \/ RequestNext(r) \/ CancelWait(r)
        PROVE  TableInv' /\ Truthful /\ InLedger
    <2>1. /\ InLedger /\ Calm /\ Recoverable' = Recoverable
          /\ UNCHANGED <<worker, landed>> /\ UNCHANGED clickHouseVars
      BY <1>1, RequestIsCalm DEF clickHouseVars
    <2> QED BY <2>1, CalmKeeps, LegacyKept, HoldsKept DEF TableInv
  <1>2. CASE WorkerNext
    BY <1>2, WorkerTurns, WorkerAtReplay, WorkerAtForm, WorkerMarksUnit, WorkerSendsUnit,
       WorkerEndsUnit DEF WorkerNext
  <1>3. CASE UNCHANGED vars
    <2>1. LedgerUnchanged /\ UNCHANGED <<worker, landed>> /\ UNCHANGED clickHouseVars /\ LedgerInv
      BY <1>3 DEF vars, LedgerUnchanged, processVars, clickHouseVars, StoreInv
    <2>2. InLedger /\ Calm /\ Recoverable' = Recoverable
      BY <2>1, UnchangedIsCalm
    <2> QED BY <2>1, <2>2, CalmKeeps, LegacyKept, HoldsKept DEF TableInv
  <1> QED BY <1>1, <1>2, <1>3, CrashIsCalm, EnvironmentStep DEF Next

\* The ledger's invariant holds through every step of the store.
LEMMA LedgerKept ==
  ASSUME LedgerInv, InLedger
  PROVE  LedgerInv'
  <1>1. CASE LedgerStep
    BY <1>1, TypeStep, CutoffStep, RowsStep, IdentityStep, GroupStep DEF LedgerInv
  <1>2. CASE UNCHANGED ledgerVars
    BY <1>2 DEF LedgerInv, TypeOK, NothingAhead, GroupsNamed, RowsHaveBatch, CutoffExact,
       GroupAllOrNone, OneUnresolvedGroup, OneOutcomePerIdentity, ledgerVars, reservationVars,
       groupVars, Recoverable, Reserved, Unsent, Ambiguous, Active
  <1> QED BY <1>1, <1>2 DEF InLedger

(***************************************************************************)
(* Calls and answers                                                       *)
(***************************************************************************)
CallType == [pc : Pcs, mode : AllModes, batch : Batches \cup {NoBatch}, seq : 0..MaxSequence]

\* The calls and what they were told.
CallsInv ==
    /\ request \in [Requests -> CallType] /\ CallsHaveBatch
    /\ answers \in [Seqs -> Outcomes] /\ AnswersHold

\* The outcome o of sequence s is true of the table.
AnswerTrue(s, o) ==
    CASE o = "committed" -> rows[s] = 1
      [] o = "rejected" -> rows[s] = 0 /\ s \notin Reserved
      [] o = "staged" -> s \in Reserved \/ rows[s] = 1
      [] OTHER -> TRUE

\* The property, answer by answer.
LEMMA AnswersTrue == AnswersAreTrue <=> \A s \in Seqs : AnswerTrue(s, answers[s])
  BY DEF AnswersAreTrue, AnswerTrue

\* What was true stays so.
LEMMA StaysTrue ==
  ASSUME Truthful, NEW s \in Seqs, s <= lastAssigned, NEW o, AnswerTrue(s, o)
  PROVE  AnswerTrue(s, o)'
  BY DEF Truthful, AnswerTrue

\* Answers that were given stay true.
LEMMA AnswersStay ==
  ASSUME StoreInv, Truthful, UNCHANGED answers, lastAssigned' \in Nat
  PROVE  answers' \in [Seqs -> Outcomes] /\ AnswersHold'
  <1>1. /\ answers \in [Seqs -> Outcomes] /\ \A s \in Seqs : AnswerTrue(s, answers[s])
        /\ \A s \in Seqs : answers[s] # "none" => s <= lastAssigned
        /\ lastAssigned \in Nat
    BY AnswersTrue, SeqsAreNat DEF StoreInv, StoreTypeOK, AnswersHold, LedgerInv, TypeOK
  <1>2. \A s \in Seqs : AnswerTrue(s, answers[s])'
    <2> SUFFICES ASSUME NEW s \in Seqs PROVE AnswerTrue(s, answers[s])'
      OBVIOUS
    <2>1. CASE answers[s] = "none"
      BY <2>1 DEF AnswerTrue
    <2>2. CASE answers[s] # "none"
      BY <1>1, <2>2, StaysTrue
    <2> QED BY <2>1, <2>2
  <1>3. AnswersAreTrue'
    BY <1>2 DEF AnswersAreTrue, AnswerTrue
  <1> QED BY <1>1, <1>3, SeqsAreNat DEF AnswersHold, Truthful

\* An answer that is true when it is given keeps the answers true.
LEMMA AnswersTold ==
  ASSUME StoreInv, Truthful, lastAssigned' \in Nat, NEW s \in Seqs, NEW o \in Outcomes,
         answers' = [answers EXCEPT ![s] = o], s <= lastAssigned', AnswerTrue(s, o)'
  PROVE  answers' \in [Seqs -> Outcomes] /\ AnswersHold'
  <1>1. /\ answers \in [Seqs -> Outcomes] /\ \A t \in Seqs : AnswerTrue(t, answers[t])
        /\ \A t \in Seqs : answers[t] # "none" => t <= lastAssigned
        /\ lastAssigned \in Nat
    BY AnswersTrue, SeqsAreNat DEF StoreInv, StoreTypeOK, AnswersHold, LedgerInv, TypeOK
  <1>2. ASSUME NEW t \in Seqs
        PROVE  \E a : a = answers'[t] /\ AnswerTrue(t, a)'
    <2>1. CASE t = s
      BY <1>1, <2>1
    <2>2. CASE answers[t] = "none" /\ t # s
      <3>1. answers'[t] = "none" /\ AnswerTrue(t, "none")'
        BY <1>1, <2>2 DEF AnswerTrue
      <3> QED BY <3>1
    <2>3. CASE answers[t] # "none" /\ t # s
      <3>1. PICK a : a = answers[t]
        OBVIOUS
      <3>2. AnswerTrue(t, a)'
        BY <1>1, <2>3, <3>1, StaysTrue
      <3>3. answers'[t] = a
        BY <1>1, <2>3, <3>1
      <3> QED BY <3>2, <3>3
    <2> QED BY <2>1, <2>2, <2>3
  <1>3. AnswersAreTrue'
    BY <1>2 DEF AnswersAreTrue, AnswerTrue
  <1>4. \A t \in Seqs : answers'[t] # "none" => t <= lastAssigned'
    BY <1>1, SeqsAreNat DEF Truthful
  <1> QED BY <1>1, <1>3, <1>4 DEF AnswersHold

\* The outcome a lookup finds.
LEMMA FoundOutcome ==
  ASSUME StoreInv, NEW r \in Requests, NEW s \in Found(r)
  PROVE  /\ s \in Seqs /\ s <= lastAssigned
         /\ state[s] # "reserved" => state[s] \in Outcomes /\ AnswerTrue(s, state[s])
         /\ state[s] = "reserved" => AnswerTrue(s, "staged")
  <1>1. /\ s \in Seqs /\ state[s] \in {"reserved", "committed", "rejected"}
        /\ LedgerInv /\ LandedOnce /\ lastAssigned \in Nat
    BY SeqsAreNat DEF Found, Active, StoreInv, LedgerInv, TypeOK
  <1>2. s <= lastAssigned
    <2>1. ~ (s > lastAssigned)
      BY <1>1 DEF LedgerInv, NothingAhead
    <2> QED BY <1>1, <2>1, SeqsAreNat
  <1>3. state[s] = "rejected" => rows[s] = 0
    <2> SUFFICES ASSUME state[s] = "rejected", NEW t \in Seqs, s \in landed[t] PROVE FALSE
      BY <1>1 DEF LandedOnce
    <2>1. ~ Over(s) /\ s \notin Reserved
      BY DEF Over, Reserved
    <2> QED BY <1>1, <2>1, OpenIsNotOver DEF LandedOnce
  <1>4. state[s] = "committed" => rows[s] = 1
    BY <1>1 DEF LandedOnce
  <1> QED BY <1>1, <1>2, <1>3, <1>4 DEF AnswerTrue, Outcomes, Reserved

\* A change of one call keeps the calls.
LEMMA CallReplaced ==
  ASSUME request \in [Requests -> CallType], CallsHaveBatch, NEW r \in Requests,
         NEW new \in CallType, request' = [request EXCEPT ![r] = new],
         new.pc # "idle" => new.batch \in Batches
  PROVE  request' \in [Requests -> CallType] /\ CallsHaveBatch'
  <1>1. request' \in [Requests -> CallType]
    OBVIOUS
  <1>2. \A q \in Requests : request'[q] = IF q = r THEN new ELSE request[q]
    OBVIOUS
  <1> QED BY <1>1, <1>2 DEF CallsHaveBatch

\* The ways in which a call moves.
CallMove(r) ==
    \/ Finish(r)
    \/ request[r].pc # "idle" /\ \E pc \in Pcs : Goto(r, pc)
    \/ request[r].pc # "idle" /\ \E s \in Seqs : WaitFor(r, s)
    \/ \E b \in Batches, mode \in Modes, pc \in Pcs :
          request' = [request EXCEPT ![r] = [pc |-> pc, mode |-> mode, batch |-> b, seq |-> 0]]
    \/ request[r].pc # "idle"
          /\ \E s \in Seqs : request' = [request EXCEPT ![r].pc = "holding", ![r].seq = s]

\* Every move of a call keeps the calls.
LEMMA CallMoves ==
  ASSUME StoreInv, NEW r \in Requests, CallMove(r)
  PROVE  request' \in [Requests -> CallType] /\ CallsHaveBatch'
  <1>1. /\ request \in [Requests -> CallType] /\ CallsHaveBatch
        /\ Seqs \subseteq 0..MaxSequence /\ Modes \subseteq AllModes /\ IdleRequest \in CallType
        /\ "holding" \in Pcs /\ "waiting" \in Pcs /\ 0 \in 0..MaxSequence
    BY StoreAssumption, SeqsAreNat
       DEF StoreInv, StoreTypeOK, CallType, Seqs, IdleRequest, Pcs, AllModes
  <1>2. PICK new \in CallType :
               /\ request' = [request EXCEPT ![r] = new]
               /\ new.pc # "idle" => new.batch \in Batches
    <2>1. CASE Finish(r)
      BY <1>1, <2>1 DEF Finish, IdleRequest
    <2> DEFINE old == request[r]
    <2>0. old \in CallType /\ (old.pc # "idle" => old.batch \in Batches)
      BY <1>1 DEF CallsHaveBatch
    <2>2. CASE request[r].pc # "idle" /\ \E pc \in Pcs : Goto(r, pc)
      <3>1. PICK pc \in Pcs : request' = [request EXCEPT ![r] = [old EXCEPT !.pc = pc]]
        BY <2>2 DEF Goto
      <3>2. [old EXCEPT !.pc = pc] \in CallType /\ [old EXCEPT !.pc = pc].batch \in Batches
        BY <2>0, <2>2 DEF CallType
      <3> QED BY <3>1, <3>2
    <2>3. CASE request[r].pc # "idle" /\ \E s \in Seqs : WaitFor(r, s)
      <3>1. PICK s \in Seqs : request' = [request EXCEPT ![r] = [old EXCEPT !.pc = "waiting", !.seq = s]]
        BY <1>1, <2>3 DEF WaitFor, CallType
      <3> DEFINE new == [old EXCEPT !.pc = "waiting", !.seq = s]
      <3>2. new \in CallType /\ new.batch \in Batches
        BY <1>1, <2>0, <2>3 DEF CallType
      <3> QED BY <3>1, <3>2
    <2>4. CASE \E b \in Batches, mode \in Modes, pc \in Pcs :
               request' = [request EXCEPT ![r] = [pc |-> pc, mode |-> mode, batch |-> b, seq |-> 0]]
      <3>1. PICK b \in Batches, mode \in Modes, pc \in Pcs :
               request' = [request EXCEPT ![r] = [pc |-> pc, mode |-> mode, batch |-> b, seq |-> 0]]
        BY <2>4
      <3> DEFINE new == [pc |-> pc, mode |-> mode, batch |-> b, seq |-> 0]
      <3>2. new \in CallType /\ new.batch \in Batches
        BY <1>1 DEF CallType
      <3> QED BY <3>1, <3>2
    <2>5. CASE request[r].pc # "idle"
               /\ \E s \in Seqs : request' = [request EXCEPT ![r].pc = "holding", ![r].seq = s]
      <3>1. PICK s \in Seqs : request' = [request EXCEPT ![r] = [old EXCEPT !.pc = "holding", !.seq = s]]
        BY <1>1, <2>5 DEF CallType
      <3> DEFINE new == [old EXCEPT !.pc = "holding", !.seq = s]
      <3>2. new \in CallType /\ new.batch \in Batches
        BY <1>1, <2>0, <2>5 DEF CallType
      <3> QED BY <3>1, <3>2
    <2> QED BY <2>1, <2>2, <2>3, <2>4, <2>5 DEF CallMove
  <1>3. request \in [Requests -> CallType] /\ CallsHaveBatch
    BY <1>1
  <1> QED BY <1>2, <1>3, CallReplaced

\* Told what a lookup found.
LEMMA TellFound ==
  ASSUME StoreInv, Truthful, lastAssigned' \in Nat, NEW r \in Requests, NEW s \in Found(r),
         NEW o, Tell(r, s, o),
         (state[s] # "reserved" /\ o = state[s]) \/ (state[s] = "reserved" /\ o = "staged")
  PROVE  CallsInv'
  <1>1. /\ s \in Seqs /\ s <= lastAssigned /\ o \in Outcomes /\ AnswerTrue(s, o)
        /\ lastAssigned \in Nat
    BY FoundOutcome, SeqsAreNat DEF Outcomes, StoreInv, LedgerInv, TypeOK
  <1>2. AnswerTrue(s, o)' /\ s <= lastAssigned'
    BY <1>1, StaysTrue, SeqsAreNat DEF Truthful
  <1>3. answers' \in [Seqs -> Outcomes] /\ AnswersHold'
    BY <1>1, <1>2, AnswersTold DEF Tell
  <1>4. request' \in [Requests -> CallType] /\ CallsHaveBatch'
    BY CallMoves DEF Tell, CallMove
  <1> QED BY <1>3, <1>4 DEF CallsInv

\* A call that moves on without an answer.
LEMMA MovesUntold ==
  ASSUME StoreInv, Truthful, lastAssigned' \in Nat, NEW r \in Requests,
         CallMove(r), UNCHANGED answers
  PROVE  CallsInv'
  BY CallMoves, AnswersStay DEF CallsInv

\* A call that finds its batch answers what the row says, or waits.
LEMMA ObserveKeeps ==
  ASSUME StoreInv, Truthful, lastAssigned' \in Nat, NEW r \in Requests, NEW s \in Found(r),
         request[r].pc # "idle", Observe(r, s)
  PROVE  CallsInv'
  <1>1. CASE state[s] # "reserved" /\ Tell(r, s, state[s])
    BY <1>1, TellFound
  <1>2. CASE state[s] = "reserved" /\ Tell(r, s, "staged")
    BY <1>2, TellFound
  <1>3. CASE WaitFor(r, s) /\ UNCHANGED answers
    <2>1. CallMove(r)
      BY <1>3, FoundOutcome DEF CallMove
    <2> QED BY <1>3, <2>1, MovesUntold
  <1> QED BY <1>1, <1>2, <1>3 DEF Observe

\* Every step of a call keeps the calls and their answers.
LEMMA RequestCalls ==
  ASSUME StoreInv, Truthful, lastAssigned' \in Nat, NEW r \in Requests,
         Arrive(r) \/ RequestNext(r) \/ CancelWait(r)
  PROVE  CallsInv'
  <1>0. \A pc \in {"lookup", "reserve", "recheck", "holding", "waiting", "reject"} : pc \in Pcs
    BY DEF Pcs
  <1>1. CASE Arrive(r)
    <2>1. PICK b \in Batches, mode \in Modes :
            request' = [request EXCEPT ![r] =
                          [pc |-> IF mode = "reject" THEN "reject" ELSE "lookup",
                           mode |-> mode, batch |-> b, seq |-> 0]]
      BY <1>1 DEF Arrive
    <2>2. \E pc \in Pcs : request' = [request EXCEPT ![r] = [pc |-> pc, mode |-> mode, batch |-> b, seq |-> 0]]
      BY <1>0, <2>1
    <2>3. CallMove(r)
      BY <2>2 DEF CallMove
    <2> QED BY <1>1, <2>3, MovesUntold DEF Arrive
  <1>2. CASE CancelWait(r) \/ WaiterRefused(r) \/ ReserveRefused(r)
    <2>1. Finish(r) /\ UNCHANGED answers
      BY <1>2 DEF CancelWait, WaiterRefused, ReserveRefused
    <2> QED BY <2>1, MovesUntold DEF CallMove
  <1>3. CASE LookupBatch(r)
    <2>1. request[r].pc # "idle"
      BY <1>3 DEF LookupBatch, RequestStep
    <2>2. CASE \E s \in Found(r) : Observe(r, s)
      BY <2>1, <2>2, ObserveKeeps
    <2>3. CASE (Goto(r, "reserve") \/ Finish(r)) /\ UNCHANGED answers
      <3>1. CallMove(r)
        BY <1>0, <2>1, <2>3 DEF CallMove
      <3> QED BY <2>3, <3>1, MovesUntold
    <2> QED BY <1>3, <2>2, <2>3 DEF LookupBatch
  <1>4. CASE RecheckBatch(r)
    <2>1. request[r].pc # "idle"
      BY <1>4 DEF RecheckBatch, RequestStep
    <2>2. CASE \E s \in Found(r) : Observe(r, s)
      BY <2>1, <2>2, ObserveKeeps
    <2>3. CASE Finish(r) /\ UNCHANGED answers
      BY <2>3, MovesUntold DEF CallMove
    <2> QED BY <1>4, <2>2, <2>3 DEF RecheckBatch
  <1>5. CASE ReserveInProgress(r)
    <2>1. request[r].pc # "idle" /\ UNCHANGED answers /\ (Finish(r) \/ Goto(r, "recheck"))
      BY <1>5 DEF ReserveInProgress, RequestStep
    <2>2. CallMove(r)
      BY <1>0, <2>1 DEF CallMove
    <2> QED BY <2>1, <2>2, MovesUntold
  <1>6. CASE AwaitOutcome(r)
    <2>1. CASE \E s \in Found(r) : state[s] # "reserved" /\ Tell(r, s, state[s])
      BY <2>1, TellFound
    <2>2. CASE Finish(r) /\ UNCHANGED answers
      BY <2>2, MovesUntold DEF CallMove
    <2> QED BY <1>6, <2>1, <2>2 DEF AwaitOutcome
  <1>7. CASE ReserveBatch(r)
    <2>1. request[r].pc # "idle" /\ LedgerInv /\ request[r].batch \in Batches
      BY <1>7 DEF ReserveBatch, RequestStep, StoreInv, CallsHaveBatch
    <2>2. CASE \E s \in Found(r) : state[s] # "reserved" /\ Tell(r, s, state[s])
      BY <2>2, TellFound
    <2>3. CASE UNCHANGED answers /\ Finish(r)
      BY <2>3, MovesUntold DEF CallMove
    <2>4. ASSUME ReserveFresh(request[r].batch, r) \/ ReserveExisting(request[r].batch, r),
                 request' = [request EXCEPT ![r].pc = "holding",
                               ![r].seq = CHOOSE s \in Seqs : owner'[s] = r],
                 UNCHANGED answers
          PROVE  CallsInv'
      <3>1. \E s \in Seqs : owner'[s] = r
        <4>1. owner \in [Seqs -> Owners]
          BY <2>1 DEF LedgerInv, TypeOK
        <4>2. CASE ReserveFresh(request[r].batch, r)
          <5>1. owner' = [owner EXCEPT ![lastAssigned + 1] = r] /\ lastAssigned + 1 <= MaxSequence
            BY <4>2 DEF ReserveFresh, AllocateSequence
          <5>2. lastAssigned + 1 \in Seqs
            BY <2>1, <5>1, SeqsAreNat DEF LedgerInv, TypeOK, Seqs
          <5> QED BY <4>1, <5>1, <5>2
        <4>3. CASE ReserveExisting(request[r].batch, r)
          <5>1. PICK s \in Seqs : owner' = [owner EXCEPT ![s] = r]
            BY <4>3 DEF ReserveExisting, Reserved
          <5> QED BY <4>1, <5>1
        <4> QED BY <2>4, <4>2, <4>3
      <3>2. PICK s \in Seqs : s = CHOOSE t \in Seqs : owner'[t] = r
        BY <3>1
      <3>3. request' = [request EXCEPT ![r].pc = "holding", ![r].seq = s]
        BY <2>4, <3>2
      <3>4. CallMove(r)
        BY <2>1, <3>3 DEF CallMove
      <3> QED BY <2>4, <3>4, MovesUntold
    <2>5. \/ \E s \in Found(r) : state[s] # "reserved" /\ Tell(r, s, state[s])
          \/ UNCHANGED answers /\ Finish(r)
          \/ /\ ReserveFresh(request[r].batch, r) \/ ReserveExisting(request[r].batch, r)
             /\ request' = [request EXCEPT ![r].pc = "holding",
                               ![r].seq = CHOOSE s \in Seqs : owner'[s] = r]
             /\ UNCHANGED answers
      BY <1>7 DEF ReserveBatch
    <2> QED BY <2>2, <2>3, <2>4, <2>5
  <1>8. CASE ReleaseAttempt(r)
    <2> DEFINE s == request[r].seq
    <2>1. request[r].pc # "idle" /\ s \in Reserved /\ s \in Seqs
      BY <1>8 DEF ReleaseAttempt, RequestStep, Release, Reserved
    <2>2. CASE Tell(r, s, "staged")
      <3>1. PICK t \in Seqs : t = s
        BY <2>1
      <3>2. answers' = [answers EXCEPT ![t] = "staged"] /\ Finish(r)
        BY <2>2, <3>1 DEF Tell
      <3>3. t <= lastAssigned /\ lastAssigned \in Nat
        <4>1. ~ (t > lastAssigned) /\ lastAssigned \in Nat
          BY <2>1, <3>1, SeqsAreNat DEF StoreInv, LedgerInv, NothingAhead, TypeOK, Reserved
        <4> QED BY <4>1, SeqsAreNat
      <3>4. AnswerTrue(t, "staged") /\ "staged" \in Outcomes
        BY <2>1, <3>1 DEF AnswerTrue, Outcomes
      <3>5. AnswerTrue(t, "staged")' /\ t <= lastAssigned'
        BY <3>3, <3>4, StaysTrue, SeqsAreNat DEF Truthful
      <3>6. answers' \in [Seqs -> Outcomes] /\ AnswersHold'
        BY <3>2, <3>4, <3>5, AnswersTold
      <3> QED BY <3>2, <3>6, CallMoves DEF CallsInv, CallMove
    <2>3. CASE UNCHANGED answers /\ (WaitFor(r, s) \/ Finish(r))
      <3>1. CallMove(r)
        BY <2>1, <2>3 DEF CallMove
      <3> QED BY <2>3, <3>1, MovesUntold
    <2> QED BY <1>8, <2>2, <2>3 DEF ReleaseAttempt
  <1>9. CASE RejectBatch(r)
    <2>1. request[r].pc # "idle" /\ LedgerInv /\ request[r].batch \in Batches /\ LandedOnce
          /\ UNCHANGED rows
      BY <1>9 DEF RejectBatch, RequestStep, StoreInv, CallsHaveBatch, clickHouseVars
    <2>2. CASE Reject(request[r].batch) /\ Tell(r, lastAssigned', "rejected")
      <3>1. PICK t \in Seqs : t = lastAssigned' /\ state[t] = "none" /\ t > lastAssigned
        BY <2>1, <2>2, RejectIsCalm, SeqsAreNat DEF LedgerInv, NothingAhead, TypeOK
      <3>2. answers' = [answers EXCEPT ![t] = "rejected"] /\ Finish(r)
        BY <2>2, <3>1 DEF Tell
      <3>3. rows[t] = 0
        <4>1. ~ Over(t) /\ t \notin Reserved
          BY <2>1, <3>1, SeqsAreNat DEF Over, Reserved, LedgerInv, TypeOK
        <4>2. \A u \in Seqs : t \notin landed[u]
          BY <2>1, <4>1, OpenIsNotOver DEF LandedOnce
        <4> QED BY <2>1, <4>2 DEF LandedOnce
      <3>4. t \notin Reserved' /\ t <= lastAssigned'
        <4>1. state' = [state EXCEPT ![t] = "rejected"] /\ state \in [Seqs -> {"none", "reserved", "committed", "rejected", "abandoned"}]
          BY <2>1, <2>2, <3>1, RejectIsCalm DEF LedgerInv, TypeOK
        <4> QED BY <3>1, <4>1, SeqsAreNat DEF Reserved
      <3>5. AnswerTrue(t, "rejected")' /\ "rejected" \in Outcomes
        BY <2>1, <3>3, <3>4 DEF AnswerTrue, Outcomes
      <3>6. answers' \in [Seqs -> Outcomes] /\ AnswersHold'
        BY <3>2, <3>4, <3>5, AnswersTold
      <3> QED BY <3>2, <3>6, CallMoves DEF CallsInv, CallMove
    <2>3. CASE \E s \in Found(r) : state[s] # "reserved" /\ Tell(r, s, state[s])
      BY <2>3, TellFound
    <2>4. CASE UNCHANGED answers /\ Finish(r)
      BY <2>4, MovesUntold DEF CallMove
    <2> QED BY <1>9, <2>2, <2>3, <2>4 DEF RejectBatch
  <1> QED BY <1>1, <1>2, <1>3, <1>4, <1>5, <1>6, <1>7, <1>8, <1>9 DEF RequestNext

\* No step takes back or falsifies what was told.
LEMMA CallsStep ==
  ASSUME StoreInv, LegacyFits, [Next]_vars
  PROVE  CallsInv'
  <1>1. Truthful /\ LedgerInv'
    BY TableStep, LedgerKept DEF StoreInv
  <1>2. lastAssigned' \in Nat
    BY <1>1, SeqsAreNat DEF LedgerInv, TypeOK
  <1>3. CASE \E r \in Requests : Arrive(r) \/ RequestNext(r) \/ CancelWait(r)
    BY <1>1, <1>2, <1>3, RequestCalls
  <1>4. ASSUME UNCHANGED <<request, answers>>
        PROVE  CallsInv'
    <2>1. request' \in [Requests -> CallType] /\ CallsHaveBatch'
      BY <1>4 DEF StoreInv, StoreTypeOK, CallType, CallsHaveBatch
    <2> QED BY <1>1, <1>2, <1>4, <2>1, AnswersStay DEF CallsInv
  <1>5. CASE WorkerNext
    <2>1. UNCHANGED <<request, answers>>
      BY <1>5 DEF WorkerNext, WorkerWakes, TimerFires, WorkerReplays, WorkerForms, WorkerMarks,
                  WorkerSends, SendReturns, WorkerCommits, WorkerReleases, WorkerPrunes, WorkerStep
    <2> QED BY <1>4, <2>1
  <1>6. CASE (\E i \in inserts : Expire(i) \/ \E s \in i.rows : Apply(i, s)) \/ Linger
    <2>1. UNCHANGED <<request, answers>>
      BY <1>6 DEF Expire, Apply, Linger, processVars
    <2> QED BY <1>4, <2>1
  <1>7. CASE Crash
    <2>1. UNCHANGED answers /\ request' = [r \in Requests |-> IdleRequest]
      BY <1>7 DEF Crash
    <2>2. IdleRequest \in CallType /\ IdleRequest.pc = "idle"
      BY SeqsAreNat DEF IdleRequest, CallType, Pcs, AllModes
    <2>3. request' \in [Requests -> CallType] /\ CallsHaveBatch'
      BY <2>1, <2>2 DEF CallsHaveBatch
    <2> QED BY <1>1, <1>2, <2>1, <2>3, AnswersStay DEF CallsInv
  <1>8. CASE UNCHANGED vars
    BY <1>4, <1>8 DEF vars, processVars
  <1> QED BY <1>3, <1>5, <1>6, <1>7, <1>8 DEF Next

(***************************************************************************)
(* Types                                                                   *)
(***************************************************************************)
WorkerType == [pc : WorkerPcs, kind : {"single", "group"}, unit : 0..MaxSequence, failed : BOOLEAN]

\* The reconciler's own state and its timers.
LoopTypeOK ==
    /\ worker \in WorkerType /\ wake \in BOOLEAN /\ timer \in Off..Retry
    /\ lingered \in 0..MaxSequence /\ faults \in 0..MaxFaults

\* The table and the inserts.
TableTypeOK ==
    /\ inserts \subseteq [token : Seqs, rows : SUBSET Seqs]
    /\ landed \in [Seqs -> SUBSET Seqs]
    /\ tokenAt \in [Seqs -> Nat] /\ tokens \in Nat
    /\ rows \in [Seqs -> Nat]

\* The store's types are the ledger's, the loop's, the table's and the calls'.
LEMMA StoreTypeParts ==
  StoreTypeOK <=> /\ TypeOK /\ LoopTypeOK /\ TableTypeOK
                  /\ request \in [Requests -> CallType] /\ answers \in [Seqs -> Outcomes]
  BY DEF StoreTypeOK, LoopTypeOK, TableTypeOK, CallType, WorkerType

\* Failures stay within their bound.
LEMMA FaultsStep ==
  ASSUME faults \in 0..MaxFaults, Fault \/ NoFault
  PROVE  faults' \in 0..MaxFaults
  BY StoreAssumption DEF Fault, NoFault

\* The ways in which the reconciler moves.
WorkerMove ==
    \/ UNCHANGED worker
    \/ \E pc \in WorkerPcs : WorkerGoto(pc)
    \/ \E kind \in {"single", "group"}, u \in Seqs : WorkerTakes(kind, u)
    \/ worker' = SleepingWorker
    \/ worker' = [SleepingWorker EXCEPT !.pc = "replay"]
    \/ WorkerGivesUp

\* Every move of the worker keeps its type.
LEMMA WorkerMoves ==
  ASSUME worker \in WorkerType, WorkerMove
  PROVE  worker' \in WorkerType
  <1>1. SleepingWorker \in WorkerType
    BY SeqsAreNat DEF SleepingWorker, WorkerType, WorkerPcs
  <1>2. [SleepingWorker EXCEPT !.pc = "replay"] \in WorkerType
        /\ [SleepingWorker EXCEPT !.pc = "prune", !.failed = TRUE] \in WorkerType
    <2>1. PICK w \in WorkerType : w = SleepingWorker
      BY <1>1
    <2>2. [w EXCEPT !.pc = "replay"] \in WorkerType /\ [w EXCEPT !.pc = "prune"] \in WorkerType
      BY DEF WorkerType, WorkerPcs
    <2>3. [w EXCEPT !.pc = "prune", !.failed = TRUE] \in WorkerType
      BY DEF WorkerType, WorkerPcs
    <2> QED BY <2>1, <2>2, <2>3
  <1>3. WorkerGivesUp => worker' \in WorkerType
    BY <1>1, <1>2 DEF WorkerGivesUp, WorkerFails
  <1>4. ASSUME NEW pc \in WorkerPcs, WorkerGoto(pc)
        PROVE  worker' \in WorkerType
    BY <1>4 DEF WorkerGoto, WorkerType
  <1>5. ASSUME NEW kind \in {"single", "group"}, NEW u \in Seqs, WorkerTakes(kind, u)
        PROVE  worker' \in WorkerType
    BY <1>5, SeqsAreNat DEF WorkerTakes, WorkerType, WorkerPcs, Seqs
  <1> QED BY <1>1, <1>2, <1>3, <1>4, <1>5 DEF WorkerMove

\* The reconciler's steps keep the types of its own state.
LEMMA LoopStep ==
  ASSUME StoreInv, [Next]_vars
  PROVE  LoopTypeOK'
  <1>0. /\ worker \in WorkerType /\ wake \in BOOLEAN /\ timer \in Off..Retry
        /\ lingered \in 0..MaxSequence /\ faults \in 0..MaxFaults
        /\ lastAssigned \in 0..MaxSequence /\ LedgerInv /\ MaxSequence \in Nat
    BY StoreTypeParts, SeqsAreNat DEF StoreInv, LoopTypeOK, TypeOK
  <1>1. /\ Off \in Off..Retry /\ Retry \in Off..Retry /\ \A s \in Seqs : s \in Off..Retry
        /\ \A pc \in {"asleep", "replay", "form", "prepared", "marked", "sent", "acknowledged",
                       "failed", "prune"} : pc \in WorkerPcs
    BY <1>0 DEF Off, Retry, Seqs, WorkerPcs
  <1> DEFINE Clock == \/ UNCHANGED lingered
                      \/ lingered' = lingered + 1 /\ lingered < lastAssigned
             Goal == /\ WorkerMove /\ wake' \in BOOLEAN /\ timer' \in Off..Retry
                     /\ Clock /\ (Fault \/ NoFault)
  <1>2. \A o, c : Seen(o, c) => Fault \/ NoFault
    BY DEF Seen
  <1>3. WorkerGivesUp => timer' \in Off..Retry
    BY <1>0, <1>1 DEF WorkerGivesUp, WorkerFails
  <1>4. WorkerFails => worker' = SleepingWorker /\ timer' \in Off..Retry
    BY <1>1 DEF WorkerFails
  <1>5. wakeReconciler => wake' \in BOOLEAN
    BY DEF wakeReconciler
  <1>6. noteTerminalReservation \/ UNCHANGED wake => wake' \in BOOLEAN
    BY <1>0 DEF noteTerminalReservation
  <1>7. ASSUME NEW r \in Requests, Arrive(r) \/ RequestNext(r) \/ CancelWait(r)
        PROVE  Goal
    <2>1. UNCHANGED <<worker, timer, lingered>>
      BY <1>7, RequestIsCalm
    <2>2. (Fault \/ NoFault) /\ (wakeReconciler \/ noteTerminalReservation \/ UNCHANGED wake)
      <3>1. CASE Arrive(r) \/ CancelWait(r) \/ AwaitOutcome(r) \/ WaiterRefused(r)
                 \/ ReserveInProgress(r) \/ ReserveRefused(r)
        BY <3>1 DEF Arrive, CancelWait, AwaitOutcome, WaiterRefused, ReserveInProgress, ReserveRefused
      <3>2. CASE LookupBatch(r) \/ RecheckBatch(r)
        BY <3>2 DEF LookupBatch, RecheckBatch, Observe
      <3>3. CASE ReserveBatch(r)
        BY <3>3, <1>2 DEF ReserveBatch
      <3>4. CASE ReleaseAttempt(r)
        BY <3>4, <1>2 DEF ReleaseAttempt
      <3>5. CASE RejectBatch(r)
        BY <3>5 DEF RejectBatch
      <3> QED BY <1>7, <3>1, <3>2, <3>3, <3>4, <3>5 DEF RequestNext
    <2> QED BY <2>1, <2>2, <1>0, <1>5, <1>6 DEF WorkerMove
  <1>8. ASSUME WorkerNext
        PROVE  Goal
    <2>0. UNCHANGED lingered
      BY <1>8 DEF WorkerNext, WorkerWakes, TimerFires, WorkerReplays, WorkerForms, WorkerMarks,
                  WorkerSends, SendReturns, WorkerCommits, WorkerReleases, WorkerPrunes, WorkerStep
    <2>1. ASSUME WorkerWakes \/ TimerFires
          PROVE  Goal
      <3>1. (UNCHANGED worker \/ WorkerGoto("replay")) /\ wake' \in BOOLEAN
            /\ timer' \in {timer, Off} /\ NoFault
        BY <2>1, <1>0 DEF WorkerWakes, TimerFires
      <3> QED BY <3>1, <2>0, <1>0, <1>1 DEF WorkerMove
    <2>2. ASSUME WorkerReplays
          PROVE  Goal
      <3>1. /\ UNCHANGED wake /\ (Fault \/ NoFault)
            /\ \/ UNCHANGED timer /\ \E s \in Seqs : WorkerTakes("single", s)
               \/ UNCHANGED timer /\ WorkerGoto("form")
               \/ WorkerFails
        BY <2>2, <1>2 DEF WorkerReplays
      <3> QED BY <3>1, <2>0, <1>0, <1>1, <1>4 DEF WorkerMove
    <2>3. ASSUME WorkerForms
          PROVE  Goal
      <3>1. /\ UNCHANGED wake /\ (Fault \/ NoFault)
            /\ \/ UNCHANGED timer /\ \E s \in Seqs : WorkerTakes("group", s)
               \/ WorkerGoto("prune") /\ (UNCHANGED timer \/ timer' \in Seqs)
               \/ WorkerFails
        BY <2>3, <1>2 DEF WorkerForms
      <3> QED BY <3>1, <2>0, <1>0, <1>1, <1>4 DEF WorkerMove
    <2>4. ASSUME WorkerMarks \/ WorkerSends \/ SendReturns
          PROVE  Goal
      <3>1. /\ UNCHANGED <<wake, timer>> /\ (Fault \/ NoFault)
            /\ \E pc \in {"marked", "failed", "sent", "acknowledged"} : WorkerGoto(pc)
        BY <2>4 DEF WorkerMarks, WorkerSends, SendReturns
      <3> QED BY <3>1, <2>0, <1>0, <1>1 DEF WorkerMove
    <2>5. ASSUME WorkerCommits \/ WorkerReleases
          PROVE  Goal
      <3>1. /\ Fault \/ NoFault
            /\ wakeReconciler \/ noteTerminalReservation
            /\ \/ worker' = [SleepingWorker EXCEPT !.pc = "replay"] /\ UNCHANGED timer
               \/ WorkerGivesUp
        BY <2>5 DEF WorkerCommits, WorkerReleases, noteTerminalReservation
      <3> QED BY <3>1, <2>0, <1>0, <1>3, <1>5, <1>6 DEF WorkerMove
    <2>6. ASSUME WorkerPrunes
          PROVE  Goal
      <3>1. /\ worker' = SleepingWorker /\ (Fault \/ NoFault)
            /\ timer' = Retry \/ UNCHANGED timer
        BY <2>6 DEF WorkerPrunes
      <3>2. wake' \in BOOLEAN
        BY <2>6, <1>0 DEF WorkerPrunes
      <3> QED BY <3>1, <3>2, <2>0, <1>0, <1>1 DEF WorkerMove
    <2> QED BY <1>8, <2>1, <2>2, <2>3, <2>4, <2>5, <2>6 DEF WorkerNext
  <1>9. ASSUME \/ \E i \in inserts : Expire(i) \/ \E s \in i.rows : Apply(i, s)
               \/ Linger
        PROVE  Goal
    <2>1. UNCHANGED <<worker, wake, timer>> /\ NoFault /\ Clock
      BY <1>9 DEF Expire, Apply, Linger, processVars
    <2> QED BY <2>1, <1>0 DEF WorkerMove
  <1>10. ASSUME Crash PROVE Goal
    BY <1>10, <1>1 DEF Crash, WorkerMove
  <1>11. ASSUME UNCHANGED vars PROVE Goal
    BY <1>11, <1>0 DEF vars, processVars, NoFault, WorkerMove
  <1>12. Goal
    BY <1>7, <1>8, <1>9, <1>10, <1>11 DEF Next
  <1>13. lingered' \in 0..MaxSequence
    BY <1>0, <1>12
  <1> QED BY <1>0, <1>12, <1>13, WorkerMoves, FaultsStep DEF LoopTypeOK

\* Every step keeps the table's types.
LEMMA TableTypeStep ==
  ASSUME StoreInv, [Next]_vars
  PROVE  TableTypeOK'
  <1>0. TableTypeOK /\ LedgerInv
    BY StoreTypeParts DEF StoreInv
  <1>1. CASE UNCHANGED clickHouseVars
    BY <1>0, <1>1 DEF TableTypeOK, clickHouseVars
  <1>2. CASE WorkerSends
    <2>1. worker.unit \in Open
      BY <1>2 DEF WorkerSends, WorkerStep, StoreInv, WorkerHolds
    <2>2. worker.unit \in Seqs /\ Block \subseteq Seqs
      BY <2>1, OpenBlocks DEF StoreInv, Block, Members
    <2> QED BY <1>0, <1>2, <2>2 DEF WorkerSends, TableTypeOK
  <1>3. ASSUME NEW i \in inserts, Expire(i)
        PROVE  TableTypeOK'
    BY <1>0, <1>3 DEF Expire, TableTypeOK
  <1>4. ASSUME NEW i \in inserts, NEW s \in i.rows, Apply(i, s)
        PROVE  TableTypeOK'
    <2>1. i.token \in Seqs /\ s \in Seqs /\ UNCHANGED inserts
      BY <1>0, <1>4 DEF TableTypeOK, Apply
    <2>2. tokenAt' \in [Seqs -> Nat] /\ tokens' \in Nat
      BY <1>0, <1>4, <2>1 DEF Apply, RecordsToken, TableTypeOK
    <2>3. landed' \in [Seqs -> SUBSET Seqs]
      BY <1>0, <1>4, <2>1 DEF Apply, TableTypeOK
    <2>4. rows' \in [Seqs -> Nat]
      BY <1>0, <1>4, <2>1 DEF Apply, TableTypeOK
    <2> QED BY <1>0, <2>1, <2>2, <2>3, <2>4 DEF TableTypeOK
  <1>5. CASE WorkerNext /\ ~ WorkerSends
    BY <1>1, <1>5 DEF WorkerNext, WorkerWakes, TimerFires, WorkerReplays, WorkerForms, WorkerMarks,
                SendReturns, WorkerCommits, WorkerReleases, WorkerPrunes
  <1>6. CASE \E r \in Requests : Arrive(r) \/ RequestNext(r) \/ CancelWait(r)
    BY <1>1, <1>6, RequestIsCalm
  <1> QED BY <1>1, <1>2, <1>3, <1>4, <1>5, <1>6 DEF Next, Linger, Crash, vars

(***************************************************************************)
(* The initial state                                                       *)
(***************************************************************************)
LEMMA StoreInitInv == Init => StoreInv
  <1> SUFFICES ASSUME Init PROVE StoreInv
    OBVIOUS
  <1>1. LedgerInv
    BY InitInv DEF Init
  <1>2. /\ TypeOK /\ MaxSequence \in Nat /\ Worker \notin Requests
        /\ \A s \in Seqs : group[s] = 0 /\ groupState[s] = "none"
        /\ \A s \in Unaccounted : state[s] = "reserved" /\ phase[s] = Legacy[s].phase
        /\ \A s \in Seqs \ Unaccounted : state[s] = "none"
        /\ lastAssigned = Len(Legacy)
    BY <1>1, SeqsAreNat, StoreAssumption, LegacySeqs DEF Init, LedgerInit, LedgerInv, Unaccounted
  <1>3. Ambiguous \subseteq Unaccounted /\ Ambiguous \subseteq Seqs /\ Recoverable = {}
    BY <1>2 DEF Ambiguous, Reserved, Recoverable
  <1>4. Open = Ambiguous /\ \A t \in Seqs : BlockOf(t) = {t}
    BY <1>2, <1>3 DEF Open, Ungrouped, BlockOf
  <1>5. Open \subseteq LegacyAmbiguous
    BY <1>2, <1>3, <1>4 DEF Ambiguous, LegacyAmbiguous, Unaccounted
  <1>6. LegacyFirst
    <2>1. \A s \in Unaccounted : Legacy[s].phase # "final"
      <3>1. \A s \in DOMAIN Legacy : Legacy[s] \in LegacyRow
        BY LegacyAssumption
      <3> QED BY <3>1 DEF LegacyRow, Unaccounted
    <2>2. worker.pc # "form"
      BY DEF Init, SleepingWorker
    <2> QED BY <1>2, <1>3, <2>1, <2>2, LegacySeqs
            DEF LegacyFirst, LegacyAmbiguous, Ambiguous, Reserved, Ungrouped, Unaccounted
  <1>7. WorkerHolds
    BY DEF Init, SleepingWorker, WorkerHolds
  <1>8. InsertsKnown
    <2>1. ASSUME NEW i \in inserts
          PROVE  i.token \in Open /\ i.rows = {i.token} /\ i.token \in Seqs
      <3>1. PICK s \in Ambiguous : i = [token |-> s, rows |-> {s}]
        BY DEF Init
      <3> QED BY <3>1, <1>3, <1>4
    <2> QED BY <2>1, <1>4 DEF InsertsKnown
  <1>9. LandedOnce
    BY <1>2 DEF Init, LandedOnce, Recorded
  <1>10. TokensKept
    <2>1. \A t \in Seqs : ~ Recorded(t)
      BY DEF Init, Recorded
    <2>2. \A i \in inserts : i.token \in Seqs
      BY <1>3 DEF Init
    <2>3. {t \in Seqs : Recorded(t)} = {} /\ tokens = 0 /\ Cardinality({}) = 0
      BY <2>1, FS_EmptySet DEF Init
    <2> QED BY <1>5, <2>1, <2>2, <2>3 DEF TokensKept
  <1>11. AnswersHold
    BY <1>2 DEF Init, AnswersHold, AnswersAreTrue
  <1>12. StoreTypeOK
    <2>1. LoopTypeOK
      BY <1>2, StoreAssumption DEF Init, LoopTypeOK, SleepingWorker, WorkerType, WorkerPcs, Off, Retry
    <2>2. TableTypeOK
      BY <1>3 DEF Init, TableTypeOK
    <2>3. request \in [Requests -> CallType] /\ answers \in [Seqs -> Outcomes]
      BY <1>2 DEF Init, IdleRequest, CallType, Pcs, AllModes, Outcomes
    <2> QED BY <1>2, <2>1, <2>2, <2>3, StoreTypeParts
  <1>13. CallsHaveBatch
    BY DEF Init, IdleRequest, CallsHaveBatch
  <1> QED BY <1>1, <1>6, <1>7, <1>8, <1>9, <1>10, <1>11, <1>12, <1>13 DEF StoreInv

(***************************************************************************)
(* Theorems                                                                *)
(***************************************************************************)
LEMMA StoreStep ==
  ASSUME StoreInv, LegacyFits, [Next]_vars
  PROVE  StoreInv'
  <1>1. TableInv' /\ InLedger
    BY TableStep
  <1>2. LedgerInv'
    BY <1>1, LedgerKept DEF StoreInv
  <1>3. StoreTypeOK'
    <2>1. TypeOK' /\ LoopTypeOK' /\ TableTypeOK' /\ request' \in [Requests -> CallType]
          /\ answers' \in [Seqs -> Outcomes]
      BY <1>2, CallsStep, LoopStep, TableTypeStep DEF LedgerInv, CallsInv
    <2> QED BY <2>1 DEF StoreTypeOK, LoopTypeOK, TableTypeOK, CallType, WorkerType
  <1> QED BY <1>1, <1>2, <1>3, CallsStep DEF StoreInv, TableInv, CallsInv

\* The inductive invariant of requests, reconciler, ledger and ClickHouse table.
THEOREM StoreInvariant == LegacyFits => (Spec => []StoreInv)
  <1> SUFFICES ASSUME LegacyFits PROVE Spec => []StoreInv
    OBVIOUS
  <1>1. StoreInv /\ [Next]_vars => StoreInv'
    BY StoreStep
  <1> QED BY <1>1, StoreInitInv, PTL DEF Spec

\* Every variable of the store keeps its type.
THEOREM StoreTypeCorrect == LegacyFits => (Spec => []StoreTypeOK)
  <1>1. StoreInv => StoreTypeOK
    BY DEF StoreInv
  <1> QED BY <1>1, StoreInvariant, PTL

\* writeGroup, writeReservation and the commit after them: whatever is retried,
\* lost or late, a committed batch is in the table once and a rejected or
\* abandoned one is not there.
THEOREM StoredOnce == LegacyFits => (Spec => []StoredExactlyOnce)
  <1>1. StoreInv => StoredExactlyOnce
    <2> SUFFICES ASSUME StoreInv, NEW s \in Seqs
                 PROVE  /\ rows[s] <= 1
                        /\ state[s] = "committed" => rows[s] = 1
                        /\ state[s] \in {"rejected", "abandoned"} => rows[s] = 0
      BY DEF StoredExactlyOnce
    <2>1. LandedOnce /\ LedgerInv
      BY DEF StoreInv
    <2>2. state[s] \in {"rejected", "abandoned"} => \A t \in Seqs : s \notin landed[t]
      BY <2>1, OpenIsNotOver DEF LandedOnce, Over, Reserved
    <2> QED BY <2>1, <2>2 DEF LandedOnce
  <1> QED BY <1>1, StoreInvariant, PTL

\* Store, Stage and RejectBatch never tell a client what is not, or does not
\* stay, true of the table.
THEOREM AnswersAreHonest == LegacyFits => (Spec => []AnswersAreTrue)
  <1>1. StoreInv => AnswersAreTrue
    BY DEF StoreInv, AnswersHold
  <1> QED BY <1>1, StoreInvariant, PTL

\* The store uses the ledger as the ledger's own theorems assume: what they say
\* of replays, outcomes and sealed groups holds of every behaviour of the store.
THEOREM StoreKeepsLedger ==
  LegacyFits => (Spec => []LedgerInv /\ AmbiguousIsReplayed /\ OutcomeIsFinal /\ MembershipIsSealed)
  <1> SUFFICES ASSUME LegacyFits
               PROVE  Spec => []LedgerInv /\ AmbiguousIsReplayed /\ OutcomeIsFinal /\ MembershipIsSealed
    OBVIOUS
  <1>1. StoreInv => LedgerInv
    BY DEF StoreInv
  <1>2. StoreInv /\ [Next]_vars =>
           [\A s \in Ambiguous :
               /\ group'[s] = group[s]
               /\ \/ state'[s] = "reserved" /\ phase'[s] = "ambiguous"
                  \/ state'[s] = "committed"]_ledgerVars
    BY <1>1, TableStep, AmbiguousStep DEF InLedger
  <1>3. StoreInv /\ [Next]_vars =>
           [/\ committedThrough' >= committedThrough
            /\ \A s \in 1..lastAssigned :
                  /\ state[s] \in {"committed", "rejected", "abandoned"}
                        => state'[s] \in {state[s], "none"}
                  /\ state[s] = "none" => state'[s] = "none"]_ledgerVars
    BY <1>1, TableStep, CutoffStep, OutcomeStep DEF InLedger
  <1>4. StoreInv /\ [Next]_vars =>
           [\A g \in Seqs : groupState[g] # "none" =>
               \/ Members(g)' = Members(g)
               \/ groupState[g] = "committed" /\ groupState'[g] = "none" /\ Members(g)' = {}]_ledgerVars
    BY <1>1, TableStep, MembershipStep DEF InLedger
  <1>5. Spec => []StoreInv
    BY StoreInvariant
  <1> QED BY <1>1, <1>2, <1>3, <1>4, <1>5, PTL
          DEF Spec, AmbiguousIsReplayed, OutcomeIsFinal, MembershipIsSealed

(***************************************************************************)
(* The log a search reads                                                  *)
(***************************************************************************)
\* Sequences from i to j whose rows are in the table.
StoredIn(i, j) == {s \in i..j : rows[s] = 1}

\* A batch gets another sequence only after its last one is over, and after
\* Retained newer batches have been stored.
LogInv ==
    /\ \A s \in Seqs : s <= lastAssigned => batchOf[s] \in Batches
    /\ \A i, j \in Seqs : i < j /\ j <= lastAssigned /\ batchOf[i] = batchOf[j] => i \notin Reserved
    /\ \A s \in Seqs : s <= lastAssigned /\ state[s] = "none" /\ rows[s] = 1 =>
          Cardinality(StoredIn(s + 1, committedThrough)) >= Retained
    /\ \A i, j \in Seqs :
          i < j /\ j <= lastAssigned /\ batchOf[i] = batchOf[j] /\ rows[i] = 1 =>
             Cardinality(StoredIn(i + 1, j - 1)) >= Retained

\* A sequence is given to a batch once, when nothing decides the batch.
LEMMA Assigned ==
  ASSUME LedgerInv, InLedger
  PROVE  \/ UNCHANGED <<lastAssigned, batchOf>>
         \/ \E b \in Batches :
               /\ Active(b) = {}
               /\ lastAssigned' = lastAssigned + 1 /\ lastAssigned' \in Seqs
               /\ batchOf' = [batchOf EXCEPT ![lastAssigned + 1] = b]
               /\ state'[lastAssigned + 1] \in {"reserved", "rejected"}
  <1>0. TypeOK /\ lastAssigned \in Nat
    BY SeqsAreNat DEF LedgerInv, TypeOK
  <1> DEFINE Goal(b) == /\ lastAssigned' = lastAssigned + 1 /\ lastAssigned' \in Seqs
                        /\ batchOf' = [batchOf EXCEPT ![lastAssigned + 1] = b]
                        /\ state'[lastAssigned + 1] \in {"reserved", "rejected"}
  <1>1. ASSUME NEW b \in Batches, NEW o \in Owners, NEW st \in {"reserved", "rejected"}, NEW ph,
               AllocateSequence(b, st, ph, o)
        PROVE  Goal(b)
    BY <1>0, <1>1, SequenceAllocated DEF TypeOK
  <1>2. ASSUME NEW b \in Batches, NEW o \in Owners, ReserveFresh(b, o)
        PROVE  Active(b) = {} /\ Goal(b)
    BY <1>1, <1>2 DEF ReserveFresh
  <1>3. ASSUME NEW b \in Batches, Reject(b)
        PROVE  Active(b) = {} /\ Goal(b)
    BY <1>1, <1>3, StoreCallers DEF Reject
  <1>4. CASE UNCHANGED ledgerVars
    BY <1>4 DEF ledgerVars, reservationVars
  <1>5. CASE \/ \E t \in Seqs, c \in Callers : CommitReservation(t, c) \/ Abandon(t, c)
             \/ \E t \in Seqs, c \in Callers : MarkSending(t, c)
             \/ \E P \in SUBSET Seqs, g \in Seqs, o \in Owners, due \in BOOLEAN :
                   FormWriteGroup(P, g, o, due)
             \/ \E g \in Seqs, c \in Callers : MarkWriteGroupSending(g, c)
             \/ \E g \in Seqs, c \in Callers : CommitWriteGroup(g, c)
             \/ PruneTerminal \/ LeaseStep
    BY <1>5 DEF CommitReservation, Abandon, FinishTerminal, MarkSending, FormWriteGroup,
                MarkWriteGroupSending, CommitWriteGroup, PruneTerminal, LeaseStep
  <1> QED BY <1>2, <1>3, <1>4, <1>5 DEF InLedger, LedgerStep

\* A pending row is not forgotten.
LEMMA ReservedStays ==
  ASSUME LedgerInv, InLedger, NEW s \in Reserved
  PROVE  state'[s] # "none"
  <1>0. TypeOK /\ s \in Seqs /\ state[s] = "reserved" /\ s # lastAssigned + 1
    BY SeqsAreNat DEF LedgerInv, TypeOK, Reserved, NothingAhead
  <1>1. ASSUME NEW b \in Batches, NEW o \in Owners, NEW st, NEW ph, AllocateSequence(b, st, ph, o)
        PROVE  state'[s] # "none"
    BY <1>0, <1>1, SequenceAllocated DEF TypeOK
  <1>2. CASE (\E b \in Batches, o \in Owners : ReserveFresh(b, o)) \/ \E b \in Batches : Reject(b)
    BY <1>1, <1>2, StoreCallers DEF ReserveFresh, Reject
  <1>3. ASSUME NEW t \in Seqs, NEW c \in Callers, CommitReservation(t, c) \/ Abandon(t, c)
        PROVE  state'[s] # "none"
    BY <1>0, <1>3 DEF CommitReservation, Abandon, FinishTerminal, TypeOK
  <1>4. CASE \E g \in Seqs, c \in Callers : CommitWriteGroup(g, c)
    BY <1>0, <1>4 DEF CommitWriteGroup
  <1>5. CASE PruneTerminal
    <2>1. s \notin OldestOf(Prunable, PruneLimit)
      BY <1>0, PrunableHasOutcome DEF OldestOf
    <2> QED BY <1>0, <1>5, <2>1 DEF PruneTerminal
  <1>6. CASE \/ \E t \in Seqs, c \in Callers : MarkSending(t, c) \/ MarkWriteGroupSending(t, c)
             \/ \E P \in SUBSET Seqs, g \in Seqs, o \in Owners, due \in BOOLEAN :
                   FormWriteGroup(P, g, o, due)
             \/ LeaseStep \/ UNCHANGED ledgerVars
    BY <1>0, <1>6 DEF MarkSending, FormWriteGroup, MarkWriteGroupSending, LeaseStep, ledgerVars,
                      reservationVars
  <1> QED BY <1>2, <1>3, <1>4, <1>5, <1>6 DEF InLedger, LedgerStep

\* A set with k elements inside another gives it k elements.
LEMMA CountGrows ==
  ASSUME NEW N \in Nat, NEW T \in SUBSET (0..N), NEW S \in SUBSET T, NEW k \in Nat,
         Cardinality(S) >= k
  PROVE  Cardinality(T) >= k
  <1>1. IsFiniteSet(T)
    <2>1. IsFiniteSet(0..N)
      BY FS_Interval
    <2> QED BY <2>1, FS_Subset
  <1>2. IsFiniteSet(S) /\ Cardinality(S) <= Cardinality(T)
    BY <1>1, FS_Subset
  <1>3. Cardinality(S) \in Nat /\ Cardinality(T) \in Nat
    BY <1>1, <1>2, FS_CardinalityType
  <1> QED BY <1>2, <1>3

\* Sequences handed out keep their batch and their pending rows end for good.
LEMMA SequencesKept ==
  ASSUME LedgerInv, InLedger, NEW s \in Seqs, s <= lastAssigned
  PROVE  /\ batchOf'[s] = batchOf[s]
         /\ s \in Reserved' => s \in Reserved
         /\ s \in Reserved => state'[s] # "none"
         /\ state[s] = "none" => state'[s] = "none"
  <1>0. TypeOK /\ lastAssigned \in Nat /\ s \in 1..lastAssigned /\ s # lastAssigned + 1
    BY SeqsAreNat DEF LedgerInv, TypeOK, Seqs
  <1>1. batchOf'[s] = batchOf[s]
    BY <1>0, Assigned DEF TypeOK
  <1>2. CASE LedgerStep
    <2>1. state'[s] = "reserved" => state[s] = "reserved"
      BY <1>0, <1>2, OutcomeStep DEF TypeOK
    <2>2. state[s] = "none" => state'[s] = "none"
      BY <1>0, <1>2, OutcomeStep
    <2> QED BY <1>1, <2>1, <2>2, ReservedStays DEF Reserved
  <1>3. CASE UNCHANGED ledgerVars
    BY <1>1, <1>3 DEF ledgerVars, reservationVars, Reserved
  <1> QED BY <1>2, <1>3 DEF InLedger

\* Every step keeps what is below the cutoff as it was published.
LEMMA LogStep ==
  ASSUME StoreInv, LogInv, LegacyFits, [Next]_vars
  PROVE  LogInv'
  <1>1. /\ LedgerInv /\ LedgerInv' /\ Truthful /\ InLedger /\ LandedOnce /\ LandedOnce'
        /\ TypeOK /\ TypeOK' /\ MaxSequence \in Nat /\ Retained \in Nat
    BY TableStep, LedgerKept, BoundsAssumption DEF StoreInv, TableInv, LedgerInv
  <1>2. /\ lastAssigned \in Nat /\ lastAssigned' \in Nat /\ lastAssigned <= lastAssigned'
        /\ lastAssigned <= MaxSequence /\ lastAssigned' <= MaxSequence
        /\ committedThrough \in Nat /\ committedThrough' \in Nat
        /\ committedThrough <= committedThrough' /\ committedThrough <= lastAssigned
        /\ committedThrough' <= lastAssigned'
        /\ \A s \in Seqs : s \in Nat /\ s > 0
    <2>1. committedThrough <= committedThrough'
      BY <1>1, CutoffStep DEF InLedger, ledgerVars, TypeOK
    <2> QED BY <1>1, <2>1 DEF TypeOK, Truthful, LedgerInv, CutoffExact, Seqs
  <1>3. \A s \in Seqs : s <= lastAssigned =>
           /\ batchOf'[s] = batchOf[s]
           /\ s \in Reserved' => s \in Reserved
           /\ rows[s] = 1 => rows'[s] = 1
           /\ s \notin Reserved => rows'[s] = rows[s]
    BY <1>1, SequencesKept DEF Truthful
  <1>4. \/ UNCHANGED <<lastAssigned, batchOf>>
        \/ \E b \in Batches :
               /\ Active(b) = {}
               /\ lastAssigned' = lastAssigned + 1 /\ lastAssigned' \in Seqs
               /\ batchOf' = [batchOf EXCEPT ![lastAssigned + 1] = b]
               /\ state'[lastAssigned + 1] \in {"reserved", "rejected"}
    BY <1>1, Assigned
  \* What is stored between two sequences handed out stays.
  <1>5. ASSUME NEW i \in Nat, NEW j \in Nat, NEW k \in Nat, i > 0, j <= lastAssigned, j <= k,
               Cardinality(StoredIn(i, j)) >= Retained
        PROVE  Cardinality(StoredIn(i, k)') >= Retained
    <2>1. PICK S : S = StoredIn(i, j)
      OBVIOUS
    <2>2. PICK T : T = StoredIn(i, k)'
      OBVIOUS
    <2>3. S \subseteq T
      <3> SUFFICES ASSUME NEW s \in S PROVE s \in T
        OBVIOUS
      <3>1. s \in i..j /\ rows[s] = 1
        BY <2>1 DEF StoredIn
      <3>2. s \in Seqs /\ s <= lastAssigned /\ s \in i..k
        BY <1>1, <1>2, <1>5, <3>1 DEF Seqs
      <3>3. rows'[s] = 1
        BY <1>3, <3>1, <3>2
      <3> QED BY <2>2, <3>2, <3>3 DEF StoredIn
    <2>4. T \in SUBSET (0..k)
      BY <1>5, <2>2 DEF StoredIn
    <2>5. Cardinality(S) >= Retained
      BY <1>5, <2>1
    <2> QED BY <1>1, <2>2, <2>3, <2>4, <2>5, CountGrows
  \* A sequence whose row is gone.
  <1>6. ASSUME NEW s \in Seqs, s <= lastAssigned', state'[s] = "none", rows'[s] = 1
        PROVE  Cardinality(StoredIn(s + 1, committedThrough)') >= Retained
    <2>1. s <= lastAssigned
      BY <1>2, <1>4, <1>6
    <2>2. CASE state[s] = "none"
      <3>1. rows[s] = 1
        BY <1>3, <1>6, <2>1, <2>2 DEF Reserved
      <3>2. Cardinality(StoredIn(s + 1, committedThrough)) >= Retained
        BY <2>1, <2>2, <3>1 DEF LogInv
      <3>3. PICK k \in Nat : k = committedThrough'
        BY <1>2
      <3>4. Cardinality(StoredIn(s + 1, k)') >= Retained
        BY <1>2, <1>5, <3>2, <3>3
      <3> QED BY <3>3, <3>4 DEF StoredIn
    <2>3. CASE state[s] = "committed"
      <3>1. LedgerStep
        BY <1>1, <1>6, <2>3 DEF InLedger, ledgerVars, reservationVars
      <3>2. PICK S : S = {t \in (s + 1)..committedThrough : state'[t] = "committed"}
        OBVIOUS
      <3>3. Cardinality(S) >= Retained
        BY <1>1, <1>6, <2>3, <3>1, <3>2, RetentionStep
      <3>4. PICK T : T = StoredIn(s + 1, committedThrough)'
        OBVIOUS
      <3>5. S \subseteq T
        <4>1. \A t \in S : t \in Seqs /\ t \in (s + 1)..committedThrough'
          <5> SUFFICES ASSUME NEW t \in (s + 1)..committedThrough
                       PROVE  t \in Seqs /\ t \in (s + 1)..committedThrough'
            BY <3>2
          <5>1. s \in Nat /\ t \in Nat /\ t > 0 /\ t <= committedThrough
            BY <1>2
          <5> QED BY <1>1, <1>2, <5>1 DEF Seqs
        <4>2. \A t \in S : rows'[t] = 1
          BY <1>1, <3>2, <4>1 DEF LandedOnce
        <4> QED BY <3>4, <4>1, <4>2 DEF StoredIn
      <3>6. T \in SUBSET (0..committedThrough')
        BY <1>2, <3>4 DEF StoredIn
      <3> QED BY <1>1, <1>2, <3>3, <3>4, <3>5, <3>6, CountGrows
    <2>4. CASE state[s] = "reserved"
      BY <1>1, <1>6, <2>4, ReservedStays DEF Reserved
    <2>5. CASE state[s] \in {"rejected", "abandoned"}
      <3>1. \A t \in Seqs : s \notin landed[t]
        BY <1>1, <2>5, OpenIsNotOver DEF LandedOnce, Over, Reserved
      <3>2. rows[s] = 0
        BY <1>1, <3>1 DEF LandedOnce
      <3> QED BY <1>3, <1>6, <2>1, <2>5, <3>2 DEF Reserved
    <2> QED BY <1>1, <2>2, <2>3, <2>4, <2>5 DEF TypeOK
  \* Two sequences of one batch.
  <1>7. ASSUME NEW i \in Seqs, NEW j \in Seqs, i < j, j <= lastAssigned', batchOf'[i] = batchOf'[j]
        PROVE  /\ i \notin Reserved'
               /\ rows'[i] = 1 => Cardinality(StoredIn(i + 1, j - 1)') >= Retained
    <2>0. i <= lastAssigned /\ i \in Nat /\ j \in Nat /\ i > 0
      BY <1>2, <1>4, <1>7
    <2>1. CASE j <= lastAssigned
      <3>1. i \notin Reserved /\ batchOf[i] = batchOf[j]
        BY <1>3, <1>7, <2>0, <2>1 DEF LogInv
      <3>2. i \notin Reserved' /\ rows'[i] = rows[i]
        BY <1>3, <2>0, <3>1
      <3>3. rows[i] = 1 => Cardinality(StoredIn(i + 1, j - 1)) >= Retained
        BY <1>7, <2>1, <3>1 DEF LogInv
      <3> QED BY <1>2, <1>5, <1>7, <2>0, <2>1, <3>2, <3>3
    <2>2. CASE j = lastAssigned + 1
      <3>1. PICK b \in Batches : Active(b) = {} /\ batchOf' = [batchOf EXCEPT ![lastAssigned + 1] = b]
        BY <1>2, <1>4, <1>7, <2>2
      <3>2. batchOf[i] = b
        BY <1>1, <1>3, <1>7, <2>0, <2>2, <3>1 DEF TypeOK
      <3>3. state[i] \in {"none", "abandoned"} /\ i \notin Reserved
        BY <1>1, <3>1, <3>2 DEF Active, Reserved, TypeOK
      <3>4. i \notin Reserved' /\ rows'[i] = rows[i]
        BY <1>3, <2>0, <3>3
      <3>5. ASSUME rows[i] = 1
            PROVE  state[i] = "none"
        <4>1. state[i] = "abandoned" => \A t \in Seqs : i \notin landed[t]
          BY <1>1, OpenIsNotOver DEF LandedOnce, Over, Reserved
        <4> QED BY <1>1, <3>3, <3>5, <4>1 DEF LandedOnce
      <3>6. rows[i] = 1 => Cardinality(StoredIn(i + 1, committedThrough)) >= Retained
        BY <2>0, <3>5 DEF LogInv
      <3> QED BY <1>2, <1>5, <2>0, <2>2, <3>4, <3>6
    <2> QED BY <1>2, <1>4, <1>7, <2>1, <2>2
  <1>8. \A s \in Seqs : s <= lastAssigned' => batchOf'[s] \in Batches
    <2>1. \A s \in Seqs : s <= lastAssigned => batchOf[s] \in Batches
      BY DEF LogInv
    <2> SUFFICES ASSUME NEW s \in Seqs, s <= lastAssigned' PROVE batchOf'[s] \in Batches
      OBVIOUS
    <2>2. CASE s <= lastAssigned
      BY <1>3, <2>1, <2>2
    <2>3. CASE s = lastAssigned + 1
      <3>1. PICK b \in Batches : batchOf' = [batchOf EXCEPT ![lastAssigned + 1] = b]
        BY <1>2, <1>4, <2>3
      <3> QED BY <1>1, <2>3, <3>1 DEF TypeOK
    <2> QED BY <1>2, <1>4, <2>2, <2>3
  <1> QED BY <1>6, <1>7, <1>8 DEF LogInv

\* At the start the log is what an upgrade left committed.
LEMMA LogInitInv == Init => LogInv
  <1> SUFFICES ASSUME Init PROVE LogInv
    OBVIOUS
  <1>1. /\ DOMAIN Legacy = 1..Len(Legacy) /\ lastAssigned = Len(Legacy) /\ Len(Legacy) \in Nat
        /\ \A s \in DOMAIN Legacy : Legacy[s].batch \in Batches
    <2>1. \A s \in DOMAIN Legacy : Legacy[s] \in LegacyRow
      BY LegacyAssumption
    <2>2. DOMAIN Legacy = 1..Len(Legacy) /\ Len(Legacy) \in Nat
      BY LegacyAssumption
    <2> QED BY <2>1, <2>2 DEF Init, LedgerInit, LegacyRow
  <1>2. \A s \in Seqs : s <= lastAssigned =>
           s \in DOMAIN Legacy /\ batchOf[s] = Legacy[s].batch /\ rows[s] = 0
    BY <1>1, SeqsAreNat DEF Init, LedgerInit, Seqs
  <1>3. \A i, j \in Seqs : i < j /\ j <= lastAssigned => batchOf[i] # batchOf[j]
    <2> SUFFICES ASSUME NEW i \in Seqs, NEW j \in Seqs, i < j, j <= lastAssigned
                 PROVE  batchOf[i] # batchOf[j]
      OBVIOUS
    <2>1. i \in Nat /\ j \in Nat /\ i <= lastAssigned /\ i # j
      BY <1>1, SeqsAreNat
    <2>2. Legacy[i].batch # Legacy[j].batch
      BY <1>2, <2>1, LegacyAssumption
    <2> QED BY <1>2, <2>1, <2>2
  <1> QED BY <1>1, <1>2, <1>3 DEF Init, LogInv

\* A sequence that begins with another one has it as its prefix.
LEMMA PrefixOf ==
  ASSUME NEW E, NEW l \in Seq(E), NEW m \in Seq(E), Len(l) <= Len(m),
         \A s \in 1..Len(l) : m[s] = l[s]
  PROVE  SubSeq(m, 1, Len(l)) = l
  OBVIOUS

\* A function on 1..n is a sequence of length n.
LEMMA TableOf ==
  ASSUME NEW E, NEW n \in Nat, NEW f \in [1..n -> E]
  PROVE  f \in Seq(E) /\ Len(f) = n
  <1>1. f \in Seq(E)
    BY SeqDef
  <1> QED BY <1>1, LenProperties

\* The log's module counts as this one does.
LEMMA SameCardinality == \A S : Visible!Cardinality(S) = Cardinality(S)
  BY DEF Visible!Cardinality, Cardinality

\* Every step of the store leaves the log of a search alone or publishes at its
\* end.
LEMMA LogPublished ==
  ASSUME StoreInv, LogInv, LegacyFits, [Next]_vars
  PROVE  Visible!Publish \/ UNCHANGED [s \in 1..committedThrough |-> VisibleEntry(s)]
  <1>1. /\ LedgerInv /\ Truthful /\ InLedger /\ LandedOnce' /\ TypeOK /\ TypeOK'
        /\ MaxSequence \in Nat /\ Gap \notin Batches /\ LogInv' /\ Retained \in Nat
    BY TableStep, LedgerKept, LogStep, BoundsAssumption, StoreAssumption
       DEF StoreInv, TableInv, LedgerInv
  <1>2. PICK k \in Nat, m \in Nat :
          /\ k = committedThrough /\ m = committedThrough' /\ k <= m
          /\ m <= MaxSequence /\ k <= lastAssigned /\ m <= lastAssigned'
    <2>1. committedThrough <= committedThrough'
      BY <1>1, CutoffStep DEF InLedger, ledgerVars, TypeOK
    <2>2. LedgerInv'
      BY <1>1, LedgerKept
    <2> QED BY <1>1, <2>1, <2>2 DEF TypeOK, LedgerInv, CutoffExact
  <1>3. PICK old : old = [s \in 1..k |-> VisibleEntry(s)]
    OBVIOUS
  <1>4. PICK new : new = [s \in 1..m |-> VisibleEntry(s)']
    OBVIOUS
  <1>5. \A s \in 1..m :
           /\ s \in Seqs /\ batchOf'[s] \in Batches /\ rows'[s] \in {0, 1}
           /\ new[s] = IF rows'[s] = 0 THEN Gap ELSE batchOf'[s]
    <2> SUFFICES ASSUME NEW s \in 1..m
                 PROVE  /\ s \in Seqs /\ batchOf'[s] \in Batches /\ rows'[s] \in {0, 1}
                        /\ new[s] = IF rows'[s] = 0 THEN Gap ELSE batchOf'[s]
      OBVIOUS
    <2>1. s \in Seqs /\ s <= lastAssigned'
      BY <1>1, <1>2 DEF Seqs, TypeOK
    <2>2. batchOf'[s] \in Batches /\ rows'[s] \in {0, 1}
      BY <1>1, <2>1 DEF LogInv, LandedOnce
    <2>3. new[s] = VisibleEntry(s)'
      BY <1>4
    <2> QED BY <2>1, <2>2, <2>3 DEF VisibleEntry
  <1>6. \A s \in 1..k : old[s] = new[s]
    <2> SUFFICES ASSUME NEW s \in 1..k PROVE old[s] = new[s]
      OBVIOUS
    <2>1. s \in Seqs /\ s <= lastAssigned /\ s \in 1..m
      BY <1>1, <1>2 DEF Seqs, TypeOK
    <2>2. s \notin Reserved
      BY <1>1, <1>2 DEF LedgerInv, CutoffExact, Reserved
    <2>3. batchOf'[s] = batchOf[s] /\ rows'[s] = rows[s]
      BY <1>1, <2>1, <2>2, SequencesKept DEF Truthful
    <2>4. old[s] = VisibleEntry(s) /\ new[s] = VisibleEntry(s)'
      BY <1>3, <1>4, <2>1
    <2> QED BY <2>3, <2>4 DEF VisibleEntry
  <1>7. CASE k = m
    BY <1>2, <1>3, <1>4, <1>6, <1>7
  <1>8. CASE k < m
    <2> DEFINE E == Batches \cup {Gap}
    <2>1. new \in Seq(E) /\ Len(new) = m /\ old \in Seq(E) /\ Len(old) = k
      <3>1. new \in [1..m -> E]
        BY <1>4, <1>5
      <3>2. old \in [1..k -> E]
        BY <1>2, <1>3, <1>5, <1>6
      <3> HIDE DEF E
      <3> QED BY <3>1, <3>2, TableOf
    <2>2. SubSeq(new, 1, Len(old)) = old
      <3> HIDE DEF E
      <3> QED BY <1>6, <1>8, <2>1, PrefixOf
    <2>3. \A i, j \in DOMAIN new : i < j /\ new[i] = new[j] /\ new[i] \in Batches =>
             Cardinality({n \in (i + 1)..(j - 1) : new[n] \in Batches}) >= Retained
      <3> SUFFICES ASSUME NEW i \in 1..m, NEW j \in 1..m, i < j, new[i] = new[j], new[i] \in Batches
                   PROVE  Cardinality({n \in (i + 1)..(j - 1) : new[n] \in Batches}) >= Retained
        BY <1>4
      <3>1. /\ i \in Seqs /\ j \in Seqs /\ j <= lastAssigned'
            /\ rows'[i] = 1 /\ batchOf'[i] = batchOf'[j]
        BY <1>1, <1>2, <1>5 DEF TypeOK
      <3>2. Cardinality(StoredIn(i + 1, j - 1)') >= Retained
        BY <1>1, <3>1 DEF LogInv
      <3>3. {n \in (i + 1)..(j - 1) : new[n] \in Batches} = {n \in (i + 1)..(j - 1) : rows'[n] = 1}
        <4>1. \A n \in (i + 1)..(j - 1) : new[n] \in Batches <=> rows'[n] = 1
          BY <1>1, <1>5
        <4> QED BY <4>1
      <3> QED BY <3>2, <3>3 DEF StoredIn
    <2>4. /\ old = [s \in 1..committedThrough |-> VisibleEntry(s)]
          /\ new = [s \in 1..committedThrough |-> VisibleEntry(s)]'
      BY <1>2, <1>3, <1>4
    <2>5. Visible!Publish
      <3>1. Visible!Entries = E
        BY DEF Visible!Entries
      <3>2. Visible!WindowUnique(new)
        <4> SUFFICES ASSUME NEW i \in DOMAIN new, NEW j \in DOMAIN new,
                            i < j, new[i] = new[j], new[i] \in Batches
                     PROVE  Cardinality(Visible!BatchEntries(new, i, j)) >= Retained
          BY SameCardinality DEF Visible!WindowUnique
        <4>1. Visible!BatchEntries(new, i, j) = {n \in (i + 1)..(j - 1) : new[n] \in Batches}
          BY DEF Visible!BatchEntries
        <4> QED BY <2>3, <4>1
      <3>3. /\ new \in Seq(Visible!Entries) /\ Len(new) > Len(old)
            /\ SubSeq(new, 1, Len(old)) = old
        BY <1>2, <1>8, <2>1, <2>2, <3>1
      <3> HIDE DEF E
      <3> QED BY <2>4, <3>2, <3>3 DEF Visible!Publish
    <2> QED BY <2>5
  <1> QED BY <1>2, <1>7, <1>8

\* advanceCutoff, the retries of a committed batch and PruneTerminal: what a
\* search reads at a cutoff stays as it is, and a redelivered batch is stored
\* again only when Retained newer ones have been.
THEOREM StorePublishesLog == LegacyFits => (Spec => PublishesLog)
  <1> SUFFICES ASSUME LegacyFits PROVE Spec => PublishesLog
    OBVIOUS
  <1>1. Init => Visible!Init
    BY DEF Init, LedgerInit, Visible!Init
  <1>2. Init => LogInv
    BY LogInitInv
  <1>3. StoreInv /\ LogInv /\ [Next]_vars => LogInv'
    BY LogStep
  <1>4. StoreInv /\ LogInv /\ [Next]_vars =>
           [Visible!Publish]_([s \in 1..committedThrough |-> VisibleEntry(s)])
    BY LogPublished
  <1>5. Spec => []StoreInv
    BY StoreInvariant
  <1> QED BY <1>1, <1>2, <1>3, <1>4, <1>5, PTL DEF Spec, PublishesLog, Visible!Spec

(***************************************************************************)
(* The accounts                                                            *)
(***************************************************************************)

\* The quota and the HEC tables start empty, and so does the ledger: a
\* reservation of the first ledger format has neither a charge nor a request.
FreshDatabase == Legacy = <<>>

Tables == [lastAssigned |-> lastAssigned, identities |-> identities,
           state |-> state, batchOf |-> batchOf,
           bucket |-> bucket, admissions |-> admissions, taken |-> taken,
           bills |-> bills, requests |-> requests, ordinal |-> ordinal,
           stored |-> stored, policy |-> policy, since |-> since]

States == {"none", "reserved", "committed", "rejected", "abandoned"}
Ids == Channels \X Nat \X Nat
RequestType == [state : {"none", "pending", "indexed", "failed", "expired"},
                sequence : 0 .. MaxSequence, ack : {<<>>} \cup Ids]

(***************************************************************************)
(* The inductive invariant of the accounts                                 *)
(***************************************************************************)
\* The rows of the ledger, as far as the accounts look at them.
RowsOf(D) ==
    /\ D.lastAssigned \in 0 .. MaxSequence
    /\ D.state \in [Seqs -> States]
    /\ D.batchOf \in [Seqs -> Batches \cup {NoBatch}]
    /\ D.identities \subseteq Batches
    /\ \A s \in Seqs : s > D.lastAssigned => D.state[s] = "none"
    /\ \A s \in Seqs : D.state[s] # "none" => D.batchOf[s] \in D.identities

\* A batch is charged when its admission is recorded, and that record lives as
\* long as the identity of the batch.
BillsOf(D) ==
    /\ D.admissions \subseteq D.identities
    /\ D.bills = [b \in Batches |-> IF b \in D.admissions THEN 1 ELSE 0]
    /\ \A s \in Seqs : D.state[s] \in {"reserved", "committed", "abandoned"} =>
          D.batchOf[s] \in D.admissions

MetersTyped(D, time) ==
    /\ D.policy \in [Meters -> Nat] /\ D.since \in [Meters -> Nat]
    /\ D.taken \in [Meters -> Nat]
    /\ D.bucket \in [Meters -> [rate : Nat, next : Nat]]
    /\ \A m \in Meters : D.since[m] <= time

Costs(m) == {costs \in {Cost[b] : b \in Batches} \cup {RejectionCost[b] : b \in Batches} :
                m \in DOMAIN costs}

\* What was taken under a policy is paid for by the time since it was set, but
\* for the last batch, and is paid for in full when the bucket opens again.
MetersOf(D, time) ==
    /\ MetersTyped(D, time)
    /\ \A m \in Meters : D.policy[m] # 0 /\ D.taken[m] # 0 =>
          /\ D.bucket[m].rate = D.policy[m]
          /\ D.taken[m] <= D.policy[m] * (D.bucket[m].next - D.since[m])
          /\ \E costs \in Costs(m) :
                D.taken[m] - costs[m] <= D.policy[m] * (time - D.since[m])

\* A request (of req) and the rows of its batch, of which those in done were
\* committed.
Followed(req, done, st, bo) ==
    /\ \A b \in Hec :
          /\ req[b].state = "none" =>
                b \notin done /\ \A s \in Seqs : st[s] # "none" => bo[s] # b
          /\ req[b].state = "pending" =>
                /\ req[b].sequence \in Seqs /\ b \notin done
                /\ st[req[b].sequence] = "reserved" /\ bo[req[b].sequence] = b
          /\ req[b].state = "indexed" => b \in done
          /\ req[b].state = "failed" => b \notin done
    /\ \A s \in Seqs : st[s] = "reserved" /\ bo[s] \in Hec =>
          req[bo[s]].state = "pending" /\ req[bo[s]].sequence = s
    /\ \A s \in Seqs : st[s] = "committed" => bo[s] \in done

RequestsOf(D) ==
    /\ D.requests \in [Hec -> RequestType]
    /\ Followed(D.requests, D.stored, D.state, D.batchOf)

\* Every acknowledgment that is in the database was given to a client.
AcksOf(D, given) ==
    /\ D.ordinal \in [Channels -> Nat]
    /\ \A b \in Hec : D.requests[b].ack # <<>> => <<D.requests[b].ack, b>> \in given

\* An id that was handed out is behind the key of the process and its ordinals.
IdsNotReused ==
    /\ epoch \in Nat /\ handed \subseteq Ids \X Hec
    /\ \A h \in handed :
          /\ h[1][2] <= epoch
          /\ h[1][2] = epoch => h[1][3] <= ordinal[h[1][1]]
    /\ \A h, k \in handed : h[1] = k[1] => h[2] = k[2]

Sound(D, time, given) ==
    RowsOf(D) /\ BillsOf(D) /\ MetersOf(D, time) /\ RequestsOf(D) /\ AcksOf(D, given)

AccountsInv ==
    /\ now \in Nat
    /\ Sound(Tables, now, handed)
    /\ IdsNotReused
    /\ snapshot # <<>> => Sound(snapshot, now, handed)

-----------------------------------------------------------------------------
(* Lemmas.                                                                 *)

\* A product with a natural number grows with the other factor.
LEMMA Monotone ==
    ASSUME NEW r \in Nat, NEW a \in Int, NEW b \in Int, a <= b
    PROVE  r * a <= r * b /\ r * a \in Int /\ r * b \in Int
  <1>1. b - a \in Nat
    OBVIOUS
  <1>2. r * (b - a) >= 0
    BY <1>1
  <1>3. r * (b - a) = r * b - r * a
    OBVIOUS
  <1>. QED  BY <1>2, <1>3

\* scheduleDuration rounds up: the time that is scheduled pays for the cost.
LEMMA DurationPays ==
    ASSUME NEW cost \in Nat, NEW rate \in Nat, rate # 0
    PROVE  Duration(cost, rate) \in Nat /\ cost <= rate * Duration(cost, rate)
  <1>. DEFINE n == cost + rate - 1
              d == n \div rate
  <1>1. n \in Nat /\ rate > 0
    OBVIOUS
  <1>. HIDE DEF n
  <1>2. d \in Nat /\ n = rate * d + (n % rate) /\ n % rate \in 0 .. rate - 1
    BY <1>1
  <1>3. rate * d >= n - (rate - 1)
    <2>1. rate * d \in Int /\ n % rate \in Int /\ n % rate <= rate - 1
      BY <1>2
    <2>. HIDE DEF d
    <2>. QED  BY <1>1, <1>2, <2>1
  <1>. USE DEF n
  <1>. QED  BY <1>2, <1>3 DEF Duration

\* Only the tables count.
LEMMA SameTables ==
    ASSUME NEW D, NEW E, NEW time, NEW given, Sound(D, time, given),
           E.lastAssigned = D.lastAssigned, E.identities = D.identities,
           E.state = D.state, E.batchOf = D.batchOf, E.bucket = D.bucket,
           E.admissions = D.admissions, E.taken = D.taken, E.bills = D.bills,
           E.requests = D.requests, E.ordinal = D.ordinal, E.stored = D.stored,
           E.policy = D.policy, E.since = D.since
    PROVE  Sound(E, time, given)
  <1>1. RowsOf(E) /\ BillsOf(E)
    BY DEF Sound, RowsOf, BillsOf
  <1>2. MetersOf(E, time)
    BY DEF Sound, MetersOf, MetersTyped
  <1>3. RequestsOf(E) /\ AcksOf(E, given)
    BY DEF Sound, RequestsOf, AcksOf
  <1>. QED  BY <1>1, <1>2, <1>3 DEF Sound

\* Time only pays, and what was given to a client stays given.
LEMMA MetersLater ==
    ASSUME NEW D, NEW t \in Nat, NEW u \in Nat, t <= u, MetersOf(D, t)
    PROVE  MetersOf(D, u)
  <1>1. MetersTyped(D, u)
    BY DEF MetersOf, MetersTyped
  <1>2. ASSUME NEW m \in Meters, D.policy[m] # 0, D.taken[m] # 0
        PROVE  /\ D.bucket[m].rate = D.policy[m]
               /\ D.taken[m] <= D.policy[m] * (D.bucket[m].next - D.since[m])
               /\ \E costs \in Costs(m) :
                     D.taken[m] - costs[m] <= D.policy[m] * (u - D.since[m])
    <2>1. /\ D.bucket[m].rate = D.policy[m]
          /\ D.taken[m] <= D.policy[m] * (D.bucket[m].next - D.since[m])
      BY <1>2 DEF MetersOf
    <2>2. PICK costs \in Costs(m) : D.taken[m] - costs[m] <= D.policy[m] * (t - D.since[m])
      BY <1>2 DEF MetersOf
    <2>3. costs[m] \in Nat
      BY AccountsAssumption DEF Costs
    <2>4. D.policy[m] \in Nat /\ D.taken[m] \in Nat /\ D.since[m] \in Nat
      BY DEF MetersOf, MetersTyped
    <2>5. /\ D.policy[m] * (t - D.since[m]) <= D.policy[m] * (u - D.since[m])
          /\ D.policy[m] * (t - D.since[m]) \in Int /\ D.policy[m] * (u - D.since[m]) \in Int
      BY <2>4, Monotone
    <2>6. D.taken[m] - costs[m] <= D.policy[m] * (u - D.since[m])
      BY <2>2, <2>3, <2>4, <2>5
    <2>. QED  BY <2>1, <2>6
  <1>. QED  BY <1>1, <1>2 DEF MetersOf

\* A sound database stays so as time passes and ids are handed out.
LEMMA SoundLater ==
    ASSUME NEW D, NEW t \in Nat, NEW u \in Nat, t <= u, NEW given, NEW more, given \subseteq more,
           Sound(D, t, given)
    PROVE  Sound(D, u, more)
  <1>1. MetersOf(D, u)
    BY MetersLater DEF Sound
  <1>2. AcksOf(D, more)
    BY DEF Sound, AcksOf
  <1>. QED  BY <1>1, <1>2 DEF Sound

(***************************************************************************)
(* What a call does to the rows of the ledger.                             *)
(***************************************************************************)
Allocation(b, st) ==
    /\ lastAssigned' = lastAssigned + 1 /\ lastAssigned' \in Seqs
    /\ identities' = identities \cup {b}
    /\ state' = [state EXCEPT ![lastAssigned'] = st]
    /\ batchOf' = [batchOf EXCEPT ![lastAssigned'] = b]

Movement ==
    /\ lastAssigned' = lastAssigned /\ batchOf' = batchOf /\ identities' \subseteq identities
    /\ state' \in [Seqs -> States]
    /\ \A s \in Seqs :
          \/ state'[s] = state[s]
          \/ state[s] = "reserved" /\ state'[s] \in {"committed", "abandoned"}
          \/ state[s] \in {"committed", "rejected", "abandoned"} /\ state'[s] = "none"
    /\ \A s \in Seqs : state'[s] # "none" => batchOf[s] \in identities'

\* A call adds one row or moves rows on.
LEMMA CallKinds ==
    ASSUME RowsOf(Tables), LedgerCall
    PROVE  \/ \E b \in Batches, st \in {"reserved", "rejected"} : Allocation(b, st)
           \/ Movement
  <1>1. /\ lastAssigned \in 0 .. MaxSequence /\ state \in [Seqs -> States]
        /\ batchOf \in [Seqs -> Batches \cup {NoBatch}]
        /\ \A s \in Seqs : state[s] # "none" => batchOf[s] \in identities
    BY DEF RowsOf, Tables
  <1>. DEFINE Still == UNCHANGED <<lastAssigned, identities, state, batchOf>>
  <1>2. ASSUME Still PROVE Movement
    BY <1>1, <1>2 DEF Movement
  <1>3. ASSUME NEW b \in Batches, NEW st \in {"reserved", "rejected"}, NEW ph, NEW o,
               AllocateSequence(b, st, ph, o)
        PROVE  \E d \in Batches, t \in {"reserved", "rejected"} : Allocation(d, t)
    <2>1. Allocation(b, st)
      BY <1>1, <1>3, BoundsAssumption DEF AllocateSequence, Allocation, Seqs
    <2>. QED  BY <2>1
  <1>4. ASSUME NEW c \in Callers, NEW o, Acquire(c, o)
        PROVE  Still \/ \E b \in Batches, st \in {"reserved", "rejected"} : Allocation(b, st)
    <2>1. CASE \E b \in Batches : ReserveFresh(b, o)
      BY <2>1, <1>3 DEF ReserveFresh
    <2>2. CASE \E b \in Batches : ReserveExisting(b, o)
      BY <2>2 DEF ReserveExisting
    <2>3. CASE \E s \in Seqs : AcquirePending(s, o) \/ AcquireUngroupedReplay(s, o)
      BY <2>3 DEF AcquirePending, AcquireUngroupedReplay, TakeReservation
    <2>4. CASE \E g \in Seqs : AcquireExistingWriteGroup(g, o)
      BY <2>4 DEF AcquireExistingWriteGroup, reservationVars
    <2>5. CASE \E P \in SUBSET Seqs, g \in Seqs, due \in BOOLEAN : FormWriteGroup(P, g, o, due)
      BY <2>5 DEF FormWriteGroup
    <2>. QED  BY <1>4, <2>1, <2>2, <2>3, <2>4, <2>5 DEF Acquire
  <1>5. CASE \E c \in Callers : Acquire(c, c) \/ Acquire(c, Stale)
    BY <1>2, <1>4, <1>5
  <1>6. CASE \E P \in SUBSET Seqs, due \in BOOLEAN : DeferWriteGroup(P, due)
    BY <1>2, <1>6 DEF DeferWriteGroup
  <1>7. CASE \E b \in Batches : Reject(b)
    BY <1>3, <1>7 DEF Reject
  <1>8. ASSUME NEW c \in Callers, NEW s \in Seqs,
               \/ MarkSending(s, c) \/ CommitReservation(s, c) \/ Abandon(s, c)
               \/ Release(s, c, Nobody) \/ Release(s, c, Stale)
        PROVE  Movement
    <2>1. CASE MarkSending(s, c) \/ Release(s, c, Nobody) \/ Release(s, c, Stale)
      BY <1>2, <2>1 DEF MarkSending, Release, TakeReservation
    <2>2. ASSUME NEW target \in {"committed", "abandoned"}, NEW from,
                 FinishTerminal(s, c, from, target)
          PROVE  Movement
      <3>1. /\ state[s] = "reserved" /\ state' = [state EXCEPT ![s] = target]
            /\ UNCHANGED <<lastAssigned, identities, batchOf>>
        BY <2>2 DEF FinishTerminal, Reserved
      <3>. QED  BY <1>1, <2>2, <3>1 DEF Movement, States
    <2>. QED  BY <1>8, <2>1, <2>2 DEF CommitReservation, Abandon
  <1>9. ASSUME NEW c \in Callers, NEW g \in Seqs,
               \/ MarkWriteGroupSending(g, c) \/ CommitWriteGroup(g, c)
               \/ ReleaseWriteGroup(g, c, Nobody) \/ ReleaseWriteGroup(g, c, Stale)
        PROVE  Movement
    <2>1. CASE MarkWriteGroupSending(g, c) \/ ReleaseWriteGroup(g, c, Nobody)
                  \/ ReleaseWriteGroup(g, c, Stale)
      BY <1>2, <2>1 DEF MarkWriteGroupSending, ReleaseWriteGroup, reservationVars
    <2>2. CASE CommitWriteGroup(g, c)
      <3>1. /\ \A s \in Members(g) : state[s] = "reserved"
            /\ state' = [s \in Seqs |-> IF s \in Members(g) THEN "committed" ELSE state[s]]
            /\ UNCHANGED <<lastAssigned, identities, batchOf>>
        BY <2>2 DEF CommitWriteGroup, Ambiguous, Reserved
      <3>. QED  BY <1>1, <3>1 DEF Movement, States
    <2>. QED  BY <1>9, <2>1, <2>2
  <1>10. CASE PruneTerminal
    <2>1. PICK pruned \in SUBSET Prunable :
             /\ state' = [s \in Seqs |-> IF s \in pruned THEN "none" ELSE state[s]]
             /\ identities' = {b \in identities :
                                  \E s \in Seqs : batchOf[s] = b /\ state'[s] # "none"}
             /\ UNCHANGED <<lastAssigned, batchOf>>
      BY <1>10 DEF PruneTerminal, OldestOf
    <2>2. \A s \in pruned : state[s] \in {"committed", "rejected", "abandoned"}
      BY <2>1 DEF Prunable, BeyondNewest, CommittedRows, RejectedRows
    <2>3. \A s \in Seqs : state'[s] = IF s \in pruned THEN "none" ELSE state[s]
      BY <2>1
    <2>. QED  BY <1>1, <2>1, <2>2, <2>3 DEF Movement, States
  <1>. QED
    BY <1>5, <1>6, <1>7, <1>8, <1>9, <1>10 DEF LedgerCall

-----------------------------------------------------------------------------
(* Calls of the ledger.                                                    *)

\* The current tables, one by one.
LEMMA RowsNow == RowsOf(Tables) <=>
    /\ lastAssigned \in 0 .. MaxSequence /\ state \in [Seqs -> States]
    /\ batchOf \in [Seqs -> Batches \cup {NoBatch}] /\ identities \subseteq Batches
    /\ \A s \in Seqs : s > lastAssigned => state[s] = "none"
    /\ \A s \in Seqs : state[s] # "none" => batchOf[s] \in identities
  BY DEF RowsOf, Tables

\* A new row is the last one, of a batch with an identity.
LEMMA RowsAllocated ==
    ASSUME RowsOf(Tables), NEW b \in Batches, NEW st \in {"reserved", "rejected"},
           Allocation(b, st)
    PROVE  /\ RowsOf(Tables)'
           /\ lastAssigned' \in Seqs /\ state[lastAssigned'] = "none"
           /\ \A s \in Seqs : /\ state'[s] = IF s = lastAssigned' THEN st ELSE state[s]
                              /\ batchOf'[s] = IF s = lastAssigned' THEN b ELSE batchOf[s]
  <1>1. /\ lastAssigned \in 0 .. MaxSequence /\ state \in [Seqs -> States]
        /\ batchOf \in [Seqs -> Batches \cup {NoBatch}] /\ identities \subseteq Batches
        /\ \A s \in Seqs : s > lastAssigned => state[s] = "none"
        /\ \A s \in Seqs : state[s] # "none" => batchOf[s] \in identities
    BY RowsNow
  <1>2. /\ lastAssigned' \in Seqs /\ lastAssigned' = lastAssigned + 1 /\ lastAssigned' > lastAssigned
        /\ identities' = identities \cup {b}
        /\ state' \in [Seqs -> States] /\ batchOf' \in [Seqs -> Batches \cup {NoBatch}]
        /\ \A s \in Seqs : /\ state'[s] = IF s = lastAssigned' THEN st ELSE state[s]
                           /\ batchOf'[s] = IF s = lastAssigned' THEN b ELSE batchOf[s]
    BY <1>1 DEF Allocation, States
  <1>3. \A s \in Seqs : s > lastAssigned' => s > lastAssigned /\ s # lastAssigned'
    BY <1>1, <1>2 DEF Seqs
  <1>4. lastAssigned' \in 0 .. MaxSequence
    BY <1>2 DEF Seqs
  <1>5. RowsOf(Tables)'
    BY <1>1, <1>2, <1>3, <1>4 DEF RowsOf, Tables
  <1>. QED
    BY <1>1, <1>2, <1>5

\* Rows that move on keep their batches.
LEMMA RowsMoved ==
    ASSUME RowsOf(Tables), Movement
    PROVE  RowsOf(Tables)'
  <1>1. /\ lastAssigned \in 0 .. MaxSequence /\ state \in [Seqs -> States]
        /\ batchOf \in [Seqs -> Batches \cup {NoBatch}] /\ identities \subseteq Batches
        /\ \A s \in Seqs : s > lastAssigned => state[s] = "none"
    BY RowsNow
  <1>2. \A s \in Seqs : s > lastAssigned' => state'[s] = "none"
    BY <1>1 DEF Movement
  <1>. QED
    BY <1>1, <1>2 DEF Movement, RowsOf, Tables

\* Charge keeps every meter it is made on within its rate.
LEMMA ChargeMeters ==
    ASSUME now \in Nat, MetersOf(Tables, now),
           NEW costs \in {Cost[b] : b \in Batches} \cup {RejectionCost[b] : b \in Batches},
           Charge(costs), UNCHANGED policyVars
    PROVE  MetersOf(Tables, now)'
  <1>1. /\ policy \in [Meters -> Nat] /\ since \in [Meters -> Nat] /\ taken \in [Meters -> Nat]
        /\ bucket \in [Meters -> [rate : Nat, next : Nat]]
        /\ \A m \in Meters : since[m] <= now
    BY DEF MetersOf, MetersTyped, Tables
  <1>2. DOMAIN costs \subseteq Meters /\ \A m \in DOMAIN costs : costs[m] \in Nat
    BY AccountsAssumption
  <1>3. /\ \A m \in DOMAIN costs : policy[m] # 0 => NextAdmission(m) <= now
        /\ bucket' = Scheduled(costs)
        /\ taken' = [m \in Meters |-> IF m \in DOMAIN costs THEN taken[m] + costs[m] ELSE taken[m]]
        /\ policy' = policy /\ since' = since /\ now' = now
    BY DEF Charge, Allowed, policyVars
  <1>4. \A m \in Meters :
           bucket'[m] = IF m \notin DOMAIN costs THEN bucket[m]
                        ELSE [rate |-> policy[m],
                              next |-> IF policy[m] = 0 THEN 0
                                       ELSE now + Duration(costs[m], policy[m])]
    BY <1>3 DEF Scheduled
  <1>5. \A m \in DOMAIN costs : policy[m] # 0 => Duration(costs[m], policy[m]) \in Nat
    BY <1>1, <1>2, DurationPays
  <1>6. bucket' \in [Meters -> [rate : Nat, next : Nat]]
    <2>1. \A m \in Meters : bucket'[m] \in [rate : Nat, next : Nat]
      <3>. TAKE m \in Meters
      <3>1. CASE m \notin DOMAIN costs
        BY <1>1, <1>4, <3>1
      <3>2. CASE m \in DOMAIN costs
        <4>. DEFINE n == IF policy[m] = 0 THEN 0 ELSE now + Duration(costs[m], policy[m])
        <4>1. n \in Nat /\ policy[m] \in Nat
          BY <1>1, <1>5, <3>2
        <4>2. bucket'[m] = [rate |-> policy[m], next |-> n]
          BY <1>4, <3>2
        <4>. HIDE DEF n
        <4>. QED  BY <4>1, <4>2
      <3>. QED  BY <3>1, <3>2
    <2>2. bucket' = [m \in Meters |-> bucket'[m]]
      BY <1>3 DEF Scheduled
    <2>. QED  BY <2>1, <2>2
  <1>7. taken' \in [Meters -> Nat]
    BY <1>1, <1>2, <1>3
  <1>8. MetersTyped(Tables, now)'
    BY <1>1, <1>3, <1>6, <1>7 DEF MetersTyped, Tables
  <1>9. ASSUME NEW m \in Meters, policy[m] # 0, taken'[m] # 0
        PROVE  /\ bucket'[m].rate = policy[m]
               /\ taken'[m] <= policy[m] * (bucket'[m].next - since[m])
               /\ \E c \in Costs(m) : taken'[m] - c[m] <= policy[m] * (now - since[m])
    <2>1. CASE m \notin DOMAIN costs
      <3>1. taken'[m] = taken[m] /\ bucket'[m] = bucket[m]
        BY <1>3, <1>4, <2>1
      <3>. QED  BY <1>9, <3>1 DEF MetersOf, Tables
    <2>2. CASE m \in DOMAIN costs
      <3>. DEFINE d == Duration(costs[m], policy[m])
      <3>1. /\ policy[m] \in Nat /\ since[m] \in Nat /\ taken[m] \in Nat /\ costs[m] \in Nat
            /\ since[m] <= now /\ d \in Nat /\ costs[m] <= policy[m] * d
        BY <1>1, <1>2, <1>9, <2>2, DurationPays
      <3>2. /\ taken'[m] = taken[m] + costs[m]
            /\ bucket'[m] = [rate |-> policy[m], next |-> now + d]
        BY <1>3, <1>4, <1>9, <2>2
      <3>. HIDE DEF d
      <3>3. taken[m] <= policy[m] * (now - since[m]) /\ policy[m] * (now - since[m]) \in Int
        <4>1. CASE taken[m] = 0
          BY <3>1, <4>1, Monotone
        <4>2. CASE taken[m] # 0
          <5>1. /\ bucket[m].rate = policy[m] /\ bucket[m].next \in Nat
                /\ taken[m] <= policy[m] * (bucket[m].next - since[m])
            BY <1>1, <1>9, <4>2 DEF MetersOf, Tables
          <5>2. bucket[m].next <= now
            BY <1>3, <1>9, <2>2, <5>1 DEF NextAdmission
          <5>3. /\ policy[m] * (bucket[m].next - since[m]) <= policy[m] * (now - since[m])
                /\ policy[m] * (bucket[m].next - since[m]) \in Int
                /\ policy[m] * (now - since[m]) \in Int
            BY <3>1, <5>1, <5>2, Monotone
          <5>. QED  BY <3>1, <5>1, <5>3
        <4>. QED  BY <4>1, <4>2
      <3>4. policy[m] * ((now + d) - since[m]) = policy[m] * (now - since[m]) + policy[m] * d
        BY <3>1
      <3>5. policy[m] * d \in Int
        BY <3>1
      <3>6. taken'[m] <= policy[m] * ((now + d) - since[m])
        BY <3>1, <3>2, <3>3, <3>4, <3>5
      <3>7. costs \in Costs(m) /\ taken'[m] - costs[m] <= policy[m] * (now - since[m])
        <4>1. costs \in Costs(m)
          BY <2>2, Zenon DEF Costs
        <4>2. taken'[m] - costs[m] = taken[m]
          BY <3>1, <3>2
        <4>. QED  BY <3>3, <4>1, <4>2
      <3>8. bucket'[m].rate = policy[m] /\ bucket'[m].next = now + d
        BY <3>2
      <3>9. \E c \in Costs(m) : taken'[m] - c[m] <= policy[m] * (now - since[m])
        BY <3>7, Zenon
      <3>10. taken'[m] <= policy[m] * (bucket'[m].next - since[m])
        BY <3>6, <3>8
      <3>. QED  BY <3>8, <3>9, <3>10, Zenon
    <2>. QED  BY <2>1, <2>2
  <1>. QED
    BY <1>3, <1>8, <1>9 DEF MetersOf, Tables

\* A step that leaves the meters and the clock alone.
LEMMA MetersStay ==
    ASSUME MetersOf(Tables, now), UNCHANGED <<policyVars, bucket, taken>>
    PROVE  MetersOf(Tables, now)'
  BY DEF MetersOf, MetersTyped, Tables, policyVars

\* Reserve charges the batch of its row once.
LEMMA ReserveBills ==
    ASSUME RowsOf(Tables), BillsOf(Tables), NEW b \in Batches, Allocation(b, "reserved"),
           AdmitQuota(b)
    PROVE  BillsOf(Tables)'
  <1>1. /\ lastAssigned' \in Seqs /\ state[lastAssigned'] = "none"
        /\ \A s \in Seqs :
              /\ state'[s] = IF s = lastAssigned' THEN "reserved" ELSE state[s]
              /\ batchOf'[s] = IF s = lastAssigned' THEN b ELSE batchOf[s]
    BY RowsAllocated
  <1>2. /\ admissions \subseteq identities
        /\ bills = [d \in Batches |-> IF d \in admissions THEN 1 ELSE 0]
        /\ \A s \in Seqs : state[s] \in {"reserved", "committed", "abandoned"} =>
              batchOf[s] \in admissions
    BY DEF BillsOf, Tables
  <1>3. /\ admissions' = admissions \cup {b}
        /\ bills' = [d \in Batches |-> IF d \in admissions' THEN 1 ELSE 0]
    <2>1. CASE b \in admissions
      BY <1>2, <2>1 DEF AdmitQuota, quotaVars
    <2>2. CASE b \notin admissions
      <3>1. admissions' = admissions \cup {b} /\ bills' = [bills EXCEPT ![b] = bills[b] + 1]
        BY <2>2 DEF AdmitQuota
      <3>2. bills[b] = 0
        BY <1>2, <2>2
      <3>. QED  BY <1>2, <3>1, <3>2
    <2>. QED  BY <2>1, <2>2
  <1>4. identities' = identities \cup {b}
    BY DEF Allocation
  <1>. QED
    BY <1>1, <1>2, <1>3, <1>4 DEF BillsOf, Tables

\* A rejection is charged to no batch.
LEMMA RejectBills ==
    ASSUME RowsOf(Tables), BillsOf(Tables), NEW b \in Batches, Allocation(b, "rejected"),
           ChargeRejection(b)
    PROVE  BillsOf(Tables)'
  <1>1. /\ \A s \in Seqs :
              /\ state'[s] = IF s = lastAssigned' THEN "rejected" ELSE state[s]
              /\ batchOf'[s] = IF s = lastAssigned' THEN b ELSE batchOf[s]
    BY RowsAllocated
  <1>2. /\ admissions' = admissions /\ bills' = bills /\ identities \subseteq identities'
    BY DEF ChargeRejection, Allocation
  <1>. QED
    BY <1>1, <1>2 DEF BillsOf, Tables

\* What AdmitQuota and ChargeRejection do to the meters.
LEMMA QuotaMeters ==
    ASSUME now \in Nat, MetersOf(Tables, now), NEW b \in Batches,
           AdmitQuota(b) \/ ChargeRejection(b), UNCHANGED policyVars
    PROVE  MetersOf(Tables, now)'
  <1>1. CASE UNCHANGED quotaVars
    BY <1>1, MetersStay DEF quotaVars
  <1>2. CASE Charge(Cost[b])
    BY <1>2, ChargeMeters
  <1>3. CASE Charge(RejectionCost[b])
    BY <1>3, ChargeMeters
  <1>. QED
    BY <1>1, <1>2, <1>3 DEF AdmitQuota, ChargeRejection

-----------------------------------------------------------------------------
(* The steps.                                                              *)

\* The requests of the current tables.
LEMMA RequestsNow ==
    ASSUME AccountsInv
    PROVE  /\ requests \in [Hec -> RequestType] /\ ordinal \in [Channels -> Nat]
           /\ \A b \in Hec :
                 /\ requests[b].state = "none" =>
                       b \notin stored /\ \A s \in Seqs : state[s] # "none" => batchOf[s] # b
                 /\ requests[b].state = "pending" =>
                       /\ requests[b].sequence \in Seqs /\ b \notin stored
                       /\ state[requests[b].sequence] = "reserved"
                       /\ batchOf[requests[b].sequence] = b
                 /\ requests[b].state = "indexed" => b \in stored
                 /\ requests[b].state = "failed" => b \notin stored
                 /\ requests[b].ack # <<>> => <<requests[b].ack, b>> \in handed
           /\ \A s \in Seqs : state[s] = "reserved" /\ batchOf[s] \in Hec =>
                 requests[batchOf[s]].state = "pending" /\ requests[batchOf[s]].sequence = s
           /\ \A s \in Seqs : state[s] = "committed" => batchOf[s] \in stored
  <1>1. /\ requests \in [Hec -> RequestType] /\ ordinal \in [Channels -> Nat]
        /\ Followed(requests, stored, state, batchOf)
        /\ \A b \in Hec : requests[b].ack # <<>> => <<requests[b].ack, b>> \in handed
    BY DEF AccountsInv, Sound, RequestsOf, AcksOf, Tables
  <1>. QED  BY <1>1 DEF Followed

\* A HEC batch is reserved once, with its request and its acknowledgment.
LEMMA HecReserved ==
    ASSUME AccountsInv, NEW b \in Hec, Allocation(b, "reserved"), b \in Batches,
           AdmitHec(b, lastAssigned'), stored' = stored, epoch' = epoch
    PROVE  /\ RequestsOf(Tables)' /\ AcksOf(Tables, handed)' /\ IdsNotReused'
           /\ handed \subseteq handed'
  <1>1. /\ lastAssigned' \in Seqs /\ state[lastAssigned'] = "none"
        /\ \A s \in Seqs :
              /\ state'[s] = IF s = lastAssigned' THEN "reserved" ELSE state[s]
              /\ batchOf'[s] = IF s = lastAssigned' THEN b ELSE batchOf[s]
    BY RowsAllocated DEF AccountsInv, Sound
  <1>. DEFINE a == IF Channel[b] = NoChannel THEN <<>> ELSE NewAck(b)
              r == [state |-> "pending", sequence |-> lastAssigned', ack |-> a]
  <1>2. /\ requests[b].state = "none"
        /\ ordinal' = [c \in Channels |-> ordinal[c] + IF c = Channel[b] THEN 1 ELSE 0]
        /\ requests' = [requests EXCEPT ![b] = r]
        /\ handed' = handed \cup IF Channel[b] = NoChannel THEN {} ELSE {<<NewAck(b), b>>}
    BY DEF AdmitHec
  <1>3. /\ ordinal' \in [Channels -> Nat]
        /\ \A c \in Channels : ordinal[c] <= ordinal'[c] /\ ordinal[c] \in Nat
        /\ Channel[b] \in Channels => ordinal'[Channel[b]] = ordinal[Channel[b]] + 1
    BY <1>2, RequestsNow
  <1>4. epoch \in Nat
    BY DEF AccountsInv, IdsNotReused
  <1>5. Channel[b] # NoChannel =>
           /\ Channel[b] \in Channels
           /\ NewAck(b) = <<Channel[b], epoch, ordinal'[Channel[b]]>>
           /\ NewAck(b) \in Ids /\ NewAck(b) # <<>>
    BY <1>3, <1>4 DEF NewAck, Channels, Ids
  <1>6. a \in {<<>>} \cup Ids /\ (a # <<>> => <<a, b>> \in handed')
    BY <1>2, <1>5
  <1>. HIDE DEF a
  <1>7. r \in RequestType /\ r.state = "pending" /\ r.sequence = lastAssigned' /\ r.ack = a
    BY <1>1, <1>6 DEF RequestType, Seqs
  <1>. HIDE DEF r
  <1>8. /\ requests' \in [Hec -> RequestType]
        /\ \A d \in Hec : requests'[d] = IF d = b THEN r ELSE requests[d]
    BY <1>2, <1>7, RequestsNow
  <1>9. b \notin stored /\ \A s \in Seqs : state[s] # "none" => batchOf[s] # b
    BY <1>2, RequestsNow
  <1>10. ASSUME NEW d \in Hec
         PROVE  /\ requests'[d].state = "none" =>
                      d \notin stored /\ \A s \in Seqs : state'[s] # "none" => batchOf'[s] # d
                /\ requests'[d].state = "pending" =>
                      /\ requests'[d].sequence \in Seqs /\ d \notin stored
                      /\ state'[requests'[d].sequence] = "reserved"
                      /\ batchOf'[requests'[d].sequence] = d
                /\ requests'[d].state = "indexed" => d \in stored
                /\ requests'[d].state = "failed" => d \notin stored
                /\ requests'[d].ack # <<>> => <<requests'[d].ack, d>> \in handed'
    <2>1. CASE d = b
      BY <1>1, <1>6, <1>7, <1>8, <1>9, <2>1
    <2>2. CASE d # b
      <3>1. requests'[d] = requests[d]
        BY <1>8, <2>2
      <3>2. requests[d].state = "pending" => requests[d].sequence # lastAssigned'
        BY <1>1, RequestsNow
      <3>. QED  BY <1>1, <1>2, <2>2, <3>1, <3>2, RequestsNow
    <2>. QED  BY <2>1, <2>2
  <1>11. \A s \in Seqs : state'[s] = "reserved" /\ batchOf'[s] \in Hec =>
            requests'[batchOf'[s]].state = "pending" /\ requests'[batchOf'[s]].sequence = s
    <2>. TAKE s \in Seqs
    <2>1. CASE s = lastAssigned'
      BY <1>1, <1>7, <1>8, <2>1
    <2>2. CASE s # lastAssigned'
      BY <1>1, <1>8, <1>9, <2>2, RequestsNow
    <2>. QED  BY <2>1, <2>2
  <1>12. \A s \in Seqs : state'[s] = "committed" => batchOf'[s] \in stored
    BY <1>1, RequestsNow
  <1>13. RequestsOf(Tables)'
    <2>1. Followed(requests', stored', state', batchOf')
      BY <1>10, <1>11, <1>12 DEF Followed
    <2>. QED  BY <1>8, <2>1 DEF RequestsOf, Tables
  <1>14. AcksOf(Tables, handed)'
    BY <1>3, <1>10 DEF AcksOf, Tables
  <1>15. IdsNotReused'
    <2>1. /\ handed \subseteq Ids \X Hec
          /\ \A h \in handed :
                /\ h[1][2] <= epoch
                /\ h[1][2] = epoch => h[1][3] <= ordinal[h[1][1]]
          /\ \A h, k \in handed : h[1] = k[1] => h[2] = k[2]
      BY DEF AccountsInv, IdsNotReused
    <2>2. \A h \in handed :
             /\ h[1][1] \in Channels /\ h[1][2] \in Nat /\ h[1][3] \in Nat
             /\ h[1][2] = epoch => h[1][3] <= ordinal'[h[1][1]]
      BY <1>3, <2>1 DEF Ids
    <2>3. CASE Channel[b] = NoChannel
      <3>1. handed' = handed
        BY <1>2, <2>3
      <3>. QED  BY <1>4, <2>1, <2>2, <3>1 DEF IdsNotReused
    <2>4. CASE Channel[b] # NoChannel
      <3>. DEFINE new == <<NewAck(b), b>>
      <3>1. /\ handed' = handed \cup {new} /\ new \in Ids \X Hec
            /\ new[1][1] = Channel[b] /\ new[1][2] = epoch
            /\ new[1][3] = ordinal'[Channel[b]] /\ new[2] = b
        BY <1>2, <1>5, <2>4
      <3>. HIDE DEF new
      <3>2. \A h \in handed : h[1] # new[1]
        <4>. SUFFICES ASSUME NEW h \in handed, h[1] = new[1] PROVE FALSE
          OBVIOUS
        <4>1. h[1][1] = Channel[b] /\ h[1][2] = epoch /\ h[1][3] = ordinal'[Channel[b]]
          BY <3>1
        <4>2. h[1][3] <= ordinal[Channel[b]]
          BY <2>1, <4>1
        <4>. QED  BY <1>3, <1>5, <2>4, <4>1, <4>2
      <3>3. epoch <= epoch /\ ordinal'[Channel[b]] <= ordinal'[Channel[b]]
        BY <1>3, <1>4, <1>5, <2>4
      <3>4. \A h \in handed' : h \in handed \/ h = new
        BY <3>1
      <3>5. \A h \in handed' : /\ h[1][2] <= epoch
                               /\ h[1][2] = epoch => h[1][3] <= ordinal'[h[1][1]]
        BY <2>1, <2>2, <3>1, <3>3, <3>4
      <3>6. \A h, k \in handed' : h[1] = k[1] => h[2] = k[2]
        BY <2>1, <3>1, <3>2, <3>4
      <3>. QED  BY <1>4, <2>1, <3>1, <3>5, <3>6 DEF IdsNotReused
    <2>. QED  BY <2>3, <2>4
  <1>. QED
    BY <1>2, <1>13, <1>14, <1>15

\* A row of another batch leaves the requests as they are.
LEMMA OtherAllocated ==
    ASSUME AccountsInv, NEW b \in Batches \ Hec, NEW st \in {"reserved", "rejected"},
           Allocation(b, st), UNCHANGED <<hecVars, handed, stored, epoch>>
    PROVE  RequestsOf(Tables)' /\ AcksOf(Tables, handed)' /\ IdsNotReused'
  <1>1. /\ lastAssigned' \in Seqs /\ state[lastAssigned'] = "none"
        /\ \A s \in Seqs :
              /\ state'[s] = IF s = lastAssigned' THEN st ELSE state[s]
              /\ batchOf'[s] = IF s = lastAssigned' THEN b ELSE batchOf[s]
    BY RowsAllocated DEF AccountsInv, Sound
  <1>2. requests' = requests /\ ordinal' = ordinal
    BY DEF hecVars
  <1>3. ASSUME NEW d \in Hec
        PROVE  /\ requests[d].state = "none" =>
                     d \notin stored /\ \A s \in Seqs : state'[s] # "none" => batchOf'[s] # d
               /\ requests[d].state = "pending" =>
                     /\ requests[d].sequence \in Seqs /\ d \notin stored
                     /\ state'[requests[d].sequence] = "reserved"
                     /\ batchOf'[requests[d].sequence] = d
               /\ requests[d].state = "indexed" => d \in stored
               /\ requests[d].state = "failed" => d \notin stored
    <2>1. requests[d].state = "pending" => requests[d].sequence # lastAssigned'
      BY <1>1, RequestsNow
    <2>2. \A s \in Seqs : state'[s] # "none" =>
             \/ batchOf'[s] = b
             \/ state[s] # "none" /\ batchOf'[s] = batchOf[s]
      BY <1>1
    <2>3. requests[d].state = "none" => \A s \in Seqs : state'[s] # "none" => batchOf'[s] # d
      <3>1. b # d
        OBVIOUS
      <3>2. requests[d].state = "none" => \A s \in Seqs : state[s] # "none" => batchOf[s] # d
        BY RequestsNow
      <3>. QED  BY <2>2, <3>1, <3>2
    <2>4. requests[d].state = "pending" =>
             /\ state'[requests[d].sequence] = "reserved"
             /\ batchOf'[requests[d].sequence] = d
      BY <1>1, <2>1, RequestsNow
    <2>. QED  BY <2>3, <2>4, RequestsNow
  <1>4. /\ \A s \in Seqs : state'[s] = "reserved" /\ batchOf'[s] \in Hec =>
              requests[batchOf'[s]].state = "pending" /\ requests[batchOf'[s]].sequence = s
        /\ \A s \in Seqs : state'[s] = "committed" => batchOf'[s] \in stored
    BY <1>1, RequestsNow
  <1>5. RequestsOf(Tables)'
    <2>1. Followed(requests', stored', state', batchOf')
      BY <1>2, <1>3, <1>4 DEF Followed
    <2>. QED  BY <1>2, <2>1, RequestsNow DEF RequestsOf, Tables
  <1>6. AcksOf(Tables, handed)' /\ IdsNotReused'
    BY <1>2, RequestsNow DEF AcksOf, Tables, AccountsInv, IdsNotReused
  <1>. QED  BY <1>5, <1>6

\* What the triggers make of a request whose reservation moves on.
LEMMA Follows ==
    ASSUME Movement, NEW r \in RequestType,
           r.state = "pending" => r.sequence \in Seqs /\ state[r.sequence] = "reserved"
    PROVE  /\ FollowReservation(r) \in RequestType /\ FollowReservation(r).ack = r.ack
           /\ r.state # "pending" => FollowReservation(r).state = r.state
           /\ r.state = "pending" =>
                 /\ FollowReservation(r).sequence = r.sequence
                 /\ FollowReservation(r).state = IF state'[r.sequence] = "committed" THEN "indexed"
                                                 ELSE IF state'[r.sequence] = "abandoned" THEN "failed"
                                                 ELSE "pending"
  <1>. DEFINE f == FollowReservation(r)
  <1>1. f \in {r, [r EXCEPT !.sequence = 0], [r EXCEPT !.state = "indexed"],
               [r EXCEPT !.state = "failed"]}
    BY DEF FollowReservation
  <1>2. /\ r = [state |-> r.state, sequence |-> r.sequence, ack |-> r.ack]
        /\ r.state \in {"none", "pending", "indexed", "failed", "expired"}
        /\ r.sequence \in 0 .. MaxSequence /\ r.ack \in {<<>>} \cup Ids
    BY DEF RequestType
  <1>3. f \in RequestType /\ f.ack = r.ack
    <2>. HIDE DEF f
    <2>. QED  BY <1>1, <1>2, BoundsAssumption DEF RequestType
  <1>4. CASE r.state # "pending"
    <2>1. f \in {r, [r EXCEPT !.sequence = 0]}
      BY <1>4 DEF FollowReservation
    <2>. HIDE DEF f
    <2>2. f.state = r.state
      BY <1>2, <2>1
    <2>. USE DEF f
    <2>. QED  BY <1>3, <1>4, <2>2
  <1>5. CASE r.state = "pending"
    <2>1. r.sequence \in Seqs /\ r.sequence # 0 /\ state[r.sequence] = "reserved"
      BY <1>5 DEF Seqs
    <2>2. state'[r.sequence] \in {"reserved", "committed", "abandoned"}
      BY <2>1 DEF Movement
    <2>3. CASE state'[r.sequence] = "reserved"
      BY <1>3, <1>5, <2>1, <2>3 DEF FollowReservation
    <2>4. CASE state'[r.sequence] = "committed"
      <3>1. f = [r EXCEPT !.state = "indexed"]
        BY <1>5, <2>1, <2>4 DEF FollowReservation
      <3>2. f.state = "indexed" /\ f.sequence = r.sequence
        BY <1>2, <3>1
      <3>. QED  BY <1>3, <1>5, <2>4, <3>2
    <2>5. CASE state'[r.sequence] = "abandoned"
      <3>1. f = [r EXCEPT !.state = "failed"]
        BY <1>5, <2>1, <2>5 DEF FollowReservation
      <3>2. f.state = "failed" /\ f.sequence = r.sequence
        BY <1>2, <3>1
      <3>. QED  BY <1>3, <1>5, <2>5, <3>2
    <2>. QED  BY <2>2, <2>3, <2>4, <2>5
  <1>. QED
    BY <1>4, <1>5

\* The identities that PruneTerminal deletes take their charges with them.
LEMMA SettleBills ==
    ASSUME BillsOf(Tables), Movement, SettleAccounts
    PROVE  BillsOf(Tables)'
  <1>1. /\ admissions \subseteq identities
        /\ bills = [b \in Batches |-> IF b \in admissions THEN 1 ELSE 0]
        /\ \A s \in Seqs : state[s] \in {"reserved", "committed", "abandoned"} =>
              batchOf[s] \in admissions
    BY DEF BillsOf, Tables
  <1>2. /\ admissions' = admissions \cap identities'
        /\ bills' = [b \in Batches |-> IF b \in identities' THEN bills[b] ELSE 0]
    BY DEF SettleAccounts
  <1>3. bills' = [b \in Batches |-> IF b \in admissions' THEN 1 ELSE 0]
    BY <1>1, <1>2
  <1>4. \A s \in Seqs : state'[s] \in {"reserved", "committed", "abandoned"} =>
           batchOf'[s] \in admissions'
    <2>. SUFFICES ASSUME NEW s \in Seqs, state'[s] \in {"reserved", "committed", "abandoned"}
                  PROVE  batchOf'[s] \in admissions'
      OBVIOUS
    <2>1. state[s] \in {"reserved", "committed", "abandoned"} /\ batchOf'[s] = batchOf[s]
      BY DEF Movement
    <2>2. batchOf[s] \in identities'
      BY DEF Movement
    <2>. QED  BY <1>1, <1>2, <2>1, <2>2
  <1>. QED
    BY <1>2, <1>3, <1>4 DEF BillsOf, Tables

\* Requests keep in step with the rows that move.
LEMMA SettleRequests ==
    ASSUME AccountsInv, Movement, SettleAccounts
    PROVE  RequestsOf(Tables)' /\ AcksOf(Tables, handed)'
  <1>1. /\ requests' = [b \in Hec |-> FollowReservation(requests[b])]
        /\ ordinal' = ordinal /\ handed' = handed
        /\ stored' = stored \cup {batchOf[s] : s \in {t \in Seqs : state'[t] = "committed"}}
    BY DEF SettleAccounts
  <1>2. \A d : d \in stored' <=>
           d \in stored \/ \E s \in Seqs : state'[s] = "committed" /\ d = batchOf[s]
    BY <1>1
  <1>3. \A s \in Seqs : state'[s] = "committed" =>
           batchOf[s] \in stored \/ state[s] = "reserved"
    BY RequestsNow DEF Movement
  <1>4. ASSUME NEW b \in Hec
        PROVE  /\ requests'[b] \in RequestType /\ requests'[b].ack = requests[b].ack
               /\ requests[b].state # "pending" => requests'[b].state = requests[b].state
               /\ requests[b].state = "pending" =>
                     /\ requests'[b].sequence = requests[b].sequence
                     /\ requests'[b].state =
                           IF state'[requests[b].sequence] = "committed" THEN "indexed"
                           ELSE IF state'[requests[b].sequence] = "abandoned" THEN "failed"
                           ELSE "pending"
    <2>1. requests'[b] = FollowReservation(requests[b])
      BY <1>1
    <2>2. /\ requests[b] \in RequestType
          /\ requests[b].state = "pending" =>
                requests[b].sequence \in Seqs /\ state[requests[b].sequence] = "reserved"
      BY RequestsNow
    <2>. QED  BY <2>1, <2>2, Follows
  <1>5. requests' \in [Hec -> RequestType]
    BY <1>1, <1>4
  <1>6. \A b \in Hec : requests[b].state # "pending" => (b \in stored' <=> b \in stored)
    <2>. SUFFICES ASSUME NEW b \in Hec, requests[b].state # "pending", b \in stored'
                  PROVE  b \in stored
      BY <1>2
    <2>. SUFFICES ASSUME NEW s \in Seqs, state'[s] = "committed", b = batchOf[s]
                  PROVE  b \in stored
      BY <1>2
    <2>. QED  BY <1>3, RequestsNow
  <1>7. \A b \in Hec : requests[b].state = "pending" =>
           (b \in stored' <=> state'[requests[b].sequence] = "committed")
    <2>. SUFFICES ASSUME NEW b \in Hec, requests[b].state = "pending"
                  PROVE  b \in stored' <=> state'[requests[b].sequence] = "committed"
      OBVIOUS
    <2>1. /\ requests[b].sequence \in Seqs /\ b \notin stored
          /\ batchOf[requests[b].sequence] = b
      BY RequestsNow
    <2>2. \A s \in Seqs : state'[s] = "committed" /\ batchOf[s] = b => s = requests[b].sequence
      BY <1>3, <2>1, RequestsNow
    <2>. QED  BY <1>2, <2>1, <2>2
  <1>8. \A s \in Seqs : state'[s] # "none" => state[s] # "none"
    BY DEF Movement
  <1>9. ASSUME NEW b \in Hec
        PROVE  /\ requests'[b].state = "none" =>
                     b \notin stored' /\ \A s \in Seqs : state'[s] # "none" => batchOf'[s] # b
               /\ requests'[b].state = "pending" =>
                     /\ requests'[b].sequence \in Seqs /\ b \notin stored'
                     /\ state'[requests'[b].sequence] = "reserved"
                     /\ batchOf'[requests'[b].sequence] = b
               /\ requests'[b].state = "indexed" => b \in stored'
               /\ requests'[b].state = "failed" => b \notin stored'
    <2>0. batchOf' = batchOf
      BY DEF Movement
    <2>1. CASE requests[b].state # "pending"
      <3>1. requests'[b].state = requests[b].state /\ (b \in stored' <=> b \in stored)
        BY <1>4, <1>6, <2>1
      <3>2. requests[b].state = "none" => \A s \in Seqs : state'[s] # "none" => batchOf[s] # b
        BY <1>8, RequestsNow
      <3>. QED  BY <2>0, <2>1, <3>1, <3>2, RequestsNow
    <2>2. CASE requests[b].state = "pending"
      <3>. DEFINE s == requests[b].sequence
      <3>1. s \in Seqs /\ state[s] = "reserved" /\ batchOf[s] = b
        BY <2>2, RequestsNow
      <3>2. state'[s] \in {"reserved", "committed", "abandoned"}
        BY <3>1 DEF Movement
      <3>3. b \in stored' <=> state'[s] = "committed"
        BY <1>7, <2>2
      <3>4. /\ requests'[b].sequence = s
            /\ requests'[b].state = IF state'[s] = "committed" THEN "indexed"
                                    ELSE IF state'[s] = "abandoned" THEN "failed" ELSE "pending"
        BY <1>4, <2>2
      <3>. HIDE DEF s
      <3>. QED  BY <2>0, <3>1, <3>2, <3>3, <3>4
    <2>. QED  BY <2>1, <2>2
  <1>10. \A s \in Seqs : state'[s] = "reserved" /\ batchOf'[s] \in Hec =>
            requests'[batchOf'[s]].state = "pending" /\ requests'[batchOf'[s]].sequence = s
    <2>. SUFFICES ASSUME NEW s \in Seqs, state'[s] = "reserved", batchOf'[s] \in Hec
                  PROVE  requests'[batchOf'[s]].state = "pending"
                         /\ requests'[batchOf'[s]].sequence = s
      OBVIOUS
    <2>1. state[s] = "reserved" /\ batchOf'[s] = batchOf[s]
      BY DEF Movement
    <2>2. requests[batchOf[s]].state = "pending" /\ requests[batchOf[s]].sequence = s
      BY <2>1, RequestsNow
    <2>. QED  BY <1>4, <2>1, <2>2
  <1>11. \A s \in Seqs : state'[s] = "committed" => batchOf'[s] \in stored'
    BY <1>2 DEF Movement
  <1>12. RequestsOf(Tables)'
    <2>1. Followed(requests', stored', state', batchOf')
      BY <1>9, <1>10, <1>11 DEF Followed
    <2>. QED  BY <1>5, <2>1 DEF RequestsOf, Tables
  <1>13. AcksOf(Tables, handed)'
    BY <1>1, <1>4, RequestsNow DEF AcksOf, Tables
  <1>. QED
    BY <1>12, <1>13

\* The backup stays what it is.
LEMMA BackupStays ==
    ASSUME AccountsInv, snapshot' = snapshot, now' \in Nat, now <= now', handed \subseteq handed'
    PROVE  snapshot' # <<>> => Sound(snapshot', now', handed')
  <1>. SUFFICES ASSUME snapshot # <<>> PROVE Sound(snapshot, now', handed')
    OBVIOUS
  <1>1. now \in Nat /\ Sound(snapshot, now, handed)
    BY DEF AccountsInv
  <1>. QED  BY <1>1, SoundLater

\* A call of the ledger, with its quota and its request.
LEMMA CallKeeps == ASSUME AccountsInv, Call PROVE AccountsInv'
  <1>1. /\ now \in Nat /\ RowsOf(Tables) /\ BillsOf(Tables) /\ MetersOf(Tables, now)
        /\ IdsNotReused
    BY DEF AccountsInv, Sound
  <1>2. /\ UNCHANGED policyVars /\ now' = now /\ epoch' = epoch /\ snapshot' = snapshot
    BY DEF Call, policyVars
  <1>3. lastAssigned \in Nat
    BY <1>1, BoundsAssumption DEF RowsOf, Tables
  <1>. DEFINE Goal == /\ RowsOf(Tables)' /\ BillsOf(Tables)' /\ MetersOf(Tables, now)'
                      /\ RequestsOf(Tables)' /\ AcksOf(Tables, handed)' /\ IdsNotReused'
                      /\ handed \subseteq handed'
  <1>4. ASSUME NEW b \in Batches, NEW st \in {"reserved", "rejected"}, Allocation(b, st)
        PROVE  Goal
    <2>1. /\ RowsOf(Tables)' /\ lastAssigned' \in Seqs
          /\ state'[lastAssigned'] = st /\ batchOf'[lastAssigned'] = b
      BY <1>1, <1>4, RowsAllocated
    <2>2. Allocates
      BY <1>4 DEF Allocation, Allocates
    <2>3. CASE st = "reserved"
      <3>1. /\ AdmitQuota(b) /\ stored' = stored
            /\ IF b \in Hec THEN AdmitHec(b, lastAssigned') ELSE UNCHANGED <<hecVars, handed>>
        BY <2>1, <2>2, <2>3 DEF Call, ReserveAccounts
      <3>2. BillsOf(Tables)'
        BY <1>1, <1>4, <2>3, <3>1, ReserveBills
      <3>3. MetersOf(Tables, now)'
        BY <1>1, <1>2, <3>1, QuotaMeters
      <3>4. CASE b \in Hec
        BY <1>2, <1>4, <2>1, <2>3, <3>1, <3>2, <3>3, <3>4, HecReserved
      <3>5. CASE b \notin Hec
        <4>1. UNCHANGED <<hecVars, handed, stored, epoch>>
          BY <1>2, <3>1, <3>5
        <4>2. RequestsOf(Tables)' /\ AcksOf(Tables, handed)' /\ IdsNotReused'
          BY <1>4, <3>5, <4>1, OtherAllocated
        <4>. QED  BY <2>1, <3>2, <3>3, <4>1, <4>2
      <3>. QED  BY <3>4, <3>5
    <2>4. CASE st = "rejected"
      <3>1. /\ b \notin Hec /\ ChargeRejection(b)
            /\ UNCHANGED <<hecVars, handed, stored>>
        BY <2>1, <2>2, <2>4 DEF Call, RejectAccounts
      <3>2. BillsOf(Tables)'
        BY <1>1, <1>4, <2>4, <3>1, RejectBills
      <3>3. MetersOf(Tables, now)'
        BY <1>1, <1>2, <3>1, QuotaMeters
      <3>4. RequestsOf(Tables)' /\ AcksOf(Tables, handed)' /\ IdsNotReused'
        BY <1>2, <1>4, <3>1, OtherAllocated
      <3>. QED  BY <2>1, <3>1, <3>2, <3>3, <3>4
    <2>. QED  BY <2>3, <2>4
  <1>5. ASSUME Movement PROVE Goal
    <2>1. SettleAccounts
      BY <1>3, <1>5 DEF Call, Allocates, Movement
    <2>2. RowsOf(Tables)' /\ BillsOf(Tables)'
      BY <1>1, <1>5, <2>1, RowsMoved, SettleBills
    <2>3. RequestsOf(Tables)' /\ AcksOf(Tables, handed)'
      BY <1>5, <2>1, SettleRequests
    <2>4. bucket' = bucket /\ taken' = taken /\ ordinal' = ordinal /\ handed' = handed
      BY <2>1 DEF SettleAccounts
    <2>5. MetersOf(Tables, now)'
      BY <1>1, <1>2, <2>4, MetersStay
    <2>6. IdsNotReused'
      BY <1>1, <1>2, <2>4 DEF IdsNotReused
    <2>. QED  BY <2>2, <2>3, <2>4, <2>5, <2>6
  <1>6. Goal
    <2>. HIDE DEF Goal
    <2>1. LedgerCall
      BY DEF Call
    <2>. QED  BY <1>1, <1>4, <1>5, <2>1, CallKinds
  <1>7. Sound(Tables, now, handed)'
    BY <1>6 DEF Sound
  <1>8. snapshot' # <<>> => Sound(snapshot', now', handed')
    <2>1. now' \in Nat /\ now <= now'
      BY <1>1, <1>2
    <2>. QED  BY <1>2, <1>6, <2>1, BackupStays
  <1>. QED
    BY <1>1, <1>2, <1>6, <1>7, <1>8 DEF AccountsInv

\* A request whose retention is over has no reservation any more.
LEMMA PruneKeeps ==
    ASSUME AccountsInv, NEW b \in Hec, PruneHECTerminalRequests(b)
    PROVE  AccountsInv'
  <1>1. /\ requests[b].state \in {"indexed", "failed"}
        /\ requests' = [requests EXCEPT ![b] = [NoRequest EXCEPT !.state = "expired"]]
        /\ UNCHANGED <<ledgerVars, policyVars, quotaVars, ordinal, epoch, snapshot, stored, handed>>
    BY DEF PruneHECTerminalRequests
  <1>2. UNCHANGED <<lastAssigned, identities, state, batchOf, now, policy, since, bucket,
                    admissions, taken, bills, ordinal, epoch, snapshot, stored, handed>>
    BY <1>1 DEF ledgerVars, reservationVars, policyVars, quotaVars
  <1>3. PICK r \in RequestType : /\ r = [NoRequest EXCEPT !.state = "expired"]
                                 /\ r.state = "expired" /\ r.ack = <<>>
    <2>. DEFINE q == [NoRequest EXCEPT !.state = "expired"]
    <2>1. q \in RequestType /\ q.state = "expired" /\ q.ack = <<>>
      BY BoundsAssumption DEF NoRequest, RequestType
    <2>. QED  BY <2>1
  <1>4. /\ requests' \in [Hec -> RequestType]
        /\ \A d \in Hec : requests'[d] = IF d = b THEN r ELSE requests[d]
    BY <1>1, <1>3, RequestsNow
  <1>5. Followed(requests', stored, state, batchOf)
    <2>1. \A s \in Seqs : state[s] = "reserved" => batchOf[s] # b
      BY <1>1, RequestsNow
    <2>2. \A s \in Seqs : state[s] = "reserved" /\ batchOf[s] \in Hec =>
             requests'[batchOf[s]].state = "pending" /\ requests'[batchOf[s]].sequence = s
      BY <1>4, <2>1, RequestsNow
    <2>3. \A d \in Hec : d = b \/ requests'[d] = requests[d]
      BY <1>4
    <2>4. requests'[b].state = "expired"
      BY <1>3, <1>4
    <2>5. ASSUME NEW d \in Hec
          PROVE  /\ requests'[d].state = "none" =>
                       d \notin stored /\ \A s \in Seqs : state[s] # "none" => batchOf[s] # d
                 /\ requests'[d].state = "pending" =>
                       /\ requests'[d].sequence \in Seqs /\ d \notin stored
                       /\ state[requests'[d].sequence] = "reserved"
                       /\ batchOf[requests'[d].sequence] = d
                 /\ requests'[d].state = "indexed" => d \in stored
                 /\ requests'[d].state = "failed" => d \notin stored
      <3>1. CASE d = b
        BY <2>4, <3>1
      <3>2. CASE d # b
        <4>1. requests'[d] = requests[d]
          BY <2>3, <3>2
        <4>. QED  BY <4>1, RequestsNow
      <3>. QED  BY <3>1, <3>2
    <2>6. \A s \in Seqs : state[s] = "committed" => batchOf[s] \in stored
      BY RequestsNow
    <2>. QED  BY <2>2, <2>5, <2>6 DEF Followed
  <1>6. RequestsOf(Tables)' /\ AcksOf(Tables, handed)'
    BY <1>2, <1>3, <1>4, <1>5, RequestsNow DEF RequestsOf, AcksOf, Tables
  <1>7. RowsOf(Tables)' /\ BillsOf(Tables)' /\ MetersOf(Tables, now)'
    <2>1. RowsOf(Tables) /\ BillsOf(Tables) /\ MetersOf(Tables, now)
      BY DEF AccountsInv, Sound
    <2>2. RowsOf(Tables)' /\ BillsOf(Tables)'
      BY <1>2, <2>1 DEF RowsOf, BillsOf, Tables
    <2>3. MetersOf(Tables, now)'
      BY <1>2, <2>1, MetersStay DEF policyVars
    <2>. QED  BY <2>2, <2>3
  <1>8. Sound(Tables, now, handed)'
    BY <1>6, <1>7 DEF Sound
  <1>9. /\ now' \in Nat /\ IdsNotReused'
        /\ snapshot' # <<>> => Sound(snapshot', now', handed')
    <2>1. now \in Nat /\ now' = now
      BY <1>2 DEF AccountsInv
    <2>2. now <= now'
      BY <2>1
    <2>3. IdsNotReused'
      BY <1>2 DEF AccountsInv, IdsNotReused
    <2>. QED  BY <1>2, <2>1, <2>2, <2>3, BackupStays
  <1>. QED
    BY <1>8, <1>9 DEF AccountsInv

\* The clock runs.
LEMMA TickKeeps == ASSUME AccountsInv, Tick PROVE AccountsInv'
  <1>1. /\ now' = now + 1 /\ now \in Nat
        /\ UNCHANGED <<lastAssigned, identities, state, batchOf, policy, since, bucket, admissions,
                       taken, bills, requests, ordinal, epoch, snapshot, stored, handed>>
    BY DEF Tick, AccountsInv, ledgerVars, reservationVars, quotaVars, hecVars
  <1>2. now' \in Nat /\ now <= now'
    BY <1>1
  <1>3. Sound(Tables, now', handed)
    BY <1>1, <1>2, SoundLater DEF AccountsInv
  <1>4. Tables' = Tables
    BY <1>1 DEF Tables
  <1>5. Sound(Tables, now, handed)'
    BY <1>1, <1>3, <1>4
  <1>6. IdsNotReused'
    BY <1>1 DEF AccountsInv, IdsNotReused
  <1>7. snapshot' # <<>> => Sound(snapshot', now', handed')
    BY <1>1, <1>2, BackupStays
  <1>. QED
    BY <1>2, <1>5, <1>6, <1>7 DEF AccountsInv

\* With a new rate a meter starts from nothing.
LEMMA SetPolicyKeeps ==
    ASSUME AccountsInv, NEW m \in Meters, NEW rate \in Policies[m], SetPolicy(m, rate)
    PROVE  AccountsInv'
  <1>1. /\ policy' = [policy EXCEPT ![m] = rate] /\ since' = [since EXCEPT ![m] = now]
        /\ taken' = [taken EXCEPT ![m] = 0]
        /\ UNCHANGED <<lastAssigned, identities, state, batchOf, now, bucket, admissions,
                       bills, requests, ordinal, epoch, snapshot, stored, handed>>
    BY DEF SetPolicy, ledgerVars, reservationVars, hecVars
  <1>2. now \in Nat /\ rate \in Nat
    BY AccountsAssumption DEF AccountsInv
  <1>3. /\ policy \in [Meters -> Nat] /\ since \in [Meters -> Nat] /\ taken \in [Meters -> Nat]
        /\ bucket \in [Meters -> [rate : Nat, next : Nat]]
        /\ \A n \in Meters : since[n] <= now
    BY DEF AccountsInv, Sound, MetersOf, MetersTyped, Tables
  <1>4. \A n \in Meters : /\ policy'[n] = IF n = m THEN rate ELSE policy[n]
                          /\ since'[n] = IF n = m THEN now ELSE since[n]
                          /\ taken'[n] = IF n = m THEN 0 ELSE taken[n]
    BY <1>1, <1>3
  <1>5. MetersTyped(Tables, now)'
    <2>1. /\ policy' \in [Meters -> Nat] /\ since' \in [Meters -> Nat]
          /\ taken' \in [Meters -> Nat]
      BY <1>1, <1>2, <1>3
    <2>2. \A n \in Meters : since'[n] <= now
      BY <1>2, <1>3, <1>4
    <2>. QED  BY <1>1, <1>3, <2>1, <2>2 DEF MetersTyped, Tables
  <1>6. ASSUME NEW n \in Meters, policy'[n] # 0, taken'[n] # 0
        PROVE  /\ bucket[n].rate = policy'[n]
               /\ taken'[n] <= policy'[n] * (bucket[n].next - since'[n])
               /\ \E costs \in Costs(n) : taken'[n] - costs[n] <= policy'[n] * (now - since'[n])
    <2>1. policy'[n] = policy[n] /\ since'[n] = since[n] /\ taken'[n] = taken[n]
      BY <1>4, <1>6
    <2>. QED  BY <1>6, <2>1 DEF AccountsInv, Sound, MetersOf, Tables
  <1>7. MetersOf(Tables, now)'
    BY <1>1, <1>5, <1>6 DEF MetersOf, Tables
  <1>8. /\ RowsOf(Tables)' /\ BillsOf(Tables)' /\ RequestsOf(Tables)' /\ AcksOf(Tables, handed)'
        /\ IdsNotReused'
    <2>1. RowsOf(Tables)' /\ BillsOf(Tables)'
      BY <1>1 DEF AccountsInv, Sound, RowsOf, BillsOf, Tables
    <2>2. RequestsOf(Tables)' /\ AcksOf(Tables, handed)' /\ IdsNotReused'
      BY <1>1 DEF AccountsInv, Sound, RequestsOf, AcksOf, IdsNotReused, Tables
    <2>. QED  BY <2>1, <2>2
  <1>9. Sound(Tables, now, handed)'
    BY <1>7, <1>8 DEF Sound
  <1>10. now <= now' /\ now' \in Nat /\ handed \subseteq handed'
    BY <1>1, <1>2
  <1>11. snapshot' # <<>> => Sound(snapshot', now', handed')
    BY <1>1, <1>10, BackupStays
  <1>. QED
    BY <1>8, <1>9, <1>10, <1>11 DEF AccountsInv

\* Every id that was handed out is behind a later key.
LEMMA EpochPasses ==
    ASSUME IdsNotReused, epoch' = epoch + 1, handed' = handed
    PROVE  IdsNotReused'
  <1>1. /\ epoch \in Nat /\ handed \subseteq Ids \X Hec
        /\ \A h \in handed : h[1][2] <= epoch
        /\ \A h, k \in handed : h[1] = k[1] => h[2] = k[2]
    BY DEF IdsNotReused
  <1>2. \A h \in handed : h[1][2] \in Nat
    BY <1>1 DEF Ids
  <1>3. \A h \in handed : h[1][2] <= epoch + 1 /\ h[1][2] # epoch + 1
    BY <1>1, <1>2
  <1>. QED
    BY <1>1, <1>3 DEF IdsNotReused

\* A new process has a new key.
LEMMA RestartKeeps == ASSUME AccountsInv, Restart PROVE AccountsInv'
  <1>1. /\ epoch' = epoch + 1
        /\ UNCHANGED <<lastAssigned, identities, state, batchOf, now, policy, since, bucket,
                       admissions, taken, bills, requests, ordinal, snapshot, stored, handed>>
    BY DEF Restart, Reopen, policyVars, quotaVars, hecVars
  <1>2. Tables' = Tables
    BY <1>1 DEF Tables
  <1>3. /\ Sound(Tables, now, handed)' /\ now' \in Nat
        /\ snapshot' # <<>> => Sound(snapshot', now', handed')
    BY <1>1, <1>2 DEF AccountsInv
  <1>4. IdsNotReused'
    BY <1>1, EpochPasses DEF AccountsInv
  <1>. QED
    BY <1>3, <1>4 DEF AccountsInv

\* A backup is sound when it is taken.
LEMMA BackupKeeps == ASSUME AccountsInv, Backup PROVE AccountsInv'
  <1>1. /\ UNCHANGED <<lastAssigned, identities, state, batchOf, now, policy, since, bucket,
                       admissions, taken, bills, requests, ordinal, epoch, stored, handed>>
        /\ snapshot' = [lastAssigned |-> lastAssigned, committedThrough |-> committedThrough,
                        identities |-> identities, state |-> state, phase |-> phase,
                        batchOf |-> batchOf, group |-> group, groupState |-> groupState,
                        bucket |-> bucket, admissions |-> admissions, taken |-> taken,
                        bills |-> bills, requests |-> requests, ordinal |-> ordinal,
                        stored |-> stored, policy |-> policy, since |-> since]
    BY DEF Backup, ledgerVars, reservationVars, policyVars, quotaVars, hecVars
  <1>2. Tables' = Tables
    BY <1>1 DEF Tables
  <1>3. /\ Sound(Tables, now, handed)' /\ now' \in Nat /\ IdsNotReused'
    BY <1>1, <1>2 DEF AccountsInv, IdsNotReused
  <1>4. /\ snapshot'.lastAssigned = Tables.lastAssigned
        /\ snapshot'.identities = Tables.identities
        /\ snapshot'.state = Tables.state /\ snapshot'.batchOf = Tables.batchOf
        /\ snapshot'.bucket = Tables.bucket /\ snapshot'.admissions = Tables.admissions
        /\ snapshot'.taken = Tables.taken /\ snapshot'.bills = Tables.bills
        /\ snapshot'.requests = Tables.requests /\ snapshot'.ordinal = Tables.ordinal
        /\ snapshot'.stored = Tables.stored /\ snapshot'.policy = Tables.policy
        /\ snapshot'.since = Tables.since
    BY <1>1 DEF Tables
  <1>5. Sound(snapshot', now, handed)
    BY <1>4, SameTables DEF AccountsInv
  <1>6. Sound(snapshot', now', handed')
    BY <1>1, <1>5
  <1>. QED
    BY <1>3, <1>6 DEF AccountsInv

\* Restore puts the backup in the place of the tables, under a new key.
LEMMA RestoreKeeps == ASSUME AccountsInv, Restore PROVE AccountsInv'
  <1>1. Sound(snapshot, now, handed)
    BY DEF AccountsInv, Restore
  <1>2. /\ Tables'.lastAssigned = snapshot.lastAssigned
        /\ Tables'.identities = snapshot.identities
        /\ Tables'.state = snapshot.state /\ Tables'.batchOf = snapshot.batchOf
        /\ Tables'.bucket = snapshot.bucket /\ Tables'.admissions = snapshot.admissions
        /\ Tables'.taken = snapshot.taken /\ Tables'.bills = snapshot.bills
        /\ Tables'.requests = snapshot.requests /\ Tables'.ordinal = snapshot.ordinal
        /\ Tables'.stored = snapshot.stored /\ Tables'.policy = snapshot.policy
        /\ Tables'.since = snapshot.since
    BY DEF Restore, Tables
  <1>3. Sound(Tables', now, handed)
    BY <1>1, <1>2, SameTables
  <1>4. now' = now /\ handed' = handed /\ snapshot' = <<>> /\ epoch' = epoch + 1
    BY DEF Restore
  <1>5. now \in Nat /\ IdsNotReused
    BY DEF AccountsInv
  <1>6. ordinal' \in [Channels -> Nat]
    BY <1>3 DEF Sound, AcksOf, Tables
  <1>7. IdsNotReused'
    BY <1>4, <1>5, EpochPasses
  <1>8. Sound(Tables, now, handed)'
    BY <1>3, <1>4
  <1>. QED
    BY <1>4, <1>5, <1>7, <1>8 DEF AccountsInv

\* Every step keeps the invariant.
LEMMA StepKeeps == ASSUME AccountsInv, [AccountsNext]_ingestVars PROVE AccountsInv'
  <1>1. CASE UNCHANGED ingestVars
    <2>1. UNCHANGED <<lastAssigned, identities, state, batchOf, now, policy, since, bucket,
                      admissions, taken, bills, requests, ordinal, epoch, snapshot, stored, handed>>
      BY <1>1 DEF ingestVars, ledgerVars, reservationVars, accountVars, policyVars, quotaVars, hecVars
    <2>2. Tables' = Tables
      BY <2>1 DEF Tables
    <2>3. Sound(Tables, now, handed)'
      BY <2>1, <2>2 DEF AccountsInv
    <2>4. snapshot' # <<>> => Sound(snapshot', now', handed')
      BY <2>1 DEF AccountsInv
    <2>. QED  BY <2>1, <2>3, <2>4 DEF AccountsInv, IdsNotReused
  <1>2. CASE AccountsNext
    BY <1>2, CallKeeps, TickKeeps, RestartKeeps, BackupKeeps, RestoreKeeps, PruneKeeps,
       SetPolicyKeeps DEF AccountsNext
  <1>. QED
    BY <1>1, <1>2

\* The first states.
LEMMA StartsSound == ASSUME FreshDatabase, AccountsInit PROVE AccountsInv
  <1>1. /\ lastAssigned = 0 /\ identities = {} /\ state = [s \in Seqs |-> "none"]
        /\ batchOf = [s \in Seqs |-> NoBatch]
    <2>1. DOMAIN Legacy = {} /\ Len(Legacy) = 0
      BY DEF FreshDatabase
    <2>. QED  BY <2>1 DEF AccountsInit, LedgerInit
  <1>2. /\ now = 0 /\ since = [m \in Meters |-> 0] /\ taken = [m \in Meters |-> 0]
        /\ bucket = [m \in Meters |-> [rate |-> 0, next |-> 0]]
        /\ admissions = {} /\ bills = [b \in Batches |-> 0]
        /\ requests = [b \in Hec |-> NoRequest] /\ ordinal = [c \in Channels |-> 0]
        /\ epoch = 1 /\ snapshot = <<>> /\ stored = {} /\ handed = {}
    BY DEF AccountsInit
  <1>3. policy \in [Meters -> Nat]
    <2>1. /\ policy \in [Meters -> UNION {Policies[m] : m \in Meters}]
          /\ \A m \in Meters : policy[m] \in Policies[m]
      BY DEF AccountsInit
    <2>2. \A m \in Meters : policy[m] \in Nat
      BY <2>1, AccountsAssumption
    <2>. QED  BY <2>1, <2>2
  <1>4. RowsOf(Tables) /\ BillsOf(Tables)
    BY <1>1, <1>2, BoundsAssumption DEF RowsOf, BillsOf, Tables, States
  <1>5. MetersOf(Tables, now)
    BY <1>2, <1>3 DEF MetersOf, MetersTyped, Tables
  <1>6. RequestsOf(Tables)
    <2>1. /\ NoRequest \in RequestType /\ NoRequest.state = "none"
      BY BoundsAssumption DEF NoRequest, RequestType
    <2>2. Followed(requests, stored, state, batchOf)
      BY <1>1, <1>2, <2>1 DEF Followed
    <2>. QED  BY <1>2, <2>1, <2>2 DEF RequestsOf, Tables
  <1>7. AcksOf(Tables, handed)
    BY <1>2 DEF AcksOf, Tables, NoRequest
  <1>8. IdsNotReused
    BY <1>2 DEF IdsNotReused
  <1>. QED
    BY <1>2, <1>4, <1>5, <1>6, <1>7, <1>8 DEF AccountsInv, Sound

-----------------------------------------------------------------------------
(***************************************************************************)
(* Theorems                                                                *)
(***************************************************************************)
\* The tables, the backup and what clients were given agree in every state,
\* through lost results, restarts, prunings, backups and restores.
THEOREM AccountsInvariant == FreshDatabase => (AccountsSpec => []AccountsInv)
  <1>. SUFFICES ASSUME FreshDatabase PROVE AccountsSpec => []AccountsInv
    OBVIOUS
  <1>1. AccountsInit => AccountsInv
    BY StartsSound
  <1>2. AccountsInv /\ [AccountsNext]_ingestVars => AccountsInv'
    BY StepKeeps
  <1>. QED
    BY <1>1, <1>2, PTL DEF AccountsSpec

\* planQuotaReservation charges an admitted batch exactly once while its
\* identity is known, and Evaluate lets no meter exceed its rate by more than
\* the last batch, for any number of meters, rates and costs.
THEOREM BillsRight == FreshDatabase => (AccountsSpec => []BillsAreRight)
  <1>1. AccountsInv => OneBillPerBatch
    BY DEF AccountsInv, Sound, BillsOf, OneBillPerBatch, Tables
  <1>2. AccountsInv => WithinRate
    <2>. SUFFICES ASSUME AccountsInv, NEW m \in Meters, policy[m] # 0
                  PROVE  \/ taken[m] <= policy[m] * (now - since[m])
                         \/ \E costs \in {Cost[b] : b \in Batches} \cup {RejectionCost[b] : b \in Batches} :
                               m \in DOMAIN costs /\ taken[m] - costs[m] <= policy[m] * (now - since[m])
      BY DEF WithinRate
    <2>1. /\ policy[m] \in Nat /\ since[m] \in Nat /\ taken[m] \in Nat /\ now \in Nat
          /\ since[m] <= now
      BY DEF AccountsInv, Sound, MetersOf, MetersTyped, Tables
    <2>2. CASE taken[m] = 0
      <3>1. now - since[m] \in Nat
        BY <2>1
      <3>2. policy[m] * (now - since[m]) >= 0
        BY <2>1, <3>1
      <3>. QED  BY <2>2, <3>2
    <2>3. CASE taken[m] # 0
      <3>1. \E costs \in Costs(m) : taken[m] - costs[m] <= policy[m] * (now - since[m])
        BY <2>3 DEF AccountsInv, Sound, MetersOf, Tables
      <3>. QED  BY <3>1, Zenon DEF Costs
    <2>. QED  BY <2>2, <2>3
  <1>3. AccountsInv => BillsAreRight
    BY <1>1, <1>2 DEF BillsAreRight
  <1>. QED
    BY <1>3, AccountsInvariant, PTL

\* The triggers hec_request_visibility_committed and _failed: a HEC request is
\* pending exactly as long as the reservation of its batch, and is indexed or
\* failed as that reservation was committed or not.
THEOREM RequestsFollow == FreshDatabase => (AccountsSpec => []RequestFollowsReservation)
  <1>1. AccountsInv => RequestFollowsReservation
    BY RequestsNow DEF RequestFollowsReservation, Reserved
  <1>. QED
    BY <1>1, AccountsInvariant, PTL

\* LookupHECAcknowledgments says true only of an id whose batch is stored, and
\* no id is given out for two batches, however often the process restarts or an
\* older database, with lower ordinals, is restored.
THEOREM AcksTrue == FreshDatabase => (AccountsSpec => []AckTellsTruth)
  <1>1. ASSUME AccountsInv PROVE AckTellsTruth
    <2>1. /\ handed \subseteq Ids \X Hec
          /\ \A h, k \in handed : h[1] = k[1] => h[2] = k[2]
      BY <1>1 DEF AccountsInv, IdsNotReused
    <2>2. ASSUME NEW h \in handed, Indexed(h[1]) PROVE h[2] \in stored
      <3>1. PICK b \in Hec : requests[b].ack = h[1] /\ requests[b].state = "indexed"
        BY <2>2 DEF Indexed
      <3>2. h[1] \in Ids /\ h[1] # <<>>
        BY <2>1 DEF Ids
      <3>3. <<h[1], b>> \in handed /\ b \in stored
        BY <1>1, <3>1, <3>2, RequestsNow
      <3>4. <<h[1], b>>[1] = h[1] /\ <<h[1], b>>[2] = b
        OBVIOUS
      <3>. QED  BY <2>1, <3>3, <3>4
    <2>. QED  BY <2>1, <2>2 DEF AckTellsTruth
  <1>2. AccountsInv => AckTellsTruth
    BY <1>1
  <1>. QED
    BY <1>2, AccountsInvariant, PTL

\* Only the retention of a request, or a restore of an older database, takes
\* back an acknowledgment that was true: the pruning of the ledger does not.
THEOREM AckStays == FreshDatabase => (AccountsSpec => AckStaysTrue)
  <1>. DEFINE Kept == \A b \in Hec : requests[b].state = "indexed" /\ requests'[b].state # "indexed" =>
                         \/ requests'[b].state = "expired"
                         \/ snapshot # <<>> /\ snapshot' = <<>>
  <1>1. ASSUME AccountsInv, [AccountsNext]_ingestVars, NEW b \in Hec,
               requests[b].state = "indexed", requests'[b].state # "indexed"
        PROVE  requests'[b].state = "expired" \/ (snapshot # <<>> /\ snapshot' = <<>>)
    <2>1. requests \in [Hec -> RequestType]
      BY <1>1, RequestsNow
    <2>2. requests' # requests
      BY <1>1
    <2>3. CASE Call
      <3>1. RowsOf(Tables)
        BY <1>1 DEF AccountsInv, Sound
      <3>2. lastAssigned \in Nat /\ LedgerCall
        BY <2>3, <3>1, BoundsAssumption DEF RowsOf, Tables, Call
      <3>3. ASSUME NEW d \in Batches, NEW st \in {"reserved", "rejected"}, Allocation(d, st)
            PROVE  FALSE
        <4>1. Allocates /\ state'[lastAssigned'] = st
          BY <3>1, <3>3, RowsAllocated DEF Allocation, Allocates
        <4>2. (IF batchOf'[lastAssigned'] \in Hec THEN AdmitHec(batchOf'[lastAssigned'], lastAssigned')
               ELSE UNCHANGED <<hecVars, handed>>) \/ UNCHANGED <<hecVars, handed, stored>>
          BY <2>3, <4>1 DEF Call, ReserveAccounts, RejectAccounts
        <4>3. PICK e : AdmitHec(e, lastAssigned')
          BY <2>2, <4>2 DEF hecVars
        <4>4. requests[e].state = "none" /\ \E r : requests' = [requests EXCEPT ![e] = r]
          BY <4>3 DEF AdmitHec
        <4>5. requests'[b] = requests[b]
          BY <1>1, <2>1, <4>4
        <4>. QED  BY <1>1, <4>5
      <3>4. ASSUME Movement PROVE FALSE
        <4>1. requests' = [d \in Hec |-> FollowReservation(requests[d])]
          BY <2>3, <3>2, <3>4 DEF Call, Allocates, Movement, SettleAccounts
        <4>2. requests'[b] = FollowReservation(requests[b])
          BY <4>1
        <4>3. requests[b] \in RequestType
          BY <2>1
        <4>4. FollowReservation(requests[b]).state = requests[b].state
          BY <1>1, <3>4, <4>3, Follows
        <4>. QED  BY <1>1, <4>2, <4>4
      <3>. QED  BY <3>1, <3>2, <3>3, <3>4, CallKinds
    <2>4. ASSUME NEW d \in Hec, PruneHECTerminalRequests(d)
          PROVE  requests'[b].state = "expired"
      <3>1. requests' = [requests EXCEPT ![d] = [NoRequest EXCEPT !.state = "expired"]]
        BY <2>4 DEF PruneHECTerminalRequests
      <3>2. d = b
        BY <1>1, <2>1, <3>1
      <3>3. [NoRequest EXCEPT !.state = "expired"].state = "expired"
        BY DEF NoRequest
      <3>. QED  BY <2>1, <3>1, <3>2, <3>3
    <2>5. CASE Restore
      BY <2>5 DEF Restore
    <2>6. CASE Tick \/ Restart \/ Backup \/ UNCHANGED ingestVars
             \/ (\E m \in Meters : \E rate \in Policies[m] : SetPolicy(m, rate))
      BY <2>2, <2>6 DEF Tick, Restart, Backup, SetPolicy, ingestVars, accountVars, hecVars
    <2>. QED  BY <1>1, <2>3, <2>4, <2>5, <2>6 DEF AccountsNext
  <1>2. AccountsInv /\ [AccountsNext]_ingestVars => Kept
    BY <1>1
  <1>3. Kept => [Kept]_ingestVars
    OBVIOUS
  <1>4. AckStaysTrue <=> [][Kept]_ingestVars
    BY DEF AckStaysTrue
  <1>. HIDE DEF Kept
  <1>. QED
    BY <1>2, <1>4, AccountsInvariant, PTL DEF AccountsSpec
===============================================================================
