------------------------ MODULE IndexDeletion_proofs ------------------------
(***************************************************************************)
(* Theorems about the deletion of index data, for any number of indexes,   *)
(* writers and searches, and any number of failures and restarts.          *)
(***************************************************************************)
EXTENDS IndexDeletion, SequenceTheorems, WellFoundedInduction, TLAPS

(***************************************************************************)
(* The inductive invariant                                                 *)
(***************************************************************************)
\* Where the coordinator stands with the operation in its hand: it is the
\* oldest one, or one whose completion was committed with its answer lost; the
\* latter is met only with its attempt known, so no second attempt is written.
WorkInHand ==
  cur # None =>
    /\ life[cur] = "deleting" => ops # <<>> /\ Head(ops) = cur
    /\ life[cur] = "deleted" => known /\ pc \notin {"attempt", "ensure"}
    /\ life[cur] \in {"deleting", "deleted"}
    /\ known => cur \in attempts \/ life[cur] = "deleted"
    /\ pc \in {"status", "reconcile", "prove", "submit", "answer", "compare",
               "reprove", "complete", "audit"} => known

\* From the end of the drain to the end of the freeze nothing is staged.
StagedIsDrained ==
  pc \in {"ensure", "reconcile", "prove", "submit", "answer", "compare",
          "reprove", "complete"} => \A i \in Index : outbox[i] = 0

\* The proof of emptiness is not stale when the completion is written.
ProofIsFresh == pc = "complete" => rows[cur] = {}

\* No search reads the index, and one that was checked before will be refused.
Fenced(i) ==
  \A r \in Readers : i \in reader[r].scope =>
    reader[r].at \in {"idle", "checked"} /\ (reader[r].at = "checked" => i \in retired)

\* Searches are fenced off before the attempt is durable, and ever after.
MutatedIsFenced ==
  /\ cur # None /\ pc # "retire" => cur \in retired
  /\ cur # None /\ pc \notin {"retire", "join"} => Fenced(cur)
  /\ \A i \in Index : i \in attempts \/ life[i] = "deleted" => Fenced(i)

DeletionInv ==
  /\ TypeOK
  /\ RecordsAgree
  /\ WorkInHand
  /\ StagedIsDrained
  /\ ProofIsFresh
  /\ MutatedIsFenced

-----------------------------------------------------------------------------
(* Types.                                                                  *)

\* The newest of the correlated mutations exists: their blocks are bounded.
LEMMA LatestIsNat ==
  ASSUME TypeOK, NEW i \in Index
  PROVE  LatestBlock(i) \in Nat
  <1> DEFINE B == {0} \cup {m.block : m \in Correlated(i)}
             Ages == {block - b : b \in B}
             R == OpToRel(<, Nat)
  <1>1. B \subseteq 0 .. block /\ block \in Nat
    BY DEF TypeOK, Correlated
  <1>2. Ages \subseteq Nat /\ Ages # {}
    BY <1>1
  <1>3. PICK a \in Ages : \A y \in Ages : ~ (<<y, a>> \in R)
    <2>1. IsWellFoundedOn(R, Nat)
      BY NatLessThanWellFounded
    <2>. QED  BY <2>1, <1>2, WFMin
  <1>4. \A y \in Ages : ~ (y < a)
    BY <1>2, <1>3 DEF OpToRel
  <1>5. PICK b \in B : a = block - b
    OBVIOUS
  <1>6. ASSUME NEW c \in B PROVE c <= b
    <2>1. block - c \in Ages
      BY <1>6, Zenon
    <2>2. c \in Nat /\ b \in Nat
      <3>. HIDE DEF B
      <3>. QED  BY <1>1, <1>5, <1>6
    <2>. QED  BY <2>1, <2>2, <1>1, <1>4, <1>5
  <1>7. \A m \in Correlated(i) : m.block <= b
    BY <1>6
  <1>8. LatestBlock(i) \in B
    <2>. HIDE DEF B
    <2>. QED  BY <1>7, Zenon DEF LatestBlock, B
  <1>. QED
    BY <1>1, <1>8

\* The types in two parts: what the system keeps, and where the coordinator is.
DataTypes ==
  /\ life \in [Index -> {"active", "archived", "deleting", "deleted", "hidden"}]
  /\ ops \in Seq(Index) /\ attempts \subseteq Index
  /\ outbox \in [Index -> Nat]
  /\ rows \in [Index -> SUBSET (1 .. block)] /\ block \in Nat
  /\ mutations \subseteq [index : Index, block : 1 .. block, done : BOOLEAN]
  /\ flight \subseteq Index
  /\ granted \in [Writers -> Index \cup {None}]
  /\ reader \in [Readers -> [at : {"idle", "checked", "reading"}, scope : SUBSET Index]]
  /\ retired \subseteq Index

StepTypes ==
  /\ frozen \in BOOLEAN /\ known \in BOOLEAN /\ before \in Nat
  /\ pc \in Steps /\ cur \in Index \cup {None}
  /\ (cur = None) <=> (pc = "scan")
  /\ frozen <=> pc \in {"drain", "ensure", "reconcile", "prove", "submit",
                        "answer", "compare", "reprove", "complete"}
  /\ writes \in 0 .. MaxWrites /\ faults \in 0 .. MaxFaults /\ crashes \in 0 .. MaxCrashes

\* Data and steps make up the types.
LEMMA TypeParts == TypeOK <=> DataTypes /\ StepTypes
  BY Zenon DEF TypeOK, DataTypes, StepTypes

\* ... also after a step.
LEMMA TypePartsNext == TypeOK' <=> DataTypes' /\ StepTypes'
  BY Zenon DEF TypeOK, DataTypes, StepTypes

\* The coordinator starts in the invariant: nothing is deleted, frozen or under way.
LEMMA InitInv == Init => DeletionInv
  <1> SUFFICES ASSUME Init PROVE DeletionInv
    OBVIOUS
  <1>1. TypeOK
    <2>1. DataTypes
      BY EmptySeq DEF Init, DataTypes
    <2>2. pc \in Steps /\ cur = None /\ pc = "scan" /\ before \in Nat
      BY DEF Init, Steps
    <2>3. frozen \in BOOLEAN /\ known \in BOOLEAN /\ ~frozen
      BY DEF Init
    <2>4. writes \in 0 .. MaxWrites /\ faults \in 0 .. MaxFaults /\ crashes \in 0 .. MaxCrashes
      BY DeletionConstants DEF Init
    <2>5. StepTypes
      BY <2>2, <2>3, <2>4 DEF StepTypes
    <2>. QED  BY <2>1, <2>5, TypeParts
  <1>2. RecordsAgree
    BY DEF Init, RecordsAgree, Correlated
  <1>3. WorkInHand /\ StagedIsDrained /\ ProofIsFresh /\ MutatedIsFenced
    BY DEF Init, WorkInHand, StagedIsDrained, ProofIsFresh, MutatedIsFenced, Fenced
  <1>. QED
    BY <1>1, <1>2, <1>3 DEF DeletionInv

\* The calls of administrators, writers and searches.
LEMMA ClientTypes == TypeOK /\ Clients => TypeOK'
  <1> SUFFICES ASSUME TypeOK, Clients PROVE TypeOK'
    OBVIOUS
  <1> USE DEF TypeOK, Steps, catalogVars, storeVars, clientVars, coordVars, bounds
  <1>1. ASSUME NEW i \in Index, Archive(i) PROVE TypeOK'
    BY <1>1 DEF Archive
  <1>2. ASSUME NEW i \in Index, DeleteKeepingData(i) PROVE TypeOK'
    BY <1>2 DEF DeleteKeepingData
  <1>3. ASSUME NEW i \in Index, BeginDeletion(i) PROVE TypeOK'
    BY <1>3, AppendProperties DEF BeginDeletion
  <1>4. ASSUME NEW i \in Index, Insert(i) PROVE TypeOK'
    BY <1>4 DEF Insert
  <1>5. ASSUME NEW w \in Writers, StageBatch(w) PROVE TypeOK'
    BY <1>5 DEF StageBatch
  <1>6. ASSUME NEW w \in Writers, NEW i \in Index, Authorize(w, i) PROVE TypeOK'
    BY <1>6, DeletionConstants DEF Authorize
  <1>7. ASSUME NEW r \in Readers, Acquire(r) PROVE TypeOK'
    BY <1>7 DEF Acquire
  <1>8. ASSUME NEW r \in Readers, ReleaseRead(r) PROVE TypeOK'
    BY <1>8 DEF ReleaseRead
  <1>9. ASSUME NEW r \in Readers, NEW S \in SUBSET Index, CheckCatalog(r, S) PROVE TypeOK'
    BY <1>9 DEF CheckCatalog
  <1>. QED
    BY <1>1, <1>2, <1>3, <1>4, <1>5, <1>6, <1>7, <1>8, <1>9 DEF Clients

\* ClickHouse's own steps keep the types.
LEMMA ClickHouseTypes == TypeOK /\ ClickHouse => TypeOK'
  <1> SUFFICES ASSUME TypeOK, ClickHouse PROVE TypeOK'
    OBVIOUS
  <1> USE DEF TypeOK, Steps, catalogVars, storeVars, clientVars, coordVars, bounds
  <1>1. ASSUME NEW i \in Index, MutationLands(i) PROVE TypeOK'
    <2>1. rows' \in [Index -> SUBSET (1 .. block')] /\ block' \in Nat
      BY <1>1 DEF MutationLands
    <2>2. mutations' \subseteq [index : Index, block : 1 .. block', done : BOOLEAN]
      <3>1. mutations \subseteq [index : Index, block : 1 .. block', done : BOOLEAN]
        BY <1>1 DEF MutationLands
      <3>2. [index |-> i, block |-> block', done |-> FALSE]
              \in [index : Index, block : 1 .. block', done : BOOLEAN]
        <4>1. block' \in 1 .. block'
          BY <1>1 DEF MutationLands
        <4>. QED  BY <4>1
      <3>3. mutations' = mutations \cup {[index |-> i, block |-> block', done |-> FALSE]}
        BY <1>1 DEF MutationLands
      <3>. QED  BY <3>1, <3>2, <3>3
    <2>. QED  BY <1>1, <2>1, <2>2 DEF MutationLands
  <1>2. ASSUME NEW i \in Index, SubmissionIsLost(i) PROVE TypeOK'
    BY <1>2, DeletionConstants DEF SubmissionIsLost, Fault
  <1>3. ASSUME NEW m \in mutations, MutatePart(m) PROVE TypeOK'
    BY <1>3 DEF MutatePart, Older
  <1>4. ASSUME NEW m \in mutations, FinishMutation(m) PROVE TypeOK'
    BY <1>4 DEF FinishMutation
  <1>5. ASSUME NEW m \in mutations, ForgetMutation(m) PROVE TypeOK'
    BY <1>5 DEF ForgetMutation
  <1>. QED
    BY <1>1, <1>2, <1>3, <1>4, <1>5 DEF ClickHouse

\* The coordinator's steps, and a crash, keep the types of the call in hand.
LEMMA CoordinatorSteps == TypeOK /\ (Coordinator \/ Crash) => StepTypes'
  <1> SUFFICES ASSUME TypeOK, Coordinator \/ Crash PROVE StepTypes'
    OBVIOUS
  <1>0. DataTypes /\ StepTypes
    BY TypeParts
  <1> USE DEF StepTypes, Steps, coordVars, bounds, Goto, KeepWork, StepOver, WorkDone, Fault
  <1>1. CASE Scan
    <2>1. cur' \in Index
      BY <1>0, <1>1, HeadTailProperties DEF Scan, DataTypes
    <2>. QED  BY <1>0, <1>1, <2>1, DeletionConstants DEF Scan
  <1>2. CASE Retire
    BY <1>0, <1>2 DEF Retire
  <1>3. CASE JoinReads
    BY <1>0, <1>3 DEF JoinReads
  <1>4. CASE GetAttempt
    BY <1>0, <1>4 DEF GetAttempt
  <1>5. CASE PollStatus
    BY <1>0, <1>5 DEF PollStatus
  <1>6. CASE Freeze
    BY <1>0, <1>6 DEF Freeze
  <1>7. ASSUME NEW i \in Index, DrainOne(i) PROVE StepTypes'
    BY <1>0, <1>7 DEF DrainOne
  <1>8. CASE Drained
    BY <1>0, <1>8 DEF Drained
  <1>9. CASE EnsureAttempt
    <2>1. faults' \in 0 .. MaxFaults
      <3>1. faults' = faults \/ (faults < MaxFaults /\ faults' = faults + 1)
        BY <1>9 DEF EnsureAttempt
      <3>. QED  BY <1>0, <3>1, DeletionConstants
    <2>. QED  BY <1>0, <1>9, <2>1 DEF EnsureAttempt
  <1>10. CASE Reconcile
    <2>1. cur \in Index
      BY <1>0, <1>10 DEF Reconcile
    <2>2. before' \in Nat
      BY <1>10, <2>1, LatestIsNat DEF Reconcile
    <2>. QED  BY <1>0, <1>10, <2>1, <2>2 DEF Reconcile
  <1>11. CASE ProveEmpty
    <2>1. CASE Goto("complete")
      BY <1>0, <1>11, <2>1 DEF ProveEmpty
    <2>2. CASE pc = "prove" /\ Goto("submit")
      BY <1>0, <1>11, <2>2 DEF ProveEmpty
    <2>3. CASE pc = "reprove" /\ StepOver /\ KeepWork
      BY <1>0, <1>11, <2>3 DEF ProveEmpty
    <2>. QED  BY <1>11, <2>1, <2>2, <2>3 DEF ProveEmpty
  <1>12. CASE Submit
    BY <1>0, <1>12 DEF Submit
  <1>13. CASE SubmitReturns
    <2>1. faults' \in 0 .. MaxFaults
      BY <1>0, <1>13, DeletionConstants DEF SubmitReturns
    <2>. QED  BY <1>0, <1>13, <2>1 DEF SubmitReturns
  <1>14. CASE CompareAfterSubmit
    BY <1>0, <1>14 DEF CompareAfterSubmit
  <1>15. CASE Complete
    <2>1. faults' \in 0 .. MaxFaults
      BY <1>0, <1>15, DeletionConstants DEF Complete
    <2>. QED  BY <1>0, <1>15, <2>1, DeletionConstants DEF Complete
  <1>16. CASE ReadTerminalAudit
    BY <1>0, <1>16, DeletionConstants DEF ReadTerminalAudit
  <1>17. CASE CallFails
    <2>1. faults' \in 0 .. MaxFaults
      BY <1>0, <1>17, DeletionConstants DEF CallFails
    <2>. QED  BY <1>0, <1>17, <2>1 DEF CallFails
  <1>18. CASE Crash
    <2>1. pc' \in Steps /\ cur' = None /\ pc' = "scan" /\ before' \in Nat
      BY <1>18 DEF Crash
    <2>2. frozen' \in BOOLEAN /\ known' \in BOOLEAN /\ ~frozen'
      BY <1>18 DEF Crash
    <2>3. writes' \in 0 .. MaxWrites /\ faults' \in 0 .. MaxFaults /\ crashes' \in 0 .. MaxCrashes
      BY <1>0, <1>18, DeletionConstants DEF Crash
    <2>. QED  BY <2>1, <2>2, <2>3
  <1>. QED
    BY <1>1, <1>2, <1>3, <1>4, <1>5, <1>6, <1>7, <1>8, <1>9, <1>10, <1>11, <1>12,
       <1>13, <1>14, <1>15, <1>16, <1>17, <1>18 DEF Coordinator

\* ... and those of what is kept: records, rows, mutations and the outbox.
LEMMA CoordinatorData == TypeOK /\ (Coordinator \/ Crash) => DataTypes'
  <1> SUFFICES ASSUME TypeOK, Coordinator \/ Crash PROVE DataTypes'
    OBVIOUS
  <1>0. DataTypes /\ StepTypes
    BY TypeParts
  <1> USE DEF DataTypes, catalogVars, storeVars, clientVars
  <1>1. CASE UNCHANGED <<catalogVars, storeVars, clientVars>>
    BY <1>0, <1>1
  <1>2. CASE Retire
    BY <1>0, <1>2 DEF Retire, StepTypes
  <1>3. ASSUME NEW i \in Index, DrainOne(i) PROVE DataTypes'
    BY <1>0, <1>3 DEF DrainOne
  <1>4. CASE EnsureAttempt
    BY <1>0, <1>4 DEF EnsureAttempt, StepTypes
  <1>5. CASE Submit
    BY <1>0, <1>5 DEF Submit, StepTypes
  <1>6. CASE Complete
    <2>1. ops' = ops \/ (ops # <<>> /\ ops' = Tail(ops))
      BY <1>6 DEF Complete, CompletionCommits
    <2>2. ops' \in Seq(Index)
      <3>1. ops \in Seq(Index)
        BY <1>0
      <3>. HIDE DEF DataTypes
      <3>. QED  BY <2>1, <3>1, HeadTailProperties
    <2>. QED  BY <1>0, <1>6, <2>2 DEF Complete, CompletionCommits, StepTypes
  <1>7. CASE Crash
    <2>1. granted' \in [Writers -> Index \cup {None}]
      BY <1>7 DEF Crash
    <2>2. reader' \in [Readers -> [at : {"idle", "checked", "reading"}, scope : SUBSET Index]]
      BY <1>7 DEF Crash
    <2>. QED  BY <1>0, <1>7, <2>1, <2>2 DEF Crash
  <1>. QED
    BY <1>1, <1>2, <1>3, <1>4, <1>5, <1>6, <1>7
    DEF Coordinator, Scan, JoinReads, GetAttempt, PollStatus, Freeze, Drained, Reconcile,
        ProveEmpty, SubmitReturns, CompareAfterSubmit, ReadTerminalAudit, CallFails

\* Every step keeps the types.
LEMMA TypeStep == TypeOK /\ [Next]_vars => TypeOK'
  <1>1. TypeOK /\ UNCHANGED vars => TypeOK'
    BY DEF TypeOK, vars, catalogVars, storeVars, clientVars, coordVars, bounds
  <1>. QED
    BY <1>1, ClientTypes, ClickHouseTypes, CoordinatorSteps, CoordinatorData, TypePartsNext DEF Next

-----------------------------------------------------------------------------
(* The durable records.                                                    *)

\* Steps that leave the catalog alone and correlate nothing new.
LEMMA QuietRecords ==
  ASSUME RecordsAgree, UNCHANGED catalogVars,
         \A i \in Index : i \in flight' \/ Correlated(i)' # {}
                            => i \in flight \/ Correlated(i) # {}
  PROVE  RecordsAgree'
  BY DEF RecordsAgree, catalogVars

\* ClickHouse writes no record of the control database.
LEMMA ClickHouseRecords == TypeOK /\ RecordsAgree /\ ClickHouse => RecordsAgree'
  <1> SUFFICES ASSUME TypeOK, RecordsAgree, ClickHouse PROVE RecordsAgree'
    OBVIOUS
  <1>1. ASSUME NEW i \in Index, MutationLands(i) PROVE RecordsAgree'
    <2>1. \A j \in Index : j \in flight' \/ Correlated(j)' # {} => j \in flight \/ Correlated(j) # {}
      BY <1>1 DEF MutationLands, Correlated
    <2>. QED  BY <1>1, <2>1, QuietRecords DEF MutationLands
  <1>2. ASSUME NEW i \in Index, SubmissionIsLost(i) PROVE RecordsAgree'
    BY <1>2, QuietRecords DEF SubmissionIsLost, Correlated
  <1>3. ASSUME NEW m \in mutations, MutatePart(m) PROVE RecordsAgree'
    BY <1>3, QuietRecords DEF MutatePart, Correlated
  <1>4. ASSUME NEW m \in mutations, FinishMutation(m) PROVE RecordsAgree'
    <2>1. [m EXCEPT !.done = TRUE].index = m.index
      BY DEF TypeOK
    <2>2. \A j \in Index : Correlated(j)' # {} => Correlated(j) # {}
      BY <1>4, <2>1 DEF FinishMutation, Correlated
    <2>. QED  BY <1>4, <2>2, QuietRecords DEF FinishMutation
  <1>5. ASSUME NEW m \in mutations, ForgetMutation(m) PROVE RecordsAgree'
    BY <1>5, QuietRecords DEF ForgetMutation, Correlated
  <1>. QED
    BY <1>1, <1>2, <1>3, <1>4, <1>5 DEF ClickHouse

\* Clients begin a deletion, and otherwise write no record of it.
LEMMA ClientRecords == TypeOK /\ RecordsAgree /\ Clients => RecordsAgree'
  <1> SUFFICES ASSUME TypeOK, RecordsAgree, Clients PROVE RecordsAgree'
    OBVIOUS
  <1>1. CASE UNCHANGED <<catalogVars, mutations, flight>>
    BY <1>1, QuietRecords DEF Correlated
  <1>2. ASSUME NEW i \in Index, Archive(i) \/ DeleteKeepingData(i) PROVE RecordsAgree'
    BY <1>2 DEF Archive, DeleteKeepingData, RecordsAgree, Correlated, storeVars, TypeOK
  <1>3. ASSUME NEW i \in Index, BeginDeletion(i) PROVE RecordsAgree'
    <2>1. /\ ops \in Seq(Index)
          /\ life[i] = "archived"
          /\ life' = [life EXCEPT ![i] = "deleting"]
          /\ life \in [Index -> {"active", "archived", "deleting", "deleted", "hidden"}]
          /\ ops' = Append(ops, i)
          /\ UNCHANGED <<attempts, mutations, flight>>
      BY <1>3 DEF BeginDeletion, TypeOK, storeVars
    <2>2. /\ DOMAIN ops = 1 .. Len(ops) /\ DOMAIN ops' = 1 .. Len(ops) + 1 /\ Len(ops) \in Nat
          /\ \A k \in DOMAIN ops : ops'[k] = ops[k]
          /\ ops'[Len(ops) + 1] = i
      BY <2>1, AppendProperties, LenProperties
    <2>3. \A k \in DOMAIN ops : ops[k] # i
      BY <2>1 DEF RecordsAgree
    <2>4. \A j \in Index : (life'[j] = "deleting") <=> (\E k \in DOMAIN ops' : ops'[k] = j)
      <3>1. ASSUME NEW j \in Index, life'[j] = "deleting"
            PROVE  \E k \in DOMAIN ops' : ops'[k] = j
        BY <2>1, <2>2, <3>1 DEF RecordsAgree
      <3>2. ASSUME NEW j \in Index, NEW k \in DOMAIN ops', ops'[k] = j
            PROVE  life'[j] = "deleting"
        BY <2>1, <2>2, <3>2 DEF RecordsAgree
      <3>. QED  BY <3>1, <3>2
    <2>5. \A j, k \in DOMAIN ops' : ops'[j] = ops'[k] => j = k
      BY <2>2, <2>3 DEF RecordsAgree
    <2>6. \A j \in attempts' : life'[j] = "deleting"
      BY <2>1 DEF RecordsAgree, TypeOK
    <2>7. \A j \in Index : j \in flight' \/ Correlated(j)' # {} => j \in attempts' \/ life'[j] = "deleted"
      BY <2>1 DEF RecordsAgree, Correlated
    <2>. QED  BY <2>4, <2>5, <2>6, <2>7 DEF RecordsAgree
  <1>. QED
    BY <1>1, <1>2, <1>3
    DEF Clients, Insert, StageBatch, Authorize, Acquire, ReleaseRead, CheckCatalog, storeVars

\* Completing consumes exactly the operation of the completed index.
LEMMA CompletionRecords ==
  ASSUME TypeOK, RecordsAgree, WorkInHand, cur # None, CompletionCommits, UNCHANGED storeVars
  PROVE  RecordsAgree'
  <1>1. /\ ops \in Seq(Index) /\ cur \in Index
        /\ life \in [Index -> {"active", "archived", "deleting", "deleted", "hidden"}]
        /\ life' = [life EXCEPT ![cur] = "deleted"]
        /\ attempts' = attempts \ {cur} /\ UNCHANGED <<mutations, flight>>
    BY DEF TypeOK, CompletionCommits, storeVars
  <1>2. CASE life[cur] = "deleting"
    <2>1. ops # <<>> /\ Head(ops) = cur /\ ops' = Tail(ops)
      BY <1>2 DEF WorkInHand, CompletionCommits
    <2>2. /\ Len(ops) \in Nat /\ Len(ops) > 0 /\ DOMAIN ops = 1 .. Len(ops) /\ ops[1] = cur
          /\ DOMAIN ops' = 1 .. Len(ops) - 1 /\ \A k \in DOMAIN ops' : ops'[k] = ops[k + 1]
      <3>1. ops[1] = cur /\ Len(ops) \in Nat /\ Len(ops) > 0 /\ DOMAIN ops = 1 .. Len(ops)
        BY <1>1, <2>1, LenProperties, EmptySeq
      <3>2. Tail(ops) \in Seq(Index) /\ Len(Tail(ops)) = Len(ops) - 1
            /\ \A k \in 1 .. Len(Tail(ops)) : Tail(ops)[k] = ops[k + 1]
        BY <1>1, <2>1, HeadTailProperties
      <3>3. DOMAIN Tail(ops) = 1 .. Len(Tail(ops))
        BY <3>2, LenProperties
      <3>. QED  BY <2>1, <3>1, <3>2, <3>3
    <2>3. \A j \in Index : (life'[j] = "deleting") <=> (\E k \in DOMAIN ops' : ops'[k] = j)
      <3>1. ASSUME NEW j \in Index, life'[j] = "deleting"
            PROVE  \E k \in DOMAIN ops' : ops'[k] = j
        <4>1. j # cur /\ life[j] = "deleting"
          BY <1>1, <3>1
        <4>2. PICK k \in DOMAIN ops : ops[k] = j
          BY <4>1 DEF RecordsAgree
        <4>3. k - 1 \in DOMAIN ops' /\ ops'[k - 1] = j
          BY <2>2, <4>1, <4>2
        <4>. QED  BY <4>3
      <3>2. ASSUME NEW j \in Index, NEW k \in DOMAIN ops', ops'[k] = j
            PROVE  life'[j] = "deleting"
        <4>1. k + 1 \in DOMAIN ops /\ ops[k + 1] = j /\ 1 \in DOMAIN ops /\ k + 1 # 1
          BY <2>2, <3>2
        <4>2. j # cur /\ life[j] = "deleting"
          BY <2>2, <4>1 DEF RecordsAgree
        <4>. QED  BY <1>1, <4>2
      <3>. QED  BY <3>1, <3>2
    <2>4. \A j, k \in DOMAIN ops' : ops'[j] = ops'[k] => j = k
      BY <2>2 DEF RecordsAgree
    <2>. QED
      BY <1>1, <2>3, <2>4 DEF RecordsAgree, Correlated
  <1>3. CASE life[cur] # "deleting"
    <2>1. life[cur] = "deleted" /\ \A k \in DOMAIN ops : ops[k] # cur
      BY <1>1, <1>3 DEF WorkInHand, RecordsAgree
    <2>2. ops' = ops
      <3>1. ops # <<>> => Head(ops) # cur
        <4>1. ops # <<>> => 1 \in DOMAIN ops /\ Head(ops) = ops[1]
          BY <1>1, LenProperties, EmptySeq
        <4>. QED  BY <2>1, <4>1
      <3>. QED  BY <3>1 DEF CompletionCommits
    <2>3. life' = life
      BY <1>1, <2>1
    <2>. QED
      BY <1>1, <2>1, <2>2, <2>3 DEF RecordsAgree, Correlated
  <1>. QED
    BY <1>2, <1>3

\* The coordinator moves operation, attempt and audit together.
LEMMA CoordinatorRecords == DeletionInv /\ (Coordinator \/ Crash) => RecordsAgree'
  <1> SUFFICES ASSUME DeletionInv, Coordinator \/ Crash PROVE RecordsAgree'
    OBVIOUS
  <1>0. TypeOK /\ RecordsAgree /\ WorkInHand
    BY DEF DeletionInv
  <1>1. CASE UNCHANGED <<catalogVars, mutations, flight>>
    BY <1>0, <1>1, QuietRecords DEF Correlated
  <1>2. CASE EnsureAttempt
    <2>1. cur \in Index /\ life[cur] = "deleting"
      BY <1>0, <1>2 DEF EnsureAttempt, WorkInHand, TypeOK
    <2>. QED
      BY <1>0, <1>2, <2>1 DEF EnsureAttempt, RecordsAgree, Correlated, storeVars
  <1>3. CASE Submit
    <2>1. cur \in Index /\ (cur \in attempts \/ life[cur] = "deleted")
      BY <1>0, <1>3 DEF Submit, WorkInHand, TypeOK
    <2>. QED
      BY <1>0, <1>3, <2>1 DEF Submit, RecordsAgree, Correlated, catalogVars
  <1>4. CASE Complete
    <2>1. cur # None
      BY <1>0, <1>4 DEF Complete, TypeOK
    <2>2. CASE CompletionCommits
      BY <1>0, <1>4, <2>1, <2>2, CompletionRecords DEF Complete
    <2>3. CASE UNCHANGED catalogVars
      BY <1>0, <1>4, <2>3, QuietRecords DEF Complete, Correlated, storeVars
    <2>. QED  BY <1>4, <2>2, <2>3 DEF Complete
  <1>. QED
    BY <1>1, <1>2, <1>3, <1>4
    DEF Coordinator, Scan, Retire, JoinReads, GetAttempt, PollStatus, Freeze, DrainOne, Drained,
        Reconcile, ProveEmpty, SubmitReturns, CompareAfterSubmit, ReadTerminalAudit, CallFails,
        Crash, storeVars

\* Every step keeps the records in agreement.
LEMMA RecordsStep == DeletionInv /\ [Next]_vars => RecordsAgree'
  <1>1. DeletionInv /\ UNCHANGED vars => RecordsAgree'
    BY QuietRecords DEF DeletionInv, vars, storeVars, Correlated
  <1>. QED
    BY <1>1, ClientRecords, ClickHouseRecords, CoordinatorRecords DEF DeletionInv, Next

-----------------------------------------------------------------------------
(* The work in hand.                                                       *)

\* Others leave the coordinator's operation to it.
LEMMA OthersLeaveWork == DeletionInv /\ (Clients \/ ClickHouse) => WorkInHand'
  <1> SUFFICES ASSUME DeletionInv, Clients \/ ClickHouse PROVE WorkInHand'
    OBVIOUS
  <1>0. TypeOK /\ WorkInHand
    BY DEF DeletionInv
  <1>1. CASE UNCHANGED <<catalogVars, coordVars>>
    BY <1>0, <1>1 DEF WorkInHand, catalogVars, coordVars
  <1>2. ASSUME NEW i \in Index, Archive(i) \/ DeleteKeepingData(i) PROVE WorkInHand'
    BY <1>0, <1>2 DEF Archive, DeleteKeepingData, WorkInHand, coordVars, TypeOK
  <1>3. ASSUME NEW i \in Index, BeginDeletion(i) PROVE WorkInHand'
    <2>1. ops \in Seq(Index) /\ life[i] = "archived" /\ ops' = Append(ops, i)
          /\ life' = [life EXCEPT ![i] = "deleting"] /\ UNCHANGED <<attempts, coordVars>>
          /\ life \in [Index -> {"active", "archived", "deleting", "deleted", "hidden"}]
          /\ (cur # None => cur \in Index)
      BY <1>0, <1>3 DEF BeginDeletion, TypeOK
    <2>2. ops # <<>> => ops' # <<>> /\ Head(ops') = Head(ops)
      BY <2>1, AppendProperties, HeadTailAppend
    <2>3. cur # None => cur # i /\ life'[cur] = life[cur]
      BY <1>0, <2>1 DEF WorkInHand
    <2>. QED  BY <1>0, <2>1, <2>2, <2>3 DEF WorkInHand, coordVars
  <1>. QED
    BY <1>1, <1>2, <1>3
    DEF Clients, Insert, StageBatch, Authorize, Acquire, ReleaseRead, CheckCatalog,
        ClickHouse, MutationLands, SubmissionIsLost, MutatePart, FinishMutation, ForgetMutation

\* What the coordinator does next fits the operation it is working on.
LEMMA CoordinatorWork == DeletionInv /\ (Coordinator \/ Crash) => WorkInHand'
  <1> SUFFICES ASSUME DeletionInv, Coordinator \/ Crash PROVE WorkInHand'
    OBVIOUS
  <1>0. TypeOK /\ RecordsAgree /\ WorkInHand /\ ops \in Seq(Index)
    BY DEF DeletionInv, TypeOK
  <1> USE DEF WorkInHand, Goto, KeepWork, StepOver, WorkDone
  <1>1. CASE Scan
    <2>1. cur' \in Index /\ life[cur'] = "deleting"
      <3>1. cur' = ops[1] /\ 1 \in DOMAIN ops /\ cur' \in Index
        BY <1>0, <1>1, LenProperties, EmptySeq, HeadTailProperties DEF Scan
      <3>. QED  BY <1>0, <3>1 DEF RecordsAgree
    <2>. QED  BY <1>1, <2>1 DEF Scan, catalogVars
  <1>2. CASE Retire \/ JoinReads \/ GetAttempt \/ PollStatus \/ Freeze
    BY <1>0, <1>2 DEF Retire, JoinReads, GetAttempt, PollStatus, Freeze, catalogVars, TypeOK
  <1>3. CASE Drained \/ (\E i \in Index : DrainOne(i))
    BY <1>0, <1>3 DEF Drained, DrainOne, catalogVars, coordVars, TypeOK
  <1>4. CASE EnsureAttempt
    BY <1>0, <1>4 DEF EnsureAttempt, storeVars, TypeOK
  <1>5. CASE Reconcile \/ Submit \/ SubmitReturns \/ CompareAfterSubmit
    BY <1>0, <1>5 DEF Reconcile, Submit, SubmitReturns, CompareAfterSubmit, catalogVars, TypeOK
  <1>6. CASE ProveEmpty
    BY <1>0, <1>6 DEF ProveEmpty, catalogVars, TypeOK
  <1>7. CASE Complete
    <2>1. CASE WorkDone
      BY <2>1
    <2>2. CASE CompletionCommits /\ pc' = "audit" /\ KeepWork
      <3>1. cur \in Index /\ life'[cur] = "deleted" /\ known
        BY <1>0, <1>7, <2>2 DEF Complete, CompletionCommits, TypeOK
      <3>. QED  BY <2>2, <3>1
    <2>3. CASE UNCHANGED catalogVars /\ pc' = "audit" /\ KeepWork
      BY <1>0, <1>7, <2>3 DEF Complete, catalogVars, TypeOK
    <2>. QED  BY <1>7, <2>1, <2>2, <2>3 DEF Complete
  <1>8. CASE ReadTerminalAudit
    BY <1>0, <1>8 DEF ReadTerminalAudit, catalogVars, TypeOK
  <1>9. CASE CallFails
    BY <1>0, <1>9 DEF CallFails, catalogVars, TypeOK
  <1>10. CASE Crash
    BY <1>10 DEF Crash
  <1>. QED
    BY <1>1, <1>2, <1>3, <1>4, <1>5, <1>6, <1>7, <1>8, <1>9, <1>10 DEF Coordinator

\* What the freeze keeps: staged batches only go down to zero, and rows stay.
LEMMA ProofStep ==
  DeletionInv /\ [Next]_vars => StagedIsDrained' /\ ProofIsFresh'
  <1> SUFFICES ASSUME DeletionInv, [Next]_vars PROVE StagedIsDrained' /\ ProofIsFresh'
    OBVIOUS
  <1>0. TypeOK /\ StagedIsDrained /\ ProofIsFresh
    BY DEF DeletionInv
  <1> USE DEF StagedIsDrained, ProofIsFresh, Goto, KeepWork, StepOver, WorkDone
  <1>1. CASE UNCHANGED <<outbox, rows, coordVars>>
    BY <1>0, <1>1 DEF coordVars
  <1>2. ASSUME ~frozen, UNCHANGED coordVars PROVE StagedIsDrained' /\ ProofIsFresh'
    BY <1>0, <1>2 DEF coordVars, TypeOK
  <1>3. ASSUME NEW m \in mutations, MutatePart(m) PROVE StagedIsDrained' /\ ProofIsFresh'
    <2>1. m.index \in Index /\ rows \in [Index -> SUBSET (1 .. block)]
      BY <1>0 DEF TypeOK
    <2>2. \A i \in Index : rows'[i] \subseteq rows[i]
      BY <1>3, <2>1 DEF MutatePart
    <2>3. pc = "complete" => cur \in Index
      BY <1>0 DEF TypeOK
    <2>. QED  BY <1>0, <1>3, <2>2, <2>3 DEF MutatePart, coordVars
  <1>4. ASSUME NEW i \in Index, DrainOne(i) PROVE StagedIsDrained' /\ ProofIsFresh'
    BY <1>4 DEF DrainOne, coordVars
  <1>5. CASE pc' \in {"scan", "retire", "join", "attempt", "status", "freeze", "drain", "audit"}
    BY <1>5
  <1>6. CASE Drained
    BY <1>6 DEF Drained, storeVars
  <1>7. CASE EnsureAttempt \/ Reconcile \/ Submit \/ SubmitReturns \/ CompareAfterSubmit
    BY <1>0, <1>7 DEF EnsureAttempt, Reconcile, Submit, SubmitReturns, CompareAfterSubmit, storeVars
  <1>8. CASE ProveEmpty
    BY <1>0, <1>8 DEF ProveEmpty, storeVars
  <1>9. CASE Clients
    BY <1>1, <1>2, <1>9
    DEF Clients, Archive, DeleteKeepingData, BeginDeletion, Insert, StageBatch, Authorize, Acquire,
        ReleaseRead, CheckCatalog, storeVars
  <1>10. CASE ClickHouse
    BY <1>1, <1>3, <1>10
    DEF ClickHouse, MutationLands, SubmissionIsLost, FinishMutation, ForgetMutation
  <1>11. CASE Coordinator \/ Crash
    BY <1>4, <1>5, <1>6, <1>7, <1>8, <1>11
    DEF Coordinator, Scan, Retire, JoinReads, GetAttempt, PollStatus, Freeze, Complete,
        ReadTerminalAudit, CallFails, Crash
  <1>12. CASE UNCHANGED vars
    BY <1>1, <1>12 DEF vars, storeVars
  <1>. QED
    BY <1>9, <1>10, <1>11, <1>12 DEF Next

-----------------------------------------------------------------------------
(* Searches.                                                               *)

\* A fence holds while searches end, are refused or were not admitted to it.
LEMMA FenceStays ==
  ASSUME NEW i \in Index, Fenced(i), i \in retired => i \in retired',
         \A r \in Readers : reader'[r] = reader[r] \/ i \notin reader'[r].scope
  PROVE  Fenced(i)'
  BY DEF Fenced

\* No client gets into an index that has been fenced for a mutation.
LEMMA ClientFence == DeletionInv /\ Clients => MutatedIsFenced'
  <1> SUFFICES ASSUME DeletionInv, Clients PROVE MutatedIsFenced'
    OBVIOUS
  <1>0. TypeOK /\ WorkInHand /\ RecordsAgree /\ MutatedIsFenced /\ (cur # None => cur \in Index)
    BY DEF DeletionInv, TypeOK
  <1> DEFINE Mutated == {i \in Index : i \in attempts \/ life[i] = "deleted"}
  <1>1. UNCHANGED <<retired, coordVars, attempts>> \/ UNCHANGED <<retired, coordVars, attempts, reader>>
    BY DEF Clients, Archive, DeleteKeepingData, BeginDeletion, Insert, StageBatch, Authorize, Acquire,
           ReleaseRead, CheckCatalog, catalogVars, clientVars
  <1>2. \A i \in Index : life'[i] = "deleted" => life[i] = "deleted"
    BY <1>0 DEF Clients, Archive, DeleteKeepingData, BeginDeletion, Insert, StageBatch, Authorize,
                Acquire, ReleaseRead, CheckCatalog, catalogVars, TypeOK
  <1>3. ASSUME NEW i \in Index, life[i] \in {"deleting", "deleted"}, Fenced(i)
        PROVE  Fenced(i)'
    <2>1. CASE UNCHANGED reader
      BY <1>1, <1>3, <2>1 DEF Fenced
    <2>2. ASSUME NEW r \in Readers, Acquire(r) PROVE Fenced(i)'
      <3>1. reader \in [Readers -> [at : {"idle", "checked", "reading"}, scope : SUBSET Index]]
        BY <1>0 DEF TypeOK
      <3>2. CASE reader[r].scope \cap retired = {}
        <4>1. i \notin reader[r].scope
          BY <1>3, <2>2, <3>2 DEF Acquire, Fenced
        <4>2. reader' = [reader EXCEPT ![r] = [reader[r] EXCEPT !.at = "reading"]]
          BY <2>2, <3>2 DEF Acquire
        <4>3. i \notin reader'[r].scope /\ \A q \in Readers \ {r} : reader'[q] = reader[q]
          BY <3>1, <4>1, <4>2
        <4>. QED  BY <1>1, <1>3, <4>3, FenceStays
      <3>3. CASE reader[r].scope \cap retired # {}
        <4>1. reader' = [reader EXCEPT ![r] = [at |-> "idle", scope |-> {}]]
          BY <2>2, <3>3 DEF Acquire
        <4>. QED  BY <1>1, <1>3, <3>1, <4>1, FenceStays
      <3>. QED  BY <3>2, <3>3
    <2>3. ASSUME NEW r \in Readers, ReleaseRead(r) PROVE Fenced(i)'
      BY <1>0, <1>1, <1>3, <2>3, FenceStays DEF ReleaseRead, TypeOK
    <2>4. ASSUME NEW r \in Readers, NEW S \in SUBSET Index, CheckCatalog(r, S) PROVE Fenced(i)'
      <3>1. i \notin S
        BY <1>3, <2>4 DEF CheckCatalog
      <3>. QED  BY <1>0, <1>1, <1>3, <2>4, <3>1, FenceStays DEF CheckCatalog, TypeOK
    <2>. QED
      BY <2>1, <2>2, <2>3, <2>4
      DEF Clients, Archive, DeleteKeepingData, BeginDeletion, Insert, StageBatch, Authorize, clientVars
  <1>4. \A i \in attempts : life[i] = "deleting"
    BY <1>0 DEF RecordsAgree
  <1>. QED
    BY <1>0, <1>1, <1>2, <1>3, <1>4 DEF MutatedIsFenced, WorkInHand, coordVars

\* The coordinator makes an attempt durable only behind the fence.
LEMMA CoordinatorFence == DeletionInv /\ Coordinator => MutatedIsFenced'
  <1> SUFFICES ASSUME DeletionInv, Coordinator PROVE MutatedIsFenced'
    OBVIOUS
  <1>0. TypeOK /\ WorkInHand /\ RecordsAgree /\ MutatedIsFenced /\ (cur # None => cur \in Index)
    BY DEF DeletionInv, TypeOK
  <1> USE DEF Goto, KeepWork, StepOver, WorkDone
  <1>1. UNCHANGED reader /\ retired \subseteq retired'
    BY DEF Coordinator, Scan, Retire, JoinReads, GetAttempt, PollStatus, Freeze, DrainOne, Drained,
           EnsureAttempt, Reconcile, ProveEmpty, Submit, SubmitReturns, CompareAfterSubmit, Complete,
           ReadTerminalAudit, CallFails, clientVars
  <1>2. \A i \in Index : Fenced(i) => Fenced(i)'
    BY <1>1 DEF Fenced
  <1>3. \A i \in Index : (i \in attempts \/ life[i] = "deleted") => Fenced(i)'
    BY <1>0, <1>2 DEF MutatedIsFenced
  <1>4. CASE Scan
    BY <1>3, <1>4 DEF Scan, catalogVars, MutatedIsFenced
  <1>5. CASE Retire
    BY <1>0, <1>3, <1>5 DEF Retire, catalogVars, MutatedIsFenced
  <1>6. CASE JoinReads
    <2>1. cur \in Index /\ cur \in retired
      BY <1>0, <1>6 DEF JoinReads, MutatedIsFenced, TypeOK
    <2>2. Fenced(cur)
      <3>1. \A r \in Readers : reader[r].at \in {"idle", "checked", "reading"}
        BY <1>0 DEF TypeOK
      <3>. QED  BY <1>6, <2>1, <3>1 DEF JoinReads, Reads, Fenced
    <2>. QED  BY <1>2, <1>3, <1>6, <2>1, <2>2 DEF JoinReads, catalogVars, clientVars, MutatedIsFenced
  <1>7. CASE pc' = "retire" /\ cur' = cur /\ UNCHANGED <<life, retired>> /\ attempts' = attempts
    BY <1>3, <1>7 DEF MutatedIsFenced
  <1>8. CASE /\ pc \notin {"scan", "retire", "join"} /\ pc' # "scan" /\ cur' = cur /\ UNCHANGED retired
             /\ \A i \in Index : i \in attempts' \/ life'[i] = "deleted"
                                   => i = cur \/ i \in attempts \/ life[i] = "deleted"
    BY <1>0, <1>2, <1>3, <1>8 DEF MutatedIsFenced, TypeOK
  <1>9. CASE /\ pc \notin {"scan", "retire", "join"} /\ cur' = None
             /\ \A i \in Index : i \in attempts' \/ life'[i] = "deleted"
                                   => i = cur \/ i \in attempts \/ life[i] = "deleted"
    BY <1>0, <1>2, <1>3, <1>9 DEF MutatedIsFenced, TypeOK
  <1>10. CASE GetAttempt \/ PollStatus \/ Freeze \/ Drained \/ (\E i \in Index : DrainOne(i))
    BY <1>8, <1>10 DEF GetAttempt, PollStatus, Freeze, Drained, DrainOne, catalogVars, clientVars, coordVars
  <1>11. CASE EnsureAttempt
    BY <1>8, <1>11 DEF EnsureAttempt, clientVars
  <1>12. CASE Reconcile \/ ProveEmpty \/ Submit \/ SubmitReturns \/ CompareAfterSubmit
    BY <1>8, <1>12 DEF Reconcile, ProveEmpty, Submit, SubmitReturns, CompareAfterSubmit, catalogVars, clientVars
  <1>13. CASE Complete
    <2>1. \A i \in Index : i \in attempts' \/ life'[i] = "deleted"
                             => i = cur \/ i \in attempts \/ life[i] = "deleted"
      BY <1>0, <1>13 DEF Complete, CompletionCommits, catalogVars, TypeOK
    <2>. QED  BY <1>8, <1>9, <1>13, <2>1 DEF Complete, clientVars
  <1>14. CASE ReadTerminalAudit
    BY <1>8, <1>9, <1>14 DEF ReadTerminalAudit, catalogVars, clientVars
  <1>15. CASE CallFails
    BY <1>7, <1>15 DEF CallFails, catalogVars, clientVars
  <1>. QED
    BY <1>4, <1>5, <1>6, <1>10, <1>11, <1>12, <1>13, <1>14, <1>15 DEF Coordinator

\* Every step keeps the mutated indexes fenced.
LEMMA FenceStep == DeletionInv /\ [Next]_vars => MutatedIsFenced'
  <1> SUFFICES ASSUME DeletionInv, [Next]_vars PROVE MutatedIsFenced'
    OBVIOUS
  <1>1. CASE ClickHouse \/ UNCHANGED vars
    <2>1. UNCHANGED <<life, attempts, reader, retired, pc, cur>>
      BY <1>1 DEF ClickHouse, MutationLands, SubmissionIsLost, MutatePart, FinishMutation,
                  ForgetMutation, vars, catalogVars, clientVars, coordVars
    <2>. QED  BY <2>1 DEF DeletionInv, MutatedIsFenced, Fenced
  <1>2. CASE Crash
    BY <1>2 DEF Crash, MutatedIsFenced, Fenced
  <1>. QED
    BY <1>1, <1>2, ClientFence, CoordinatorFence DEF Next

-----------------------------------------------------------------------------
(* Theorems.                                                               *)

\* The coordinator keeps its records, its fences and its proof in step,
\* whatever calls fail, answers are lost and restarts happen.
THEOREM DeletionInvariant == Spec => []DeletionInv
  <1>1. DeletionInv /\ [Next]_vars => DeletionInv'
    <2>1. DeletionInv /\ UNCHANGED vars => WorkInHand'
      BY DEF DeletionInv, WorkInHand, vars, catalogVars, coordVars
    <2>2. DeletionInv /\ [Next]_vars => WorkInHand'
      BY <2>1, OthersLeaveWork, CoordinatorWork DEF Next
    <2>. QED
      BY <2>2, TypeStep, RecordsStep, ProofStep, FenceStep DEF DeletionInv
  <1>. QED
    BY InitInv, <1>1, PTL DEF Spec

\* Every variable keeps its type.
THEOREM DeletionTypeCorrect == Spec => []TypeOK
  BY DeletionInvariant, PTL DEF DeletionInv

\* One operation for each index that is being deleted, none twice, attempts
\* for operations only, and no mutation without its durable attempt.
THEOREM DeletionRecordsAgree == Spec => []RecordsAgree
  BY DeletionInvariant, PTL DEF DeletionInv

\* Only the coordinator's call marks an index deleted, and it holds the freeze.
LEMMA ProvenStep ==
  ASSUME DeletionInv, [Next]_vars, NEW i \in Index, life[i] # "deleted", life'[i] = "deleted"
  PROVE  frozen /\ rows[i] = {} /\ outbox[i] = 0
  <1>1. TypeOK /\ StagedIsDrained /\ ProofIsFresh
    BY DEF DeletionInv
  <1>2. Complete /\ CompletionCommits
    <2>1. ~ UNCHANGED catalogVars
      BY DEF catalogVars
    <2>2. ~ (\E j \in Index : Archive(j) \/ DeleteKeepingData(j) \/ BeginDeletion(j))
      BY <1>1 DEF Archive, DeleteKeepingData, BeginDeletion, TypeOK
    <2>3. life' # life
      OBVIOUS
    <2>. QED
      BY <2>1, <2>2, <2>3
      DEF Next, vars, Clients, Insert, StageBatch, Authorize, Acquire, ReleaseRead, CheckCatalog,
          ClickHouse, MutationLands, SubmissionIsLost, MutatePart, FinishMutation, ForgetMutation,
          Coordinator, Scan, Retire, JoinReads, GetAttempt, PollStatus, Freeze, DrainOne, Drained,
          EnsureAttempt, Reconcile, ProveEmpty, Submit, SubmitReturns, CompareAfterSubmit, Complete,
          ReadTerminalAudit, CallFails, Crash
  <1>3. pc = "complete" /\ i = cur /\ frozen
    BY <1>1, <1>2 DEF Complete, CompletionCommits, TypeOK
  <1>. QED
    BY <1>1, <1>3 DEF StagedIsDrained, ProofIsFresh

\* A deletion is completed on a proof of emptiness that is still true: under
\* the freeze, with nothing staged, whatever failed before.
THEOREM CompletionProven == Spec => CompletionIsProven
  <1>1. DeletionInv /\ [Next]_vars =>
          \A i \in Index : life[i] # "deleted" /\ life'[i] = "deleted" =>
            frozen /\ rows[i] = {} /\ outbox[i] = 0
    BY ProvenStep
  <1>. QED
    BY <1>1, DeletionInvariant, PTL DEF Spec, CompletionIsProven

\* Only a mutation takes rows, and what it takes belongs to a fenced index.
LEMMA ReadersStep ==
  ASSUME DeletionInv, [Next]_vars, NEW i \in Index, ~ (rows[i] \subseteq rows'[i])
  PROVE  life[i] \in {"deleting", "deleted"} /\ Reads(i) = {}
  <1>1. TypeOK /\ RecordsAgree /\ MutatedIsFenced
    BY DEF DeletionInv
  <1>2. rows \in [Index -> SUBSET (1 .. block)]
    BY <1>1 DEF TypeOK
  <1>3. PICK m \in mutations : MutatePart(m)
    <2>1. ~ UNCHANGED rows
      OBVIOUS
    <2>2. ~ (\E j \in Index : Insert(j) \/ DrainOne(j))
      BY <1>2 DEF Insert, DrainOne
    <2>. QED
      BY <2>1, <2>2
      DEF Next, vars, storeVars, Clients, Archive, DeleteKeepingData, BeginDeletion, StageBatch,
          Authorize, Acquire, ReleaseRead, CheckCatalog,
          ClickHouse, MutationLands, SubmissionIsLost, FinishMutation, ForgetMutation,
          Coordinator, Scan, Retire, JoinReads, GetAttempt, PollStatus, Freeze, Drained,
          EnsureAttempt, Reconcile, ProveEmpty, Submit, SubmitReturns, CompareAfterSubmit, Complete,
          ReadTerminalAudit, CallFails, Crash
  <1>4. m.index = i
    BY <1>2, <1>3 DEF MutatePart
  <1>5. i \in attempts \/ life[i] = "deleted"
    BY <1>1, <1>3, <1>4 DEF RecordsAgree, Correlated
  <1>. QED
    BY <1>1, <1>5 DEF RecordsAgree, MutatedIsFenced, Fenced, Reads

\* Rows disappear only from an index under deletion, and never while a search
\* that was admitted to the index is reading.
THEOREM ReadersAreJoined == Spec => RowsSurviveReaders
  <1>1. DeletionInv /\ [Next]_vars =>
          \A i \in Index : ~ (rows[i] \subseteq rows'[i]) =>
            life[i] \in {"deleting", "deleted"} /\ Reads(i) = {}
    BY ReadersStep
  <1>. QED
    BY <1>1, DeletionInvariant, PTL DEF Spec, RowsSurviveReaders

-----------------------------------------------------------------------------
(* Without native writers, whose authority is read too early (the run       *)
(* index_deletion_late_writer), the promise to the administrator holds.     *)

\* Without native writers nothing brings a row back to a deleted index.
LEMMA EmptyStep ==
  ASSUME NativeWriters = {}, DeletionInv, DeletedStaysEmpty, [Next]_vars
  PROVE  DeletedStaysEmpty'
  <1> SUFFICES ASSUME NEW i \in Index, life'[i] = "deleted"
               PROVE  rows'[i] = {} /\ outbox'[i] = 0
    BY DEF DeletedStaysEmpty
  <1>1. TypeOK
    BY DEF DeletionInv
  <1>2. CASE life[i] # "deleted"
    <2>1. rows[i] = {} /\ outbox[i] = 0
      BY <1>2, ProvenStep
    <2>2. UNCHANGED <<rows, outbox>>
      BY <1>2
      DEF Next, vars, storeVars, Clients, Archive, DeleteKeepingData, BeginDeletion, Insert, StageBatch,
          Authorize, Acquire, ReleaseRead, CheckCatalog, catalogVars,
          ClickHouse, MutationLands, SubmissionIsLost, MutatePart, FinishMutation, ForgetMutation,
          Coordinator, Scan, Retire, JoinReads, GetAttempt, PollStatus, Freeze, DrainOne, Drained,
          EnsureAttempt, Reconcile, ProveEmpty, Submit, SubmitReturns, CompareAfterSubmit, Complete,
          ReadTerminalAudit, CallFails, Crash
    <2>. QED  BY <2>1, <2>2
  <1>3. CASE life[i] = "deleted"
    <2>1. rows[i] = {} /\ outbox[i] = 0
      BY <1>3 DEF DeletedStaysEmpty
    <2>2. ASSUME NEW w \in Writers, StageBatch(w) PROVE rows'[i] = {} /\ outbox'[i] = 0
      <3>1. granted[w] \in Index /\ (granted[w] = i => outbox' = outbox)
        BY <1>1, <1>3, <2>2 DEF StageBatch, StillAuthorized, Writers, TypeOK
      <3>. QED  BY <1>1, <2>1, <2>2, <3>1 DEF StageBatch, TypeOK
    <2>3. ASSUME NEW j \in Index, Insert(j) \/ DrainOne(j) PROVE rows'[i] = {} /\ outbox'[i] = 0
      <3>1. j # i
        BY <2>1, <2>3 DEF Insert, DrainOne
      <3>. QED  BY <1>1, <2>1, <2>3, <3>1 DEF Insert, DrainOne, TypeOK
    <2>4. ASSUME NEW m \in mutations, MutatePart(m) PROVE rows'[i] = {} /\ outbox'[i] = 0
      BY <1>1, <2>1, <2>4 DEF MutatePart, TypeOK
    <2>5. CASE UNCHANGED <<rows, outbox>>
      BY <2>1, <2>5
    <2>. QED
      BY <2>2, <2>3, <2>4, <2>5
      DEF Next, vars, storeVars, Clients, Archive, DeleteKeepingData, BeginDeletion,
          Authorize, Acquire, ReleaseRead, CheckCatalog,
          ClickHouse, MutationLands, SubmissionIsLost, FinishMutation, ForgetMutation,
          Coordinator, Scan, Retire, JoinReads, GetAttempt, PollStatus, Freeze, Drained,
          EnsureAttempt, Reconcile, ProveEmpty, Submit, SubmitReturns, CompareAfterSubmit, Complete,
          ReadTerminalAudit, CallFails, Crash
  <1>. QED
    BY <1>2, <1>3

\* Writers whose authority is read again when they stage cannot bring a row
\* back after the deletion of its index completed.
THEOREM DeletedIsFinal ==
  ASSUME NativeWriters = {}
  PROVE  Spec => []DeletedStaysEmpty
  <1>1. Init => DeletedStaysEmpty
    BY DEF Init, DeletedStaysEmpty
  <1>2. DeletionInv /\ DeletedStaysEmpty /\ [Next]_vars => DeletedStaysEmpty'
    BY EmptyStep
  <1>. QED
    BY <1>1, <1>2, DeletionInvariant, PTL DEF Spec

\* Every step is one of the abstract promise, or invisible to it.
LEMMA PromiseStep ==
  ASSUME DeletionInv, DeletedStaysEmpty, [Next]_vars
  PROVE  [Promise!Next]_<<life, rows>>
  <1>1. TypeOK /\ RecordsAgree /\ WorkInHand
    BY DEF DeletionInv
  <1>2. /\ life \in [Index -> {"active", "archived", "deleting", "deleted", "hidden"}]
        /\ rows \in [Index -> SUBSET (1 .. block)]
    BY <1>1 DEF TypeOK
  <1>3. CASE UNCHANGED <<life, rows>>
    BY <1>3
  <1>4. ASSUME NEW i \in Index, Insert(i) \/ DrainOne(i) PROVE Promise!Next
    <2>1. outbox[i] # 0 /\ life' = life
      BY <1>4 DEF Insert, DrainOne, catalogVars
    <2>2. Promise!Grow(i)
      BY <1>2, <1>4, <2>1 DEF Insert, DrainOne, DeletedStaysEmpty, Promise!Grow
    <2>. QED  BY <2>2 DEF Promise!Next
  <1>5. ASSUME NEW m \in mutations, MutatePart(m) PROVE Promise!Next
    <2>1. m.index \in Index /\ rows[m.index] # {}
      BY <1>1, <1>5 DEF MutatePart, Older, TypeOK
    <2>2. life[m.index] = "deleting"
      BY <1>1, <2>1 DEF RecordsAgree, Correlated, DeletedStaysEmpty
    <2>3. Promise!Shrink(m.index)
      BY <1>2, <1>5, <2>1, <2>2 DEF MutatePart, catalogVars, Promise!Shrink
    <2>. QED  BY <2>1, <2>3 DEF Promise!Next
  <1>6. ASSUME NEW i \in Index, Archive(i) \/ DeleteKeepingData(i) \/ BeginDeletion(i) PROVE Promise!Next
    <2>1. Promise!ChangeState(i)
      BY <1>6 DEF Archive, DeleteKeepingData, BeginDeletion, storeVars, Promise!ChangeState, Promise!Succeeds
    <2>. QED  BY <2>1 DEF Promise!Next
  <1>7. ASSUME Complete, CompletionCommits PROVE [Promise!Next]_<<life, rows>>
    <2>1. cur \in Index /\ life[cur] \in {"deleting", "deleted"} /\ rows[cur] = {} /\ rows' = rows
      BY <1>1, <1>7 DEF Complete, WorkInHand, DeletionInv, ProofIsFresh, storeVars, TypeOK
    <2>2. CASE life[cur] = "deleting"
      <3>1. Promise!Finish(cur)
        BY <1>7, <2>1, <2>2 DEF CompletionCommits, Promise!Finish
      <3>. QED  BY <2>1, <3>1 DEF Promise!Next
    <2>3. CASE life[cur] = "deleted"
      BY <1>2, <1>7, <2>1, <2>3 DEF CompletionCommits
    <2>. QED  BY <2>1, <2>2, <2>3
  <1>. QED
    BY <1>3, <1>4, <1>5, <1>6, <1>7
    DEF Next, vars, catalogVars, storeVars, Clients, StageBatch, Authorize, Acquire, ReleaseRead, CheckCatalog,
        ClickHouse, MutationLands, SubmissionIsLost, FinishMutation, ForgetMutation,
        Coordinator, Scan, Retire, JoinReads, GetAttempt, PollStatus, Freeze, Drained,
        EnsureAttempt, Reconcile, ProveEmpty, Submit, SubmitReturns, CompareAfterSubmit, Complete,
        ReadTerminalAudit, CallFails, Crash

\* The protocol implements the promise: data shrinks only in a deletion that
\* was begun, and is empty from the completion on.
THEOREM DeletionKeepsPromise ==
  ASSUME NativeWriters = {}
  PROVE  Spec => KeepsPromise
  <1>1. Init => Promise!Init
    BY DEF Init, Promise!Init
  <1>2. DeletionInv /\ DeletedStaysEmpty /\ [Next]_vars => [Promise!Next]_<<life, rows>>
    BY PromiseStep
  <1>. QED
    BY <1>1, <1>2, DeletionInvariant, DeletedIsFinal, PTL DEF Spec, KeepsPromise, Promise!Spec
=============================================================================
