--------------------------- MODULE IngestAccounts ---------------------------
(***************************************************************************)
(* What the ledger's transactions keep beside a reservation:                *)
(*   - the quota: ingest_quota_buckets and ingest_quota_admissions, and the *)
(*     separate buckets of rejections (internal/ingestquota,                *)
(*     visibility/sqlite.go, visibility/sqlite_rejection_quota.go);         *)
(*   - the HEC requests and their acknowledgments (hec_requests,            *)
(*     hec_channels, hec_acknowledgments; visibility/hec_acknowledgment.go),*)
(*     moved by triggers of the reservation's row.                          *)
(* Both change in the transaction of the ledger call, so a step here is a   *)
(* step of VisibilityLedger with what its transaction does to them.         *)
(*                                                                         *)
(* A meter is one limited dimension (events or bytes) of one scope (token,  *)
(* index, or the rejections of a token).  A bucket without a row and one    *)
(* with rate 0 behave alike: a policy with another rate starts at once.     *)
(***************************************************************************)
EXTENDS VisibilityLedger

CONSTANTS
    Meters,          \* scope and dimension
    Policies,        \* Policies[m]: rates the administrator may set; 0 is unlimited
    Cost,            \* Cost[b]: cost of admitting b, on each meter it is charged to
    RejectionCost,   \* RejectionCost[b]: cost of rejecting b
    Hec,             \* batches that are HEC requests
    Channel,         \* Channel[b]: its acknowledgment channel, NoChannel without one
    NoChannel,
    MaxRequests,     \* MaxHECRequestsPerToken
    MaxAcks,         \* MaxHECAcknowledgmentsPerToken
    MaxChannels,     \* MaxHECChannelsPerToken
    MaxTime,         \* bound: the clock
    MaxEpoch         \* bound: starts of the process

VARIABLES
    now,         \* the server's clock
    policy,      \* the rate of each meter in the catalog
    bucket,      \* ingest_quota_buckets: rate and next admission of each meter
    admissions,  \* ingest_quota_admissions: batches that were charged
    requests,    \* hec_requests with its acknowledgment, of each HEC batch
    ordinal,     \* hec_channels.next_acknowledgment_id; 0 without a row
    epoch,       \* the random key of this process
    snapshot,    \* a backup of the database, <<>> if there is none
    taken,       \* history: cost of the batches accepted on a meter under its policy
    since,       \* history: when that policy was set
    bills,       \* history: how often a batch was charged
    stored,      \* history: batches that were committed
    handed       \* history: acknowledgment ids given to clients, with their batch

quotaVars == <<bucket, admissions, taken, bills>>
policyVars == <<now, policy, since>>
hecVars == <<requests, ordinal>>
accountVars == <<policyVars, quotaVars, hecVars, epoch, snapshot, stored, handed>>
ingestVars == <<ledgerVars, accountVars>>

ASSUME AccountsAssumption ==
    /\ Hec \subseteq Batches /\ Policies \in [Meters -> SUBSET Nat]
    /\ Channel \in [Hec -> UNION {{NoChannel}, {Channel[b] : b \in Hec}}]
    /\ \A b \in Batches : \A costs \in {Cost[b], RejectionCost[b]} :
          DOMAIN costs \subseteq Meters /\ costs \in [DOMAIN costs -> Nat]
    /\ MaxTime \in Nat /\ MaxEpoch \in Nat

Channels == {Channel[b] : b \in Hec} \ {NoChannel}

(***************************************************************************)
(* Quotas.  Evaluate decides over all meters of a call or none.             *)
(***************************************************************************)
\* scheduleDuration: the time a cost takes at a rate, rounded up.
Duration(cost, rate) == (cost + rate - 1) \div rate

\* normalizedCharge: a meter whose rate has changed starts at once.
NextAdmission(m) == IF bucket[m].rate = policy[m] THEN bucket[m].next ELSE now

Allowed(costs) == \A m \in DOMAIN costs : policy[m] # 0 => NextAdmission(m) <= now

Scheduled(costs) ==
    [m \in Meters |->
        IF m \notin DOMAIN costs THEN bucket[m]
        ELSE [rate |-> policy[m],
              next |-> IF policy[m] = 0 THEN 0 ELSE now + Duration(costs[m], policy[m])]]

Charge(costs) ==
    /\ Allowed(costs)
    /\ bucket' = Scheduled(costs)
    /\ taken' = [m \in Meters |-> IF m \in DOMAIN costs THEN taken[m] + costs[m] ELSE taken[m]]

\* Seeded fault: ingest_quota_admissions is not consulted.
AdmitQuotaEachTime(b) ==
    /\ Charge(Cost[b])
    /\ admissions' = admissions \cup {b}
    /\ bills' = [bills EXCEPT ![b] = @ + 1]

\* planQuotaReservation and persistQuotaReservation.
AdmitQuota(b) ==
    IF b \in admissions THEN UNCHANGED quotaVars
    ELSE /\ Charge(Cost[b])
         /\ admissions' = admissions \cup {b}
         /\ bills' = [bills EXCEPT ![b] = @ + 1]

\* planRejectionQuota and persistRejectionQuota.
ChargeRejection(b) == Charge(RejectionCost[b]) /\ UNCHANGED <<admissions, bills>>

(***************************************************************************)
(* HEC requests                                                            *)
(***************************************************************************)
NoRequest == [state |-> "none", sequence |-> 0, ack |-> <<>>]
Retaining == {b \in Hec : requests[b].state \in {"pending", "indexed", "failed"}}
OpenChannels == {c \in Channels : ordinal[c] > 0}

\* preflightHECAdmission, for the one token modelled.
HecHasCapacity(b) ==
    /\ Cardinality(Retaining) < MaxRequests
    /\ Channel[b] # NoChannel =>
          /\ Cardinality({d \in Retaining : requests[d].ack # <<>>}) < MaxAcks
          /\ Channel[b] \in OpenChannels \/ Cardinality(OpenChannels) < MaxChannels

\* Seeded fault: the ordinal alone.
NewAckWithoutKey(b) == <<Channel[b], 0, ordinal'[Channel[b]]>>

\* allocateHECAcknowledgment: the key of the process and the channel's ordinal.
NewAck(b) == <<Channel[b], epoch, ordinal'[Channel[b]]>>

\* persistHECAdmission.  The request id is new with every HTTP request.
AdmitHec(b, s) ==
    /\ requests[b].state = "none" /\ HecHasCapacity(b)
    /\ ordinal' = [c \in Channels |-> ordinal[c] + IF c = Channel[b] THEN 1 ELSE 0]
    /\ requests' = [requests EXCEPT ![b] =
          [state |-> "pending", sequence |-> s,
           ack |-> IF Channel[b] = NoChannel THEN <<>> ELSE NewAck(b)]]
    /\ handed' = handed \cup IF Channel[b] = NoChannel THEN {} ELSE {<<NewAck(b), b>>}

\* Seeded fault: the members of a group are overlooked.
FollowUngrouped(r) ==
    IF r.sequence = 0 THEN r
    ELSE CASE state'[r.sequence] = "none" -> [r EXCEPT !.sequence = 0]
           [] r.state = "pending" /\ state'[r.sequence] = "committed" /\ group[r.sequence] = 0 ->
                 [r EXCEPT !.state = "indexed"]
           [] r.state = "pending" /\ state'[r.sequence] \in {"rejected", "abandoned"} ->
                 [r EXCEPT !.state = "failed"]
           [] OTHER -> r

\* Triggers hec_request_visibility_committed and _failed, and the foreign key
\* of a request whose reservation is pruned.
FollowReservation(r) ==
    IF r.sequence = 0 THEN r
    ELSE CASE state'[r.sequence] = "none" -> [r EXCEPT !.sequence = 0]
           [] r.state = "pending" /\ state'[r.sequence] = "committed" -> [r EXCEPT !.state = "indexed"]
           [] r.state = "pending" /\ state'[r.sequence] \in {"rejected", "abandoned"} ->
                 [r EXCEPT !.state = "failed"]
           [] OTHER -> r

\* LookupHECAcknowledgments.
Indexed(id) == \E b \in Hec : requests[b].ack = id /\ requests[b].state = "indexed"

(***************************************************************************)
(* Steps                                                                   *)
(***************************************************************************)
Allocates == lastAssigned' = lastAssigned + 1

\* Reserve of a batch without an outcome: quota first, then the rows.
ReserveAccounts ==
    LET b == batchOf'[lastAssigned']
    IN  /\ AdmitQuota(b)
        /\ IF b \in Hec THEN AdmitHec(b, lastAssigned') ELSE UNCHANGED <<hecVars, handed>>
        /\ UNCHANGED stored

RejectAccounts ==
    /\ batchOf'[lastAssigned'] \notin Hec
    /\ ChargeRejection(batchOf'[lastAssigned'])
    /\ UNCHANGED <<hecVars, handed, stored>>

\* Every other call: the triggers, and the cascade of a deleted identity.
SettleAccounts ==
    /\ requests' = [b \in Hec |-> FollowReservation(requests[b])]
    /\ admissions' = admissions \cap identities'
    /\ bills' = [b \in Batches |-> IF b \in identities' THEN bills[b] ELSE 0]
    /\ stored' = stored \cup {batchOf[s] : s \in {t \in Seqs : state'[t] = "committed"}}
    /\ UNCHANGED <<bucket, taken, ordinal, handed>>

Call ==
    /\ LedgerCall
    /\ IF ~ Allocates THEN SettleAccounts
       ELSE IF state'[lastAssigned'] = "reserved" THEN ReserveAccounts ELSE RejectAccounts
    /\ UNCHANGED <<policyVars, epoch, snapshot>>

\* PruneHECTerminalRequests: a request whose terminal retention is over.
PruneHECTerminalRequests(b) ==
    /\ requests[b].state \in {"indexed", "failed"}
    /\ requests' = [requests EXCEPT ![b] = [NoRequest EXCEPT !.state = "expired"]]
    /\ UNCHANGED <<ledgerVars, policyVars, quotaVars, ordinal, epoch, snapshot, stored, handed>>

Tick ==
    /\ now < MaxTime
    /\ now' = now + 1
    /\ UNCHANGED <<ledgerVars, policy, since, quotaVars, hecVars, epoch, snapshot, stored, handed>>

\* The administrator changes the rate of a token or an index.
SetPolicy(m, rate) ==
    /\ rate # policy[m]
    /\ policy' = [policy EXCEPT ![m] = rate]
    /\ since' = [since EXCEPT ![m] = now]
    /\ taken' = [taken EXCEPT ![m] = 0]
    /\ UNCHANGED <<ledgerVars, now, bucket, admissions, bills, hecVars, epoch, snapshot, stored, handed>>

Restart ==
    /\ epoch < MaxEpoch
    /\ Reopen
    /\ epoch' = epoch + 1
    /\ UNCHANGED <<policyVars, quotaVars, hecVars, snapshot, stored, handed>>

(***************************************************************************)
(* A coordinated backup: under the write freeze, with nothing pending, so   *)
(* the rows in ClickHouse are those of the committed reservations.          *)
(***************************************************************************)
Backup ==
    /\ snapshot = <<>> /\ epoch < MaxEpoch
    /\ Reserved = {} /\ Recoverable = {}
    /\ snapshot' = [lastAssigned |-> lastAssigned, committedThrough |-> committedThrough,
                    identities |-> identities, state |-> state, phase |-> phase,
                    batchOf |-> batchOf, group |-> group, groupState |-> groupState,
                    bucket |-> bucket, admissions |-> admissions, taken |-> taken,
                    bills |-> bills, requests |-> requests, ordinal |-> ordinal,
                    stored |-> stored, policy |-> policy, since |-> since]
    /\ UNCHANGED <<ledgerVars, policyVars, quotaVars, hecVars, epoch, stored, handed>>

\* Restore into a new process; what happened since the backup is discarded.
Restore ==
    /\ snapshot # <<>> /\ epoch < MaxEpoch
    /\ lastAssigned' = snapshot.lastAssigned /\ committedThrough' = snapshot.committedThrough
    /\ identities' = snapshot.identities /\ batchOf' = snapshot.batchOf
    /\ state' = snapshot.state /\ phase' = snapshot.phase
    /\ owner' = [s \in Seqs |-> Nobody]
    /\ group' = snapshot.group /\ groupState' = snapshot.groupState
    /\ groupOwner' = [g \in Seqs |-> Nobody]
    /\ bucket' = snapshot.bucket /\ admissions' = snapshot.admissions
    /\ taken' = snapshot.taken /\ bills' = snapshot.bills
    /\ requests' = snapshot.requests /\ ordinal' = snapshot.ordinal
    /\ stored' = snapshot.stored
    /\ policy' = snapshot.policy /\ since' = snapshot.since
    /\ snapshot' = <<>>
    /\ epoch' = epoch + 1
    /\ UNCHANGED <<now, handed>>

AccountsInit ==
    /\ LedgerInit
    /\ now = 0
    /\ policy \in {p \in [Meters -> UNION {Policies[m] : m \in Meters}] :
                     \A m \in Meters : p[m] \in Policies[m]} /\ since = [m \in Meters |-> 0]
    /\ bucket = [m \in Meters |-> [rate |-> 0, next |-> 0]]
    /\ admissions = {} /\ taken = [m \in Meters |-> 0] /\ bills = [b \in Batches |-> 0]
    /\ requests = [b \in Hec |-> NoRequest] /\ ordinal = [c \in Channels |-> 0]
    /\ epoch = 1 /\ snapshot = <<>> /\ stored = {} /\ handed = {}

AccountsNext ==
    \/ Call \/ Tick \/ Restart \/ Backup \/ Restore
    \/ \E b \in Hec : PruneHECTerminalRequests(b)
    \/ \E m \in Meters : \E rate \in Policies[m] : SetPolicy(m, rate)

AccountsSpec == AccountsInit /\ [][AccountsNext]_ingestVars

(***************************************************************************)
(* Properties                                                              *)
(***************************************************************************)
\* planQuotaReservation: a batch that was admitted is charged exactly once as
\* long as its identity is known, through lost results, abandoned attempts,
\* restarts and re-reservations; a batch that was never admitted is not charged.
OneBillPerBatch ==
    \A b \in Batches :
        /\ bills[b] <= 1
        /\ (\E s \in Seqs : batchOf[s] = b /\ state[s] \in {"reserved", "committed", "abandoned"})
              => bills[b] = 1

\* Evaluate: what a meter accepted under one policy is at most its rate times
\* the time since, and one batch more, whatever else the same calls charge,
\* however policies change in between and whichever calls are refused.
WithinRate ==
    \A m \in Meters : policy[m] # 0 =>
        \/ taken[m] <= policy[m] * (now - since[m])
        \/ \E costs \in {Cost[b] : b \in Batches} \cup {RejectionCost[b] : b \in Batches} :
              m \in DOMAIN costs /\ taken[m] - costs[m] <= policy[m] * (now - since[m])

\* What the meters are charged is what the batches and the rates say.
BillsAreRight == OneBillPerBatch /\ WithinRate

\* The triggers: a request is pending exactly as long as its reservation is,
\* alone or as a member of a write group, and is answered by what became of it.
RequestFollowsReservation ==
    /\ \A b \in Hec :
          /\ requests[b].state = "pending" =>
                requests[b].sequence \in Reserved /\ batchOf[requests[b].sequence] = b
          /\ requests[b].state = "indexed" => b \in stored
          /\ requests[b].state = "failed" => b \notin stored
    /\ \A s \in Reserved : batchOf[s] \in Hec =>
          requests[batchOf[s]].state = "pending" /\ requests[batchOf[s]].sequence = s

\* LookupHECAcknowledgments: an id is true only when the rows of the very
\* request it was given for are stored, also after restarts, and after a
\* restore that took back the request and allocates its ordinal again.
AckTellsTruth ==
    /\ \A h \in handed : Indexed(h[1]) => h[2] \in stored
    /\ \A h, k \in handed : h[1] = k[1] => h[2] = k[2]

\* True remains true: only the retention of the request, or a restore of an
\* older database, ends it; the pruning of the ledger does not.
AckStaysTrue ==
    [][\A b \in Hec : requests[b].state = "indexed" /\ requests'[b].state # "indexed" =>
          \/ requests'[b].state = "expired"
          \/ snapshot # <<>> /\ snapshot' = <<>>]_ingestVars
=============================================================================
