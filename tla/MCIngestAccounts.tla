--------------------------- MODULE MCIngestAccounts ---------------------------
(* Instances of IngestAccounts for model checking.                            *)
EXTENDS IngestAccounts, TLC

CONSTANTS b1, b2, b3, token, rejections, ch1

NoKeysShared == {}
OnePrincipal == [b \in Batches |-> 1]
OneRow == [b \in Batches |-> 1]
NoLegacy == <<>>

\* b1 is charged twice as much as the others; only the token's rate changes.
Weights == [b \in Batches |-> [m \in {token} |-> IF b = b1 THEN 2 ELSE 1]]
RejectionWeights == [b \in Batches |-> [m \in {rejections} |-> 1]]
Rates == [m \in Meters |-> IF m = token THEN {0, 1} ELSE {1}]

\* Without quotas.
NothingCosts == [b \in Batches |-> <<>>]

OneChannel == [b \in Hec |-> ch1]

\* The HEC requests are alike.
RequestSymmetry == Permutations(Hec)
===============================================================================
