----------------------------- MODULE MCIngestStore -----------------------------
(* Small instances of IngestStore for TLC. *)
EXTENDS IngestStore, TLC

CONSTANTS b1, b2, b3, r1, r2

MCSharesKey == {}
MCPrincipalOf == (b1 :> 1 @@ b2 :> 2 @@ b3 :> 1)
MCRows == [b \in Batches |-> 1]

\* Requests are interchangeable (used without liveness properties only).
RequestSymmetry == Permutations(Requests)

NoLegacy == <<>>
\* An upgrade finds one send in doubt and one reservation that was not sent.
UpgradeLegacy == <<[batch |-> b1, phase |-> "ambiguous"], [batch |-> b2, phase |-> "unsent"]>>
===============================================================================
