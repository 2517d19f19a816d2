-------------------------- MODULE MCVisibilityLedger --------------------------
(* Small instances of VisibilityLedger for TLC. *)
EXTENDS VisibilityLedger, TLC

CONSTANTS b1, b2, b3, c1, c2

\* b1 and b2 share a key; b2 and b3 belong to one principal.
MCSharesKey == {<<b1, b2>>, <<b2, b1>>}
MCPrincipalOf == b1 :> 1 @@ b2 :> 2 @@ b3 :> 2
MCRows == b1 :> 1 @@ b2 :> 1 @@ b3 :> 2

NoLegacy == <<>>
===============================================================================
