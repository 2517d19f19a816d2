---------------------------- MODULE SourceDelivery ----------------------------
(***************************************************************************)
(* What the collector promises about a source: every event reaches a       *)
(* durable end and keeps it, and the position kept for a restart never     *)
(* passes an event that has none and never moves back.                     *)
(***************************************************************************)
EXTENDS Naturals

CONSTANT Length
VARIABLES settled, position

vars == <<settled, position>>

Init == settled = {} /\ position = 0

Settle ==
    /\ \E more \in SUBSET ((1 .. Length) \ settled) : settled' = settled \cup more
    /\ UNCHANGED position

Advance ==
    /\ \E p \in position + 1 .. Length : 1 .. p \subseteq settled /\ position' = p
    /\ UNCHANGED settled

Next == Settle \/ Advance

Safety == Init /\ [][Next]_vars
===============================================================================
