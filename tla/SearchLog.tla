------------------------------- MODULE SearchLog -------------------------------
(***************************************************************************)
(* What the ingest store promises a search: the rows up to the visibility  *)
(* cutoff form a log, one entry per visibility sequence, that only grows   *)
(* at its end.  An entry is the batch whose rows are there exactly once,   *)
(* or Gap for a sequence that has no rows.  A batch that a client delivers *)
(* again is in the log a second time only if at least Retained other       *)
(* batches were published in between.                                      *)
(***************************************************************************)
EXTENDS Integers, Sequences, FiniteSets

CONSTANTS Batches, Gap, Retained

VARIABLE log

Entries == Batches \cup {Gap}

BatchEntries(l, i, j) == {k \in (i + 1)..(j - 1) : l[k] \in Batches}

\* No batch is repeated within the retry window.
WindowUnique(l) ==
    \A i, j \in DOMAIN l : i < j /\ l[i] = l[j] /\ l[i] \in Batches
        => Cardinality(BatchEntries(l, i, j)) >= Retained

Init == log = <<>>

\* The cutoff passes one or more sequences.
Publish ==
    /\ log' \in Seq(Entries)
    /\ Len(log') > Len(log)
    /\ SubSeq(log', 1, Len(log)) = log
    /\ WindowUnique(log')

Spec == Init /\ [][Publish]_log
===============================================================================
