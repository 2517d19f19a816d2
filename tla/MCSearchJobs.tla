---------------------------- MODULE MCSearchJobs ----------------------------
(* Instances of SearchJobs for TLC.                                        *)
EXTENDS SearchJobs, TLC

CONSTANTS j1, j2, j3, q1

\* Two calls under one request identity, and a search without one.
SameRequest == j1 :> q1 @@ j2 :> q1 @@ j3 :> None
\* Searches without a request identity.
NoRequest == [j \in Job |-> None]
OneLimit == {1}
TwoLimits == {1, 2}
=============================================================================
