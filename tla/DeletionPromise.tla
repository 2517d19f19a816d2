-------------------------- MODULE DeletionPromise --------------------------
(***************************************************************************)
(* The deletion of an index as its administrator sees it: the data of an    *)
(* index can grow until the deletion is complete, shrinks only while it is  *)
(* being deleted, and is empty from its completion on.                      *)
(***************************************************************************)
CONSTANT Index
VARIABLES life, data

Init == life = [i \in Index |-> "active"] /\ data = [i \in Index |-> {}]

Grow(i) ==
  /\ life[i] # "deleted" /\ life' = life
  /\ data[i] \subseteq data'[i]
  /\ \A j \in Index \ {i} : data'[j] = data[j]

Shrink(i) ==
  /\ life[i] = "deleting" /\ life' = life
  /\ data'[i] \subseteq data[i]
  /\ \A j \in Index \ {i} : data'[j] = data[j]

Succeeds == [active |-> {"archived"}, archived |-> {"deleting", "hidden"},
             deleting |-> {}, deleted |-> {}, hidden |-> {}]

ChangeState(i) ==
  /\ data' = data
  /\ \E s \in Succeeds[life[i]] : life' = [life EXCEPT ![i] = s]

Finish(i) ==
  /\ life[i] = "deleting" /\ data[i] = {}
  /\ data' = data /\ life' = [life EXCEPT ![i] = "deleted"]

Next == \E i \in Index : Grow(i) \/ Shrink(i) \/ ChangeState(i) \/ Finish(i)

Spec == Init /\ [][Next]_<<life, data>>
=============================================================================
