--------------------------- MODULE SearchJobs_proofs ---------------------------
(***************************************************************************)
(* What holds of search jobs for every number of jobs, workers and readers *)
(* of results, every limit and any number of failures and restarts.        *)
(*                                                                         *)
(* Where a job is (step) says what its three records, its verdict and its  *)
(* rows may be (JobInv); the manager's queue, workers and reservations are *)
(* about all jobs at once.                                                 *)
(***************************************************************************)
EXTENDS SearchJobs, FiniteSetTheorems, TLAPS

Unborn == {"idle", "disclaim", "refused", "undo"} \cup Admission
Finalizing == {"lease", "settle"} \cup Publication
Steps == Unborn \cup {"live"} \cup Finalizing \cup Settled
States == {"none", "queued", "running", "expired", "gone"} \cup Terminal
Arts == {"none", "queued", "staged", "interrupted"} \cup Terminal
Hists == {"none", "pending"} \cup Terminal
Runs == {"none", "skipped", "interrupted"} \cup ActiveRun \cup Terminal
Phases == {"open", "closing", "draining", "joining", "closed"}
Owners == {"worker", "caller", "close"}

\* What a call may still have to visit: a part of the order of the composite.
Rounds == {<<>>, <<"art">>, <<"hist">>, <<"run">>, <<"art", "hist">>, <<"hist", "run">>,
           <<"art", "hist", "run">>}
Left(s) == {s[i] : i \in 1 .. Len(s)}
\* What a Create call of j may still have to admit.
Remainders(j) ==
  IF j \in Reports THEN {<<"art", "hist", "run">>, <<"hist", "run">>, <<"run">>}
  ELSE {<<"art", "hist">>, <<"hist">>}

(***************************************************************************)
(* The inductive invariant                                                 *)
(***************************************************************************)
JobTypes ==
  /\ state \in [Job -> States] /\ step \in [Job -> Steps] /\ todo \in [Job -> Rounds]
  /\ answer \in [Job -> Terminal \cup {None}] /\ owner \in [Job -> Owners \cup {None}]
  /\ stopped \subseteq Job /\ cancels \subseteq stopped

PoolTypes ==
  /\ results \subseteq Job /\ reading \in [Readers -> Job \cup {None}]
  /\ queue \in Seq(Job) /\ worker \in [Workers -> Job \cup {"asleep", "ready", "out"}]
  /\ limit \in Limits /\ notify \in BOOLEAN
  /\ phase \in Phases /\ draining \subseteq Job

RecordTypes ==
  /\ art \in [Job -> Arts] /\ hist \in [Job -> Hists] /\ run \in [Job -> Runs]
  /\ files \subseteq Job /\ receipt \in [Requests -> Job \cup {None}]
  /\ retry \in [Job -> Terminal \cup {None}] /\ verdict \in [Job -> Terminal \cup {None}]

Types == JobTypes /\ PoolTypes /\ RecordTypes

\* What the manager holds of a job, at each step.
Placed(j) ==
  /\ step[j] \in Unborn \cup {"lost"} => state[j] = "none"
  /\ step[j] = "live" <=> state[j] \in {"queued", "running"}
  /\ step[j] \in {"lease"} \cup Publication => state[j] = "completed" /\ owner[j] = "worker"
  /\ step[j] = "settle" => state[j] \in {"failed", "canceled"} /\ owner[j] # None
  /\ step[j] \in {"over", "unpublished"} => state[j] \in Terminal \cup {"expired", "gone"}

Pinned(j) == step[j] \in Publication \/ \E r \in Readers : reading[r] = j

RowsKept(j) ==
  /\ j \in results => state[j] \in {"running", "completed", "expired"}
  /\ Pinned(j) => j \in results /\ state[j] \in {"completed", "expired"}
  /\ state[j] = "expired" /\ ~Pinned(j) => j \notin results

\* What callers were told, and what the records are being told.
Judged(j) ==
  /\ step[j] \in Unborn \cup {"live"} => verdict[j] = None
  /\ step[j] \in {"lease", "unpublished"} \cup Publication => verdict[j] = "completed"
  /\ step[j] = "settle" => verdict[j] \in {"failed", "canceled"} /\ answer[j] = verdict[j]
  /\ step[j] \in {"undo", "abort"} => answer[j] = "canceled"
  /\ step[j] \in {"lease", "stage", "write", "record", "project"} => answer[j] = "completed"
  /\ step[j] = "compensate" => answer[j] = "failed"

\* v is, or will be, the outcome in a record of j.
Fits(j, v) ==
  /\ v = "completed" => verdict[j] = "completed"
  /\ v = "canceled" => verdict[j] \in {"canceled", None}

Agrees(j) == Fits(j, art[j]) /\ Fits(j, hist[j]) /\ Fits(j, run[j]) /\ Fits(j, retry[j])

\* The records of a search that has not ended.
Open(j) ==
  /\ step[j] \in {"idle", "admit", "publish", "live"} =>
       /\ art[j] \in {"none", "queued"} /\ hist[j] \in {"none", "pending"}
       /\ run[j] \in {"none", "skipped", "interrupted"} \cup ActiveRun /\ retry[j] = None
  /\ step[j] = "idle" => art[j] = "none" /\ hist[j] = "none"
  /\ step[j] = "admit" => /\ "art" \in Left(todo[j]) => art[j] = "none"
                          /\ "hist" \in Left(todo[j]) => hist[j] = "none"
  /\ j \notin Reports => run[j] = "none"
  /\ j \in Reports /\ step[j] # "idle" => run[j] # "none"

\* Which records the call in hand has still to visit.
InOrder(j) ==
  /\ step[j] \in {"idle", "disclaim", "refused", "over", "lost"} => todo[j] = <<>>
  /\ step[j] = "admit" => todo[j] \in Remainders(j)
  /\ step[j] \in Telling => todo[j] # <<>>
  /\ j \notin Reports => "run" \notin Left(todo[j])
  /\ step[j] = "project" => "art" \notin Left(todo[j])

\* Completed is said in the history or the run only with the results in place.
Published(j) == art[j] = "completed" /\ j \in files

Barred(j) ==
  /\ "completed" \in {hist[j], run[j], retry[j]} =>
       Published(j) /\ step[j] \in {"project", "over", "lost"}
  /\ step[j] = "record" => j \in files
  /\ step[j] = "project" => Published(j)
  /\ step[j] = "lost" => art[j] \notin {"queued", "staged"} /\ (art[j] = "completed" => j \in files)

\* Whether a record that was visited is no longer active.
Told(j, t) ==
  /\ t = "art" /\ art[j] \in {"queued", "staged"} => <<j, t>> \in missed
  /\ t = "hist" /\ hist[j] = "pending" => <<j, t>> \in missed
  /\ t = "run" /\ run[j] \in ActiveRun => retry[j] # None \/ <<j, t>> \in missed

Settling(j) ==
  /\ step[j] \in Telling \cup {"over", "refused", "disclaim"} =>
       \A t \in {"art", "hist"} : t \in Left(todo[j]) \/ Told(j, t)
  /\ step[j] \in {"settle", "project", "compensate", "over", "refused"} =>
       "run" \in Left(todo[j]) \/ Told(j, "run")

JobInv(j) ==
  /\ Placed(j) /\ RowsKept(j) /\ Judged(j) /\ Agrees(j) /\ Open(j)
  /\ InOrder(j) /\ Barred(j) /\ Settling(j)

\* A worker stays with a job until it has told the records.
Held ==
  \A j \in Job : owner[j] = "worker" /\ step[j] \in Finalizing => \E w \in Workers : worker[w] = j

Queued ==
  /\ \A i, k \in 1 .. Len(queue) : queue[i] = queue[k] => i = k
  /\ \A i \in 1 .. Len(queue) :
       /\ state[queue[i]] = "queued" /\ queue[i] \notin cancels
       /\ \A w \in Workers : worker[w] # queue[i]
  /\ Closed => queue = <<>>
  /\ \A j \in Job : state[j] = "none" => j \notin cancels /\ \A w \in Workers : worker[w] # j

ReadyToLook == {w \in Workers : worker[w] = "ready"}

\* Enough workers are about to look, unless none sleeps.
Awake ==
  ~notify /\ ~Closed /\ Asleep # {} =>
    \/ Cardinality(ReadyToLook) >= Len(queue)
    \/ Cardinality(ReadyToLook) + Cardinality(Running) >= limit

Rooms ==
  /\ Cardinality(Listed) + Cardinality(Pending) =< MaxJobs
  /\ Len(queue) + Cardinality(Pending) =< MaxQueued
  /\ Leases =< MaxLeases

Shutting ==
  /\ \A w \in Workers : worker[w] = "out" => Closed
  /\ phase = "closed" => \A w \in Workers : worker[w] = "out"
  /\ phase \in {"draining", "joining", "closed"} => Pending = {}
  /\ Closed => \A j \in Job : step[j] = "live" => j \in draining
  /\ phase \in {"joining", "closed"} =>
       draining = {} /\ \A j \in Job : owner[j] = "close" => step[j] \in Settled

ManagerInv == Held /\ Queued /\ Awake /\ Rooms /\ Shutting

OneRun == \A j, k \in Reports : run[j] \in ActiveRun /\ run[k] \in ActiveRun => j = k

Receipted(j) ==
  Request[j] # None =>
    /\ step[j] = "admit" /\ "hist" \notin Left(todo[j]) => receipt[Request[j]] = j
    /\ step[j] \in {"publish", "live"} \/ state[j] # "none" => receipt[Request[j]] = j

JobsInv ==
  /\ Types /\ (\A j \in Job : JobInv(j)) /\ ManagerInv
  /\ OneRun /\ \A j \in Job : Receipted(j)

-----------------------------------------------------------------------------
(* Lemmas on rounds of records, and on pins.                                *)

\* What is left of each round.
LEMMA Lefts ==
  /\ Left(<<>>) = {} /\ \A x : Left(<<x>>) = {x}
  /\ \A x, y : Left(<<x, y>>) = {x, y}
  /\ \A x, y, z : Left(<<x, y, z>>) = {x, y, z}
  <1>1. Left(<<>>) = {} /\ \A x : Left(<<x>>) = {x}
    BY DEF Left
  <1>2. \A x, y : Left(<<x, y>>) = {x, y}
    BY DEF Left
  <1>3. \A x, y, z : Left(<<x, y, z>>) = {x, y, z}
    BY DEF Left
  <1>. QED  BY <1>1, <1>2, <1>3

\* Visiting the next record of a round.
LEMMA Segments ==
  ASSUME NEW s \in Rounds, s # <<>>
  PROVE  /\ Head(s) \in {"art", "hist", "run"} /\ Tail(s) \in Rounds
         /\ Head(s) \in Left(s) /\ Left(s) = {Head(s)} \cup Left(Tail(s))
         /\ Len(s) = 1 <=> Tail(s) = <<>>
         /\ Head(s) \notin Left(Tail(s))
         /\ "art" \in Left(s) => Head(s) = "art"
         /\ Head(s) = "run" => Tail(s) = <<>>
  <1>1. /\ Left(<<>>) = {} /\ \A x : Left(<<x>>) = {x}
        /\ \A x, y : Left(<<x, y>>) = {x, y}
        /\ \A x, y, z : Left(<<x, y, z>>) = {x, y, z}
    BY Lefts
  <1>4. CASE \E x \in {"art", "hist", "run"} : s = <<x>>
    <2>1. PICK x \in {"art", "hist", "run"} : s = <<x>>
      BY <1>4
    <2>2. Head(s) = x /\ Tail(s) = <<>> /\ Len(s) = 1
      BY <2>1
    <2>. QED  BY <2>1, <2>2, <1>1 DEF Rounds
  <1>5. CASE s = <<"art", "hist">>
    <2>1. Head(s) = "art" /\ Tail(s) = <<"hist">> /\ Len(s) = 2
      BY <1>5
    <2>. QED  BY <2>1, <1>1, <1>5 DEF Rounds
  <1>6. CASE s = <<"hist", "run">>
    <2>1. Head(s) = "hist" /\ Tail(s) = <<"run">> /\ Len(s) = 2
      BY <1>6
    <2>. QED  BY <2>1, <1>1, <1>6 DEF Rounds
  <1>7. CASE s = <<"art", "hist", "run">>
    <2>1. Head(s) = "art" /\ Tail(s) = <<"hist", "run">> /\ Len(s) = 3
      BY <1>7
    <2>. QED  BY <2>1, <1>1, <1>7 DEF Rounds
  <1>. QED  BY <1>4, <1>5, <1>6, <1>7 DEF Rounds

Kinds == {"art", "hist", "run"}

\* A short sequence is the tuple of its elements.
LEMMA Tuples ==
  ASSUME NEW s \in Seq(Kinds)
  PROVE  /\ Len(s) = 0 => s = <<>>
         /\ Len(s) = 1 => s = <<s[1]>>
         /\ Len(s) = 2 => s = <<s[1], s[2]>>
         /\ Len(s) = 3 => s = <<s[1], s[2], s[3]>>
  OBVIOUS

\* A part of a sequence.
LEMMA Part ==
  ASSUME NEW s \in Seq(Kinds), NEW m \in 1 .. Len(s), NEW n \in 1 .. Len(s)
  PROVE  /\ SubSeq(s, m, n) \in Seq(Kinds)
         /\ m =< n => Len(SubSeq(s, m, n)) = n - m + 1
         /\ \A i \in 1 .. n - m + 1 : SubSeq(s, m, n)[i] = s[m + i - 1]
  OBVIOUS

\* A short part of a sequence, as a tuple.
LEMMA Cut ==
  ASSUME NEW s \in Seq(Kinds), NEW m \in 1 .. Len(s), NEW n \in 1 .. Len(s)
  PROVE  /\ n = m => SubSeq(s, m, n) = <<s[m]>>
         /\ n = m + 1 => SubSeq(s, m, n) = <<s[m], s[n]>>
         /\ n = m + 2 => SubSeq(s, m, n) = <<s[m], s[m + 1], s[n]>>
  <1>. DEFINE u == SubSeq(s, m, n)
  <1>1. /\ u \in Seq(Kinds) /\ (m =< n => Len(u) = n - m + 1)
        /\ \A i \in 1 .. n - m + 1 : u[i] = s[m + i - 1]
    BY Part
  <1>. HIDE DEF u
  <1>0. m \in Int /\ n \in Int /\ m =< m
    OBVIOUS
  <1>2. ASSUME n = m PROVE u = <<s[m]>>
    <2>1. Len(u) = 1
      BY <1>0, <1>1, <1>2
    <2>2. 1 \in 1 .. n - m + 1 /\ m + 1 - 1 = m
      BY <1>0, <1>2
    <2>3. u[1] = s[m]
      BY <1>1, <2>2
    <2>4. u = <<u[1]>>
      BY <1>1, <2>1, Tuples
    <2>. QED  BY <2>3, <2>4
  <1>3. ASSUME n = m + 1 PROVE u = <<s[m], s[n]>>
    <2>0. m =< n /\ n - m + 1 = 2
      BY <1>0, <1>3
    <2>1. Len(u) = 2
      BY <1>1, <2>0
    <2>2. 1 \in 1 .. n - m + 1 /\ 2 \in 1 .. n - m + 1 /\ m + 1 - 1 = m /\ m + 2 - 1 = n
      BY <1>0, <1>3
    <2>3. u[1] = s[m] /\ u[2] = s[n]
      BY <1>1, <2>2
    <2>4. u = <<u[1], u[2]>>
      BY <1>1, <2>1, Tuples
    <2>. QED  BY <2>3, <2>4
  <1>4. ASSUME n = m + 2 PROVE u = <<s[m], s[m + 1], s[n]>>
    <2>0. m =< n /\ n - m + 1 = 3
      BY <1>0, <1>4
    <2>1. Len(u) = 3
      BY <1>1, <2>0
    <2>2. /\ 1 \in 1 .. n - m + 1 /\ 2 \in 1 .. n - m + 1 /\ 3 \in 1 .. n - m + 1
          /\ m + 1 - 1 = m /\ m + 2 - 1 = m + 1 /\ m + 3 - 1 = n
      BY <1>0, <1>4
    <2>3. u[1] = s[m] /\ u[2] = s[m + 1] /\ u[3] = s[n]
      BY <1>1, <2>2
    <2>4. u = <<u[1], u[2], u[3]>>
      BY <1>1, <2>1, Tuples
    <2>. QED  BY <2>3, <2>4
  <1>. QED  BY <1>2, <1>3, <1>4 DEF u

\* The parts of both orders that a Create call comes by.
LEMMA Cuts ==
  ASSUME NEW s, NEW l, l = Len(s)
  PROVE  /\ s = <<"art", "hist", "run">> =>
              /\ SubSeq(s, 1, l) = s /\ SubSeq(s, 2, l) = <<"hist", "run">> /\ SubSeq(s, 3, l) = <<"run">>
              /\ SubSeq(s, 1, 1) = <<"art">> /\ SubSeq(s, 1, 2) = <<"art", "hist">> /\ SubSeq(s, 1, 3) = s
         /\ s = <<"art", "hist">> =>
              /\ SubSeq(s, 1, l) = s /\ SubSeq(s, 2, l) = <<"hist">> /\ SubSeq(s, 1, 1) = <<"art">>
              /\ SubSeq(s, 1, 2) = s
  <1>1. ASSUME s = <<"art", "hist", "run">>
        PROVE  /\ SubSeq(s, 1, 3) = s /\ SubSeq(s, 2, 3) = <<"hist", "run">> /\ SubSeq(s, 3, 3) = <<"run">>
               /\ SubSeq(s, 1, 1) = <<"art">> /\ SubSeq(s, 1, 2) = <<"art", "hist">> /\ l = 3
    <2>1. s \in Seq(Kinds) /\ Len(s) = 3 /\ s[1] = "art" /\ s[2] = "hist" /\ s[3] = "run"
      BY <1>1 DEF Kinds
    <2>2. 1 \in 1 .. Len(s) /\ 2 \in 1 .. Len(s) /\ 3 \in 1 .. Len(s) /\ 3 = 2 + 1 /\ 3 = 1 + 2 /\ 2 = 1 + 1
      BY <2>1
    <2>3. /\ SubSeq(s, 1, 3) = <<s[1], s[2], s[3]>> /\ SubSeq(s, 2, 3) = <<s[2], s[3]>>
          /\ SubSeq(s, 3, 3) = <<s[3]>> /\ SubSeq(s, 1, 1) = <<s[1]>> /\ SubSeq(s, 1, 2) = <<s[1], s[2]>>
      BY <2>1, <2>2, Cut
    <2>. QED  BY <1>1, <2>1, <2>3
  <1>2. ASSUME s = <<"art", "hist">>
        PROVE  SubSeq(s, 1, 2) = s /\ SubSeq(s, 2, 2) = <<"hist">> /\ SubSeq(s, 1, 1) = <<"art">> /\ l = 2
    <2>1. s \in Seq(Kinds) /\ Len(s) = 2 /\ s[1] = "art" /\ s[2] = "hist"
      BY <1>2 DEF Kinds
    <2>2. 1 \in 1 .. Len(s) /\ 2 \in 1 .. Len(s) /\ 2 = 1 + 1
      BY <2>1
    <2>3. SubSeq(s, 1, 2) = <<s[1], s[2]>> /\ SubSeq(s, 2, 2) = <<s[2]>> /\ SubSeq(s, 1, 1) = <<s[1]>>
      BY <2>1, <2>2, Cut
    <2>. QED  BY <1>2, <2>1, <2>3
  <1>. QED  BY <1>1, <1>2

\* The records of a search, in the composite's order, and those of them that a
\* failed admission compensates.
LEMMA Orders ==
  ASSUME NEW j \in Job
  PROVE  /\ Targets(j) \in Rounds /\ Targets(j) # <<>> /\ Tail(Targets(j)) \in Rounds
         /\ Tail(Targets(j)) # <<>>
         /\ Left(Targets(j)) = {"art", "hist"} \cup (IF j \in Reports THEN {"run"} ELSE {})
         /\ Left(Tail(Targets(j))) = {"hist"} \cup (IF j \in Reports THEN {"run"} ELSE {})
         /\ Len(Targets(j)) \in Nat /\ Len(Targets(j)) >= 2
  <1>1. CASE j \in Reports
    <2>1. Targets(j) = <<"art", "hist", "run">> /\ Tail(Targets(j)) = <<"hist", "run">>
      BY <1>1 DEF Targets
    <2>. QED  BY <1>1, <2>1 DEF Rounds, Left
  <1>2. CASE j \notin Reports
    <2>1. Targets(j) = <<"art", "hist">> /\ Tail(Targets(j)) = <<"hist">>
      BY <1>2 DEF Targets
    <2>. QED  BY <1>2, <2>1 DEF Rounds, Left
  <1>. QED  BY <1>1, <1>2

\* The rounds one by one.
LEMMA EachRound ==
  /\ <<>> \in Rounds /\ Left(<<>>) = {}
  /\ <<"art">> \in Rounds /\ <<"art">> # <<>> /\ Left(<<"art">>) = {"art"}
  /\ <<"hist">> \in Rounds /\ <<"hist">> # <<>> /\ Left(<<"hist">>) = {"hist"}
  /\ <<"run">> \in Rounds /\ <<"run">> # <<>> /\ Left(<<"run">>) = {"run"}
  /\ <<"art", "hist">> \in Rounds /\ <<"art", "hist">> # <<>> /\ Left(<<"art", "hist">>) = {"art", "hist"}
  /\ <<"hist", "run">> \in Rounds /\ <<"hist", "run">> # <<>> /\ Left(<<"hist", "run">>) = {"hist", "run"}
  /\ <<"art", "hist", "run">> \in Rounds /\ <<"art", "hist", "run">> # <<>> /\ Left(<<"art", "hist", "run">>) = {"art", "hist", "run"}
  <1>0. <<>> \in Rounds /\ Left(<<>>) = {}
    BY Lefts DEF Rounds
  <1>1. <<"art">> \in Rounds /\ <<"art">> # <<>> /\ Left(<<"art">>) = {"art"}
    BY Lefts DEF Rounds
  <1>2. <<"hist">> \in Rounds /\ <<"hist">> # <<>> /\ Left(<<"hist">>) = {"hist"}
    BY Lefts DEF Rounds
  <1>3. <<"run">> \in Rounds /\ <<"run">> # <<>> /\ Left(<<"run">>) = {"run"}
    BY Lefts DEF Rounds
  <1>4. <<"art", "hist">> \in Rounds /\ <<"art", "hist">> # <<>> /\ Left(<<"art", "hist">>) = {"art", "hist"}
    BY Lefts DEF Rounds
  <1>5. <<"hist", "run">> \in Rounds /\ <<"hist", "run">> # <<>> /\ Left(<<"hist", "run">>) = {"hist", "run"}
    BY Lefts DEF Rounds
  <1>6. <<"art", "hist", "run">> \in Rounds /\ <<"art", "hist", "run">> # <<>> /\ Left(<<"art", "hist", "run">>) = {"art", "hist", "run"}
    BY Lefts DEF Rounds
  <1>. QED  BY <1>0, <1>1, <1>2, <1>3, <1>4, <1>5, <1>6

\* What a failed admission compensates: whatever was admitted before, and what
\* may have been admitted by the failing call.
LEMMA Compensations ==
  ASSUME NEW j \in Job, todo[j] \in Remainders(j)
  PROVE  /\ todo[j] \in Rounds /\ todo[j] # <<>>
         /\ Tail(todo[j]) # <<>> => Tail(todo[j]) \in Remainders(j)
         /\ Compensated(j, FALSE) \in Rounds /\ Compensated(j, FALSE) # <<>>
         /\ j \notin Reports => "run" \notin Left(Compensated(j, FALSE))
         /\ \A t \in {"art", "hist"} : t \in Left(Compensated(j, FALSE)) \/ t \in Left(Tail(todo[j]))
         /\ Head(todo[j]) = "hist" =>
              /\ Compensated(j, TRUE) \in Rounds /\ Compensated(j, TRUE) # <<>>
              /\ "run" \notin Left(Compensated(j, TRUE))
              /\ \A t \in {"art", "hist"} : t \in Left(Compensated(j, TRUE)) \/ t \in Left(todo[j])
  <1>1. CASE j \in Reports /\ todo[j] = <<"art", "hist", "run">>
    <2>1. Targets(j) = <<"art", "hist", "run">> /\ Len(Targets(j)) = 3 /\ Len(todo[j]) = 3
      BY <1>1 DEF Targets
    <2>2. Compensated(j, FALSE) = SubSeq(Targets(j), 1, 1)
      BY <2>1 DEF Compensated
    <2>3. Compensated(j, FALSE) = <<"art">>
      BY <2>1, <2>2, Cuts
    <2>4. Head(todo[j]) = "art" /\ Tail(todo[j]) = <<"hist", "run">>
      BY <1>1
    <2>5. /\ todo[j] \in Rounds /\ todo[j] # <<>>
          /\ Tail(todo[j]) = <<>> \/ Tail(todo[j]) \in Remainders(j)
          /\ Compensated(j, FALSE) \in Rounds /\ Compensated(j, FALSE) # <<>>
      BY <1>1, <2>3, <2>4, EachRound DEF Remainders
    <2>6. /\ Left(todo[j]) = {"art", "hist", "run"} /\ Left(Tail(todo[j])) = {"hist", "run"}
          /\ Left(Compensated(j, FALSE)) = {"art"}
      BY <1>1, <2>3, <2>4, EachRound
    <2>. QED  BY <1>1, <2>4, <2>5, <2>6
  <1>2. CASE j \in Reports /\ todo[j] = <<"hist", "run">>
    <2>1. Targets(j) = <<"art", "hist", "run">> /\ Len(Targets(j)) = 3 /\ Len(todo[j]) = 2
      BY <1>2 DEF Targets
    <2>2. Compensated(j, FALSE) = SubSeq(Targets(j), 1, 2) /\ Compensated(j, TRUE) = SubSeq(Targets(j), 1, 1)
      BY <2>1 DEF Compensated
    <2>3. Compensated(j, FALSE) = <<"art", "hist">> /\ Compensated(j, TRUE) = <<"art">>
      BY <2>1, <2>2, Cuts
    <2>4. Head(todo[j]) = "hist" /\ Tail(todo[j]) = <<"run">>
      BY <1>2
    <2>5. /\ todo[j] \in Rounds /\ todo[j] # <<>>
          /\ Tail(todo[j]) = <<>> \/ Tail(todo[j]) \in Remainders(j)
          /\ Compensated(j, FALSE) \in Rounds /\ Compensated(j, FALSE) # <<>>
          /\ Compensated(j, TRUE) \in Rounds /\ Compensated(j, TRUE) # <<>>
      BY <1>2, <2>3, <2>4, EachRound DEF Remainders
    <2>6. /\ Left(todo[j]) = {"hist", "run"} /\ Left(Tail(todo[j])) = {"run"}
          /\ Left(Compensated(j, FALSE)) = {"art", "hist"} /\ Left(Compensated(j, TRUE)) = {"art"}
      BY <1>2, <2>3, <2>4, EachRound
    <2>. QED  BY <1>2, <2>4, <2>5, <2>6
  <1>3. CASE j \in Reports /\ todo[j] = <<"run">>
    <2>1. Targets(j) = <<"art", "hist", "run">> /\ Len(Targets(j)) = 3 /\ Len(todo[j]) = 1
      BY <1>3 DEF Targets
    <2>2. Compensated(j, FALSE) = SubSeq(Targets(j), 1, 3)
      BY <2>1 DEF Compensated
    <2>3. Compensated(j, FALSE) = <<"art", "hist", "run">>
      BY <2>1, <2>2, Cuts
    <2>4. Head(todo[j]) = "run" /\ Tail(todo[j]) = <<>>
      BY <1>3
    <2>5. /\ todo[j] \in Rounds /\ todo[j] # <<>>
          /\ Tail(todo[j]) = <<>> \/ Tail(todo[j]) \in Remainders(j)
          /\ Compensated(j, FALSE) \in Rounds /\ Compensated(j, FALSE) # <<>>
      BY <1>3, <2>3, <2>4, EachRound DEF Remainders
    <2>6. /\ Left(todo[j]) = {"run"} /\ Left(Tail(todo[j])) = {}
          /\ Left(Compensated(j, FALSE)) = {"art", "hist", "run"}
      BY <1>3, <2>3, <2>4, EachRound
    <2>. QED  BY <1>3, <2>4, <2>5, <2>6
  <1>4. CASE j \notin Reports /\ todo[j] = <<"art", "hist">>
    <2>1. Targets(j) = <<"art", "hist">> /\ Len(Targets(j)) = 2 /\ Len(todo[j]) = 2
      BY <1>4 DEF Targets
    <2>2. Compensated(j, FALSE) = SubSeq(Targets(j), 1, 1)
      BY <2>1 DEF Compensated
    <2>3. Compensated(j, FALSE) = <<"art">>
      BY <2>1, <2>2, Cuts
    <2>4. Head(todo[j]) = "art" /\ Tail(todo[j]) = <<"hist">>
      BY <1>4
    <2>5. /\ todo[j] \in Rounds /\ todo[j] # <<>>
          /\ Tail(todo[j]) = <<>> \/ Tail(todo[j]) \in Remainders(j)
          /\ Compensated(j, FALSE) \in Rounds /\ Compensated(j, FALSE) # <<>>
      BY <1>4, <2>3, <2>4, EachRound DEF Remainders
    <2>6. /\ Left(todo[j]) = {"art", "hist"} /\ Left(Tail(todo[j])) = {"hist"}
          /\ Left(Compensated(j, FALSE)) = {"art"}
      BY <1>4, <2>3, <2>4, EachRound
    <2>. QED  BY <1>4, <2>4, <2>5, <2>6
  <1>5. CASE j \notin Reports /\ todo[j] = <<"hist">>
    <2>1. Targets(j) = <<"art", "hist">> /\ Len(Targets(j)) = 2 /\ Len(todo[j]) = 1
      BY <1>5 DEF Targets
    <2>2. Compensated(j, FALSE) = SubSeq(Targets(j), 1, 2) /\ Compensated(j, TRUE) = SubSeq(Targets(j), 1, 1)
      BY <2>1 DEF Compensated
    <2>3. Compensated(j, FALSE) = <<"art", "hist">> /\ Compensated(j, TRUE) = <<"art">>
      BY <2>1, <2>2, Cuts
    <2>4. Head(todo[j]) = "hist" /\ Tail(todo[j]) = <<>>
      BY <1>5
    <2>5. /\ todo[j] \in Rounds /\ todo[j] # <<>>
          /\ Tail(todo[j]) = <<>> \/ Tail(todo[j]) \in Remainders(j)
          /\ Compensated(j, FALSE) \in Rounds /\ Compensated(j, FALSE) # <<>>
          /\ Compensated(j, TRUE) \in Rounds /\ Compensated(j, TRUE) # <<>>
      BY <1>5, <2>3, <2>4, EachRound DEF Remainders
    <2>6. /\ Left(todo[j]) = {"hist"} /\ Left(Tail(todo[j])) = {}
          /\ Left(Compensated(j, FALSE)) = {"art", "hist"} /\ Left(Compensated(j, TRUE)) = {"art"}
      BY <1>5, <2>3, <2>4, EachRound
    <2>. QED  BY <1>5, <2>4, <2>5, <2>6
  <1>. QED  BY <1>1, <1>2, <1>3, <1>4, <1>5 DEF Remainders

\* Pins counts the readers of a job's rows and its own finalization.
LEMMA PinsCount ==
  ASSUME JobTypes, PoolTypes, NEW j \in Job
  PROVE  /\ Pins(j) \in Nat /\ (Pins(j) = 0 <=> ~Pinned(j)) /\ (Pins(j) > 0 <=> Pinned(j))
         /\ \A r \in Readers : reading[r] = j =>
              (Pins(j) = 1 <=> step[j] \notin Publication
                               /\ \A q \in Readers \ {r} : reading[q] # j)
  <1>. DEFINE R == {r \in Readers : reading[r] = j}
  <1>1. IsFiniteSet(R) /\ Cardinality(R) \in Nat
    BY SearchJobsConstants, FS_Subset, FS_CardinalityType
  <1>2. Cardinality(R) = 0 <=> R = {}
    BY <1>1, FS_EmptySet
  <1>3. Pins(j) = Cardinality(R) + (IF step[j] \in Publication THEN 1 ELSE 0)
    BY DEF Pins
  <1>4. ASSUME NEW r \in Readers, reading[r] = j
        PROVE  Cardinality(R) >= 1 /\ (Cardinality(R) = 1 <=> \A q \in Readers \ {r} : reading[q] # j)
    <2>1. r \in R
      BY <1>4
    <2>2. IsFiniteSet(R \ {r}) /\ Cardinality(R \ {r}) = Cardinality(R) - 1
      BY <1>1, <2>1, FS_RemoveElement
    <2>3. Cardinality(R \ {r}) = 0 <=> R \ {r} = {}
      BY <2>2, FS_EmptySet
    <2>4. Cardinality(R \ {r}) \in Nat
      BY <2>2, FS_CardinalityType
    <2>5. R \ {r} = {} <=> \A q \in Readers \ {r} : reading[q] # j
      OBVIOUS
    <2>. HIDE DEF R
    <2>. QED  BY <1>1, <2>2, <2>3, <2>4, <2>5
  <1>5. R = {} <=> \A r \in Readers : reading[r] # j
    OBVIOUS
  <1>. HIDE DEF R
  <1>. QED  BY <1>1, <1>2, <1>3, <1>4, <1>5 DEF Pinned

-----------------------------------------------------------------------------
(* One job at a time.                                                       *)

\* Nothing that the invariant says of k has changed.
SameRecords(k) ==
  /\ art'[k] = art[k] /\ hist'[k] = hist[k] /\ run'[k] = run[k] /\ retry'[k] = retry[k]
  /\ k \in files' <=> k \in files
  /\ \A t : <<k, t>> \in missed' <=> <<k, t>> \in missed
  /\ verdict'[k] = verdict[k]

SamePlace(k) ==
  /\ state'[k] = state[k] /\ step'[k] = step[k] /\ todo'[k] = todo[k]
  /\ answer'[k] = answer[k] /\ owner'[k] = owner[k]

SameRows(k) == (k \in results' <=> k \in results) /\ (Pinned(k)' <=> Pinned(k))

Same(k) == SameRecords(k) /\ SamePlace(k) /\ SameRows(k)

\* A job none of whose records, rows or steps change keeps its invariant.
LEMMA SameKeeps ==
  ASSUME NEW k \in Job, Same(k), JobInv(k)
  PROVE  JobInv(k)'
  <1>1. Placed(k)' /\ RowsKept(k)'
    BY DEF Same, SamePlace, SameRows, JobInv, Placed, RowsKept
  <1>2. Judged(k)' /\ Agrees(k)'
    BY DEF Same, SamePlace, SameRecords, JobInv, Judged, Agrees, Fits
  <1>3. Open(k)' /\ InOrder(k)'
    BY DEF Same, SamePlace, SameRecords, JobInv, Open, InOrder, Remainders
  <1>4. Barred(k)' /\ Settling(k)'
    BY DEF Same, SamePlace, SameRecords, JobInv, Barred, Published, Settling, Told
  <1>. QED  BY <1>1, <1>2, <1>3, <1>4 DEF JobInv

\* The scheduler claims or skips an occurrence of a report.
LEMMA ClaimDueJob ==
  ASSUME Types, NEW j \in Job, JobInv(j), ClaimDue(j)
  PROVE  JobInv(j)' /\ \A k \in Job \ {j} : Same(k)
  <1>1. /\ UNCHANGED <<jobVars, resultVars, art, files, hist, retry, missed, verdict>>
        /\ run[j] = "none" /\ j \in Reports
        /\ run'[j] \in {"claimed", "skipped"} /\ \A k \in Job \ {j} : run'[k] = run[k]
    BY DEF ClaimDue, history, Types, RecordTypes
  <1>2. \A k \in Job \ {j} : Same(k)
    BY <1>1 DEF Same, SameRecords, SamePlace, SameRows, Pinned, jobVars, resultVars
  <1>3. step[j] = "idle"
    BY <1>1 DEF JobInv, Open
  <1>4. Placed(j)' /\ RowsKept(j)' /\ Judged(j)'
    BY <1>1 DEF JobInv, Placed, RowsKept, Judged, Pinned, jobVars, resultVars
  <1>5. Agrees(j)' /\ Open(j)' /\ InOrder(j)'
    BY <1>1, <1>3 DEF JobInv, Agrees, Fits, Open, InOrder, Remainders, ActiveRun, jobVars
  <1>6. Barred(j)' /\ Settling(j)'
    BY <1>1, <1>3 DEF JobInv, Barred, Published, Settling, Telling, jobVars
  <1>. QED  BY <1>2, <1>4, <1>5, <1>6 DEF JobInv

\* Create reserves a place, or refuses the job.
LEMMA CreateJob ==
  ASSUME Types, NEW j \in Job, JobInv(j), Create(j)
  PROVE  JobInv(j)' /\ \A k \in Job \ {j} : Same(k)
  <1>1. /\ UNCHANGED <<state, answer, owner, resultVars, records, history>>
        /\ step[j] = "idle" /\ (j \in Reports => run[j] = "claimed")
        /\ \/ /\ step'[j] = (IF j \in Reports THEN "disclaim" ELSE "refused") /\ todo'[j] = todo[j]
           \/ step'[j] = "admit" /\ todo'[j] = Targets(j)
        /\ \A k \in Job \ {j} : step'[k] = step[k] /\ todo'[k] = todo[k]
    BY DEF Create, Refuse, Types, JobTypes
  <1>2. \A k \in Job \ {j} : Same(k)
    BY <1>1 DEF Same, SameRecords, SamePlace, SameRows, Pinned, records, resultVars, history
  <1>3. /\ art[j] = "none" /\ hist[j] = "none" /\ retry[j] = None /\ todo[j] = <<>>
        /\ state[j] = "none" /\ verdict[j] = None /\ (j \notin Reports => run[j] = "none")
        /\ run[j] \in {"none", "skipped", "interrupted"} \cup ActiveRun
    BY <1>1 DEF JobInv, Open, InOrder, Placed, Judged, Unborn
  <1>4. Placed(j)' /\ RowsKept(j)' /\ Judged(j)'
    BY <1>1, <1>3 DEF JobInv, Placed, RowsKept, Judged, Pinned, resultVars, history, Unborn, Publication, Admission
  <1>5. Agrees(j)' /\ Open(j)'
    BY <1>1, <1>3 DEF JobInv, Agrees, Fits, Open, ActiveRun, records, history
  <1>6. InOrder(j)'
    BY <1>1, <1>3, EachRound DEF InOrder, Remainders, Targets, Telling
  <1>7. Barred(j)' /\ Settling(j)'
    BY <1>1, <1>3 DEF JobInv, Barred, Published, Settling, Told, Telling, records, history, ActiveRun
  <1>. QED  BY <1>2, <1>4, <1>5, <1>6, <1>7 DEF JobInv

\* One admission of Create to a journal, and what a failed one leaves to undo.
LEMMA AdmitJob ==
  ASSUME Types, NEW j \in Job, JobInv(j), NEW how \in Outcomes, Admit(j, how)
  PROVE  JobInv(j)' /\ \A k \in Job \ {j} : Same(k)
  <1>0. step[j] = "admit" /\ Head(todo[j]) \in {"art", "hist", "run"}
    BY Compensations, Segments DEF Admit, JobInv, InOrder
  <1>1. /\ UNCHANGED <<state, owner, resultVars, files, retry, history>>
        /\ step[j] = "admit"
        /\ \A k \in Job \ {j} : /\ step'[k] = step[k] /\ todo'[k] = todo[k] /\ answer'[k] = answer[k]
                                /\ art'[k] = art[k] /\ hist'[k] = hist[k] /\ run'[k] = run[k]
    BY <1>0 DEF Admit, Undo, TakesAdmission, Types, JobTypes, RecordTypes
  <1>2. \A k \in Job \ {j} : Same(k)
    BY <1>1 DEF Same, SameRecords, SamePlace, SameRows, Pinned, resultVars, history
  <1>3. /\ todo[j] \in Remainders(j) /\ todo[j] \in Rounds /\ todo[j] # <<>>
        /\ Head(todo[j]) \in {"art", "hist", "run"} /\ Left(todo[j]) = {Head(todo[j])} \cup Left(Tail(todo[j]))
        /\ Len(todo[j]) = 1 <=> Tail(todo[j]) = <<>>
        /\ Head(todo[j]) \notin Left(Tail(todo[j]))
    BY <1>1, Compensations, Segments DEF JobInv, InOrder
  <1>4. /\ art[j] \in {"none", "queued"} /\ hist[j] \in {"none", "pending"}
        /\ run[j] \in {"none", "skipped", "interrupted"} \cup ActiveRun /\ retry[j] = None
        /\ "art" \in Left(todo[j]) => art[j] = "none"
        /\ "hist" \in Left(todo[j]) => hist[j] = "none"
        /\ (j \notin Reports => run[j] = "none") /\ (j \in Reports => run[j] # "none")
        /\ state[j] = "none" /\ verdict[j] = None
        /\ (j \notin Reports => "run" \notin Left(todo[j]))
    BY <1>1 DEF JobInv, Open, InOrder, Placed, Judged, Unborn, Admission
  <1>5. /\ art'[j] \in {"none", "queued"} /\ hist'[j] \in {"none", "pending"}
        /\ run'[j] \in {"none", "skipped", "interrupted"} \cup ActiveRun
        /\ (art'[j] # art[j] => Head(todo[j]) = "art") /\ (hist'[j] # hist[j] => Head(todo[j]) = "hist")
        /\ (run'[j] # run[j] => Head(todo[j]) = "run" /\ run'[j] = "submitted")
    BY <1>1, <1>3, <1>4 DEF Admit, TakesAdmission, Types, RecordTypes, ActiveRun
  <1>6. \/ /\ step'[j] = "undo" /\ answer'[j] = "canceled" /\ todo'[j] = Compensated(j, FALSE)
        \/ /\ step'[j] = "undo" /\ answer'[j] = "canceled" /\ todo'[j] = Compensated(j, TRUE)
           /\ Head(todo[j]) = "hist" /\ UNCHANGED <<art, hist, run>>
        \/ /\ step'[j] = "admit" /\ Tail(todo[j]) # <<>> /\ todo'[j] = Tail(todo[j])
        \/ /\ step'[j] = "publish" /\ Tail(todo[j]) = <<>> /\ todo'[j] = <<>>
    BY <1>1, <1>3 DEF Admit, Undo, Conflicts, Types, JobTypes
  <1>7. Placed(j)' /\ RowsKept(j)' /\ Judged(j)'
    BY <1>1, <1>4, <1>6 DEF JobInv, Placed, RowsKept, Judged, Pinned, resultVars, history, Unborn, Publication, Admission
  <1>8. Agrees(j)' /\ Open(j)'
    <2>1. Agrees(j)'
      BY <1>1, <1>4, <1>5 DEF Agrees, Fits, ActiveRun, history
    <2>2. /\ "art" \in Left(Tail(todo[j])) => art'[j] = "none"
          /\ "hist" \in Left(Tail(todo[j])) => hist'[j] = "none"
      BY <1>3, <1>4, <1>5
    <2>. QED  BY <1>1, <1>3, <1>4, <1>5, <1>6, <2>1, <2>2 DEF Open, ActiveRun
  <1>9. InOrder(j)'
    BY <1>1, <1>3, <1>4, <1>6, Compensations DEF InOrder, Telling, Remainders
  <1>10. Barred(j)' /\ Settling(j)'
    <2>1. \A t \in {"art", "hist"} : step'[j] = "undo" => t \in Left(todo'[j]) \/ Told(j, t)'
      <3>1. /\ "art" \in Left(Tail(todo[j])) => art'[j] = "none"
            /\ "hist" \in Left(Tail(todo[j])) => hist'[j] = "none"
        BY <1>3, <1>4, <1>5
      <3>2. Told(j, "art")' <=> (art'[j] \in {"queued", "staged"} => <<j, "art">> \in missed')
        BY DEF Told
      <3>3. Told(j, "hist")' <=> (hist'[j] = "pending" => <<j, "hist">> \in missed')
        BY DEF Told
      <3>4. CASE todo'[j] = Compensated(j, FALSE)
        BY <1>3, <3>1, <3>2, <3>3, <3>4, Compensations
      <3>5. CASE todo'[j] = Compensated(j, TRUE) /\ Head(todo[j]) = "hist" /\ UNCHANGED <<art, hist>>
        BY <1>3, <1>4, <3>2, <3>3, <3>5, Compensations
      <3>. QED  BY <1>6, <3>4, <3>5
    <2>2. Barred(j)'
      BY <1>1, <1>4, <1>5, <1>6, SearchJobsConstants DEF Barred, Published, ActiveRun
    <2>3. Settling(j)'
      BY <1>6, <2>1 DEF Settling, Telling
    <2>. QED  BY <2>2, <2>3
  <1>. QED  BY <1>2, <1>7, <1>8, <1>9, <1>10 DEF JobInv

\* Create publishes the job, or takes its admissions back.
LEMMA PublishJob ==
  ASSUME Types, NEW j \in Job, JobInv(j), Publish(j)
  PROVE  JobInv(j)' /\ \A k \in Job \ {j} : Same(k)
  <1>1. /\ UNCHANGED <<owner, resultVars, records, history>>
        /\ step[j] = "publish"
        /\ \/ /\ step'[j] = "abort" /\ todo'[j] = Targets(j) /\ answer'[j] = "canceled" /\ state' = state
           \/ /\ step'[j] = "live" /\ state'[j] = "queued" /\ todo' = todo /\ answer' = answer
        /\ \A k \in Job \ {j} : /\ step'[k] = step[k] /\ todo'[k] = todo[k] /\ answer'[k] = answer[k]
                                /\ state'[k] = state[k]
    BY DEF Publish, Types, JobTypes
  <1>2. \A k \in Job \ {j} : Same(k)
    BY <1>1 DEF Same, SameRecords, SamePlace, SameRows, Pinned, records, resultVars, history
  <1>3. /\ state[j] = "none" /\ verdict[j] = None /\ j \notin results /\ ~Pinned(j)
    BY <1>1 DEF JobInv, Placed, Judged, Unborn, Admission, RowsKept
  <1>4. ~Pinned(j)'
    BY <1>1, <1>3 DEF Pinned, resultVars, Publication
  <1>5. Placed(j)' /\ RowsKept(j)' /\ Judged(j)'
    BY <1>1, <1>3, <1>4 DEF Placed, RowsKept, Judged, resultVars, history, Unborn, Publication, Admission
  <1>6. Agrees(j)' /\ Open(j)' /\ InOrder(j)'
    BY <1>1, Orders DEF JobInv, Agrees, Fits, Open, InOrder, Remainders, Telling, ActiveRun, records, history
  <1>7. Barred(j)' /\ Settling(j)'
    BY <1>1, Orders DEF JobInv, Open, Barred, Published, Settling, Told, Telling, records, history, ActiveRun
  <1>. QED  BY <1>2, <1>5, <1>6, <1>7 DEF JobInv

\* The run of a report whose job was refused is finished, or its failure remembered.
LEMMA DisclaimJob ==
  ASSUME Types, NEW j \in Job, JobInv(j), NEW how \in Outcomes, Disclaim(j, how)
  PROVE  JobInv(j)' /\ \A k \in Job \ {j} : Same(k)
  <1>1. /\ UNCHANGED <<state, todo, answer, owner, resultVars, art, files, hist, retry, verdict>>
        /\ step[j] = "disclaim" /\ step'[j] = "refused"
        /\ missed \subseteq missed' /\ missed' \subseteq missed \cup {<<j, "run">>}
        /\ <<j, "run">> \in missed' \/ run'[j] \notin ActiveRun
        /\ run'[j] \in {run[j], "failed"} /\ (run'[j] # run[j] => run[j] # "none")
        /\ \A k \in Job \ {j} : step'[k] = step[k] /\ run'[k] = run[k]
    BY DEF Disclaim, Types, JobTypes, RecordTypes, Outcomes, ActiveRun
  <1>2. \A k \in Job \ {j} : Same(k)
    BY <1>1 DEF Same, SameRecords, SamePlace, SameRows, Pinned, resultVars
  <1>3. Placed(j)' /\ RowsKept(j)' /\ Judged(j)'
    BY <1>1 DEF JobInv, Placed, RowsKept, Judged, Pinned, resultVars, Unborn, Publication, Admission
  <1>4. Agrees(j)' /\ Open(j)' /\ InOrder(j)'
    BY <1>1 DEF JobInv, Agrees, Fits, Open, InOrder, Telling
  <1>5. Barred(j)' /\ Settling(j)'
    BY <1>1 DEF JobInv, Barred, Published, Settling, Told, Telling
  <1>. QED  BY <1>2, <1>3, <1>4, <1>5 DEF JobInv

\* The first terminal transition of a search that was published.
LEMMA FinishJob ==
  ASSUME Types, NEW j \in Job, JobInv(j), step[j] = "live", NEW as \in Terminal, NEW who \in Owners,
         Finish(j, as, who), UNCHANGED <<reading, records, missed>>,
         as = "completed" => who = "worker" /\ j \in results',
         as # "completed" => j \notin results',
         \A k \in Job \ {j} : k \in results' <=> k \in results
  PROVE  JobInv(j)' /\ \A k \in Job \ {j} : Same(k)
  <1>1. /\ state'[j] = as /\ verdict'[j] = as /\ answer'[j] = as /\ owner'[j] = who
        /\ step'[j] = (IF as = "completed" THEN "lease" ELSE "settle") /\ todo'[j] = Targets(j)
        /\ \A k \in Job \ {j} : /\ step'[k] = step[k] /\ todo'[k] = todo[k] /\ answer'[k] = answer[k]
                                /\ state'[k] = state[k] /\ owner'[k] = owner[k] /\ verdict'[k] = verdict[k]
    BY DEF Finish, Types, JobTypes, RecordTypes, JobInv, Judged
  <1>2. \A k \in Job \ {j} : Same(k)
    BY <1>1 DEF Same, SameRecords, SamePlace, SameRows, Pinned, records
  <1>3. state[j] \in {"queued", "running"} /\ ~Pinned(j)
    BY DEF JobInv, Placed, RowsKept
  <1>4. ~Pinned(j)'
    BY <1>1, <1>3 DEF Pinned, Publication
  <1>5. Placed(j)' /\ RowsKept(j)' /\ Judged(j)'
    BY <1>1, <1>4, SearchJobsConstants
    DEF Placed, RowsKept, Judged, Unborn, Publication, Admission, Settled, Terminal, Owners
  <1>6. Agrees(j)' /\ Open(j)' /\ InOrder(j)'
    <2>1. Agrees(j)'
      BY <1>1, SearchJobsConstants DEF JobInv, Agrees, Fits, Open, ActiveRun, records
    <2>2. Open(j)'
      BY <1>1, SearchJobsConstants DEF JobInv, Open, records
    <2>3. InOrder(j)'
      <3>1. /\ step'[j] \in {"lease", "settle"} /\ todo'[j] = Targets(j) /\ Targets(j) # <<>>
            /\ j \notin Reports => "run" \notin Left(Targets(j))
        BY <1>1, Orders
      <3>. QED  BY <3>1 DEF InOrder, Telling
    <2>. QED  BY <2>1, <2>2, <2>3
  <1>7. Barred(j)' /\ Settling(j)'
    BY <1>1, Orders, SearchJobsConstants
    DEF JobInv, Open, Barred, Published, Settling, Told, Telling, records, ActiveRun, Terminal
  <1>. QED  BY <1>2, <1>5, <1>6, <1>7 DEF JobInv

\* A worker starts a search, or its executor hands over a row.
LEMMA RunningJob ==
  ASSUME Types, NEW j \in Job, JobInv(j), step[j] = "live", state'[j] = "running",
         \A k \in Job \ {j} : state'[k] = state[k],
         UNCHANGED <<step, todo, answer, owner, verdict, reading, records, missed>>,
         \A k \in Job \ {j} : k \in results' <=> k \in results
  PROVE  JobInv(j)' /\ \A k \in Job \ {j} : Same(k)
  <1>1. \A k \in Job \ {j} : Same(k)
    BY DEF Same, SameRecords, SamePlace, SameRows, Pinned, records
  <1>2. ~Pinned(j) /\ ~Pinned(j)'
    BY DEF JobInv, RowsKept, Pinned, Placed
  <1>3. Placed(j)' /\ RowsKept(j)' /\ Judged(j)'
    BY <1>2 DEF JobInv, Placed, RowsKept, Judged, Unborn, Admission, Publication, Settled
  <1>4. Agrees(j)' /\ Open(j)' /\ InOrder(j)'
    BY DEF JobInv, Agrees, Fits, Open, InOrder, Remainders, records
  <1>5. Barred(j)' /\ Settling(j)'
    BY DEF JobInv, Barred, Published, Settling, Told, records
  <1>. QED  BY <1>1, <1>3, <1>4, <1>5 DEF JobInv

\* The finalization of a completed job leases its result.
LEMMA LeaseJob ==
  ASSUME Types, NEW j \in Job, JobInv(j), Lease(j)
  PROVE  JobInv(j)' /\ \A k \in Job \ {j} : Same(k)
  <1>1. /\ UNCHANGED <<state, todo, answer, owner, resultVars, records, history>>
        /\ step[j] = "lease"
        /\ step'[j] = "unpublished" \/ (step'[j] = "stage" /\ j \in results)
        /\ \A k \in Job \ {j} : step'[k] = step[k]
    BY DEF Lease, Types, JobTypes
  <1>2. \A k \in Job \ {j} : Same(k)
    BY <1>1 DEF Same, SameRecords, SamePlace, SameRows, Pinned, resultVars, records, history
  <1>3. state[j] = "completed" /\ owner[j] = "worker" /\ verdict[j] = "completed"
    BY <1>1 DEF JobInv, Placed, Judged
  <1>4. Placed(j)' /\ RowsKept(j)' /\ Judged(j)'
    BY <1>1, <1>3 DEF JobInv, Placed, RowsKept, Judged, Pinned, resultVars, history,
       Unborn, Admission, Publication, Terminal
  <1>5. Agrees(j)' /\ Open(j)' /\ InOrder(j)'
    BY <1>1 DEF JobInv, Agrees, Fits, Open, InOrder, Remainders, Telling, records, history
  <1>6. Barred(j)' /\ Settling(j)'
    BY <1>1 DEF JobInv, Barred, Published, Settling, Telling, records, history
  <1>. QED  BY <1>2, <1>4, <1>5, <1>6 DEF JobInv

\* A step of the publication of completed results: the file is written before
\* the row is completed, and the other records are told after both.
LEMMA PublicationJob ==
  ASSUME Types, NEW j \in Job, JobInv(j), step[j] \in {"stage", "write", "record"},
         UNCHANGED <<state, owner, resultVars, hist, run, retry, history>>,
         step'[j] \in {"write", "record", "project", "compensate"},
         step'[j] \in {"write", "record"} => todo'[j] = todo[j] /\ answer'[j] = answer[j],
         step'[j] = "project" => /\ todo'[j] = Tail(Targets(j)) /\ answer'[j] = answer[j]
                                 /\ art'[j] = "completed" /\ j \in files',
         step'[j] = "compensate" => todo'[j] = Targets(j) /\ answer'[j] = "failed",
         step'[j] = "record" => j \in files',
         art'[j] \in {art[j], "staged", "completed"},
         \A k \in Job \ {j} : /\ step'[k] = step[k] /\ todo'[k] = todo[k] /\ answer'[k] = answer[k]
                              /\ art'[k] = art[k] /\ (k \in files' <=> k \in files)
  PROVE  JobInv(j)' /\ \A k \in Job \ {j} : Same(k)
  <1>1. \A k \in Job \ {j} : Same(k)
    BY DEF Same, SameRecords, SamePlace, SameRows, Pinned, resultVars, history
  <1>2. state[j] = "completed" /\ owner[j] = "worker" /\ verdict[j] = "completed" /\ Pinned(j)
    BY DEF JobInv, Placed, Judged, Pinned, Publication
  <1>3. Pinned(j)'
    BY DEF Pinned, Publication
  <1>4. Placed(j)' /\ RowsKept(j)' /\ Judged(j)'
    BY <1>2, <1>3 DEF JobInv, Placed, RowsKept, Judged, resultVars, history, Unborn, Admission, Publication
  <1>5. Agrees(j)' /\ Open(j)' /\ InOrder(j)'
    <2>1. Agrees(j)' /\ Open(j)'
      BY <1>2 DEF JobInv, Agrees, Fits, Open, history
    <2>2. InOrder(j)'
      <3>1. /\ Tail(Targets(j)) # <<>> /\ Targets(j) # <<>>
            /\ "art" \notin Left(Tail(Targets(j)))
            /\ j \notin Reports => "run" \notin Left(Tail(Targets(j))) /\ "run" \notin Left(Targets(j))
        BY Orders
      <3>. QED  BY <3>1 DEF JobInv, InOrder, Telling
    <2>. QED  BY <2>1, <2>2
  <1>6. Barred(j)' /\ Settling(j)'
    <2>1. Barred(j)'
      BY DEF JobInv, Barred, Published
    <2>2. Told(j, "art")' <=> (art'[j] \in {"queued", "staged"} => <<j, "art">> \in missed')
      BY DEF Told
    <2>3. j \notin Reports => Told(j, "run")'
      BY DEF JobInv, Open, Told, ActiveRun
    <2>4. Settling(j)'
      BY <2>2, <2>3, Orders DEF Settling, Telling
    <2>. QED  BY <2>1, <2>4
  <1>. QED  BY <1>1, <1>4, <1>5, <1>6 DEF JobInv

\* The three steps of the artefact's publication: staging, files, record.
LEMMA StoreJob ==
  ASSUME Types, NEW j \in Job, JobInv(j), NEW how \in Outcomes,
         Stage(j, how) \/ Write(j, how) \/ Record(j, how)
  PROVE  JobInv(j)' /\ \A k \in Job \ {j} : Same(k)
  <1>1. CASE Stage(j, how)
    <2>1. /\ step[j] \in {"stage", "write", "record"}
          /\ UNCHANGED <<state, owner, resultVars, hist, run, retry, history, files>>
          /\ \/ step'[j] = "write" /\ UNCHANGED <<todo, answer>>
             \/ step'[j] = "compensate" /\ todo'[j] = Targets(j) /\ answer'[j] = "failed"
          /\ art'[j] \in {art[j], "staged", "completed"}
          /\ \A k \in Job \ {j} : /\ step'[k] = step[k] /\ todo'[k] = todo[k] /\ answer'[k] = answer[k]
                                  /\ art'[k] = art[k]
      BY <1>1 DEF Stage, Compensate, Types, JobTypes, RecordTypes
    <2>. QED  BY <2>1, PublicationJob
  <1>2. CASE Write(j, how)
    <2>1. /\ step[j] \in {"stage", "write", "record"}
          /\ UNCHANGED <<state, owner, resultVars, hist, run, retry, history, art>>
          /\ \/ step'[j] = "record" /\ UNCHANGED <<todo, answer>> /\ files' = files \cup {j}
             \/ step'[j] = "compensate" /\ todo'[j] = Targets(j) /\ answer'[j] = "failed" /\ files' = files
          /\ \A k \in Job \ {j} : step'[k] = step[k] /\ todo'[k] = todo[k] /\ answer'[k] = answer[k]
      BY <1>2 DEF Write, Compensate, Types, JobTypes, RecordTypes
    <2>. QED  BY <2>1, PublicationJob
  <1>3. CASE Record(j, how)
    <2>1. /\ step[j] \in {"stage", "write", "record"} /\ j \in files
          /\ UNCHANGED <<state, owner, resultVars, hist, run, retry, history>>
          /\ \/ /\ step'[j] = "project" /\ todo'[j] = Tail(Targets(j)) /\ UNCHANGED <<answer, files>>
                /\ art'[j] = "completed"
             \/ /\ step'[j] = "compensate" /\ todo'[j] = Targets(j) /\ answer'[j] = "failed"
                /\ files' = files \ {j}
          /\ art'[j] \in {art[j], "staged", "completed"}
          /\ \A k \in Job \ {j} : /\ step'[k] = step[k] /\ todo'[k] = todo[k] /\ answer'[k] = answer[k]
                                  /\ art'[k] = art[k]
      BY <1>3 DEF Record, Compensate, Types, JobTypes, RecordTypes, JobInv, Barred
    <2>. QED  BY <2>1, PublicationJob
  <1>. QED  BY <1>1, <1>2, <1>3

\* One record of a round is told the last word, or misses it.
LEMMA TellJob ==
  ASSUME Types, NEW j \in Job, JobInv(j), NEW how \in Outcomes, Tell(j, how)
  PROVE  JobInv(j)' /\ \A k \in Job \ {j} : Same(k)
  <1>. DEFINE t == Head(todo[j])
  <1>1. /\ step[j] \in Telling /\ todo[j] \in Rounds /\ todo[j] # <<>>
        /\ t \in {"art", "hist", "run"} /\ Left(todo[j]) = {t} \cup Left(Tail(todo[j]))
        /\ (Len(todo[j]) = 1 <=> Tail(todo[j]) = <<>>)
    BY Segments DEF Tell, JobInv, InOrder, Types, JobTypes
  <1>. HIDE DEF t
  <1>2. answer[j] \in Terminal /\ Fits(j, answer[j]) /\ (answer[j] = "completed" <=> step[j] = "project")
    BY <1>1, SearchJobsConstants DEF JobInv, Judged, Fits, Telling, Terminal, Unborn, Admission, Publication
  <1>3. /\ UNCHANGED <<state, answer, owner, resultVars, files, verdict>>
        /\ missed \subseteq missed' /\ missed' \subseteq missed \cup {<<j, t>>}
        /\ todo'[j] = Tail(todo[j])
        /\ step'[j] = (IF Tail(todo[j]) = <<>> THEN AfterTelling(j) ELSE step[j])
        /\ \A k \in Job \ {j} : /\ step'[k] = step[k] /\ todo'[k] = todo[k] /\ retry'[k] = retry[k]
                                /\ art'[k] = art[k] /\ hist'[k] = hist[k] /\ run'[k] = run[k]
    BY <1>1 DEF Tell, TakesTerminal, Types, JobTypes, RecordTypes, t
  <1>4. \A k \in Job \ {j} : Same(k)
    BY <1>3 DEF Same, SameRecords, SamePlace, SameRows, Pinned, resultVars
  <1>5. /\ art'[j] = art[j] \/ (t = "art" /\ art[j] # "none" /\ art'[j] = answer[j])
        /\ hist'[j] = hist[j] \/ (t = "hist" /\ hist'[j] = answer[j])
        /\ run'[j] = run[j] \/ (t = "run" /\ run[j] \in ActiveRun /\ run'[j] = answer[j])
        /\ retry'[j] = retry[j] \/ (t = "run" /\ retry'[j] = answer[j])
    BY <1>1, <1>3 DEF Tell, TakesTerminal, Types, RecordTypes, t
  <1>6. /\ t = "art" => art'[j] \notin {"queued", "staged"} \/ <<j, t>> \in missed'
        /\ t = "hist" => hist'[j] # "pending" \/ <<j, t>> \in missed'
        /\ t = "run" => run'[j] \notin ActiveRun \/ retry'[j] # None
    BY <1>1, <1>2, <1>3, SearchJobsConstants
    DEF Tell, TakesTerminal, Types, RecordTypes, Terminal, ActiveRun, Outcomes, t
  <1>7. retry[j] # None => retry'[j] # None
    BY <1>2, <1>5, SearchJobsConstants DEF Terminal
  <1>8. step'[j] \in {step[j], "over", "disclaim", "refused"}
        /\ (step'[j] = step[j] \/ (step[j] \in {"undo", "abort"} <=> step'[j] # "over"))
        /\ (step'[j] \in Telling => todo'[j] # <<>>) /\ (step'[j] \notin Telling => todo'[j] = <<>>)
        /\ (step'[j] = "refused" => j \notin Reports)
    BY <1>1, <1>3 DEF AfterTelling, Telling
  <1>9. Placed(j)' /\ RowsKept(j)' /\ Judged(j)'
    <2>1. Placed(j)'
      BY <1>1, <1>3, <1>8 DEF JobInv, Placed, Telling, Unborn, Admission, Publication, Settled, Terminal
    <2>2. Pinned(j)' => Pinned(j)
      BY <1>1, <1>3, <1>8 DEF Pinned, Telling, Publication, resultVars
    <2>3. state[j] # "expired"
      BY <1>1 DEF JobInv, Placed, Telling, Unborn, Admission, Publication
    <2>4. Judged(j)'
      BY <1>1, <1>3, <1>8 DEF JobInv, Judged, Telling, Unborn, Admission, Publication
    <2>. QED  BY <1>3, <2>1, <2>2, <2>3, <2>4 DEF JobInv, RowsKept, resultVars
  <1>10. Agrees(j)'
    BY <1>2, <1>3, <1>5 DEF JobInv, Agrees, Fits
  <1>11. Open(j)'
    <2>1. j \notin Reports => t # "run"
      BY <1>1 DEF JobInv, InOrder
    <2>2. step[j] \notin {"idle", "admit", "publish", "live"} /\ step'[j] \notin {"idle", "admit", "publish", "live"}
      BY <1>1, <1>8 DEF Telling
    <2>3. "none" \notin Terminal
      BY DEF Terminal
    <2>. QED  BY <1>2, <1>5, <2>1, <2>2, <2>3 DEF JobInv, Open
  <1>12. InOrder(j)'
    BY <1>1, <1>3, <1>8 DEF JobInv, InOrder, Telling
  <1>13. Barred(j)'
    <2>1. CASE step[j] = "project"
      <3>1. t # "art" /\ Published(j) /\ step'[j] \in {"project", "over"}
        BY <1>1, <1>8, <2>1 DEF JobInv, InOrder, Barred
      <3>2. Published(j)'
        BY <1>3, <1>5, <3>1 DEF Published
      <3>. QED  BY <3>1, <3>2 DEF Barred
    <2>2. CASE step[j] # "project"
      <3>1. "completed" \notin {hist'[j], run'[j], retry'[j]}
        BY <1>1, <1>2, <1>5, <2>2 DEF JobInv, Barred, Telling
      <3>. QED  BY <1>1, <1>8, <2>2, <3>1 DEF Barred, Telling
    <2>. QED  BY <2>1, <2>2
  <1>14. Settling(j)'
    <2>1. \A u \in {"art", "hist", "run"} : u # t /\ Told(j, u) => Told(j, u)'
      BY <1>3, <1>5, <1>7 DEF Told
    <2>2. \A u \in {"art", "hist", "run"} : u = t => Told(j, u)'
      BY <1>6 DEF Told
    <2>3. \A u \in {"art", "hist", "run"} :
            u \in Left(todo[j]) \/ Told(j, u) => u \in Left(todo'[j]) \/ Told(j, u)'
      BY <1>1, <1>3, <2>1, <2>2
    <2>4. j \notin Reports => Told(j, "run")'
      BY <1>11 DEF Open, Told, ActiveRun
    <2>. QED  BY <1>1, <1>8, <2>3, <2>4 DEF JobInv, Settling, Telling
  <1>. QED  BY <1>4, <1>9, <1>10, <1>11, <1>12, <1>13, <1>14 DEF JobInv

\* The retrying journal finishes a run that is still active.
LEMMA RetryJob ==
  ASSUME Types, NEW j \in Job, JobInv(j), Retry(j)
  PROVE  JobInv(j)' /\ \A k \in Job \ {j} : Same(k)
  <1>1. /\ UNCHANGED <<jobVars, resultVars, art, files, hist, history>>
        /\ retry[j] \in Terminal /\ retry'[j] = None
        /\ run'[j] = (IF run[j] \in ActiveRun THEN retry[j] ELSE run[j])
        /\ \A k \in Job \ {j} : retry'[k] = retry[k] /\ run'[k] = run[k]
    BY DEF Retry, Types, RecordTypes
  <1>2. \A k \in Job \ {j} : Same(k)
    BY <1>1 DEF Same, SameRecords, SamePlace, SameRows, Pinned, jobVars, resultVars, history
  <1>3. Placed(j)' /\ RowsKept(j)' /\ Judged(j)'
    BY <1>1 DEF JobInv, Placed, RowsKept, Judged, Pinned, jobVars, resultVars, history
  <1>4. Agrees(j)' /\ Open(j)' /\ InOrder(j)'
    <2>1. Agrees(j)'
      BY <1>1, SearchJobsConstants DEF JobInv, Agrees, Fits, history
    <2>2. Open(j)' /\ InOrder(j)'
      BY <1>1, SearchJobsConstants DEF JobInv, Open, InOrder, Remainders, jobVars, Terminal, ActiveRun
    <2>. QED  BY <2>1, <2>2
  <1>5. Barred(j)' /\ Settling(j)'
    BY <1>1, SearchJobsConstants
    DEF JobInv, Barred, Published, Settling, Told, jobVars, history, Terminal, ActiveRun
  <1>. QED  BY <1>2, <1>3, <1>4, <1>5 DEF JobInv

\* A step that is about the rows of k only.
LEMMA RowsJob ==
  ASSUME NEW k \in Job, JobInv(k), SameRecords(k), SamePlace(k), RowsKept(k)'
  PROVE  JobInv(k)'
  <1>1. Placed(k)' /\ Judged(k)' /\ Agrees(k)'
    BY DEF SamePlace, SameRecords, JobInv, Placed, Judged, Agrees, Fits
  <1>2. Open(k)' /\ InOrder(k)'
    BY DEF SamePlace, SameRecords, JobInv, Open, InOrder, Remainders
  <1>3. Barred(k)' /\ Settling(k)'
    BY DEF SamePlace, SameRecords, JobInv, Barred, Published, Settling, Told
  <1>. QED  BY <1>1, <1>2, <1>3 DEF JobInv

\* Readers come and go: rows stay while they are pinned.
LEMMA ReaderJobs ==
  ASSUME Types, \A k \in Job : JobInv(k), NEW r \in Readers,
         Release(r) \/ \E j \in Job : Acquire(r, j)
  PROVE  \A k \in Job : JobInv(k)'
  <1>1. UNCHANGED <<jobVars, records, history>>
    BY DEF Release, Acquire
  <1>2. \A k \in Job : SameRecords(k) /\ SamePlace(k)
    BY <1>1 DEF SameRecords, SamePlace, jobVars, records, history
  <1>3. ASSUME NEW j \in Job, Acquire(r, j), NEW k \in Job PROVE RowsKept(k)'
    <2>1. /\ state[j] = "completed" /\ j \in results /\ results' = results
          /\ reading'[r] = j /\ reading[r] = None /\ \A q \in Readers \ {r} : reading'[q] = reading[q]
      BY <1>3 DEF Acquire, Types, PoolTypes
    <2>2. k # j => (Pinned(k)' <=> Pinned(k))
      BY <1>1, <2>1, SearchJobsConstants DEF Pinned, jobVars
    <2>3. Pinned(k) => Pinned(k)'
      BY <1>1, <2>1, SearchJobsConstants DEF Pinned, jobVars
    <2>. QED  BY <1>1, <2>1, <2>2, <2>3 DEF JobInv, RowsKept, jobVars
  <1>4. ASSUME Release(r), NEW k \in Job PROVE RowsKept(k)'
    <2>. DEFINE j == reading[r]
    <2>1. /\ j \in Job /\ reading'[r] = None /\ \A q \in Readers \ {r} : reading'[q] = reading[q]
          /\ results' = IF state[j] = "expired" /\ Pins(j) = 1 THEN results \ {j} ELSE results
      BY <1>4 DEF Release, Types, PoolTypes
    <2>2. Pins(j) = 1 <=> step[j] \notin Publication /\ \A q \in Readers \ {r} : reading[q] # j
      BY <2>1, PinsCount DEF Types
    <2>. HIDE DEF j
    <2>4. CASE k = j
      <3>1. Pinned(k) /\ (Pinned(k)' <=> Pins(j) # 1)
        <4>1. j = reading[r]
          BY DEF j
        <4>2. \A x \in Job : x = reading[r] => Pinned(x) /\ (Pinned(x)' <=> Pins(j) # 1)
          <5>. SUFFICES ASSUME NEW x \in Job, x = reading[r] PROVE Pinned(x) /\ (Pinned(x)' <=> Pins(j) # 1)
            OBVIOUS
          <5>1. Pinned(x)
            BY DEF Pinned
          <5>2. (step[x] \in Publication)' <=> step[x] \in Publication
            BY <1>1 DEF jobVars, Publication
          <5>3. (\E q \in Readers : reading[q] = x)' <=> \E q \in Readers \ {r} : reading[q] = x
            BY <2>1, SearchJobsConstants
          <5>. QED  BY <2>2, <4>1, <5>1, <5>2, <5>3 DEF Pinned
        <4>. QED  BY <2>4, <4>1, <4>2
      <3>. QED  BY <1>1, <2>1, <2>4, <3>1 DEF JobInv, RowsKept, jobVars
    <2>5. CASE k # j
      <3>1. Pinned(k)' <=> Pinned(k)
        <4>1. (step[k] \in Publication)' <=> step[k] \in Publication
          BY <1>1 DEF jobVars, Publication
        <4>2. (\E q \in Readers : reading[q] = k)' <=> \E q \in Readers : reading[q] = k
          BY <2>1, <2>5, SearchJobsConstants DEF j
        <4>. QED  BY <4>1, <4>2 DEF Pinned
      <3>. QED  BY <1>1, <2>1, <2>5, <3>1 DEF JobInv, RowsKept, jobVars
    <2>. QED  BY <2>4, <2>5
  <1>. QED  BY <1>2, <1>3, <1>4, RowsJob

\* A settled job expires and is removed when nobody reads it.
LEMMA ExpireJob ==
  ASSUME Types, NEW j \in Job, JobInv(j), Expire(j) \/ Removed(j)
  PROVE  JobInv(j)' /\ \A k \in Job \ {j} : Same(k)
  <1>1. /\ UNCHANGED <<step, todo, answer, owner, reading, records, history>>
        /\ \/ /\ state[j] \in Terminal /\ step[j] \in Settled /\ state'[j] = "expired"
              /\ results' = IF Pins(j) = 0 THEN results \ {j} ELSE results
           \/ state[j] = "expired" /\ Pins(j) = 0 /\ state'[j] = "gone" /\ results' = results
        /\ \A k \in Job \ {j} : state'[k] = state[k] /\ (k \in results' <=> k \in results)
    BY DEF Expire, Removed, Unpinned, resultVars, Types, JobTypes
  <1>2. \A k \in Job \ {j} : Same(k)
    BY <1>1 DEF Same, SameRecords, SamePlace, SameRows, Pinned, records, history
  <1>3. (Pins(j) = 0 <=> ~Pinned(j)) /\ (Pinned(j)' <=> Pinned(j))
    BY <1>1, PinsCount DEF Types, Pinned
  <1>4. Placed(j)'
    BY <1>1 DEF JobInv, Placed, Settled, Terminal, Publication, Unborn, Admission
  <1>5. RowsKept(j)'
    BY <1>1, <1>3 DEF JobInv, RowsKept, Terminal
  <1>6. Judged(j)' /\ Agrees(j)' /\ Open(j)' /\ InOrder(j)' /\ Barred(j)' /\ Settling(j)'
    BY <1>1 DEF JobInv, Judged, Agrees, Fits, Open, InOrder, Remainders, Barred, Published, Settling, Told,
       records, history
  <1>. QED  BY <1>2, <1>4, <1>5, <1>6 DEF JobInv

\* When Close returns no worker has a search left, so that none is being published.
LEMMA CloseJobs ==
  ASSUME Types, \A k \in Job : JobInv(k), Held, CloseReturns
  PROVE  \A k \in Job : JobInv(k)'
  <1>. SUFFICES ASSUME NEW k \in Job PROVE JobInv(k)'
    OBVIOUS
  <1>1. /\ UNCHANGED <<step, todo, answer, owner, reading, records, history>>
        /\ state'[k] = (IF state[k] = "completed" THEN "expired" ELSE state[k])
        /\ k \in results' <=> k \in results /\ (state[k] # "completed" \/ Pins(k) # 0)
    BY DEF CloseReturns, Types, JobTypes, PoolTypes
  <1>2. step[k] \notin {"lease"} \cup Publication
    BY SearchJobsConstants DEF CloseReturns, JobInv, Placed, Held, Finalizing
  <1>3. (Pins(k) = 0 <=> ~Pinned(k)) /\ (Pinned(k)' <=> Pinned(k))
    BY <1>1, PinsCount DEF Types, Pinned
  <1>4. Placed(k)' /\ RowsKept(k)'
    BY <1>1, <1>2, <1>3 DEF JobInv, Placed, RowsKept
  <1>5. Judged(k)' /\ Agrees(k)' /\ Open(k)' /\ InOrder(k)' /\ Barred(k)' /\ Settling(k)'
    BY <1>1 DEF JobInv, Judged, Agrees, Fits, Open, InOrder, Remainders, Barred, Published, Settling, Told,
       records, history
  <1>. QED  BY <1>4, <1>5 DEF JobInv

\* A restart forgets the jobs, and leaves no record active.
LEMMA RestartJobs ==
  ASSUME Types, \A k \in Job : JobInv(k), Restart
  PROVE  \A k \in Job : JobInv(k)'
  <1>. SUFFICES ASSUME NEW k \in Job PROVE JobInv(k)'
    OBVIOUS
  <1>1. /\ state'[k] = "none" /\ step'[k] = (IF step[k] = "idle" THEN "idle" ELSE "lost")
        /\ todo'[k] = <<>> /\ k \notin results' /\ verdict' = verdict /\ missed' = missed /\ retry'[k] = None
        /\ hist'[k] = (IF hist[k] = "pending" THEN "failed" ELSE hist[k])
        /\ art'[k] = (IF Interrupted(k) THEN "interrupted" ELSE art[k])
        /\ k \in files' <=> k \in files /\ art[k] = "completed"
        /\ run'[k] = (IF run[k] \in ActiveRun THEN "interrupted" ELSE run[k])
    BY DEF Restart, history, Types, RecordTypes
  <1>2. ~Pinned(k)'
    BY <1>1, SearchJobsConstants DEF Restart, Pinned, Publication
  <1>3. Placed(k)' /\ RowsKept(k)' /\ Judged(k)'
    BY <1>1, <1>2 DEF JobInv, Placed, RowsKept, Judged, Unborn, Admission, Publication
  <1>4. Agrees(k)' /\ Open(k)' /\ InOrder(k)'
    BY <1>1, EachRound, SearchJobsConstants
    DEF JobInv, Agrees, Fits, Open, InOrder, Telling, Interrupted, ActiveRun
  <1>5. Barred(k)' /\ Settling(k)'
    BY <1>1, SearchJobsConstants
    DEF JobInv, Open, Barred, Published, Settling, Telling, Interrupted, ActiveRun
  <1>. QED  BY <1>3, <1>4, <1>5 DEF JobInv

\* A worker ends the search it runs, and its rows go unless it completed.
LEMMA WorkerJobs ==
  ASSUME Types, \A k \in Job : JobInv(k), NEW w \in Workers,
         Begin(w) \/ AddRow(w) \/ Completes(w) \/ Fails(w)
  PROVE  \A k \in Job : JobInv(k)'
  <1>. DEFINE j == worker[w]
  <1>1. j \in Job /\ step[j] = "live" /\ state[j] \in {"queued", "running"} /\ UNCHANGED worker
    BY DEF Begin, AddRow, Completes, Fails, Ready, Running, JobInv, Placed, schedVars, jobVars
  <1>2. state[j] = "queued" => j \notin results
    BY <1>1 DEF JobInv, RowsKept
  <1>3. JobInv(j)
    BY <1>1
  <1>. HIDE DEF j
  <1>4. \A x \in Job : x = j => JobInv(x)' /\ \A k \in Job \ {x} : Same(k)
    <2>. SUFFICES ASSUME NEW x \in Job, x = j PROVE JobInv(x)' /\ \A k \in Job \ {x} : Same(k)
      OBVIOUS
    <2>1. CASE Begin(w)
      <3>1. UNCHANGED <<reading, results, records, missed>>
        BY <2>1 DEF Begin, resultVars
      <3>2. CASE Stopped(j)
        <4>1. Finish(x, "canceled", "worker") /\ x \notin results'
          BY <1>2, <2>1, <3>1, <3>2 DEF Begin, j
        <4>. QED  BY <1>1, <1>3, <3>1, <4>1, FinishJob DEF Terminal, Owners
      <3>3. CASE ~Stopped(j)
        <4>1. state' = [state EXCEPT ![x] = "running"] /\ UNCHANGED <<step, todo, answer, owner, verdict>>
          BY <2>1, <3>3 DEF Begin, j
        <4>2. state'[x] = "running" /\ \A k \in Job \ {x} : state'[k] = state[k]
          BY <4>1 DEF Types, JobTypes
        <4>. QED  BY <1>1, <1>3, <3>1, <4>1, <4>2, RunningJob
      <3>. QED  BY <3>2, <3>3
    <2>2. CASE AddRow(w)
      <3>1. UNCHANGED <<state, step, todo, answer, owner, verdict, reading, records, missed>>
        BY <2>2 DEF AddRow, jobVars, history
      <3>2. results' = results \cup {x} /\ state[x] = "running"
        BY <2>2 DEF AddRow, Ready, j
      <3>. QED  BY <1>1, <1>3, <3>1, <3>2, RunningJob
    <2>3. CASE Completes(w)
      <3>1. UNCHANGED <<reading, records, missed>>
        BY <2>3 DEF Completes
      <3>2. \/ Finish(x, "canceled", "worker") /\ results' = results \ {x}
            \/ x \in results /\ Finish(x, "completed", "worker") /\ results' = results
        BY <2>3 DEF Completes, j
      <3>. QED  BY <1>1, <1>3, <3>1, <3>2, FinishJob DEF Terminal, Owners
    <2>4. CASE Fails(w)
      <3>1. UNCHANGED <<reading, records, missed>> /\ Finish(x, "failed", "worker") /\ results' = results \ {x}
        BY <2>4 DEF Fails, j
      <3>. QED  BY <1>1, <1>3, <3>1, FinishJob DEF Terminal, Owners
    <2>. QED  BY <2>1, <2>2, <2>3, <2>4
  <1>. QED  BY <1>1, <1>4, SameKeeps

\* Cancel and Close end a search that has not ended, and leave the others alone.
LEMMA CancelJobs ==
  ASSUME Types, \A k \in Job : JobInv(k), NEW j \in Job, NEW who \in Owners,
         FinishCanceled(j, who), UNCHANGED <<reading, records, missed>>
  PROVE  \A k \in Job : JobInv(k)'
  <1>1. CASE state[j] \in {"queued", "running"}
    <2>1. step[j] = "live" /\ JobInv(j)
      BY <1>1 DEF JobInv, Placed
    <2>2. Finish(j, "canceled", who) /\ results' = results \ {j}
      BY <1>1 DEF FinishCanceled
    <2>3. JobInv(j)' /\ \A k \in Job \ {j} : Same(k)
      BY <2>1, <2>2, FinishJob DEF Terminal
    <2>. QED  BY <2>3, SameKeeps
  <1>2. CASE state[j] \notin {"queued", "running"}
    <2>1. UNCHANGED <<state, verdict, step, todo, answer, owner, results>>
      BY <1>2 DEF FinishCanceled
    <2>2. \A k \in Job : Same(k)
      BY <2>1 DEF Same, SameRecords, SamePlace, SameRows, Pinned, records
    <2>. QED  BY <2>2, SameKeeps
  <1>. QED  BY <1>1, <1>2

\* Steps of the scheduler, of limits and of Close that touch no job.
Elsewhere == UNCHANGED <<state, step, todo, answer, owner, results, reading, records, history>>

\* Every step keeps what is known of every job.
LEMMA JobsStep ==
  ASSUME Types, \A k \in Job : JobInv(k), Held, [Next]_vars
  PROVE  \A k \in Job : JobInv(k)'
  <1>1. CASE Elsewhere
    <2>1. \A k \in Job : Same(k)
      BY <1>1 DEF Elsewhere, Same, SameRecords, SamePlace, SameRows, Pinned, records, history
    <2>. QED  BY <2>1, SameKeeps
  <1>2. CASE \E j \in Job : CreateNext(j)
    <2>1. PICK j \in Job : JobInv(j)' /\ \A k \in Job \ {j} : Same(k)
      BY <1>2, ClaimDueJob, CreateJob, PublishJob, AdmitJob, DisclaimJob DEF CreateNext
    <2>. QED  BY <2>1, SameKeeps
  <1>3. CASE \E j \in Job : FinalizeNext(j)
    <2>1. PICK j \in Job : JobInv(j)' /\ \A k \in Job \ {j} : Same(k)
      BY <1>3, LeaseJob, RetryJob, StoreJob, TellJob DEF FinalizeNext
    <2>. QED  BY <2>1, SameKeeps
  <1>4. ASSUME NEW j \in Job, ClientNext(j) PROVE \A k \in Job : JobInv(k)'
    <2>1. CASE CancelBegins(j)
      BY <1>1, <2>1 DEF CancelBegins, Elsewhere, resultVars, records, history
    <2>2. CASE CancelEnds(j)
      BY <2>2, CancelJobs DEF CancelEnds, Owners, records
    <2>3. CASE Expire(j) \/ Removed(j)
      BY <2>3, ExpireJob, SameKeeps
    <2>4. CASE \E r \in Readers : Acquire(r, j)
      BY <2>4, ReaderJobs
    <2>. QED  BY <1>4, <2>1, <2>2, <2>3, <2>4 DEF ClientNext
  <1>5. ASSUME NEW w \in Workers, WorkerNext(w) PROVE \A k \in Job : JobInv(k)'
    <2>1. CASE Check(w) \/ Ends(w)
      BY <1>1, <2>1 DEF Check, Ends, Elsewhere, jobVars, resultVars, records, history
    <2>2. CASE Begin(w) \/ AddRow(w) \/ Completes(w) \/ Fails(w)
      BY <2>2, WorkerJobs
    <2>. QED  BY <1>5, <2>1, <2>2 DEF WorkerNext
  <1>6. CASE \E r \in Readers : Release(r)
    BY <1>6, ReaderJobs
  <1>7. CASE (\E n \in Limits : SetLimit(n)) \/ LimitsChanged
    BY <1>1, <1>7 DEF SetLimit, LimitsChanged, Elsewhere, jobVars, resultVars, records, history
  <1>8. CASE CloseNext
    <2>1. CASE CloseBegins \/ CloseDrains \/ CloseJoins
      BY <1>1, <2>1 DEF CloseBegins, CloseDrains, CloseJoins, Elsewhere, jobVars, resultVars, records, history
    <2>2. CASE CloseReturns
      BY <2>2, CloseJobs
    <2>3. ASSUME NEW j \in Job, CloseFinishes(j) PROVE \A k \in Job : JobInv(k)'
      BY <2>3, CancelJobs DEF CloseFinishes, Owners, records
    <2>. QED  BY <1>8, <2>1, <2>2, <2>3 DEF CloseNext
  <1>9. CASE Restart
    BY <1>9, RestartJobs
  <1>10. CASE UNCHANGED vars
    BY <1>1, <1>10 DEF vars, Elsewhere, jobVars, resultVars, records, history
  <1>. QED  BY <1>2, <1>3, <1>4, <1>5, <1>6, <1>7, <1>8, <1>9, <1>10 DEF Next

-----------------------------------------------------------------------------
(* Types.                                                                   *)

\* What is left of the queue when a search is taken out of it.
LEMMA Dequeued ==
  ASSUME NEW S, NEW s \in Seq(S), NEW i \in 1 .. Len(s)
  PROVE  /\ RemoveAt(s, i) \in Seq(S) /\ Len(RemoveAt(s, i)) = Len(s) - 1
         /\ \A k \in 1 .. Len(s) - 1 : RemoveAt(s, i)[k] = IF k < i THEN s[k] ELSE s[k + 1]
  <1>. DEFINE a == SubSeq(s, 1, i - 1)
              b == SubSeq(s, i + 1, Len(s))
  <1>1. /\ a \in Seq(S) /\ Len(a) = i - 1 /\ \A k \in 1 .. i - 1 : a[k] = s[k]
    BY SMT
  <1>2. /\ b \in Seq(S) /\ Len(b) = Len(s) - i /\ \A k \in 1 .. Len(s) - i : b[k] = s[i + k]
    BY SMT
  <1>3. RemoveAt(s, i) = a \o b
    BY DEF RemoveAt
  <1>. HIDE DEF a, b
  <1>4. Len(a \o b) = Len(s) - 1 /\ a \o b \in Seq(S)
    <2>0. a \in Seq(S) /\ b \in Seq(S)
      BY <1>1, <1>2
    <2>1. a \o b \in Seq(S) /\ Len(a \o b) = Len(a) + Len(b)
      BY <2>0
    <2>2. Len(s) \in Nat
      OBVIOUS
    <2>. QED  BY <2>1, <2>2, <1>1, <1>2
  <1>5. ASSUME NEW k \in 1 .. Len(s) - 1 PROVE (a \o b)[k] = IF k < i THEN s[k] ELSE s[k + 1]
    <2>1. CASE k < i
      BY <1>1, <1>2, <2>1
    <2>2. CASE ~(k < i)
      <3>1. (a \o b)[k] = b[k - (i - 1)] /\ k - (i - 1) \in 1 .. Len(s) - i
        BY <1>1, <1>2, <2>2
      <3>. QED  BY <1>2, <2>2, <3>1
    <2>. QED  BY <2>1, <2>2
  <1>. QED  BY <1>3, <1>4, <1>5

\* A queue without the job, or without one place of it.
LEMMA QueueShrinks ==
  ASSUME NEW j \in Job, queue \in Seq(Job), removeQueuedLocked(j)
  PROVE  /\ queue' \in Seq(Job)
         /\ \/ queue' = queue /\ \A i \in 1 .. Len(queue) : queue[i] # j
            \/ \E i \in 1 .. Len(queue) :
                 /\ queue[i] = j /\ Len(queue') = Len(queue) - 1
                 /\ \A k \in 1 .. Len(queue) - 1 :
                      queue'[k] = IF k < i THEN queue[k] ELSE queue[k + 1]
  <1>1. CASE j \notin Range(queue) /\ UNCHANGED queue
    <2>1. \A i \in 1 .. Len(queue) : queue[i] # j
      BY <1>1 DEF Range
    <2>. QED  BY <1>1, <2>1
  <1>2. ASSUME NEW i \in 1 .. Len(queue), queue[i] = j, queue' = RemoveAt(queue, i)
        PROVE  /\ queue' \in Seq(Job) /\ Len(queue') = Len(queue) - 1
               /\ \A k \in 1 .. Len(queue) - 1 : queue'[k] = IF k < i THEN queue[k] ELSE queue[k + 1]
    BY <1>2, Dequeued
  <1>. QED  BY <1>1, <1>2 DEF removeQueuedLocked

\* The steps and rounds are what the code can be at.
LEMMA JobTypesStep ==
  ASSUME Types, \A k \in Job : JobInv(k), [Next]_vars
  PROVE  JobTypes'
  <1>1. CASE UNCHANGED jobVars
    BY <1>1 DEF jobVars, Types, JobTypes
  <1>. DEFINE Typed == /\ state' \in [Job -> States] /\ step' \in [Job -> Steps] /\ todo' \in [Job -> Rounds]
                       /\ answer' \in [Job -> Terminal \cup {None}] /\ owner' \in [Job -> Owners \cup {None}]
  <1>2. ASSUME NEW j \in Job, CreateNext(j) PROVE JobTypes'
    <2>1. CASE ClaimDue(j)
      BY <1>1, <2>1 DEF ClaimDue
    <2>2. CASE Create(j)
      BY <2>2, Orders DEF Create, Refuse, Types, JobTypes, Steps, Unborn, Admission
    <2>3. CASE Publish(j)
      BY <2>3, Orders DEF Publish, Types, JobTypes, Steps, Unborn, Admission, States, Terminal
    <2>4. ASSUME NEW how \in Outcomes, Admit(j, how) PROVE JobTypes'
      <3>1. /\ Compensated(j, FALSE) \in Rounds /\ (Head(todo[j]) = "hist" => Compensated(j, TRUE) \in Rounds)
            /\ Tail(todo[j]) \in Rounds
        BY <2>4, Compensations, Segments DEF Admit, JobInv, InOrder
      <3>2. \/ /\ step' = [step EXCEPT ![j] = "undo"] /\ answer' = [answer EXCEPT ![j] = "canceled"]
               /\ \E b \in BOOLEAN : /\ todo' = [todo EXCEPT ![j] = Compensated(j, b)]
                                     /\ Compensated(j, b) \in Rounds
            \/ /\ todo' = [todo EXCEPT ![j] = Tail(@)] /\ answer' = answer
               /\ step' = step \/ step' = [step EXCEPT ![j] = "publish"]
        BY <2>4, <3>1 DEF Admit, Undo, Conflicts
      <3>3. UNCHANGED <<state, owner, stopped, cancels>>
        BY <2>4 DEF Admit
      <3>. QED  BY <3>1, <3>2, <3>3 DEF Types, JobTypes, Steps, Unborn, Admission, Terminal
    <2>5. ASSUME NEW how \in Outcomes, Disclaim(j, how) PROVE JobTypes'
      BY <2>5 DEF Disclaim, Types, JobTypes, Steps, Unborn
    <2>. QED  BY <1>2, <2>1, <2>2, <2>3, <2>4, <2>5 DEF CreateNext
  <1>3. ASSUME NEW j \in Job, FinalizeNext(j) PROVE JobTypes'
    <2>1. CASE Lease(j)
      BY <2>1 DEF Lease, Types, JobTypes, Steps, Finalizing, Publication, Settled
    <2>2. CASE Retry(j)
      BY <1>1, <2>2 DEF Retry
    <2>3. ASSUME NEW how \in Outcomes, Stage(j, how) \/ Write(j, how) \/ Record(j, how) PROVE JobTypes'
      <3>1. /\ UNCHANGED <<state, owner, stopped, cancels>>
            /\ \E s \in {"write", "record", "project", "compensate"} : step' = [step EXCEPT ![j] = s]
            /\ \/ todo' = todo \/ todo' = [todo EXCEPT ![j] = Targets(j)]
               \/ todo' = [todo EXCEPT ![j] = Tail(Targets(j))]
            /\ answer' = answer \/ answer' = [answer EXCEPT ![j] = "failed"]
        BY <2>3 DEF Stage, Write, Record, Compensate
      <3>2. step' \in [Job -> Steps] /\ answer' \in [Job -> Terminal \cup {None}]
        BY <3>1 DEF Types, JobTypes, Steps, Finalizing, Publication, Terminal
      <3>3. todo' \in [Job -> Rounds]
        <4>1. Targets(j) \in Rounds /\ Tail(Targets(j)) \in Rounds
          BY Orders
        <4>. QED  BY <3>1, <4>1 DEF Types, JobTypes
      <3>. QED  BY <3>1, <3>2, <3>3 DEF Types, JobTypes
    <2>4. ASSUME NEW how \in Outcomes, Tell(j, how) PROVE JobTypes'
      <3>1. Tail(todo[j]) \in Rounds
        BY <2>4, Segments DEF Tell, JobInv, InOrder, Types, JobTypes
      <3>2. AfterTelling(j) \in Steps
        BY DEF AfterTelling, Steps, Unborn, Settled
      <3>. QED  BY <2>4, <3>1, <3>2 DEF Tell, Types, JobTypes
    <2>. QED  BY <1>3, <2>1, <2>2, <2>3, <2>4 DEF FinalizeNext
  <1>4. ASSUME NEW j \in Job, NEW as \in Terminal, NEW who \in Owners, Finish(j, as, who)
        PROVE  Typed
    BY <1>4, Orders DEF Finish, Types, JobTypes, Steps, Finalizing, States
  <1>5. ASSUME NEW j \in Job, NEW who \in Owners, FinishCanceled(j, who) PROVE Typed
    BY <1>4, <1>5 DEF FinishCanceled, Terminal, Types, JobTypes
  <1>6. ASSUME NEW j \in Job, ClientNext(j) PROVE JobTypes'
    <2>1. CASE CancelBegins(j)
      BY <2>1 DEF CancelBegins, Types, JobTypes
    <2>2. CASE CancelEnds(j)
      BY <1>5, <2>2 DEF CancelEnds, Owners, Types, JobTypes
    <2>3. CASE Expire(j) \/ Removed(j)
      BY <2>3 DEF Expire, Removed, Types, JobTypes, States
    <2>4. CASE \E r \in Readers : Acquire(r, j)
      BY <1>1, <2>4 DEF Acquire
    <2>. QED  BY <1>6, <2>1, <2>2, <2>3, <2>4 DEF ClientNext
  <1>7. ASSUME NEW w \in Workers, WorkerNext(w) PROVE JobTypes'
    <2>1. CASE Check(w) \/ Ends(w) \/ AddRow(w)
      BY <1>1, <2>1 DEF Check, Ends, AddRow
    <2>2. CASE Begin(w) \/ Completes(w) \/ Fails(w)
      <3>1. worker[w] \in Job /\ UNCHANGED <<stopped, cancels>>
        BY <2>2 DEF Begin, Completes, Fails, Running
      <3>2. \/ \E as \in Terminal : Finish(worker[w], as, "worker")
            \/ state' = [state EXCEPT ![worker[w]] = "running"] /\ UNCHANGED <<step, todo, answer, owner>>
        BY <2>2 DEF Begin, Completes, Fails, Terminal
      <3>3. Typed
        BY <1>4, <3>1, <3>2 DEF Types, JobTypes, States, Owners
      <3>. QED  BY <3>1, <3>3 DEF Types, JobTypes
    <2>. QED  BY <1>7, <2>1, <2>2 DEF WorkerNext
  <1>8. CASE (\E r \in Readers : Release(r)) \/ (\E n \in Limits : SetLimit(n)) \/ LimitsChanged
    BY <1>1, <1>8 DEF Release, SetLimit, LimitsChanged
  <1>9. CASE CloseNext
    <2>1. CASE CloseBegins \/ CloseDrains \/ CloseJoins
      BY <1>1, <2>1 DEF CloseBegins, CloseDrains, CloseJoins
    <2>2. CASE CloseReturns
      BY <2>2 DEF CloseReturns, Types, JobTypes, States
    <2>3. ASSUME NEW j \in Job, CloseFinishes(j) PROVE JobTypes'
      BY <1>5, <2>3 DEF CloseFinishes, Owners, Types, JobTypes
    <2>. QED  BY <1>9, <2>1, <2>2, <2>3 DEF CloseNext
  <1>10. CASE Restart
    BY <1>10 DEF Restart, Types, JobTypes, States, Steps, Unborn, Settled, Rounds
  <1>11. CASE UNCHANGED vars
    BY <1>1, <1>11 DEF vars
  <1>. QED  BY <1>2, <1>3, <1>6, <1>7, <1>8, <1>9, <1>10, <1>11 DEF Next

\* The manager's queue, workers and leases are of jobs it holds.
LEMMA PoolTypesStep ==
  ASSUME Types, [Next]_vars
  PROVE  PoolTypes'
  <1>1. CASE UNCHANGED <<resultVars, schedVars, closeVars>>
    BY <1>1 DEF resultVars, schedVars, closeVars, Types, PoolTypes
  <1>2. CASE results' \in SUBSET Job /\ UNCHANGED <<reading, schedVars, closeVars>>
    BY <1>2 DEF schedVars, closeVars, Types, PoolTypes
  <1>3. Broadcast \in [Workers -> Job \cup {"asleep", "ready", "out"}]
    BY DEF Broadcast, Types, PoolTypes
  <1>4. ASSUME NEW j \in Job, CreateNext(j) PROVE PoolTypes'
    <2>1. CASE Publish(j)
      <3>1. queue' \in Seq(Job)
        BY <2>1 DEF Publish, Types, PoolTypes
      <3>2. worker' \in [Workers -> Job \cup {"asleep", "ready", "out"}]
        BY <2>1 DEF Publish, Signal, Types, PoolTypes
      <3>. QED  BY <2>1, <3>1, <3>2 DEF Publish, resultVars, closeVars, Types, PoolTypes
    <2>2. CASE ~Publish(j)
      BY <1>1, <1>4, <2>2 DEF CreateNext, ClaimDue, Create, Admit, Disclaim
    <2>. QED  BY <2>1, <2>2
  <1>5. ASSUME NEW j \in Job, FinalizeNext(j) PROVE PoolTypes'
    BY <1>1, <1>5 DEF FinalizeNext, Lease, Retry, Stage, Write, Record, Tell
  <1>6. ASSUME NEW j \in Job, ClientNext(j) PROVE PoolTypes'
    <2>1. CASE CancelBegins(j)
      BY <2>1, QueueShrinks DEF CancelBegins, resultVars, closeVars, Types, PoolTypes
    <2>2. CASE CancelEnds(j) \/ Expire(j) \/ Removed(j)
      BY <1>2, <2>2 DEF CancelEnds, FinishCanceled, Expire, Removed, resultVars, Types, PoolTypes
    <2>3. ASSUME NEW r \in Readers, Acquire(r, j) PROVE PoolTypes'
      BY <2>3 DEF Acquire, schedVars, closeVars, Types, PoolTypes
    <2>. QED  BY <1>6, <2>1, <2>2, <2>3 DEF ClientNext
  <1>7. ASSUME NEW w \in Workers, WorkerNext(w) PROVE PoolTypes'
    <2>1. CASE Check(w)
      <3>1. \/ queue' = queue /\ \E x \in {"out", "asleep"} : worker' = [worker EXCEPT ![w] = x]
            \/ queue # <<>> /\ queue' = Tail(queue) /\ worker' = [worker EXCEPT ![w] = Head(queue)]
        BY <2>1 DEF Check
      <3>2. queue # <<>> => Head(queue) \in Job /\ Tail(queue) \in Seq(Job)
        BY DEF Types, PoolTypes
      <3>. QED  BY <2>1, <3>1, <3>2 DEF Check, resultVars, closeVars, Types, PoolTypes
    <2>2. CASE Ends(w)
      BY <1>3, <2>2 DEF Ends, resultVars, closeVars, Types, PoolTypes
    <2>3. CASE Begin(w) \/ AddRow(w) \/ Completes(w) \/ Fails(w)
      BY <1>2, <2>3 DEF Begin, AddRow, Completes, Fails, Running, resultVars, Types, PoolTypes
    <2>. QED  BY <1>7, <2>1, <2>2, <2>3 DEF WorkerNext
  <1>8. ASSUME NEW r \in Readers, Release(r) PROVE PoolTypes'
    BY <1>8 DEF Release, schedVars, closeVars, Types, PoolTypes
  <1>9. CASE (\E n \in Limits : SetLimit(n)) \/ LimitsChanged
    BY <1>3, <1>9 DEF SetLimit, LimitsChanged, resultVars, closeVars, Types, PoolTypes
  <1>10. CASE CloseNext
    <2>1. CASE CloseBegins
      <3>1. <<>> \in Seq(Job) /\ Listed \subseteq Job
        BY DEF Listed
      <3>. QED  BY <1>3, <2>1, <3>1 DEF CloseBegins, resultVars, Types, PoolTypes, Phases
    <2>2. CASE CloseDrains \/ CloseJoins
      BY <2>2 DEF CloseDrains, CloseJoins, resultVars, schedVars, Types, PoolTypes, Phases
    <2>3. CASE CloseReturns
      BY <2>3 DEF CloseReturns, schedVars, Types, PoolTypes, Phases
    <2>4. ASSUME NEW j \in Job, CloseFinishes(j) PROVE PoolTypes'
      BY <2>4 DEF CloseFinishes, FinishCanceled, schedVars, Types, PoolTypes
    <2>. QED  BY <1>10, <2>1, <2>2, <2>3, <2>4 DEF CloseNext
  <1>11. CASE Restart
    <2>1. <<>> \in Seq(Job)
      OBVIOUS
    <2>. QED  BY <1>11, <2>1 DEF Restart, Types, PoolTypes, Phases
  <1>12. CASE UNCHANGED vars
    BY <1>1, <1>12 DEF vars
  <1>. QED  BY <1>4, <1>5, <1>6, <1>7, <1>8, <1>9, <1>10, <1>11, <1>12 DEF Next

\* The records hold the states their stores know.
LEMMA RecordTypesStep ==
  ASSUME Types, \A k \in Job : JobInv(k), [Next]_vars
  PROVE  RecordTypes'
  <1>1. CASE UNCHANGED <<records, verdict>>
    BY <1>1 DEF records, Types, RecordTypes
  <1>2. CASE UNCHANGED records /\ verdict' \in [Job -> Terminal \cup {None}]
    BY <1>2 DEF records, Types, RecordTypes
  <1>3. ASSUME NEW j \in Job, NEW as \in Terminal, NEW who \in Owners, Finish(j, as, who)
        PROVE  verdict' \in [Job -> Terminal \cup {None}]
    BY <1>3 DEF Finish, Types, RecordTypes
  <1>4. ASSUME NEW j \in Job, NEW who \in Owners, FinishCanceled(j, who)
        PROVE  verdict' \in [Job -> Terminal \cup {None}]
    BY <1>3, <1>4 DEF FinishCanceled, Terminal, Types, RecordTypes
  <1>5. ASSUME NEW j \in Job, CreateNext(j) PROVE RecordTypes'
    <2>1. CASE ClaimDue(j)
      BY <2>1 DEF ClaimDue, history, Types, RecordTypes, Runs, ActiveRun
    <2>2. CASE Create(j) \/ Publish(j)
      BY <1>1, <2>2 DEF Create, Publish, history
    <2>3. ASSUME NEW how \in Outcomes, Admit(j, how) PROVE RecordTypes'
      <3>1. /\ art' = art \/ art' = [art EXCEPT ![j] = "queued"]
            /\ hist' = hist \/ hist' = [hist EXCEPT ![j] = "pending"]
            /\ run' = run \/ run' = [run EXCEPT ![j] = IF @ = "claimed" THEN "submitted" ELSE @]
            /\ receipt' = receipt \/ receipt' = [q \in Requests |-> IF q = Request[j] THEN j ELSE receipt[q]]
            /\ UNCHANGED <<files, retry, verdict>>
        <4>1. Head(todo[j]) \in {"art", "hist", "run"}
          BY <2>3, Compensations, Segments DEF Admit, JobInv, InOrder
        <4>. QED  BY <2>3, <4>1 DEF Admit, TakesAdmission, history
      <3>. QED  BY <3>1 DEF Types, RecordTypes, Arts, Hists, Runs, ActiveRun
    <2>4. ASSUME NEW how \in Outcomes, Disclaim(j, how) PROVE RecordTypes'
      BY <2>4 DEF Disclaim, Types, RecordTypes, Runs, Terminal
    <2>. QED  BY <1>5, <2>1, <2>2, <2>3, <2>4 DEF CreateNext
  <1>6. ASSUME NEW j \in Job, FinalizeNext(j) PROVE RecordTypes'
    <2>1. CASE Lease(j)
      BY <1>1, <2>1 DEF Lease, history
    <2>2. CASE Retry(j)
      BY <2>2 DEF Retry, history, Types, RecordTypes, Runs
    <2>3. ASSUME NEW how \in Outcomes, Stage(j, how) \/ Write(j, how) \/ Record(j, how) PROVE RecordTypes'
      <3>1. /\ art' = art \/ (\E a \in {"staged", "completed"} : art' = [art EXCEPT ![j] = a])
            /\ files' \subseteq files \cup {j} /\ UNCHANGED <<hist, run, receipt, retry, verdict>>
        BY <2>3 DEF Stage, Write, Record, history
      <3>. QED  BY <3>1 DEF Types, RecordTypes, Arts, Terminal
    <2>4. ASSUME NEW how \in Outcomes, Tell(j, how) PROVE RecordTypes'
      <3>1. answer[j] \in Terminal /\ Head(todo[j]) \in {"art", "hist", "run"}
        BY <2>4, Segments, SearchJobsConstants
        DEF Tell, JobInv, InOrder, Judged, Telling, Terminal, Types, JobTypes
      <3>2. /\ art' = art \/ art' = [art EXCEPT ![j] = IF @ = "none" THEN @ ELSE answer[j]]
            /\ hist' = hist \/ hist' = [hist EXCEPT ![j] = IF @ \in Terminal THEN @ ELSE answer[j]]
            /\ run' = run \/ run' = [run EXCEPT ![j] = IF @ \in ActiveRun THEN answer[j] ELSE @]
            /\ retry' = retry \/ retry' = [retry EXCEPT ![j] = answer[j]]
            /\ UNCHANGED <<files, receipt, verdict>>
        BY <2>4, <3>1 DEF Tell, TakesTerminal
      <3>. QED  BY <3>1, <3>2 DEF Types, RecordTypes, Arts, Hists, Runs
    <2>. QED  BY <1>6, <2>1, <2>2, <2>3, <2>4 DEF FinalizeNext
  <1>7. ASSUME NEW j \in Job, ClientNext(j) PROVE RecordTypes'
    <2>1. CASE CancelEnds(j)
      BY <1>2, <1>4, <2>1 DEF CancelEnds, Owners
    <2>2. CASE ~CancelEnds(j)
      BY <1>1, <1>7, <2>2 DEF ClientNext, CancelBegins, Expire, Removed, Acquire, history
    <2>. QED  BY <2>1, <2>2
  <1>8. ASSUME NEW w \in Workers, WorkerNext(w) PROVE RecordTypes'
    <2>1. CASE Check(w) \/ Ends(w) \/ AddRow(w)
      BY <1>1, <2>1 DEF Check, Ends, AddRow, history
    <2>2. CASE Begin(w) \/ Completes(w) \/ Fails(w)
      <3>1. worker[w] \in Job /\ UNCHANGED records
        BY <2>2 DEF Begin, Completes, Fails, Running
      <3>2. \/ \E as \in Terminal : Finish(worker[w], as, "worker")
            \/ verdict' = verdict
        BY <2>2 DEF Begin, Completes, Fails, Terminal
      <3>. QED  BY <1>1, <1>2, <1>3, <3>1, <3>2 DEF Owners
    <2>. QED  BY <1>8, <2>1, <2>2 DEF WorkerNext
  <1>9. CASE (\E r \in Readers : Release(r)) \/ (\E n \in Limits : SetLimit(n)) \/ LimitsChanged
    BY <1>1, <1>9 DEF Release, SetLimit, LimitsChanged, history
  <1>10. CASE CloseNext
    <2>1. CASE CloseBegins \/ CloseDrains \/ CloseJoins \/ CloseReturns
      BY <1>1, <2>1 DEF CloseBegins, CloseDrains, CloseJoins, CloseReturns, history
    <2>2. ASSUME NEW j \in Job, CloseFinishes(j) PROVE RecordTypes'
      BY <1>2, <1>4, <2>2 DEF CloseFinishes, Owners
    <2>. QED  BY <1>10, <2>1, <2>2 DEF CloseNext
  <1>11. CASE Restart
    BY <1>11 DEF Restart, history, Types, RecordTypes, Arts, Hists, Runs, Terminal
  <1>12. CASE UNCHANGED vars
    BY <1>1, <1>12 DEF vars, history
  <1>. QED  BY <1>5, <1>6, <1>7, <1>8, <1>9, <1>10, <1>11, <1>12 DEF Next

-----------------------------------------------------------------------------
(* The manager: its workers, its queue and its reservations.                *)

\* What a step does to the place of a job, short of a restart.
Move(j) ==
  \/ state'[j] = state[j] /\ step'[j] = step[j]
  \/ /\ state'[j] = state[j] /\ {step[j], step'[j]} \subseteq Unborn
     /\ step'[j] \in Admission => step[j] \in Admission \/ ~Closed
  \/ /\ step[j] = "publish" /\ step'[j] = "live" /\ state'[j] = "queued" /\ ~Closed
  \/ /\ step[j] = "live" /\ step'[j] = "live" /\ state[j] = "queued" /\ state'[j] = "running"
     /\ \E w \in Workers : worker[w] = j
  \/ /\ step[j] = "live" /\ step'[j] \in {"lease", "settle"} /\ state'[j] \in Terminal
  \/ /\ state'[j] = state[j] /\ step[j] \in Finalizing
     /\ step'[j] \in Finalizing \cup {"over", "unpublished"}
  \/ /\ step'[j] = step[j] /\ step[j] \in Settled
     /\ state[j] \in Terminal \cup {"expired"} /\ state'[j] \in {"expired", "gone"}
     /\ state'[j] = "gone" => state[j] = "expired"

\* Who claims a finalization keeps it.
Claims(j) ==
  \/ owner'[j] = owner[j] /\ (step[j] = "live" => step'[j] = "live")
  \/ step[j] = "live" /\ owner'[j] = "worker" /\ UNCHANGED worker /\ \E w \in Workers : worker[w] = j
  \/ step[j] = "live" /\ owner'[j] = "caller" /\ j \in cancels
  \/ step[j] = "live" /\ owner'[j] = "close" /\ phase = "draining" /\ phase' = "draining"

\* A claim of a live job's end is one move, made by its owner.
LEMMA FinishMoves ==
  ASSUME Types, NEW j \in Job, JobInv(j), step[j] = "live", NEW as \in Terminal, NEW who \in Owners,
         Finish(j, as, who)
  PROVE  /\ Move(j) /\ owner'[j] = who /\ step'[j] # "live"
         /\ \A k \in Job \ {j} : state'[k] = state[k] /\ step'[k] = step[k] /\ owner'[k] = owner[k]
  <1>1. /\ state'[j] = as /\ owner'[j] = who /\ step'[j] \in {"lease", "settle"}
        /\ \A k \in Job \ {j} : state'[k] = state[k] /\ step'[k] = step[k] /\ owner'[k] = owner[k]
    BY DEF Finish, Types, JobTypes
  <1>. QED  BY <1>1 DEF Move

\* Every step but a restart moves a job forward, and only live jobs are claimed.
LEMMA Moves ==
  ASSUME Types, \A k \in Job : JobInv(k), Held, [Next]_vars, ~Restart
  PROVE  \A k \in Job : Move(k) /\ Claims(k)
  <1>1. CASE UNCHANGED <<state, step, owner>>
    BY <1>1 DEF Move, Claims
  <1>2. ASSUME NEW j \in Job, UNCHANGED <<state, owner>>, Move(j), step[j] # "live",
               \A k \in Job \ {j} : step'[k] = step[k]
        PROVE  \A k \in Job : Move(k) /\ Claims(k)
    BY <1>2 DEF Move, Claims
  <1>3. ASSUME NEW j \in Job, CreateNext(j) PROVE \A k \in Job : Move(k) /\ Claims(k)
    <2>1. CASE ClaimDue(j)
      BY <1>1, <2>1 DEF ClaimDue, jobVars
    <2>2. CASE Create(j)
      <3>1. /\ UNCHANGED <<state, owner>> /\ step[j] = "idle" /\ step'[j] \in {"disclaim", "refused", "admit"}
            /\ step'[j] = "admit" => ~Closed
            /\ \A k \in Job \ {j} : step'[k] = step[k]
        BY <2>2 DEF Create, Refuse, Types, JobTypes
      <3>2. Move(j)
        BY <3>1 DEF Move, Unborn, Admission
      <3>. QED  BY <1>2, <3>1, <3>2
    <2>3. CASE Publish(j)
      <3>1. /\ owner' = owner /\ step[j] = "publish"
            /\ \/ step'[j] = "abort" /\ state' = state
               \/ step'[j] = "live" /\ state'[j] = "queued" /\ ~Closed
            /\ \A k \in Job \ {j} : state'[k] = state[k] /\ step'[k] = step[k]
        BY <2>3 DEF Publish, Unpublishable, Types, JobTypes
      <3>2. Move(j)
        BY <3>1 DEF Move, Unborn, Admission
      <3>. QED  BY <3>1, <3>2 DEF Move, Claims
    <2>4. ASSUME NEW how \in Outcomes, Admit(j, how) \/ Disclaim(j, how)
          PROVE  \A k \in Job : Move(k) /\ Claims(k)
      <3>1. /\ UNCHANGED <<state, owner>>
            /\ \/ step[j] = "admit" /\ step'[j] \in {"admit", "undo", "publish"}
               \/ step[j] = "disclaim" /\ step'[j] = "refused"
            /\ \A k \in Job \ {j} : step'[k] = step[k]
        BY <2>4 DEF Admit, Disclaim, Undo, Types, JobTypes
      <3>2. Move(j)
        BY <3>1 DEF Move, Unborn, Admission
      <3>. QED  BY <1>2, <3>1, <3>2
    <2>. QED  BY <1>3, <2>1, <2>2, <2>3, <2>4 DEF CreateNext
  <1>4. ASSUME NEW j \in Job, FinalizeNext(j) PROVE \A k \in Job : Move(k) /\ Claims(k)
    <2>1. CASE Retry(j)
      BY <1>1, <2>1 DEF Retry, jobVars
    <2>2. CASE Lease(j)
      <3>1. /\ UNCHANGED <<state, owner>> /\ step[j] = "lease" /\ step'[j] \in {"stage", "unpublished"}
            /\ \A k \in Job \ {j} : step'[k] = step[k]
        BY <2>2 DEF Lease, Types, JobTypes
      <3>2. Move(j)
        BY <3>1 DEF Move, Finalizing, Publication
      <3>. QED  BY <1>2, <3>1, <3>2
    <2>3. ASSUME NEW how \in Outcomes, Stage(j, how) \/ Write(j, how) \/ Record(j, how)
          PROVE  \A k \in Job : Move(k) /\ Claims(k)
      <3>1. /\ UNCHANGED <<state, owner>> /\ {step[j], step'[j]} \subseteq Publication
            /\ \A k \in Job \ {j} : step'[k] = step[k]
        BY <2>3 DEF Stage, Write, Record, Compensate, Types, JobTypes, Publication
      <3>2. Move(j)
        BY <3>1 DEF Move, Finalizing
      <3>. QED  BY <1>2, <3>1, <3>2 DEF Publication
    <2>4. ASSUME NEW how \in Outcomes, Tell(j, how) PROVE \A k \in Job : Move(k) /\ Claims(k)
      <3>1. /\ UNCHANGED <<state, owner>> /\ step[j] \in Telling /\ step'[j] \in {step[j], AfterTelling(j)}
            /\ \A k \in Job \ {j} : step'[k] = step[k]
        BY <2>4 DEF Tell, Types, JobTypes
      <3>2. Move(j)
        BY <3>1 DEF Move, Finalizing, Publication, Telling, AfterTelling, Unborn, Admission
      <3>. QED  BY <1>2, <3>1, <3>2 DEF Telling
    <2>. QED  BY <1>4, <2>1, <2>2, <2>3, <2>4 DEF FinalizeNext
  <1>5. ASSUME NEW j \in Job, ClientNext(j) PROVE \A k \in Job : Move(k) /\ Claims(k)
    <2>1. CASE CancelBegins(j) \/ \E r \in Readers : Acquire(r, j)
      BY <1>1, <2>1 DEF CancelBegins, Acquire, jobVars
    <2>2. CASE CancelEnds(j)
      <3>1. CASE state[j] \in {"queued", "running"}
        <4>1. step[j] = "live" /\ Finish(j, "canceled", "caller") /\ j \in cancels
          BY <2>2, <3>1 DEF CancelEnds, FinishCanceled, JobInv, Placed
        <4>2. /\ Move(j) /\ owner'[j] = "caller"
              /\ \A k \in Job \ {j} : state'[k] = state[k] /\ step'[k] = step[k] /\ owner'[k] = owner[k]
          BY <4>1, FinishMoves DEF Terminal, Owners
        <4>. QED  BY <4>1, <4>2 DEF Move, Claims
      <3>2. CASE state[j] \notin {"queued", "running"}
        BY <1>1, <2>2, <3>2 DEF CancelEnds, FinishCanceled
      <3>. QED  BY <3>1, <3>2
    <2>3. CASE Expire(j) \/ Removed(j)
      <3>1. /\ UNCHANGED <<step, owner>> /\ state[j] \in Terminal \cup {"expired"} /\ state'[j] \in {"expired", "gone"}
            /\ (state[j] = "expired" \/ step[j] \in Settled) /\ (state'[j] = "gone" => state[j] = "expired")
            /\ \A k \in Job \ {j} : state'[k] = state[k]
        BY <2>3 DEF Expire, Removed, Types, JobTypes
      <3>2. step[j] \in Settled
        BY <3>1 DEF JobInv, Placed, Unborn, Publication, Types, JobTypes, Steps, Finalizing, Settled, Terminal
      <3>. QED  BY <3>1, <3>2 DEF Move, Claims
    <2>. QED  BY <1>5, <2>1, <2>2, <2>3 DEF ClientNext
  <1>6. ASSUME NEW w \in Workers, WorkerNext(w) PROVE \A k \in Job : Move(k) /\ Claims(k)
    <2>1. CASE Check(w) \/ Ends(w) \/ AddRow(w)
      BY <1>1, <2>1 DEF Check, Ends, AddRow, jobVars
    <2>2. ASSUME NEW j \in Job, worker[w] = j, Begin(w) \/ Completes(w) \/ Fails(w)
          PROVE  \A k \in Job : Move(k) /\ Claims(k)
      <3>1. state[j] \in {"queued", "running"} /\ UNCHANGED worker
        BY <2>2 DEF Begin, Completes, Fails, schedVars
      <3>2. step[j] = "live"
        BY <3>1 DEF JobInv, Placed
      <3>3. \/ \E as \in Terminal : Finish(j, as, "worker")
            \/ state[j] = "queued" /\ state' = [state EXCEPT ![j] = "running"] /\ UNCHANGED <<step, owner>>
        BY <2>2 DEF Begin, Completes, Fails, Terminal
      <3>4. CASE \E as \in Terminal : Finish(j, as, "worker")
        <4>1. /\ Move(j) /\ owner'[j] = "worker"
              /\ \A k \in Job \ {j} : state'[k] = state[k] /\ step'[k] = step[k] /\ owner'[k] = owner[k]
          BY <3>2, <3>4, FinishMoves DEF Owners
        <4>. QED  BY <2>2, <3>1, <3>2, <4>1 DEF Move, Claims
      <3>5. CASE state[j] = "queued" /\ state' = [state EXCEPT ![j] = "running"] /\ UNCHANGED <<step, owner>>
        BY <2>2, <3>2, <3>5 DEF Move, Claims, Types, JobTypes
      <3>. QED  BY <3>3, <3>4, <3>5
    <2>. QED  BY <1>6, <2>1, <2>2 DEF WorkerNext, Begin, Completes, Fails, Running
  <1>7. CASE (\E r \in Readers : Release(r)) \/ (\E n \in Limits : SetLimit(n)) \/ LimitsChanged
    BY <1>1, <1>7 DEF Release, SetLimit, LimitsChanged, jobVars
  <1>8. CASE CloseNext
    <2>1. CASE CloseBegins \/ CloseDrains \/ CloseJoins
      BY <1>1, <2>1 DEF CloseBegins, CloseDrains, CloseJoins, jobVars
    <2>2. CASE CloseReturns
      <3>1. \A k \in Job : state[k] = "completed" => step[k] \in Settled
        <4>. SUFFICES ASSUME NEW k \in Job, state[k] = "completed" PROVE step[k] \in Settled
          OBVIOUS
        <4>1. step[k] \notin {"lease"} \cup Publication
          BY <2>2, SearchJobsConstants DEF CloseReturns, JobInv, Placed, Held, Finalizing
        <4>. QED  BY <4>1 DEF JobInv, Placed, Unborn, Types, JobTypes, Steps, Finalizing
      <3>. QED  BY <2>2, <3>1 DEF CloseReturns, Move, Claims, Terminal
    <2>3. ASSUME NEW j \in Job, CloseFinishes(j) PROVE \A k \in Job : Move(k) /\ Claims(k)
      <3>1. CASE state[j] \in {"queued", "running"}
        <4>1. step[j] = "live" /\ Finish(j, "canceled", "close") /\ phase = "draining" /\ phase' = "draining"
          BY <2>3, <3>1 DEF CloseFinishes, FinishCanceled, JobInv, Placed
        <4>2. /\ Move(j) /\ owner'[j] = "close"
              /\ \A k \in Job \ {j} : state'[k] = state[k] /\ step'[k] = step[k] /\ owner'[k] = owner[k]
          BY <4>1, FinishMoves DEF Terminal, Owners
        <4>. QED  BY <4>1, <4>2 DEF Move, Claims
      <3>2. CASE state[j] \notin {"queued", "running"}
        BY <1>1, <2>3, <3>2 DEF CloseFinishes, FinishCanceled
      <3>. QED  BY <3>1, <3>2
    <2>. QED  BY <1>8, <2>1, <2>2, <2>3 DEF CloseNext
  <1>9. CASE UNCHANGED vars
    BY <1>1, <1>9 DEF vars, jobVars
  <1>. QED  BY <1>3, <1>4, <1>5, <1>6, <1>7, <1>8, <1>9 DEF Next

\* Only a worker itself gives up its search.
LEMMA WorkersStay ==
  ASSUME Types, [Next]_vars, ~Restart, NEW w \in Workers
  PROVE  /\ worker[w] \in Job => worker'[w] = worker[w] \/ (Ends(w) /\ worker'[w] = "ready")
         /\ worker[w] \notin Job /\ worker'[w] \in Job => Check(w) /\ ~Closed /\ queue # <<>> /\ worker'[w] = Head(queue)
         /\ worker[w] = "out" => worker'[w] = "out"
         /\ worker[w] # "out" /\ worker'[w] = "out" => Closed
  <1>1. CASE UNCHANGED worker
    BY <1>1, SearchJobsConstants
  <1>2. CASE worker' = Broadcast
    BY <1>2, SearchJobsConstants DEF Broadcast
  <1>3. ASSUME NEW j \in Job, Publish(j)
        PROVE  UNCHANGED worker \/ \E v \in Workers : worker[v] = "asleep" /\ worker' = [worker EXCEPT ![v] = "ready"]
    BY <1>3 DEF Publish, Signal, Asleep
  <1>4. ASSUME NEW j \in Job, CreateNext(j) PROVE UNCHANGED worker \/ Publish(j)
    BY <1>4 DEF CreateNext, ClaimDue, Create, Admit, Disclaim, schedVars
  <1>5. ASSUME NEW j \in Job, FinalizeNext(j) \/ ClientNext(j) PROVE UNCHANGED worker
    BY <1>5 DEF FinalizeNext, Lease, Retry, Stage, Write, Record, Tell, ClientNext, CancelBegins, CancelEnds,
       Expire, Removed, Acquire, schedVars
  <1>6. ASSUME NEW v \in Workers, WorkerNext(v) PROVE UNCHANGED worker \/ Check(v) \/ Ends(v)
    BY <1>6 DEF WorkerNext, Begin, AddRow, Completes, Fails, schedVars
  <1>7. CASE (\E r \in Readers : Release(r)) \/ (\E n \in Limits : SetLimit(n)) \/ LimitsChanged
    BY <1>1, <1>2, <1>7 DEF Release, SetLimit, LimitsChanged, schedVars
  <1>8. CASE CloseNext
    BY <1>1, <1>2, <1>8 DEF CloseNext, CloseBegins, CloseDrains, CloseJoins, CloseReturns, CloseFinishes, schedVars
  <1>9. CASE UNCHANGED vars
    BY <1>1, <1>9 DEF vars, schedVars
  <1>10. ASSUME NEW v \in Workers, Check(v) \/ Ends(v)
         PROVE  /\ worker[w] \in Job => worker'[w] = worker[w] \/ (Ends(w) /\ worker'[w] = "ready")
                /\ worker[w] \notin Job /\ worker'[w] \in Job =>
                     Check(w) /\ ~Closed /\ queue # <<>> /\ worker'[w] = Head(queue)
                /\ worker[w] = "out" => worker'[w] = "out"
                /\ worker[w] # "out" /\ worker'[w] = "out" => Closed
    <2>1. CASE Check(v)
      <3>1. /\ worker[v] = "ready"
            /\ \/ Closed /\ worker' = [worker EXCEPT ![v] = "out"]
               \/ worker' = [worker EXCEPT ![v] = "asleep"]
               \/ ~Closed /\ queue # <<>> /\ worker' = [worker EXCEPT ![v] = Head(queue)]
        BY <2>1 DEF Check
      <3>2. queue # <<>> => Head(queue) \in Job
        BY DEF Types, PoolTypes
      <3>. QED  BY <2>1, <3>1, <3>2, SearchJobsConstants DEF Types, PoolTypes
    <2>2. CASE Ends(v)
      <3>1. worker[v] \in Job /\ worker' = [Broadcast EXCEPT ![v] = "ready"]
        BY <2>2 DEF Ends, Running
      <3>2. w = v => Ends(w) /\ worker'[w] = "ready"
        BY <2>2, <3>1 DEF Broadcast
      <3>3. w # v => worker'[w] = Broadcast[w]
        BY <3>1 DEF Broadcast
      <3>. QED  BY <3>1, <3>2, <3>3, SearchJobsConstants DEF Broadcast
    <2>. QED  BY <1>10, <2>1, <2>2
  <1>. QED  BY <1>1, <1>3, <1>4, <1>5, <1>6, <1>7, <1>8, <1>9, <1>10, SearchJobsConstants DEF Next, Types, PoolTypes

\* A worker has told the records before it takes another search.
LEMMA HeldStep ==
  ASSUME Types, \A k \in Job : JobInv(k), Held, [Next]_vars
  PROVE  Held'
  <1>1. CASE Restart
    <2>1. \A j \in Job : step'[j] \in {"idle", "lost"}
      BY <1>1 DEF Restart
    <2>. QED  BY <2>1 DEF Held, Finalizing, Publication
  <1>2. CASE ~Restart
    <2>. SUFFICES ASSUME NEW j \in Job, owner'[j] = "worker", step'[j] \in Finalizing
                  PROVE  \E w \in Workers : worker'[w] = j
      BY DEF Held, Finalizing, Publication
    <2>1. Move(j) /\ Claims(j)
      BY <1>2, Moves
    <2>2. CASE \E w \in Workers : worker[w] = j /\ UNCHANGED worker
      BY <2>2
    <2>3. CASE owner[j] = "worker" /\ (step[j] = "live" => step'[j] = "live")
      <3>1. step[j] \in Finalizing
        BY <2>1, <2>3 DEF Move, Finalizing, Publication, Unborn, Admission, Settled
      <3>2. PICK w \in Workers : worker[w] = j
        BY <2>3, <3>1 DEF Held
      <3>3. ~Ends(w)
        BY <2>3, <3>1, <3>2 DEF Ends, Finalizing, Publication, Settled
      <3>. QED  BY <1>2, <3>2, <3>3, WorkersStay
    <2>. QED  BY <2>1, <2>2, <2>3 DEF Claims
  <1>. QED  BY <1>1, <1>2

\* What a step does to the queue, short of a restart.
LEMMA QueueSteps ==
  ASSUME Types, [Next]_vars, ~Restart
  PROVE  \/ queue' = queue /\ cancels' \subseteq cancels
         \/ \E j \in Job : /\ Publish(j) /\ ~Closed /\ step[j] = "publish" /\ queue' = Append(queue, j)
                           /\ cancels' = cancels /\ state'[j] = "queued" /\ phase' = phase
         \/ \E w \in Workers : /\ Check(w) /\ worker[w] = "ready" /\ ~Closed /\ queue # <<>>
                               /\ queue' = Tail(queue) /\ worker' = [worker EXCEPT ![w] = Head(queue)]
                               /\ cancels' = cancels /\ phase' = phase
         \/ \E j \in Job : CancelBegins(j)
         \/ CloseBegins
  <1>1. ASSUME NEW j \in Job, CreateNext(j)
        PROVE  \/ queue' = queue /\ cancels' = cancels
               \/ /\ Publish(j) /\ ~Closed /\ step[j] = "publish" /\ queue' = Append(queue, j)
                  /\ cancels' = cancels /\ state'[j] = "queued" /\ phase' = phase
    BY <1>1 DEF CreateNext, ClaimDue, Create, Admit, Disclaim, Publish, Unpublishable, schedVars, jobVars, closeVars,
       Types, JobTypes
  <1>2. ASSUME NEW j \in Job, FinalizeNext(j) PROVE queue' = queue /\ cancels' = cancels
    BY <1>2 DEF FinalizeNext, Lease, Retry, Stage, Write, Record, Tell, schedVars, jobVars
  <1>3. ASSUME NEW j \in Job, ClientNext(j) PROVE (queue' = queue /\ cancels' \subseteq cancels) \/ CancelBegins(j)
    BY <1>3 DEF ClientNext, CancelEnds, Expire, Removed, Acquire, schedVars, jobVars
  <1>4. ASSUME NEW w \in Workers, WorkerNext(w)
        PROVE  \/ queue' = queue /\ cancels' = cancels
               \/ /\ Check(w) /\ worker[w] = "ready" /\ ~Closed /\ queue # <<>>
                  /\ queue' = Tail(queue) /\ worker' = [worker EXCEPT ![w] = Head(queue)]
                  /\ cancels' = cancels /\ phase' = phase
    BY <1>4 DEF WorkerNext, Check, Begin, AddRow, Completes, Fails, Ends, schedVars, jobVars, closeVars
  <1>5. CASE (\E r \in Readers : Release(r)) \/ (\E n \in Limits : SetLimit(n)) \/ LimitsChanged
    BY <1>5 DEF Release, SetLimit, LimitsChanged, schedVars, jobVars
  <1>6. CASE CloseNext
    BY <1>6 DEF CloseNext, CloseDrains, CloseJoins, CloseReturns, CloseFinishes, schedVars, jobVars
  <1>7. CASE UNCHANGED vars
    BY <1>7 DEF vars, schedVars, jobVars
  <1>. QED  BY <1>1, <1>2, <1>3, <1>4, <1>5, <1>6, <1>7 DEF Next

\* Close goes through its phases in order.
LEMMA PhaseSteps ==
  ASSUME Types, [Next]_vars, ~Restart
  PROVE  \/ UNCHANGED closeVars
         \/ phase = "open" /\ phase' = "closing" /\ CloseBegins
         \/ phase = "closing" /\ phase' = "draining" /\ CloseDrains
         \/ phase = "draining" /\ phase' = "draining" /\ \E j \in Job : CloseFinishes(j)
         \/ phase = "draining" /\ phase' = "joining" /\ CloseJoins
         \/ phase = "joining" /\ phase' = "closed" /\ CloseReturns
  <1>1. ASSUME NEW j \in Job, CreateNext(j) \/ FinalizeNext(j) \/ ClientNext(j) PROVE UNCHANGED closeVars
    BY <1>1 DEF CreateNext, ClaimDue, Create, Admit, Disclaim, Publish, FinalizeNext, Lease, Retry, Stage, Write,
       Record, Tell, ClientNext, CancelBegins, CancelEnds, Expire, Removed, Acquire
  <1>2. ASSUME NEW w \in Workers, WorkerNext(w) PROVE UNCHANGED closeVars
    BY <1>2 DEF WorkerNext, Check, Begin, AddRow, Completes, Fails, Ends
  <1>3. CASE (\E r \in Readers : Release(r)) \/ (\E n \in Limits : SetLimit(n)) \/ LimitsChanged
    BY <1>3 DEF Release, SetLimit, LimitsChanged
  <1>4. CASE CloseNext
    BY <1>4 DEF CloseNext, CloseBegins, CloseDrains, CloseJoins, CloseReturns, CloseFinishes
  <1>5. CASE UNCHANGED vars
    BY <1>5 DEF vars
  <1>. QED  BY <1>1, <1>2, <1>3, <1>4, <1>5 DEF Next

InQueue(j) == \E i \in 1 .. Len(queue) : queue[i] = j
Distinct == \A i, k \in 1 .. Len(queue) : queue[i] = queue[k] => i = k

\* Of an injective queue, what the steps that change it leave.
LEMMA QueueContents ==
  ASSUME Types, Distinct
  PROVE  /\ \A j \in Job : queue' = Append(queue, j) /\ ~InQueue(j) =>
              Distinct' /\ \A k \in Job : InQueue(k)' => InQueue(k) \/ k = j
         /\ queue # <<>> /\ queue' = Tail(queue) =>
              Distinct' /\ \A k \in Job : InQueue(k)' => InQueue(k) /\ k # Head(queue)
         /\ queue # <<>> => Head(queue) \in Job /\ InQueue(Head(queue))
         /\ \A j \in Job : removeQueuedLocked(j) =>
              Distinct' /\ Len(queue') =< Len(queue) /\ \A k \in Job : InQueue(k)' => InQueue(k) /\ k # j
  <1>0. queue \in Seq(Job) /\ Len(queue) \in Nat
    BY DEF Types, PoolTypes
  <1>1. ASSUME NEW j \in Job, queue' = Append(queue, j), ~InQueue(j)
        PROVE  Distinct' /\ \A k \in Job : InQueue(k)' => InQueue(k) \/ k = j
    <2>1. /\ Len(queue') = Len(queue) + 1 /\ queue'[Len(queue) + 1] = j
          /\ \A i \in 1 .. Len(queue) : queue'[i] = queue[i]
      BY <1>0, <1>1
    <2>2. \A i \in 1 .. Len(queue') : i \in 1 .. Len(queue) \/ i = Len(queue) + 1
      BY <1>0, <2>1
    <2>. QED  BY <1>1, <2>1, <2>2 DEF Distinct, InQueue
  <1>2. ASSUME queue # <<>>, queue' = Tail(queue)
        PROVE  Distinct' /\ \A k \in Job : InQueue(k)' => InQueue(k) /\ k # Head(queue)
    <2>1. /\ Len(queue') = Len(queue) - 1 /\ Head(queue) = queue[1] /\ Len(queue) >= 1
          /\ \A i \in 1 .. Len(queue) - 1 : queue'[i] = queue[i + 1]
      BY <1>0, <1>2
    <2>2. 1 \in 1 .. Len(queue) /\ \A i \in 1 .. Len(queue') : i + 1 \in 1 .. Len(queue) /\ i + 1 # 1
      BY <1>0, <2>1
    <2>3. \A i, k \in 1 .. Len(queue') : i + 1 = k + 1 => i = k
      BY <1>0, <2>1
    <2>. QED  BY <2>1, <2>2, <2>3 DEF Distinct, InQueue
  <1>3. ASSUME queue # <<>> PROVE Head(queue) \in Job /\ InQueue(Head(queue))
    <2>1. Head(queue) = queue[1] /\ 1 \in 1 .. Len(queue)
      BY <1>0, <1>3
    <2>. QED  BY <1>0, <2>1 DEF InQueue
  <1>4. ASSUME NEW j \in Job, removeQueuedLocked(j)
        PROVE  Distinct' /\ Len(queue') =< Len(queue) /\ \A k \in Job : InQueue(k)' => InQueue(k) /\ k # j
    <2>1. CASE queue' = queue /\ \A i \in 1 .. Len(queue) : queue[i] # j
      BY <1>0, <2>1 DEF Distinct, InQueue
    <2>2. ASSUME NEW i \in 1 .. Len(queue), queue[i] = j, Len(queue') = Len(queue) - 1,
                 \A k \in 1 .. Len(queue) - 1 : queue'[k] = IF k < i THEN queue[k] ELSE queue[k + 1]
          PROVE  Distinct' /\ Len(queue') =< Len(queue) /\ \A k \in Job : InQueue(k)' => InQueue(k) /\ k # j
      <3>. DEFINE from(k) == IF k < i THEN k ELSE k + 1
      <3>1. \A k \in 1 .. Len(queue') : from(k) \in 1 .. Len(queue) /\ from(k) # i /\ queue'[k] = queue[from(k)]
        BY <1>0, <2>2
      <3>2. \A k, l \in 1 .. Len(queue') : from(k) = from(l) => k = l
        BY <1>0, <2>2
      <3>. HIDE DEF from
      <3>3. Distinct'
        BY <3>1, <3>2 DEF Distinct
      <3>4. \A k \in Job : InQueue(k)' => InQueue(k) /\ k # j
        BY <2>2, <3>1 DEF InQueue, Distinct
      <3>. QED  BY <1>0, <2>2, <3>3, <3>4
    <2>. QED  BY <1>0, <1>4, <2>1, <2>2, QueueShrinks
  <1>. QED  BY <1>1, <1>2, <1>3, <1>4

\* A queued search is in the queue once, and nobody else has it.
LEMMA QueuedStep ==
  ASSUME Types, \A k \in Job : JobInv(k), Held, Queued, Shutting, [Next]_vars
  PROVE  Queued'
  <1>0. /\ Distinct /\ (Closed => queue = <<>>)
        /\ \A j \in Job : InQueue(j) => /\ state[j] = "queued" /\ j \notin cancels
                                        /\ \A w \in Workers : worker[w] # j
        /\ \A j \in Job : state[j] = "none" => j \notin cancels /\ \A w \in Workers : worker[w] # j
    BY DEF Queued, Distinct, InQueue
  <1>1. CASE Restart
    <2>1. queue' = <<>> /\ cancels' = {} /\ \A w \in Workers : worker'[w] = "ready"
      BY <1>1 DEF Restart
    <2>2. "ready" \notin Job
      BY SearchJobsConstants
    <2>. QED  BY <2>1, <2>2 DEF Queued
  <1>2. CASE ~Restart
    <2>1. \A j \in Job : Move(j) /\ Claims(j)
      BY <1>2, Moves
    <2>2. ASSUME NEW j \in Job, InQueue(j) PROVE state'[j] = "queued"
      <3>1. step[j] = "live" /\ ~Closed /\ j \notin cancels /\ state[j] = "queued" /\ \A w \in Workers : worker[w] # j
        BY <1>0, <2>2 DEF JobInv, Placed, InQueue
      <3>2. step'[j] = "live"
        BY <2>1, <3>1 DEF Claims, Closed
      <3>. QED  BY <2>1, <3>1, <3>2 DEF Move, Unborn, Admission, Finalizing, Publication, Settled
    <2>3. \A j \in Job : state'[j] = "none" => state[j] = "none"
      BY <2>1 DEF Move, Terminal
    <2>4. ASSUME NEW j \in Job, NEW w \in Workers, worker'[w] = j
          PROVE  worker[w] = j \/ (Check(w) /\ ~Closed /\ queue # <<>> /\ j = Head(queue))
      BY <1>2, <2>4, WorkersStay, SearchJobsConstants DEF Types, PoolTypes
    <2>5. queue # <<>> => Head(queue) \in Job /\ InQueue(Head(queue))
      BY <1>0, QueueContents
    <2>6. ASSUME NEW j \in Job, state'[j] = "none" PROVE j \notin cancels' /\ \A w \in Workers : worker'[w] # j
      <3>1. state[j] = "none" /\ j \notin cancels /\ \A w \in Workers : worker[w] # j
        BY <1>0, <2>3, <2>6
      <3>2. \A w \in Workers : worker'[w] # j
        BY <1>0, <2>4, <2>5, <3>1
      <3>3. j \notin cancels'
        BY <1>2, <3>1, QueueSteps DEF CancelBegins, CloseBegins, jobVars
      <3>. QED  BY <3>2, <3>3
    <2>7. CASE queue' = queue /\ cancels' \subseteq cancels
      <3>1. Distinct' /\ \A j \in Job : InQueue(j)' <=> InQueue(j)
        BY <1>0, <2>7 DEF Distinct, InQueue
      <3>2. \A j \in Job, w \in Workers : InQueue(j) => worker'[w] # j
        <4>. SUFFICES ASSUME NEW j \in Job, NEW w \in Workers, InQueue(j), worker'[w] = j PROVE FALSE
          OBVIOUS
        <4>1. Check(w) /\ ~Closed /\ queue # <<>> /\ worker[w] # j
          BY <1>0, <2>4
        <4>2. queue' = Tail(queue) \/ worker'[w] \in {"asleep", "out"}
          BY <4>1 DEF Check, Types, PoolTypes
        <4>3. queue \in Seq(Job) /\ Len(Tail(queue)) # Len(queue)
          BY <4>1 DEF Types, PoolTypes
        <4>. QED  BY <2>7, <4>2, <4>3, SearchJobsConstants
      <3>3. Closed' => queue' = <<>>
        BY <1>0, <1>2, <2>7, PhaseSteps DEF Closed, closeVars, CloseBegins
      <3>4. queue' \in Seq(Job)
        BY <2>7 DEF Types, PoolTypes
      <3>. QED  BY <1>0, <2>2, <2>6, <2>7, <3>1, <3>2, <3>3, <3>4 DEF Queued, Distinct, InQueue
    <2>8. ASSUME NEW j \in Job, Publish(j), ~Closed, step[j] = "publish", queue' = Append(queue, j),
                 cancels' = cancels, state'[j] = "queued", phase' = phase
          PROVE  Queued'
      <3>1. state[j] = "none" /\ ~InQueue(j)
        BY <1>0, <2>8 DEF JobInv, Placed, Unborn, Admission
      <3>2. Distinct' /\ \A k \in Job : InQueue(k)' => InQueue(k) \/ k = j
        BY <1>0, <2>8, <3>1, QueueContents
      <3>3. \A k \in Job, w \in Workers : worker'[w] = k => worker[w] = k
        BY <2>4, <2>8, SearchJobsConstants DEF Publish, Check, Signal, Asleep, Types, PoolTypes
      <3>4. ~Closed' /\ queue' \in Seq(Job)
        BY <2>8 DEF Closed, Types, PoolTypes
      <3>. QED  BY <1>0, <2>2, <2>6, <2>8, <3>1, <3>2, <3>3, <3>4 DEF Queued, Distinct, InQueue
    <2>9. ASSUME NEW w \in Workers, worker[w] = "ready", ~Closed, queue # <<>>, queue' = Tail(queue),
                 worker' = [worker EXCEPT ![w] = Head(queue)], cancels' = cancels, phase' = phase
          PROVE  Queued'
      <3>1. Distinct' /\ \A k \in Job : InQueue(k)' => InQueue(k) /\ k # Head(queue)
        BY <1>0, <2>9, QueueContents
      <3>2. \A v \in Workers : worker'[v] = worker[v] \/ worker'[v] = Head(queue)
        BY <2>9 DEF Types, PoolTypes
      <3>3. ~Closed' /\ queue' \in Seq(Job)
        BY <2>9 DEF Closed, Types, PoolTypes
      <3>. QED  BY <1>0, <2>2, <2>6, <2>9, <3>1, <3>2, <3>3 DEF Queued, Distinct, InQueue
    <2>10. ASSUME NEW j \in Job, CancelBegins(j) PROVE Queued'
      <3>1. Distinct' /\ \A k \in Job : InQueue(k)' => InQueue(k) /\ k # j
        BY <1>0, <2>10, QueueContents DEF CancelBegins
      <3>2. cancels' = cancels \cup {j} /\ UNCHANGED <<worker, closeVars>> /\ queue' \in Seq(Job)
        BY <2>10, QueueShrinks DEF CancelBegins, Types, PoolTypes
      <3>3. Closed' => queue' = <<>>
        <4>. SUFFICES ASSUME Closed' PROVE queue' = <<>>
          OBVIOUS
        <4>1. Closed /\ Len(queue) = 0
          BY <1>0, <3>2 DEF Closed, closeVars
        <4>2. Len(queue') =< 0
          BY <1>0, <2>10, <4>1, QueueContents DEF CancelBegins
        <4>. QED  BY <3>2, <4>2
      <3>. QED  BY <1>0, <2>2, <2>6, <3>1, <3>2, <3>3 DEF Queued, Distinct, InQueue
    <2>11. CASE CloseBegins
      <3>1. queue' = <<>>
        BY <2>11 DEF CloseBegins
      <3>. QED  BY <2>6, <3>1 DEF Queued
    <2>. QED  BY <1>2, <2>7, <2>8, <2>9, <2>10, <2>11, QueueSteps
  <1>. QED  BY <1>1, <1>2

\* Close waits for Create calls, then for its own finalizations, then for workers.
LEMMA ShuttingStep ==
  ASSUME Types, \A k \in Job : JobInv(k), Held, Shutting, [Next]_vars
  PROVE  Shutting'
  <1>1. CASE Restart
    <2>1. phase' = "open" /\ worker' = [w \in Workers |-> "ready"]
      BY <1>1 DEF Restart
    <2>. QED  BY <2>1 DEF Shutting, Closed
  <1>2. CASE ~Restart
    <2>1. \A j \in Job : Move(j) /\ Claims(j)
      BY <1>2, Moves
    <2>2. /\ Closed => Closed'
          /\ phase' = "closed" => phase \in {"joining", "closed"}
          /\ phase' \in {"joining", "closed"} => phase \in {"draining", "joining", "closed"}
          /\ phase' \in {"draining", "joining", "closed"} => Closed
      BY <1>2, PhaseSteps DEF Closed, closeVars
    <2>3. ASSUME NEW w \in Workers, worker'[w] = "out" PROVE Closed'
      BY <1>2, <2>2, <2>3, WorkersStay DEF Shutting
    <2>4. ASSUME phase' = "closed", NEW w \in Workers PROVE worker'[w] = "out"
      BY <1>2, <2>4, PhaseSteps, WorkersStay DEF Shutting, CloseReturns, closeVars
    <2>5. ASSUME phase' \in {"draining", "joining", "closed"} PROVE Pending' = {}
      <3>1. Pending = {}
        BY <1>2, <2>5, PhaseSteps DEF Shutting, CloseDrains, CreatesAreOver, closeVars
      <3>2. \A j \in Job : step'[j] \in Admission => step[j] \in Admission
        BY <2>1, <2>2, <2>5 DEF Move, Admission, Finalizing, Publication, Settled
      <3>. QED  BY <3>1, <3>2 DEF Pending, Admission
    <2>6. ASSUME Closed', NEW j \in Job, step'[j] = "live" PROVE j \in draining'
      <3>1. CASE CloseBegins
        <4>1. draining' = Listed /\ UNCHANGED <<step, state>>
          BY <3>1 DEF CloseBegins, jobVars
        <4>. QED  BY <2>6, <4>1 DEF JobInv, Placed, Listed
      <3>2. CASE Closed
        <4>1. step[j] = "live" /\ j \in draining
          BY <2>1, <2>6, <3>2 DEF Move, Unborn, Admission, Finalizing, Publication, Settled, Shutting
        <4>2. ASSUME NEW k \in Job, CloseFinishes(k) PROVE k # j
          <5>1. state[j] \in {"queued", "running"}
            BY <4>1 DEF JobInv, Placed
          <5>2. Finish(k, "canceled", "close") \/ state[k] \notin {"queued", "running"}
            BY <4>2 DEF CloseFinishes, FinishCanceled
          <5>. QED  BY <2>6, <5>1, <5>2 DEF Finish, Types, JobTypes
        <4>. QED  BY <1>2, <3>2, <4>1, <4>2, PhaseSteps
             DEF closeVars, CloseDrains, CloseFinishes, CloseJoins, CloseReturns, Closed
      <3>. QED  BY <1>2, <2>6, <3>1, <3>2, PhaseSteps DEF Closed, closeVars
    <2>7. ASSUME phase' \in {"joining", "closed"}
          PROVE  draining' = {} /\ \A j \in Job : owner'[j] = "close" => step'[j] \in Settled
      <3>1. draining' = {}
        BY <1>2, <2>7, PhaseSteps DEF Shutting, CloseJoins, CloseReturns, closeVars
      <3>2. ASSUME NEW j \in Job, owner'[j] = "close" PROVE step'[j] \in Settled
        <4>1. owner[j] = "close"
          BY <2>1, <2>7, <3>2 DEF Claims
        <4>2. step[j] \in Settled
          BY <1>2, <2>7, <4>1, PhaseSteps DEF Shutting, CloseJoins, closeVars
        <4>. QED  BY <2>1, <4>2 DEF Move, Settled, Unborn, Admission, Finalizing, Publication
      <3>. QED  BY <3>1, <3>2
    <2>8. (Closed => \A j \in Job : step[j] = "live" => j \in draining)'
      BY <2>6
    <2>9. ((\A w \in Workers : worker[w] = "out" => Closed) /\ (phase = "closed" => \A w \in Workers : worker[w] = "out"))'
      BY <2>3, <2>4
    <2>10. (/\ phase \in {"draining", "joining", "closed"} => Pending = {}
            /\ phase \in {"joining", "closed"} =>
                 draining = {} /\ \A j \in Job : owner[j] = "close" => step[j] \in Settled)'
      BY <2>5, <2>7
    <2>. QED  BY <2>8, <2>9, <2>10 DEF Shutting
  <1>. QED  BY <1>1, <1>2

\* What a step does to the scheduler, short of a restart.
LEMMA SchedSteps ==
  ASSUME Types, [Next]_vars, ~Restart
  PROVE  \/ UNCHANGED schedVars
         \/ \E j \in Job : Publish(j) \/ CancelBegins(j)
         \/ \E w \in Workers : Check(w) \/ Ends(w)
         \/ \E n \in Limits : SetLimit(n)
         \/ LimitsChanged \/ CloseBegins
  <1>1. ASSUME NEW j \in Job, CreateNext(j) \/ FinalizeNext(j) \/ ClientNext(j)
        PROVE  UNCHANGED schedVars \/ Publish(j) \/ CancelBegins(j)
    BY <1>1 DEF CreateNext, ClaimDue, Create, Admit, Disclaim, FinalizeNext, Lease, Retry, Stage, Write,
       Record, Tell, ClientNext, CancelEnds, Expire, Removed, Acquire
  <1>2. ASSUME NEW w \in Workers, WorkerNext(w) PROVE UNCHANGED schedVars \/ Check(w) \/ Ends(w)
    BY <1>2 DEF WorkerNext, Begin, AddRow, Completes, Fails
  <1>3. ASSUME NEW r \in Readers, Release(r) PROVE UNCHANGED schedVars
    BY <1>3 DEF Release
  <1>4. CASE CloseNext
    BY <1>4 DEF CloseNext, CloseDrains, CloseJoins, CloseReturns, CloseFinishes
  <1>5. CASE UNCHANGED vars
    BY <1>5 DEF vars
  <1>. QED  BY <1>1, <1>2, <1>3, <1>4, <1>5 DEF Next

\* A change of one worker, counted.
LEMMA Counted ==
  ASSUME Types, NEW w \in Workers
  PROVE  /\ Cardinality(ReadyToLook) \in Nat /\ Cardinality(Running) \in Nat
         /\ \A T \in SUBSET Workers : Cardinality(T) \in Nat
         /\ \A T \in SUBSET Workers : w \notin T => Cardinality(T \cup {w}) = Cardinality(T) + 1
         /\ \A T \in SUBSET Workers : w \in T => Cardinality(T \ {w}) = Cardinality(T) - 1
  <1>1. \A T \in SUBSET Workers : IsFiniteSet(T)
    BY SearchJobsConstants, FS_Subset
  <1>2. ReadyToLook \in SUBSET Workers /\ Running \in SUBSET Workers
    BY DEF ReadyToLook, Running
  <1>3. \A T \in SUBSET Workers : Cardinality(T) \in Nat
    BY <1>1, FS_CardinalityType
  <1>4. ASSUME NEW T \in SUBSET Workers, w \notin T PROVE Cardinality(T \cup {w}) = Cardinality(T) + 1
    BY <1>1, <1>4, FS_AddElement
  <1>5. ASSUME NEW T \in SUBSET Workers, w \in T PROVE Cardinality(T \ {w}) = Cardinality(T) - 1
    BY <1>1, <1>5, FS_RemoveElement
  <1>. QED  BY <1>2, <1>3, <1>4, <1>5

\* A search that is queued has woken a worker, or the next to stop will look.
LEMMA AwakeStep ==
  ASSUME Types, Awake, Distinct, [Next]_vars
  PROVE  Awake'
  <1>0. queue \in Seq(Job) /\ Len(queue) \in Nat /\ limit \in Nat
    BY SearchJobsConstants DEF Types, PoolTypes
  <1>1. CASE Asleep' = {}
    BY <1>1 DEF Awake
  <1>2. CASE worker' = Broadcast
    BY <1>1, <1>2, SearchJobsConstants DEF Asleep, Broadcast
  <1>3. CASE Restart
    BY <1>1, <1>3 DEF Restart, Asleep
  <1>4. ASSUME ~Restart, ~Closed' PROVE ~Closed
    BY <1>4, PhaseSteps DEF Closed, closeVars
  <1>5. ASSUME UNCHANGED schedVars, ~Restart PROVE Awake'
    BY <1>4, <1>5 DEF Awake, Asleep, ReadyToLook, Running, schedVars
  <1>6. ASSUME NEW j \in Job, Publish(j), ~Restart PROVE Awake'
    <2>1. CASE UNCHANGED queue
      <3>1. UNCHANGED worker
        BY <1>0, <1>6, <2>1 DEF Publish
      <3>. QED  BY <1>5, <1>6, <2>1, <3>1 DEF Publish, schedVars
    <2>2. CASE queue' = Append(queue, j) /\ Signal
      <3>1. Len(queue') = Len(queue) + 1 /\ UNCHANGED <<limit, notify, closeVars>>
        BY <1>0, <1>6, <2>2 DEF Publish
      <3>2. CASE Asleep = {}
        BY <1>1, <2>2, <3>2 DEF Signal, Asleep
      <3>3. ASSUME NEW w \in Asleep, worker' = [worker EXCEPT ![w] = "ready"] PROVE Awake'
        <4>1. w \in Workers /\ worker[w] = "asleep" /\ Asleep # {}
          BY DEF Asleep
        <4>2. ReadyToLook' = ReadyToLook \cup {w} /\ w \notin ReadyToLook /\ Running' = Running
          BY <3>3, <4>1, SearchJobsConstants DEF ReadyToLook, Running, Types, PoolTypes
        <4>3. Cardinality(ReadyToLook)' = Cardinality(ReadyToLook) + 1 /\ Cardinality(Running)' = Cardinality(Running)
          BY <4>1, <4>2, Counted DEF ReadyToLook
        <4>4. Cardinality(ReadyToLook) \in Nat /\ Cardinality(Running) \in Nat
          BY <4>1, Counted
        <4>. QED  BY <1>0, <3>1, <4>1, <4>3, <4>4 DEF Awake, Closed, closeVars
      <3>. QED  BY <2>2, <3>2, <3>3 DEF Signal
    <2>. QED  BY <1>6, <2>1, <2>2 DEF Publish
  <1>7. ASSUME NEW j \in Job, CancelBegins(j) PROVE Awake'
    <2>1. Len(queue') =< Len(queue) /\ Len(queue') \in Nat
      BY <1>0, <1>7, QueueContents, QueueShrinks DEF CancelBegins
    <2>2. UNCHANGED <<worker, limit, notify, phase>>
      BY <1>7 DEF CancelBegins, closeVars
    <2>3. UNCHANGED <<ReadyToLook, Running, Asleep>>
      BY <2>2 DEF ReadyToLook, Running, Asleep
    <2>4. \A w \in Workers : Cardinality(ReadyToLook) \in Nat
      BY Counted
    <2>5. Asleep # {} => \E w \in Workers : TRUE
      BY DEF Asleep
    <2>. QED  BY <1>0, <2>1, <2>2, <2>3, <2>4, <2>5 DEF Awake, Closed
  <1>8. ASSUME NEW w \in Workers, Check(w) PROVE Awake'
    <2>1. worker[w] = "ready" /\ UNCHANGED <<limit, notify, phase>>
      BY <1>8 DEF Check, closeVars
    <2>2. CASE Closed
      BY <2>1, <2>2 DEF Awake, Closed
    <2>3. CASE ~Closed /\ (queue = <<>> \/ Cardinality(Running) >= limit)
      <3>1. worker' = [worker EXCEPT ![w] = "asleep"] /\ queue' = queue
        BY <1>8, <2>3 DEF Check
      <3>2. Running' = Running
        BY <2>1, <3>1, SearchJobsConstants DEF Running, Types, PoolTypes
      <3>3. Cardinality(ReadyToLook') \in Nat /\ Cardinality(Running) \in Nat
        BY Counted DEF ReadyToLook
      <3>4. Len(<<>>) = 0
        OBVIOUS
      <3>. QED  BY <1>0, <2>1, <2>3, <3>1, <3>2, <3>3, <3>4 DEF Awake
    <2>4. CASE ~Closed /\ queue # <<>> /\ ~(Cardinality(Running) >= limit)
      <3>1. worker' = [worker EXCEPT ![w] = Head(queue)] /\ queue' = Tail(queue)
        BY <1>8, <2>4 DEF Check
      <3>2. Head(queue) \in Job /\ Len(queue') = Len(queue) - 1
        BY <1>0, <2>4, <3>1
      <3>3. /\ ReadyToLook' = ReadyToLook \ {w} /\ w \in ReadyToLook
            /\ Running' = Running \cup {w} /\ w \notin Running /\ Asleep' = Asleep
        BY <2>1, <3>1, <3>2, SearchJobsConstants DEF ReadyToLook, Running, Asleep, Types, PoolTypes
      <3>4. /\ Cardinality(ReadyToLook)' = Cardinality(ReadyToLook) - 1
            /\ Cardinality(Running)' = Cardinality(Running) + 1
        BY <3>3, Counted DEF ReadyToLook, Running
      <3>5. Cardinality(ReadyToLook) \in Nat /\ Cardinality(Running) \in Nat
        BY Counted
      <3>. QED  BY <1>0, <2>1, <2>4, <3>2, <3>3, <3>4, <3>5 DEF Awake, Closed
    <2>. QED  BY <2>2, <2>3, <2>4
  <1>9. ASSUME NEW w \in Workers, Ends(w) PROVE Awake'
    <2>1. Asleep' = {}
      BY <1>9, SearchJobsConstants DEF Ends, Asleep, Broadcast
    <2>. QED  BY <1>1, <2>1
  <1>10. ASSUME NEW n \in Limits, SetLimit(n) PROVE Awake'
    BY <1>10 DEF SetLimit, Awake
  <1>11. CASE LimitsChanged \/ CloseBegins
    BY <1>2, <1>11 DEF LimitsChanged, CloseBegins
  <1>. QED  BY <1>3, <1>5, <1>6, <1>7, <1>8, <1>9, <1>10, <1>11, SchedSteps

Holders == {r \in Readers : reading[r] # None}
Publishing == {j \in Job : step[j] \in Publication}

\* The sets that the limits are about are finite.
LEMMA RoomSets ==
  /\ IsFiniteSet(Listed) /\ IsFiniteSet(Pending) /\ IsFiniteSet(Holders) /\ IsFiniteSet(Publishing)
  /\ Cardinality(Listed) \in Nat /\ Cardinality(Pending) \in Nat
  /\ Cardinality(Holders) \in Nat /\ Cardinality(Publishing) \in Nat
  /\ Leases = Cardinality(Holders) + Cardinality(Publishing)
  <1>1. IsFiniteSet(Listed) /\ IsFiniteSet(Pending) /\ IsFiniteSet(Holders) /\ IsFiniteSet(Publishing)
    BY SearchJobsConstants, FS_Subset DEF Listed, Pending, Holders, Publishing
  <1>2. Leases = Cardinality(Holders) + Cardinality(Publishing)
    BY DEF Leases, Holders, Publishing
  <1>. QED  BY <1>1, <1>2, FS_CardinalityType

\* The same at the next state, and what follows when none of them grows.
LEMMA RoomsKept ==
  /\ IsFiniteSet(Listed') /\ IsFiniteSet(Pending') /\ IsFiniteSet(Holders') /\ IsFiniteSet(Publishing')
  /\ Cardinality(Listed') \in Nat /\ Cardinality(Pending') \in Nat
  /\ Cardinality(Holders') \in Nat /\ Cardinality(Publishing') \in Nat
  /\ Leases' = Cardinality(Holders') + Cardinality(Publishing')
  /\ Listed' \subseteq Listed => Cardinality(Listed') =< Cardinality(Listed)
  /\ Pending' \subseteq Pending => Cardinality(Pending') =< Cardinality(Pending)
  /\ Holders' \subseteq Holders => Cardinality(Holders') =< Cardinality(Holders)
  /\ Publishing' \subseteq Publishing => Cardinality(Publishing') =< Cardinality(Publishing)
  <1>1. IsFiniteSet(Listed') /\ IsFiniteSet(Pending') /\ IsFiniteSet(Holders') /\ IsFiniteSet(Publishing')
    BY SearchJobsConstants, FS_Subset DEF Listed, Pending, Holders, Publishing
  <1>2. Leases' = Cardinality(Holders') + Cardinality(Publishing')
    BY DEF Leases, Holders, Publishing
  <1>. QED  BY <1>1, <1>2, RoomSets, FS_CardinalityType, FS_Subset

\* One element more, or one less.
LEMMA OneMore ==
  ASSUME NEW S, NEW x, IsFiniteSet(S)
  PROVE  /\ IsFiniteSet(S \cup {x}) /\ Cardinality(S \cup {x}) =< Cardinality(S) + 1
         /\ x \in S => Cardinality(S \ {x}) = Cardinality(S) - 1
  <1>1. Cardinality(S) \in Nat
    BY FS_CardinalityType
  <1>2. CASE x \in S
    <2>1. S \cup {x} = S
      BY <1>2
    <2>2. IsFiniteSet(S \cup {x}) /\ Cardinality(S \cup {x}) = Cardinality(S)
      BY <2>1
    <2>3. Cardinality(S \ {x}) = Cardinality(S) - 1
      BY <1>2, FS_RemoveElement
    <2>. QED  BY <1>1, <2>2, <2>3
  <1>3. CASE x \notin S
    BY <1>1, <1>3, FS_AddElement
  <1>. QED  BY <1>2, <1>3

\* Their sizes, before and after a step.
LEMMA Counts ==
  /\ Cardinality(Listed) \in Nat /\ Cardinality(Pending) \in Nat
  /\ Cardinality(Holders) \in Nat /\ Cardinality(Publishing) \in Nat
  /\ Cardinality(Listed') \in Nat /\ Cardinality(Pending') \in Nat
  /\ Cardinality(Holders') \in Nat /\ Cardinality(Publishing') \in Nat
  /\ Leases = Cardinality(Holders) + Cardinality(Publishing)
  /\ Leases' = Cardinality(Holders') + Cardinality(Publishing')
  BY RoomSets, RoomsKept

\* The leases stay below their limit while readers and publications do not grow.
LEMMA LeasesBounded ==
  ASSUME Leases =< MaxLeases, Holders' \subseteq Holders, Publishing' \subseteq Publishing
  PROVE  Leases' =< MaxLeases
  <1>1. Cardinality(Holders') =< Cardinality(Holders) /\ Cardinality(Publishing') =< Cardinality(Publishing)
    BY RoomsKept
  <1>2. MaxLeases \in Nat
    BY SearchJobsConstants
  <1>. QED  BY <1>1, <1>2, Counts

\* Two sizes under a limit, when neither grows.
LEMMA NoMore ==
  ASSUME NEW a \in Nat, NEW b \in Nat, NEW c \in Nat, NEW d \in Nat, NEW m \in Nat,
         a =< c, b =< d, c + d =< m
  PROVE  a + b =< m
  OBVIOUS

\* A sum of two sizes under a limit: neither grows, one place is taken that
\* was free, or one place becomes the other's.
LEMMA Balance ==
  ASSUME NEW a \in Nat, NEW b \in Nat, NEW c \in Nat, NEW d \in Nat, NEW m \in Nat
  PROVE  /\ a =< c /\ b =< d /\ c + d =< m => a + b =< m
         /\ a =< c /\ b =< d + 1 /\ c + d < m => a + b =< m
         /\ a =< c + 1 /\ b = d - 1 /\ c + d =< m => a + b =< m
  OBVIOUS

\* Nothing that the limits count grows.
Shrinks ==
  /\ Listed' \subseteq Listed /\ Pending' \subseteq Pending /\ Len(queue') =< Len(queue)
  /\ Holders' \subseteq Holders /\ Publishing' \subseteq Publishing

\* Limits that hold go on holding when nothing is added.
LEMMA ShrinksKeeps ==
  ASSUME Types, PoolTypes', Rooms, Shrinks
  PROVE  Rooms'
  <1>1. Len(queue) \in Nat /\ Len(queue') \in Nat
    BY DEF Types, PoolTypes
  <1>2. /\ Cardinality(Listed') =< Cardinality(Listed) /\ Cardinality(Pending') =< Cardinality(Pending)
        /\ Cardinality(Holders') =< Cardinality(Holders)
        /\ Cardinality(Publishing') =< Cardinality(Publishing) /\ Len(queue') =< Len(queue)
    BY RoomsKept DEF Shrinks
  <1>3. MaxJobs \in Nat /\ MaxQueued \in Nat /\ MaxLeases \in Nat
    BY SearchJobsConstants
  <1>4. /\ Cardinality(Listed) + Cardinality(Pending) =< MaxJobs
        /\ Len(queue) + Cardinality(Pending) =< MaxQueued
        /\ Cardinality(Holders) + Cardinality(Publishing) =< MaxLeases
    BY Counts DEF Rooms
  <1>. QED  BY <1>1, <1>2, <1>3, <1>4, Counts, NoMore DEF Rooms

\* Reservations are for what was counted when they were made.
LEMMA RoomsStep ==
  ASSUME Types, PoolTypes', \A k \in Job : JobInv(k), Held, Queued, Rooms, [Next]_vars
  PROVE  Rooms'
  <1>0. /\ queue \in Seq(Job) /\ Len(queue) \in Nat /\ Len(queue') \in Nat
        /\ MaxJobs \in Nat /\ MaxQueued \in Nat /\ MaxLeases \in Nat
    BY SearchJobsConstants DEF Types, PoolTypes
  <1>1. ASSUME UNCHANGED <<state, step, reading>>, Len(queue') =< Len(queue) PROVE Rooms'
    BY <1>1, ShrinksKeeps DEF Shrinks, Listed, Pending, Holders, Publishing
  <1>2. CASE UNCHANGED <<state, step, reading, queue>>
    BY <1>0, <1>1, <1>2
  <1>3. ASSUME NEW j \in Job, NEW as \in Terminal, NEW who \in Owners, Finish(j, as, who),
               state[j] \in {"queued", "running"}, UNCHANGED <<reading, queue>>
        PROVE  Rooms'
    <2>1. /\ state'[j] = as /\ step'[j] \in {"lease", "settle"}
          /\ \A k \in Job \ {j} : state'[k] = state[k] /\ step'[k] = step[k]
      BY <1>3 DEF Finish, Types, JobTypes
    <2>2. Shrinks
      BY <1>0, <1>3, <2>1 DEF Shrinks, Listed, Pending, Holders, Publishing, Admission, Publication
    <2>. QED  BY <2>2, ShrinksKeeps
  <1>4. ASSUME NEW j \in Job, NEW who \in Owners, FinishCanceled(j, who), UNCHANGED <<reading, queue>>
        PROVE  Rooms'
    BY <1>2, <1>3, <1>4 DEF FinishCanceled, Terminal
  <1>5. ASSUME NEW j \in Job, Create(j) PROVE Rooms'
    <2>1. /\ step[j] = "idle" /\ UNCHANGED <<state, reading, queue>>
          /\ \A k \in Job \ {j} : step'[k] = step[k]
          /\ step'[j] \in {"disclaim", "refused"} \/ (step'[j] = "admit" /\ HasRoom)
      BY <1>5 DEF Create, Refuse, resultVars, schedVars, Types, JobTypes
    <2>2. /\ Listed' = Listed /\ Publishing' \subseteq Publishing /\ Holders' = Holders
      BY <2>1 DEF Listed, Publishing, Holders, Publication
    <2>3. CASE step'[j] \in {"disclaim", "refused"}
      <3>1. Pending' \subseteq Pending
        BY <2>1, <2>3 DEF Pending, Admission
      <3>. QED  BY <1>0, <2>1, <2>2, <3>1, ShrinksKeeps DEF Shrinks
    <2>4. CASE step'[j] = "admit" /\ HasRoom
      <3>1. Pending' = Pending \cup {j}
        BY <2>1, <2>4 DEF Pending, Admission
      <3>2. Cardinality(Pending') =< Cardinality(Pending) + 1
        BY <3>1, RoomSets, OneMore
      <3>3. Cardinality(Listed') = Cardinality(Listed) /\ Len(queue') = Len(queue)
        BY <2>1, <2>2
      <3>4. Leases' =< MaxLeases
        BY <2>2, LeasesBounded DEF Rooms
      <3>5. Cardinality(Listed) + Cardinality(Pending) < MaxJobs /\ Len(queue) + Cardinality(Pending) < MaxQueued
        BY <2>4 DEF HasRoom
      <3>6. Cardinality(Listed') =< Cardinality(Listed) /\ Len(queue') =< Len(queue)
        BY <1>0, <3>3, Counts
      <3>. QED  BY <1>0, <3>2, <3>4, <3>5, <3>6, Counts, Balance DEF Rooms
    <2>. QED  BY <2>1, <2>3, <2>4
  <1>6. ASSUME NEW j \in Job, Publish(j) PROVE Rooms'
    <2>1. CASE step'[j] = "abort" /\ UNCHANGED <<state, queue>>
      <3>1. step[j] = "publish" /\ UNCHANGED reading /\ \A k \in Job \ {j} : step'[k] = step[k]
        BY <1>6, <2>1 DEF Publish, resultVars, Types, JobTypes
      <3>2. Shrinks
        BY <1>0, <2>1, <3>1 DEF Shrinks, Listed, Pending, Holders, Publishing, Admission, Publication
      <3>. QED  BY <3>2, ShrinksKeeps
    <2>2. CASE step'[j] = "live" /\ state'[j] = "queued" /\ queue' = Append(queue, j)
      <3>1. /\ step[j] = "publish" /\ UNCHANGED reading
            /\ \A k \in Job \ {j} : step'[k] = step[k] /\ state'[k] = state[k]
        BY <1>6, <2>2 DEF Publish, resultVars, Types, JobTypes
      <3>2. Pending' = Pending \ {j} /\ j \in Pending
        BY <2>2, <3>1 DEF Pending, Admission
      <3>3. Listed' = Listed \cup {j}
        BY <2>2, <3>1 DEF Listed
      <3>4. Holders' = Holders /\ Publishing' \subseteq Publishing
        BY <2>2, <3>1 DEF Holders, Publishing, Publication
      <3>5. Cardinality(Pending') = Cardinality(Pending) - 1 /\ Cardinality(Listed') =< Cardinality(Listed) + 1
        BY <3>2, <3>3, RoomSets, OneMore
      <3>6. Len(queue') = Len(queue) + 1
        BY <1>0, <2>2
      <3>7. Leases' =< MaxLeases
        BY <3>4, LeasesBounded DEF Rooms
      <3>8. /\ Cardinality(Listed) + Cardinality(Pending) =< MaxJobs
            /\ Len(queue) + Cardinality(Pending) =< MaxQueued /\ Len(queue') =< Len(queue) + 1
        BY <1>0, <3>6 DEF Rooms
      <3>. QED  BY <1>0, <3>5, <3>7, <3>8, Counts, Balance DEF Rooms
    <2>. QED  BY <1>6, <2>1, <2>2 DEF Publish, Types, JobTypes
  <1>7. ASSUME NEW j \in Job, CreateNext(j) PROVE Rooms'
    <2>1. CASE ClaimDue(j)
      BY <1>2, <2>1 DEF ClaimDue, jobVars, resultVars, schedVars
    <2>2. ASSUME NEW how \in Outcomes, Admit(j, how) \/ Disclaim(j, how) PROVE Rooms'
      <3>1. /\ UNCHANGED <<state, reading, queue>> /\ \A k \in Job \ {j} : step'[k] = step[k]
            /\ \/ step[j] = "admit" /\ step'[j] \in {"admit", "undo", "publish"}
               \/ step[j] = "disclaim" /\ step'[j] = "refused"
        BY <2>2 DEF Admit, Disclaim, Undo, resultVars, schedVars, Types, JobTypes
      <3>2. Shrinks
        BY <1>0, <3>1 DEF Shrinks, Listed, Pending, Holders, Publishing, Admission, Publication
      <3>. QED  BY <3>2, ShrinksKeeps
    <2>. QED  BY <1>5, <1>6, <1>7, <2>1, <2>2 DEF CreateNext
  <1>8. ASSUME NEW j \in Job, FinalizeNext(j) PROVE Rooms'
    <2>1. CASE Retry(j)
      BY <1>2, <2>1 DEF Retry, jobVars, resultVars, schedVars
    <2>2. CASE Lease(j)
      <3>1. /\ step[j] = "lease" /\ UNCHANGED <<state, reading, queue>>
            /\ \A k \in Job \ {j} : step'[k] = step[k]
            /\ step'[j] = "unpublished" \/ (step'[j] = "stage" /\ Leases < MaxLeases)
        BY <2>2 DEF Lease, resultVars, schedVars, Types, JobTypes
      <3>2. Listed' = Listed /\ Pending' \subseteq Pending /\ Holders' = Holders
        BY <3>1 DEF Listed, Pending, Holders, Admission
      <3>3. CASE step'[j] = "unpublished"
        <4>1. Publishing' \subseteq Publishing
          BY <3>1, <3>3 DEF Publishing, Publication
        <4>. QED  BY <1>0, <3>1, <3>2, <4>1, ShrinksKeeps DEF Shrinks
      <3>4. CASE step'[j] = "stage" /\ Leases < MaxLeases
        <4>1. Publishing' = Publishing \cup {j}
          BY <3>1, <3>4 DEF Publishing, Publication
        <4>2. Cardinality(Publishing') =< Cardinality(Publishing) + 1
          BY <4>1, RoomSets, OneMore
        <4>3. Cardinality(Pending') =< Cardinality(Pending) /\ Cardinality(Listed') = Cardinality(Listed)
              /\ Cardinality(Holders') = Cardinality(Holders) /\ Len(queue') = Len(queue)
          BY <3>1, <3>2, RoomsKept
        <4>4. /\ Cardinality(Listed') =< Cardinality(Listed) /\ Cardinality(Holders') =< Cardinality(Holders)
              /\ Len(queue') =< Len(queue)
          BY <1>0, <4>3, Counts
        <4>5. /\ Cardinality(Listed) + Cardinality(Pending) =< MaxJobs
              /\ Len(queue) + Cardinality(Pending) =< MaxQueued
              /\ Cardinality(Holders) + Cardinality(Publishing) < MaxLeases
          BY <3>4, Counts DEF Rooms
        <4>. QED  BY <1>0, <4>2, <4>3, <4>4, <4>5, Counts, Balance DEF Rooms
      <3>. QED  BY <3>1, <3>3, <3>4
    <2>3. ASSUME NEW how \in Outcomes, Stage(j, how) \/ Write(j, how) \/ Record(j, how) PROVE Rooms'
      <3>1. /\ UNCHANGED <<state, reading, queue>> /\ {step[j], step'[j]} \subseteq Publication
            /\ \A k \in Job \ {j} : step'[k] = step[k]
        BY <2>3 DEF Stage, Write, Record, Compensate, resultVars, schedVars, Types, JobTypes, Publication
      <3>2. Shrinks
        BY <1>0, <3>1 DEF Shrinks, Listed, Pending, Holders, Publishing, Admission, Publication
      <3>. QED  BY <3>2, ShrinksKeeps
    <2>4. ASSUME NEW how \in Outcomes, Tell(j, how) PROVE Rooms'
      <3>1. /\ UNCHANGED <<state, reading, queue>> /\ step'[j] \in {step[j], "over", "disclaim", "refused"}
            /\ \A k \in Job \ {j} : step'[k] = step[k]
        BY <2>4 DEF Tell, AfterTelling, resultVars, schedVars, Types, JobTypes
      <3>2. Shrinks
        BY <1>0, <3>1 DEF Shrinks, Listed, Pending, Holders, Publishing, Admission, Publication
      <3>. QED  BY <3>2, ShrinksKeeps
    <2>. QED  BY <1>8, <2>1, <2>2, <2>3, <2>4 DEF FinalizeNext
  <1>9. ASSUME NEW j \in Job, ClientNext(j) PROVE Rooms'
    <2>1. CASE CancelBegins(j)
      <3>1. Len(queue') =< Len(queue)
        BY <2>1, QueueContents DEF CancelBegins, Queued, Distinct
      <3>. QED  BY <1>1, <2>1, <3>1 DEF CancelBegins, resultVars
    <2>2. CASE CancelEnds(j)
      BY <1>4, <2>2 DEF CancelEnds, schedVars, Owners
    <2>3. CASE Expire(j) \/ Removed(j)
      <3>1. /\ UNCHANGED <<step, reading, queue>> /\ state[j] \in Terminal \cup {"expired"}
            /\ \A k \in Job \ {j} : state'[k] = state[k]
        BY <2>3 DEF Expire, Removed, resultVars, schedVars, Types, JobTypes
      <3>2. Shrinks
        BY <1>0, <3>1 DEF Shrinks, Listed, Pending, Holders, Publishing, Terminal
      <3>. QED  BY <3>2, ShrinksKeeps
    <2>4. ASSUME NEW r \in Readers, Acquire(r, j) PROVE Rooms'
      <3>1. /\ UNCHANGED <<state, step, queue>> /\ Leases < MaxLeases
            /\ reading' = [reading EXCEPT ![r] = j]
        BY <2>4 DEF Acquire, jobVars, schedVars
      <3>2. Listed' = Listed /\ Pending' = Pending /\ Publishing' = Publishing
        BY <3>1 DEF Listed, Pending, Publishing
      <3>3. Holders' = Holders \cup {r}
        BY <3>1, SearchJobsConstants DEF Holders, Types, PoolTypes
      <3>4. Cardinality(Holders') =< Cardinality(Holders) + 1
        BY <3>3, RoomSets, OneMore
      <3>. QED  BY <1>0, <3>1, <3>2, <3>4, Counts DEF Rooms
    <2>. QED  BY <1>9, <2>1, <2>2, <2>3, <2>4 DEF ClientNext
  <1>10. ASSUME NEW w \in Workers, WorkerNext(w) PROVE Rooms'
    <2>1. CASE Check(w)
      <3>1. queue' = queue \/ (queue # <<>> /\ queue' = Tail(queue))
        BY <2>1 DEF Check
      <3>2. Len(queue') =< Len(queue)
        BY <1>0, <3>1
      <3>. QED  BY <1>1, <2>1, <3>2 DEF Check, jobVars, resultVars
    <2>2. CASE Ends(w) \/ AddRow(w)
      BY <1>2, <2>2 DEF Ends, AddRow, jobVars, resultVars, schedVars
    <2>3. ASSUME NEW j \in Job, worker[w] = j, Begin(w) \/ Completes(w) \/ Fails(w) PROVE Rooms'
      <3>1. /\ state[j] \in {"queued", "running"} /\ UNCHANGED <<reading, queue>>
            /\ \/ \E as \in Terminal : Finish(j, as, "worker")
               \/ state' = [state EXCEPT ![j] = "running"] /\ step' = step
        BY <2>3 DEF Begin, Completes, Fails, resultVars, schedVars, Terminal
      <3>2. CASE \E as \in Terminal : Finish(j, as, "worker")
        BY <1>3, <3>1, <3>2 DEF Owners
      <3>3. CASE state' = [state EXCEPT ![j] = "running"] /\ step' = step
        <4>1. Shrinks
          BY <1>0, <3>1, <3>3 DEF Shrinks, Listed, Pending, Holders, Publishing, Types, JobTypes
        <4>. QED  BY <4>1, ShrinksKeeps
      <3>. QED  BY <3>1, <3>2, <3>3
    <2>. QED  BY <1>10, <2>1, <2>2, <2>3 DEF WorkerNext, Begin, Completes, Fails, Running
  <1>11. ASSUME NEW r \in Readers, Release(r) PROVE Rooms'
    <2>1. UNCHANGED <<state, step, queue>> /\ reading' = [reading EXCEPT ![r] = None]
      BY <1>11 DEF Release, jobVars, schedVars
    <2>2. Shrinks
      BY <1>0, <2>1 DEF Shrinks, Listed, Pending, Holders, Publishing, Types, PoolTypes
    <2>. QED  BY <2>2, ShrinksKeeps
  <1>12. CASE (\E n \in Limits : SetLimit(n)) \/ LimitsChanged
    BY <1>2, <1>12 DEF SetLimit, LimitsChanged, jobVars, resultVars
  <1>13. CASE CloseNext
    <2>1. CASE CloseBegins
      <3>1. Len(queue') = 0
        BY <2>1 DEF CloseBegins
      <3>. QED  BY <1>0, <1>1, <2>1, <3>1 DEF CloseBegins, jobVars, resultVars
    <2>2. CASE CloseDrains \/ CloseJoins
      BY <1>2, <2>2 DEF CloseDrains, CloseJoins, jobVars, resultVars, schedVars
    <2>3. ASSUME NEW j \in Job, CloseFinishes(j) PROVE Rooms'
      BY <1>4, <2>3 DEF CloseFinishes, schedVars, Owners
    <2>4. CASE CloseReturns
      <3>1. /\ UNCHANGED <<step, reading, queue>>
            /\ \A k \in Job : state'[k] = state[k] \/ state[k] = "completed"
        BY <2>4 DEF CloseReturns, schedVars
      <3>2. Shrinks
        BY <1>0, <3>1 DEF Shrinks, Listed, Pending, Holders, Publishing
      <3>. QED  BY <3>2, ShrinksKeeps
    <2>. QED  BY <1>13, <2>1, <2>2, <2>3, <2>4 DEF CloseNext
  <1>14. CASE Restart
    <2>1. /\ \A k \in Job : state'[k] = "none" /\ step'[k] \in {"idle", "lost"}
          /\ \A r \in Readers : reading'[r] = None
          /\ Len(queue') = 0
      BY <1>14 DEF Restart
    <2>2. Shrinks
      BY <1>0, <2>1 DEF Shrinks, Listed, Pending, Holders, Publishing, Admission, Publication
    <2>. QED  BY <2>2, ShrinksKeeps
  <1>15. CASE UNCHANGED vars
    BY <1>2, <1>15 DEF vars, jobVars, resultVars, schedVars
  <1>. QED  BY <1>7, <1>8, <1>9, <1>10, <1>11, <1>12, <1>13, <1>14, <1>15 DEF Next

-----------------------------------------------------------------------------
(* Runs of the report, and receipts of requests.                            *)

\* An occurrence is claimed only when none is active.
LEMMA OneRunStep ==
  ASSUME Types, \A k \in Job : JobInv(k), OneRun, [Next]_vars
  PROVE  OneRun'
  <1>1. ASSUME \A k \in Reports : run'[k] \in ActiveRun => run[k] \in ActiveRun PROVE OneRun'
    BY <1>1 DEF OneRun, ActiveRun
  <1>2. CASE UNCHANGED run
    BY <1>1, <1>2
  <1>3. ASSUME NEW j \in Job, CreateNext(j) PROVE OneRun'
    <2>1. CASE ClaimDue(j)
      <3>1. /\ \A k \in Job \ {j} : run'[k] = run[k]
            /\ run'[j] = (IF \E k \in Reports : run[k] \in ActiveRun THEN "skipped" ELSE "claimed")
        BY <2>1 DEF ClaimDue, Types, RecordTypes
      <3>2. Reports \subseteq Job /\ "skipped" \notin ActiveRun
        BY SearchJobsConstants DEF ActiveRun
      <3>3. CASE \E k \in Reports : run[k] \in ActiveRun
        BY <1>1, <3>1, <3>2, <3>3
      <3>4. CASE ~\E k \in Reports : run[k] \in ActiveRun
        BY <3>1, <3>2, <3>4 DEF OneRun, ActiveRun
      <3>. QED  BY <3>3, <3>4
    <2>2. CASE Create(j) \/ Publish(j)
      BY <1>2, <2>2 DEF Create, Publish, records
    <2>3. ASSUME NEW how \in Outcomes, Admit(j, how) \/ Disclaim(j, how) PROVE OneRun'
      <3>1. Admit(j, how) => Head(todo[j]) \in {"art", "hist", "run"}
        BY Compensations, Segments DEF Admit, JobInv, InOrder
      <3>2. \/ run' = run \/ run' = [run EXCEPT ![j] = IF @ = "claimed" THEN "submitted" ELSE @]
            \/ run' = [run EXCEPT ![j] = "failed"]
        BY <2>3, <3>1 DEF Admit, Disclaim, TakesAdmission
      <3>3. \A k \in Job : run'[k] \in ActiveRun => run[k] \in ActiveRun
        BY <3>2 DEF ActiveRun, Types, RecordTypes
      <3>. QED  BY <1>1, <3>3, SearchJobsConstants
    <2>. QED  BY <1>3, <2>1, <2>2, <2>3 DEF CreateNext
  <1>4. ASSUME NEW j \in Job, FinalizeNext(j) PROVE OneRun'
    <2>1. CASE Retry(j)
      <3>1. \A k \in Job : run'[k] \in ActiveRun => run[k] \in ActiveRun
        BY <2>1 DEF Retry, Types, RecordTypes
      <3>. QED  BY <1>1, <3>1, SearchJobsConstants
    <2>2. CASE Lease(j) \/ \E how \in Outcomes : Stage(j, how) \/ Write(j, how) \/ Record(j, how)
      BY <1>2, <2>2 DEF Lease, Stage, Write, Record, records
    <2>3. ASSUME NEW how \in Outcomes, Tell(j, how) PROVE OneRun'
      <3>1. Head(todo[j]) \in {"art", "hist", "run"}
        BY <2>3, Segments DEF Tell, JobInv, InOrder, Types, JobTypes
      <3>2. run' = run \/ run' = [run EXCEPT ![j] = IF @ \in ActiveRun THEN answer[j] ELSE @]
        BY <2>3, <3>1 DEF Tell, TakesTerminal
      <3>3. \A k \in Job : run'[k] \in ActiveRun => run[k] \in ActiveRun
        BY <3>2 DEF Types, RecordTypes
      <3>. QED  BY <1>1, <3>3, SearchJobsConstants
    <2>. QED  BY <1>4, <2>1, <2>2, <2>3 DEF FinalizeNext
  <1>5. ASSUME NEW j \in Job, ClientNext(j) PROVE OneRun'
    BY <1>2, <1>5 DEF ClientNext, CancelBegins, CancelEnds, Expire, Removed, Acquire, records
  <1>6. ASSUME NEW w \in Workers, WorkerNext(w) PROVE OneRun'
    BY <1>2, <1>6 DEF WorkerNext, Check, Begin, AddRow, Completes, Fails, Ends, records
  <1>7. CASE (\E r \in Readers : Release(r)) \/ (\E n \in Limits : SetLimit(n)) \/ LimitsChanged
    BY <1>2, <1>7 DEF Release, SetLimit, LimitsChanged, records
  <1>8. CASE CloseNext
    BY <1>2, <1>8 DEF CloseNext, CloseBegins, CloseDrains, CloseJoins, CloseReturns, CloseFinishes, records
  <1>9. CASE Restart
    <2>1. \A k \in Job : run'[k] \notin ActiveRun
      BY <1>9 DEF Restart, ActiveRun
    <2>. QED  BY <2>1, SearchJobsConstants DEF OneRun, ActiveRun
  <1>10. CASE UNCHANGED vars
    BY <1>2, <1>10 DEF vars, records
  <1>. QED  BY <1>3, <1>4, <1>5, <1>6, <1>7, <1>8, <1>9, <1>10 DEF Next

\* A receipt changes only from none to the job that is admitted.
LEMMA ReceiptSteps ==
  ASSUME Types, \A k \in Job : JobInv(k), [Next]_vars
  PROVE  \/ receipt' = receipt
         \/ \E j \in Job : /\ step[j] = "admit" /\ Request[j] # None /\ receipt[Request[j]] = None
                           /\ receipt' = [q \in Requests |-> IF q = Request[j] THEN j ELSE receipt[q]]
  <1>1. ASSUME NEW j \in Job, NEW how \in Outcomes, Admit(j, how)
        PROVE  \/ receipt' = receipt
               \/ /\ step[j] = "admit" /\ Request[j] # None /\ receipt[Request[j]] = None
                  /\ receipt' = [q \in Requests |-> IF q = Request[j] THEN j ELSE receipt[q]]
    <2>1. Head(todo[j]) \in {"art", "hist", "run"} /\ step[j] = "admit"
      BY <1>1, Compensations, Segments DEF Admit, JobInv, InOrder
    <2>2. \/ receipt' = receipt
          \/ /\ ~Conflicts(j) /\ Head(todo[j]) = "hist"
             /\ receipt' = [q \in Requests |-> IF q = Request[j] THEN j ELSE receipt[q]]
      BY <1>1, <2>1 DEF Admit, TakesAdmission
    <2>3. CASE Request[j] = None /\ receipt' = [q \in Requests |-> IF q = Request[j] THEN j ELSE receipt[q]]
      <3>1. \A q \in Requests : q # Request[j]
        BY <2>3 DEF Requests
      <3>. QED  BY <2>3, <3>1 DEF Types, RecordTypes
    <2>. QED  BY <2>1, <2>2, <2>3 DEF Conflicts
  <1>2. ASSUME NEW j \in Job, CreateNext(j), receipt' # receipt PROVE \E how \in Outcomes : Admit(j, how)
    BY <1>2 DEF CreateNext, ClaimDue, Create, Disclaim, Publish, records
  <1>3. ASSUME NEW j \in Job, FinalizeNext(j) \/ ClientNext(j) PROVE receipt' = receipt
    BY <1>3 DEF FinalizeNext, Lease, Retry, Stage, Write, Record, Tell, ClientNext, CancelBegins, CancelEnds, Expire,
       Removed, Acquire, records
  <1>4. ASSUME NEW w \in Workers, WorkerNext(w) PROVE receipt' = receipt
    BY <1>4 DEF WorkerNext, Check, Begin, AddRow, Completes, Fails, Ends, records
  <1>5. CASE (\E r \in Readers : Release(r)) \/ (\E n \in Limits : SetLimit(n)) \/ LimitsChanged \/ Restart
    BY <1>5 DEF Release, SetLimit, LimitsChanged, Restart, records
  <1>6. CASE CloseNext
    BY <1>6 DEF CloseNext, CloseBegins, CloseDrains, CloseJoins, CloseReturns, CloseFinishes, records
  <1>7. CASE UNCHANGED vars
    BY <1>7 DEF vars, records
  <1>. QED  BY <1>1, <1>2, <1>3, <1>4, <1>5, <1>6, <1>7 DEF Next

\* How a job comes by an admission: its history is admitted on the way.
LEMMA AdmissionSteps ==
  ASSUME Types, \A k \in Job : JobInv(k), NEW j \in Job, [Next]_vars,
         step'[j] \in {"admit", "publish"}
  PROVE  \/ step'[j] = step[j] /\ todo'[j] = todo[j]
         \/ step'[j] = "admit" /\ "hist" \in Left(todo'[j])
         \/ /\ step[j] = "admit" /\ todo[j] # <<>> /\ todo'[j] = Tail(todo[j])
            /\ step'[j] = "publish" => todo'[j] = <<>>
            /\ Head(todo[j]) = "hist" =>
                 receipt' = [q \in Requests |-> IF q = Request[j] THEN j ELSE receipt[q]]
  <1>1. CASE step'[j] = step[j] /\ todo'[j] = todo[j]
    BY <1>1
  <1>2. ASSUME NEW i \in Job, CreateNext(i), i # j PROVE step'[j] = step[j] /\ todo'[j] = todo[j]
    BY <1>2 DEF CreateNext, ClaimDue, Create, Refuse, Admit, Undo, Disclaim, Publish, jobVars, Types, JobTypes
  <1>3. ASSUME CreateNext(j)
        PROVE  \/ step'[j] = step[j] /\ todo'[j] = todo[j]
               \/ step'[j] = "admit" /\ "hist" \in Left(todo'[j])
               \/ /\ step[j] = "admit" /\ todo[j] # <<>> /\ todo'[j] = Tail(todo[j])
                  /\ step'[j] = "publish" => todo'[j] = <<>>
                  /\ Head(todo[j]) = "hist" =>
                       receipt' = [q \in Requests |-> IF q = Request[j] THEN j ELSE receipt[q]]
    <2>1. CASE ClaimDue(j)
      BY <2>1 DEF ClaimDue, jobVars
    <2>2. CASE Create(j)
      <3>1. step'[j] = "admit" /\ todo'[j] = Targets(j)
        BY <2>2 DEF Create, Refuse, Types, JobTypes
      <3>. QED  BY <3>1, Orders
    <2>3. CASE Publish(j)
      BY <2>3 DEF Publish, Types, JobTypes
    <2>4. ASSUME NEW how \in Outcomes, Admit(j, how)
          PROVE  /\ step[j] = "admit" /\ todo[j] # <<>> /\ todo'[j] = Tail(todo[j])
                 /\ step'[j] = "publish" => todo'[j] = <<>>
                 /\ Head(todo[j]) = "hist" =>
                      receipt' = [q \in Requests |-> IF q = Request[j] THEN j ELSE receipt[q]]
      <3>1. step[j] = "admit" /\ todo[j] # <<>> /\ (Len(todo[j]) = 1 <=> Tail(todo[j]) = <<>>)
        BY <2>4, Compensations, Segments DEF Admit, JobInv, InOrder
      <3>2. /\ todo' = [todo EXCEPT ![j] = Tail(@)] /\ how = "ok"
            /\ step' = IF Len(todo[j]) = 1 THEN [step EXCEPT ![j] = "publish"] ELSE step
            /\ TakesAdmission(Head(todo[j]), j)
        BY <2>4, <3>1 DEF Admit, Undo, Types, JobTypes
      <3>. QED  BY <3>1, <3>2 DEF TakesAdmission, Types, JobTypes
    <2>5. ASSUME NEW how \in Outcomes, Disclaim(j, how) PROVE FALSE
      BY <2>5 DEF Disclaim, Types, JobTypes
    <2>. QED  BY <1>3, <2>1, <2>2, <2>3, <2>4, <2>5 DEF CreateNext
  <1>4. ASSUME NEW i \in Job, NEW as \in Terminal, NEW who \in Owners, Finish(i, as, who)
        PROVE  step'[j] = step[j] /\ todo'[j] = todo[j]
    BY <1>4 DEF Finish, Types, JobTypes
  <1>5. ASSUME NEW i \in Job, NEW who \in Owners, FinishCanceled(i, who)
        PROVE  step'[j] = step[j] /\ todo'[j] = todo[j]
    BY <1>4, <1>5 DEF FinishCanceled, Terminal
  <1>6. ASSUME NEW i \in Job, FinalizeNext(i) PROVE step'[j] = step[j] /\ todo'[j] = todo[j]
    BY <1>6 DEF FinalizeNext, Lease, Retry, Stage, Write, Record, Tell, Compensate, AfterTelling, Telling, jobVars,
       Types, JobTypes
  <1>7. ASSUME NEW i \in Job, ClientNext(i) PROVE step'[j] = step[j] /\ todo'[j] = todo[j]
    BY <1>5, <1>7 DEF ClientNext, CancelBegins, CancelEnds, Expire, Removed, Acquire, jobVars, Owners
  <1>8. ASSUME NEW w \in Workers, WorkerNext(w) PROVE step'[j] = step[j] /\ todo'[j] = todo[j]
    <2>1. \/ \E as \in Terminal : worker[w] \in Job /\ Finish(worker[w], as, "worker")
          \/ UNCHANGED <<step, todo>>
      BY <1>8 DEF WorkerNext, Check, Begin, AddRow, Completes, Fails, Ends, Running, jobVars, Terminal
    <2>. QED  BY <1>4, <2>1 DEF Owners
  <1>9. CASE (\E r \in Readers : Release(r)) \/ (\E n \in Limits : SetLimit(n)) \/ LimitsChanged
    BY <1>1, <1>9 DEF Release, SetLimit, LimitsChanged, jobVars
  <1>10. CASE CloseNext
    BY <1>1, <1>5, <1>10 DEF CloseNext, CloseBegins, CloseDrains, CloseJoins, CloseReturns, CloseFinishes, jobVars, Owners
  <1>11. ~Restart
    BY DEF Restart
  <1>12. CASE UNCHANGED vars
    BY <1>1, <1>12 DEF vars, jobVars
  <1>. QED  BY <1>1, <1>2, <1>3, <1>6, <1>7, <1>8, <1>9, <1>10, <1>11, <1>12 DEF Next

\* The receipt of a request names the one job that goes on under it.
LEMMA ReceiptedStep ==
  ASSUME Types, \A k \in Job : JobInv(k), Held, \A k \in Job : Receipted(k), [Next]_vars
  PROVE  \A k \in Job : Receipted(k)'
  <1>. SUFFICES ASSUME NEW k \in Job, Request[k] # None
                PROVE  /\ step'[k] = "admit" /\ "hist" \notin Left(todo'[k]) => receipt'[Request[k]] = k
                       /\ step'[k] \in {"publish", "live"} \/ state'[k] # "none" => receipt'[Request[k]] = k
    BY DEF Receipted
  <1>0. Request[k] \in Requests
    BY DEF Requests
  <1>1. ASSUME receipt[Request[k]] = k PROVE receipt'[Request[k]] = k
    BY <1>0, <1>1, ReceiptSteps, SearchJobsConstants
  <1>2. CASE step'[k] \in {"admit", "publish"} /\ state'[k] = "none"
    <2>1. CASE step'[k] = step[k] /\ todo'[k] = todo[k]
      BY <1>1, <1>2, <2>1 DEF Receipted
    <2>2. CASE step'[k] = "admit" /\ "hist" \in Left(todo'[k])
      BY <1>2, <2>2
    <2>3. CASE /\ step[k] = "admit" /\ todo[k] # <<>> /\ todo'[k] = Tail(todo[k])
               /\ step'[k] = "publish" => todo'[k] = <<>>
               /\ Head(todo[k]) = "hist" =>
                    receipt' = [q \in Requests |-> IF q = Request[k] THEN k ELSE receipt[q]]
      <3>1. /\ todo[k] \in Rounds /\ Left(todo[k]) = {Head(todo[k])} \cup Left(Tail(todo[k]))
        BY <2>3, Segments DEF Types, JobTypes
      <3>2. CASE Head(todo[k]) = "hist"
        BY <1>0, <2>3, <3>2
      <3>3. CASE Head(todo[k]) # "hist" /\ "hist" \notin Left(Tail(todo[k]))
        BY <1>1, <2>3, <3>1, <3>3 DEF Receipted
      <3>4. CASE "hist" \in Left(Tail(todo[k]))
        <4>1. "hist" \in Left(todo'[k]) /\ "hist" \notin Left(<<>>)
          BY <2>3, <3>4, Lefts
        <4>. QED  BY <1>2, <2>3, <4>1
      <3>. QED  BY <3>2, <3>3, <3>4
    <2>. QED  BY <1>2, <2>1, <2>2, <2>3, AdmissionSteps
  <1>3. CASE step'[k] \notin {"admit", "publish"} \/ state'[k] # "none"
    <2>1. CASE Restart
      BY <1>3, <2>1 DEF Restart
    <2>2. CASE ~Restart
      <3>1. Move(k) /\ JobInv(k)'
        BY <2>2, Moves, JobsStep
      <3>2. ASSUME step'[k] = "live" \/ state'[k] # "none" PROVE step[k] \in {"publish", "live"} \/ state[k] # "none"
        BY <3>1, <3>2 DEF Move, Unborn, Admission, Finalizing, Publication, Terminal
      <3>3. step'[k] \in {"admit", "publish"} => state'[k] = "none"
        BY <3>1 DEF JobInv, Placed, Unborn, Admission
      <3>. QED  BY <1>1, <1>3, <3>2, <3>3 DEF Receipted
    <2>. QED  BY <2>1, <2>2
  <1>. QED  BY <1>2, <1>3

-----------------------------------------------------------------------------
(* The invariant                                                            *)

\* Nothing is asked, held or recorded at first.
LEMMA InitInv == Init => JobsInv
  <1>. SUFFICES ASSUME Init PROVE JobsInv
    OBVIOUS
  <1>1. Types
    <2>1. JobTypes
      BY DEF Init, JobTypes, States, Steps, Unborn, Rounds
    <2>2. PoolTypes
      <3>1. <<>> \in Seq(Job)
        OBVIOUS
      <3>. QED  BY <3>1 DEF Init, PoolTypes, Phases
    <2>3. RecordTypes
      BY DEF Init, RecordTypes, Arts, Hists, Runs
    <2>. QED  BY <2>1, <2>2, <2>3 DEF Types
  <1>2. ASSUME NEW j \in Job PROVE JobInv(j)
    <2>1. /\ state[j] = "none" /\ step[j] = "idle" /\ todo[j] = <<>> /\ answer[j] = None /\ owner[j] = None
          /\ j \notin results /\ art[j] = "none" /\ hist[j] = "none" /\ run[j] = "none" /\ retry[j] = None
          /\ verdict[j] = None
      BY DEF Init
    <2>2. ~Pinned(j)
      BY <2>1, SearchJobsConstants DEF Init, Pinned, Publication
    <2>3. Placed(j) /\ RowsKept(j) /\ Judged(j)
      BY <2>1, <2>2 DEF Placed, RowsKept, Judged, Unborn, Admission, Publication
    <2>4. Agrees(j) /\ Open(j) /\ InOrder(j)
      BY <2>1, EachRound, SearchJobsConstants DEF Agrees, Fits, Open, InOrder, Telling
    <2>5. Barred(j) /\ Settling(j)
      BY <2>1, SearchJobsConstants DEF Barred, Settling, Telling
    <2>. QED  BY <2>3, <2>4, <2>5 DEF JobInv
  <1>3. ManagerInv
    <2>1. /\ \A j \in Job : step[j] = "idle" /\ state[j] = "none"
          /\ \A w \in Workers : worker[w] = "ready"
          /\ \A r \in Readers : reading[r] = None
          /\ queue = <<>> /\ phase = "open" /\ cancels = {}
      BY DEF Init
    <2>2. Held /\ Queued
      BY <2>1, SearchJobsConstants DEF Held, Queued, Finalizing, Publication, Closed
    <2>3. Awake /\ Shutting
      BY <2>1 DEF Awake, Asleep, Shutting, Closed
    <2>4. Rooms
      <3>1. Listed = {} /\ Pending = {} /\ Holders = {} /\ Publishing = {} /\ Len(queue) = 0
        BY <2>1 DEF Listed, Pending, Holders, Publishing, Admission, Publication
      <3>2. Cardinality({}) = 0
        BY FS_EmptySet
      <3>3. /\ Cardinality(Listed) = 0 /\ Cardinality(Pending) = 0 /\ Cardinality(Holders) = 0
            /\ Cardinality(Publishing) = 0
        BY <3>1, <3>2
      <3>4. Leases = 0
        BY <3>3, RoomSets
      <3>5. MaxJobs \in Nat /\ MaxQueued \in Nat /\ MaxLeases \in Nat
        BY SearchJobsConstants
      <3>. QED  BY <3>1, <3>3, <3>4, <3>5 DEF Rooms
    <2>. QED  BY <2>2, <2>3, <2>4 DEF ManagerInv
  <1>4. OneRun
    BY SearchJobsConstants DEF Init, OneRun, ActiveRun
  <1>5. ASSUME NEW j \in Job PROVE Receipted(j)
    BY DEF Init, Receipted
  <1>. QED  BY <1>1, <1>2, <1>3, <1>4, <1>5 DEF JobsInv

\* Every step keeps the invariant.
LEMMA StepKeeps == JobsInv /\ [Next]_vars => JobsInv'
  <1>. SUFFICES ASSUME JobsInv, [Next]_vars PROVE JobsInv'
    OBVIOUS
  <1>1. /\ Types /\ (\A j \in Job : JobInv(j)) /\ OneRun /\ (\A j \in Job : Receipted(j))
        /\ Held /\ Queued /\ Awake /\ Rooms /\ Shutting /\ Distinct
    BY DEF JobsInv, ManagerInv, Queued, Distinct
  <1>2. Types'
    BY <1>1, JobTypesStep, PoolTypesStep, RecordTypesStep DEF Types
  <1>3. (\A j \in Job : JobInv(j))'
    BY <1>1, JobsStep
  <1>4. Held' /\ Queued' /\ Shutting'
    BY <1>1, HeldStep, QueuedStep, ShuttingStep
  <1>5. Awake' /\ Rooms'
    BY <1>1, <1>2, AwakeStep, RoomsStep DEF Types
  <1>6. OneRun' /\ (\A j \in Job : Receipted(j))'
    BY <1>1, OneRunStep, ReceiptedStep
  <1>. QED  BY <1>2, <1>3, <1>4, <1>5, <1>6 DEF JobsInv, ManagerInv

\* The invariant of the search job manager and its records holds in every
\* behaviour (Manager, CompositeJournal and the three stores).
THEOREM JobsInvariant == Spec => []JobsInv
  <1>1. Init => JobsInv
    BY InitInv
  <1>2. JobsInv /\ [Next]_vars => JobsInv'
    BY StepKeeps
  <1>. QED  BY <1>1, <1>2, PTL DEF Spec

\* The values are what the manager and its stores know, and the limits of
\* Config hold of what is kept.
THEOREM JobsTypeCorrect == Spec => []TypeOK
  <1>1. JobsInv => TypeOK
    <2>. SUFFICES ASSUME JobsInv PROVE TypeOK
      OBVIOUS
    <2>1. JobTypes /\ PoolTypes /\ RecordTypes /\ Rooms
      BY DEF JobsInv, ManagerInv, Types
    <2>2. step \in [Job -> {"idle", "live", "lease", "disclaim", "refused"}
                           \cup Admission \cup Publication \cup Telling \cup Settled]
      BY <2>1 DEF JobTypes, Steps, Unborn, Finalizing, Telling
    <2>3. \A j \in Job : \E k \in 0 .. 3 : todo[j] \in [1 .. k -> {"art", "hist", "run"}]
      <3>. SUFFICES ASSUME NEW s \in Rounds PROVE \E k \in 0 .. 3 : s \in [1 .. k -> {"art", "hist", "run"}]
        BY <2>1 DEF JobTypes
      <3>1. s \in Seq(Kinds) /\ Len(s) \in 0 .. 3
        <4>1. CASE s = <<>>
          BY <4>1
        <4>2. CASE \E x \in Kinds : s = <<x>>
          BY <4>2
        <4>3. CASE \E x, y \in Kinds : s = <<x, y>>
          BY <4>3
        <4>4. CASE \E x, y, z \in Kinds : s = <<x, y, z>>
          BY <4>4
        <4>5. \/ s = <<>> \/ s = <<"art">> \/ s = <<"hist">> \/ s = <<"run">> \/ s = <<"art", "hist">>
              \/ s = <<"hist", "run">> \/ s = <<"art", "hist", "run">>
          BY DEF Rounds
        <4>6. "art" \in Kinds /\ "hist" \in Kinds /\ "run" \in Kinds
          BY DEF Kinds
        <4>. QED  BY <4>1, <4>2, <4>3, <4>4, <4>5, <4>6
      <3>2. s \in [1 .. Len(s) -> Kinds]
        BY <3>1
      <3>. QED  BY <3>1, <3>2 DEF Kinds
    <2>4. \A i \in 1 .. Len(queue) : state[queue[i]] = "queued"
      BY DEF JobsInv, ManagerInv, Queued
    <2>5. Cardinality(Listed) =< MaxJobs /\ Len(queue) =< MaxQueued /\ Leases =< MaxLeases
      <3>1. Len(queue) \in Nat /\ MaxJobs \in Nat /\ MaxQueued \in Nat
        BY <2>1, SearchJobsConstants DEF PoolTypes
      <3>. QED  BY <2>1, <3>1, Counts DEF Rooms
    <2>6. \A q \in DOMAIN receipt : receipt[q] \in Job \cup {None}
      BY <2>1 DEF RecordTypes
    <2>. QED  BY <2>1, <2>2, <2>3, <2>4, <2>5, <2>6
         DEF TypeOK, JobTypes, PoolTypes, RecordTypes, States, Arts, Hists, Runs, Phases, Owners
  <1>. QED  BY <1>1, JobsInvariant, PTL

\* The history and the report's run never call a search completed before its
\* results are published (CompositeJournal.finalizeCompleted, Reconcile).
THEOREM BarrierHolds == Spec => []PublicationBarrier
  <1>1. JobsInv => PublicationBarrier
    BY DEF JobsInv, JobInv, Barred, Published, PublicationBarrier
  <1>. QED  BY <1>1, JobsInvariant, PTL

\* The three records and the manager's callers agree on completed and canceled,
\* and no record is left active behind a finalization that is over.
THEOREM RecordsInAgreement == Spec => []RecordsAgree
  <1>1. JobsInv => RecordsAgree
    <2>. SUFFICES ASSUME JobsInv, NEW j \in Job
                  PROVE  /\ Cardinality({art[j], hist[j], run[j], verdict[j]} \cap {"completed", "canceled"}) =< 1
                         /\ step[j] \in {"over", "refused"} =>
                              /\ art[j] \in {"queued", "staged"} => <<j, "art">> \in missed
                              /\ hist[j] = "pending" => <<j, "hist">> \in missed
                              /\ run[j] \in ActiveRun => retry[j] # None \/ <<j, "run">> \in missed
      BY DEF RecordsAgree
    <2>1. Agrees(j) /\ InOrder(j) /\ Settling(j)
      BY DEF JobsInv, JobInv
    <2>2. Cardinality({art[j], hist[j], run[j], verdict[j]} \cap {"completed", "canceled"}) =< 1
      <3>. DEFINE S == {art[j], hist[j], run[j], verdict[j]} \cap {"completed", "canceled"}
      <3>1. ~("completed" \in S /\ "canceled" \in S)
        BY <2>1, SearchJobsConstants DEF Agrees, Fits
      <3>2. S = {} \/ S = {"completed"} \/ S = {"canceled"}
        BY <3>1
      <3>3. Cardinality({}) = 0 /\ Cardinality({"completed"}) = 1 /\ Cardinality({"canceled"}) = 1
        BY FS_EmptySet, FS_Singleton
      <3>. HIDE DEF S
      <3>4. Cardinality(S) = 0 \/ Cardinality(S) = 1
        BY <3>2, <3>3
      <3>5. Cardinality(S) =< 1
        BY <3>4
      <3>. QED  BY <3>5 DEF S
    <2>3. ASSUME step[j] \in {"over", "refused"} PROVE Told(j, "art") /\ Told(j, "hist") /\ Told(j, "run")
      <3>1. Left(todo[j]) = {}
        BY <2>1, <2>3, Lefts DEF InOrder
      <3>. QED  BY <2>1, <2>3, <3>1 DEF Settling
    <2>. QED  BY <2>2, <2>3 DEF Told
  <1>. QED  BY <1>1, JobsInvariant, PTL

\* A request identity runs one search, the one its receipt names
\* (CreateIdempotent, AdmitIdempotent).
THEOREM RequestsRunOnce == Spec => []OneSearchPerRequest
  <1>1. JobsInv => OneSearchPerRequest
    BY DEF JobsInv, Receipted, OneSearchPerRequest
  <1>. QED  BY <1>1, JobsInvariant, PTL

\* Leases keep their rows until they are closed, through expiry and Close.
LEMMA PinnedRows == JobsInv => ResultsLiveAsPinned
  BY PinsCount DEF JobsInv, Types, JobInv, RowsKept, ResultsLiveAsPinned

\* A Create call in front of its publication finds the places it reserved.
LEMMA PlacesReserved == JobsInv => ReservationHolds
  <1>. SUFFICES ASSUME JobsInv, NEW j \in Job, step[j] = "publish", ~Closed PROVE ~Unpublishable
    BY DEF ReservationHolds
  <1>1. /\ Cardinality(Listed) + Cardinality(Pending) =< MaxJobs
        /\ Len(queue) + Cardinality(Pending) =< MaxQueued /\ Len(queue) \in Nat
        /\ MaxJobs \in Nat /\ MaxQueued \in Nat
    BY SearchJobsConstants DEF JobsInv, ManagerInv, Rooms, Types, PoolTypes
  <1>2. j \in Pending
    BY DEF Pending, Admission
  <1>3. Cardinality(Pending) # 0
    BY <1>2, RoomSets, FS_EmptySet
  <1>4. /\ Cardinality(Listed) < MaxJobs /\ Len(queue) < MaxQueued
        /\ Cardinality(Listed) \in Nat
    <2>1. Cardinality(Pending) \in Nat /\ Cardinality(Listed) \in Nat
      BY RoomSets
    <2>. QED  BY <1>1, <1>3, <2>1
  <1>. QED  BY <1>1, <1>4 DEF Unpublishable

\* A queued search with a place under the limit has a worker about to look.
LEMMA WakeupsKept == JobsInv => NoLostWakeup
  <1>. SUFFICES ASSUME JobsInv, queue # <<>>, Cardinality(Running) < limit, ~notify, ~Closed
                PROVE  Running = Workers \/ \E w \in Workers : worker[w] = "ready"
    BY DEF NoLostWakeup
  <1>1. queue \in Seq(Job) /\ limit \in Nat /\ worker \in [Workers -> Job \cup {"asleep", "ready", "out"}]
        /\ Awake /\ \A w \in Workers : worker[w] # "out"
    BY SearchJobsConstants DEF JobsInv, Types, PoolTypes, ManagerInv, Shutting
  <1>2. CASE Asleep = {}
    <2>1. \A w \in Workers : worker[w] \in Job \/ worker[w] = "ready"
      BY <1>1, <1>2 DEF Asleep
    <2>. QED  BY <2>1 DEF Running
  <1>3. CASE Asleep # {}
    <2>1. \/ Cardinality(ReadyToLook) >= Len(queue)
          \/ Cardinality(ReadyToLook) + Cardinality(Running) >= limit
      BY <1>1, <1>3 DEF Awake
    <2>2. Len(queue) \in Nat /\ Len(queue) # 0
      BY <1>1
    <2>3. Cardinality(ReadyToLook) \in Nat /\ Cardinality(Running) \in Nat
      BY <1>3, Counted DEF Asleep, JobsInv
    <2>4. Cardinality(ReadyToLook) # 0
      BY <1>1, <2>1, <2>2, <2>3
    <2>5. ReadyToLook # {}
      BY <2>4, FS_EmptySet
    <2>. QED  BY <2>5 DEF ReadyToLook
  <1>. QED  BY <1>2, <1>3

\* When Close has returned, what is active in the artifact rows is accounted for.
LEMMA NothingRuns == JobsInv => CloseIsClean
  <1>. SUFFICES ASSUME JobsInv, phase = "closed", NEW j \in Job
                PROVE  /\ Pending = {} /\ state[j] \notin {"queued", "running"}
                       /\ art[j] \in {"queued", "staged"} =>
                            \/ step[j] = "unpublished" \/ <<j, "art">> \in missed
                            \/ step[j] \notin Settled /\ owner[j] = "caller"
    <2>1. JobsInv /\ phase = "closed" => Pending = {}
      BY DEF JobsInv, ManagerInv, Shutting
    <2>. QED  BY <2>1 DEF CloseIsClean
  <1>1. /\ Pending = {} /\ draining = {} /\ Closed /\ \A w \in Workers : worker[w] \notin Job
        /\ step[j] = "live" => j \in draining
        /\ owner[j] = "close" => step[j] \in Settled
        /\ owner[j] = "worker" /\ step[j] \in Finalizing => \E w \in Workers : worker[w] = j
    BY SearchJobsConstants DEF JobsInv, ManagerInv, Shutting, Held, Closed
  <1>2. step[j] # "live" /\ step[j] \notin Admission
    BY <1>1 DEF Pending
  <1>3. JobInv(j) /\ step[j] \in Steps /\ owner[j] \in Owners \cup {None}
    BY DEF JobsInv, Types, JobTypes
  <1>4. state[j] \notin {"queued", "running"}
    BY <1>2, <1>3 DEF JobInv, Placed
  <1>5. ASSUME step[j] \in Finalizing PROVE step[j] \notin Settled /\ owner[j] = "caller"
    <2>1. step[j] \notin Settled
      BY <1>5 DEF Finalizing, Publication, Settled
    <2>2. owner[j] # "worker" /\ owner[j] # "close"
      BY <1>1, <1>5, <2>1
    <2>3. owner[j] # None
      BY <1>3, <1>5, <2>2, SearchJobsConstants DEF JobInv, Placed, Finalizing
    <2>. QED  BY <1>3, <2>1, <2>2, <2>3 DEF Owners
  <1>6. ASSUME step[j] \in {"disclaim", "refused", "over"}, art[j] \in {"queued", "staged"}
        PROVE  <<j, "art">> \in missed
    <2>1. Left(todo[j]) = {}
      BY <1>3, <1>6, Lefts DEF JobInv, InOrder
    <2>. QED  BY <1>3, <1>6, <2>1 DEF JobInv, Settling, Told
  <1>7. step[j] \in {"idle", "lost"} => art[j] \notin {"queued", "staged"}
    BY <1>3 DEF JobInv, Open, Barred
  <1>. QED  BY <1>1, <1>2, <1>3, <1>4, <1>5, <1>6, <1>7 DEF Steps, Unborn, Admission, Settled

\* What the manager keeps in memory is sound: rows, reservations, wake-ups, Close.
THEOREM ManagerSound == Spec => []ManagerIsSound
  <1>1. JobsInv => ManagerIsSound
    BY PinnedRows, PlacesReserved, WakeupsKept, NothingRuns DEF ManagerIsSound
  <1>. QED  BY <1>1, JobsInvariant, PTL

\* Only one occurrence of a scheduled report is active (ClaimDue).
THEOREM OneOccurrence == Spec => []OneRunAtATime
  <1>1. JobsInv => OneRunAtATime
    <2>. SUFFICES ASSUME JobsInv PROVE OneRunAtATime
      OBVIOUS
    <2>. DEFINE S == {j \in Reports : run[j] \in ActiveRun}
    <2>1. \A j, k \in S : j = k
      BY DEF JobsInv, OneRun
    <2>2. S = {} \/ \E j : S = {j}
      BY <2>1
    <2>. HIDE DEF S
    <2>3. Cardinality(S) = 0 \/ Cardinality(S) = 1
      BY <2>2, FS_EmptySet, FS_Singleton
    <2>4. Cardinality(S) =< 1
      BY <2>3
    <2>. QED  BY <2>4 DEF S, OneRunAtATime
  <1>. QED  BY <1>1, JobsInvariant, PTL

\* An outcome that callers may have read only expires: no late executor, Cancel
\* or Close changes it (finishedLocked, claimTerminalJournalLocked).
THEOREM OutcomesStay == Spec => TerminalStays
  <1>1. JobsInv /\ [Next]_vars =>
          [\A j \in Job : state[j] \in Terminal => state'[j] \in {state[j], "expired", "none"}]_vars
    <2>. SUFFICES ASSUME JobsInv, [Next]_vars, NEW j \in Job, state[j] \in Terminal
                  PROVE  state'[j] \in {state[j], "expired", "none"}
      OBVIOUS
    <2>1. /\ Types /\ (\A k \in Job : JobInv(k)) /\ Held
      BY DEF JobsInv, ManagerInv
    <2>2. CASE Restart
      BY <2>2 DEF Restart
    <2>3. CASE ~Restart
      <3>1. Move(j) /\ step[j] # "live" /\ step[j] \notin Unborn
        BY <2>1, <2>3, Moves DEF JobInv, Placed, Terminal
      <3>. QED  BY <3>1 DEF Move, Terminal, Unborn, Admission
    <2>. QED  BY <2>2, <2>3
  <1>. QED  BY <1>1, JobsInvariant, PTL DEF Spec, TerminalStays
=============================================================================
