---------------------------- MODULE AlertRuns_proofs ----------------------------
(***************************************************************************)
(* What holds of alert runs for every number of alerts, runs, workers and  *)
(* users, every limit and any number of failures, shutdowns and restarts.  *)
(*                                                                         *)
(* An active run is in one place, with the caller that claimed it, in the  *)
(* queue or with a worker (HeldApart, ActiveSomewhere), and what a worker  *)
(* knows of it is true (WorkTrue).                                         *)
(***************************************************************************)
EXTENDS AlertRuns, FiniteSetTheorems, TLAPS

Outcomes == Finals \cup {"none", "active", "gone"}
LastType == [at : Nat, outcome : Finals \cup {"active", "none"}]
CallType == [pc : {"idle", "claim", "push"}, held : 0 .. Capacity,
             runs : Seq(Run), for : Alert \cup {None}]
WorkType == [run : Run \cup {None}, pc : Steps \cup {"idle", "out"},
             says : Finals \cup {None}]

(***************************************************************************)
(* The inductive invariant                                                 *)
(***************************************************************************)
AlertTypes ==
  /\ enabled \subseteq alerts /\ alerts \subseteq Alert
  /\ next \in [Alert -> 1 .. MaxNow + 1] /\ gen \in [Alert -> 1 .. MaxUpsets + 1]

RunTypes ==
  /\ last \in [Alert -> LastType] /\ outcome \in [Run -> Outcomes]
  /\ at \in [Run -> Time] /\ signedBy \in [Run -> 0 .. MaxUpsets + 1]
  /\ \A a \in Alert : last[a].at \in Time

WorldTypes ==
  /\ attached \subseteq Run /\ delivery \subseteq Run /\ received \subseteq Run
  /\ search \in [Run -> SearchVerdicts \cup {"none", "running"}]
  /\ posts \in [Run -> 0 .. 2]
  /\ lost \subseteq Run /\ now \in 0 .. MaxNow /\ upsets \in 0 .. MaxUpsets
  /\ phase \in {"open", "closing", "drained", "closed"} /\ deadline \in BOOLEAN

HandTypes ==
  /\ call \in [Caller -> CallType]
  /\ slots \in 0 .. Capacity
  /\ queue \in Seq(Run)
  /\ work \in [Workers -> WorkType]

\* The runs of an alert are claimed in order, so that the next one is new.
RowsInOrder ==
  \A a \in Alert : \E n \in 0 .. MaxRuns : \A i \in 1 .. MaxRuns :
    outcome[<<a, i>>] # "none" <=> i =< n

OneActive ==
  /\ \A r, s \in Unfinished : r[1] = s[1] => r = s
  /\ \A r \in Unfinished : r[1] \in alerts

\* A run was signed by its alert's secret of then, and each rotation is an upset.
SecretsGrow ==
  /\ \A a \in Alert : gen[a] =< upsets + 1
  /\ \A r \in Run : signedBy[r] =< gen[r[1]]

Untouched(r) == search[r] = "none" /\ r \notin delivery /\ posts[r] = 0

\* What is true of a run of which v is, or may be, recorded.
RowTrue(r, v) ==
  /\ posts[r] > 0 =>
       /\ posts[r] = 1
       /\ r \in delivery \cap attached /\ search[r] = "true"
       /\ v \in {"active", "delivered", "delivery_failed", "interrupted", "gone"}
  /\ v = "delivered" => r \in received /\ search[r] = "true"
  /\ v = "not_triggered" => search[r] = "false"
  /\ v = "delivery_skipped" => gen[r[1]] > signedBy[r] /\ r \notin delivery
  /\ v = "overlap_skipped" => search[r] = "none"

RowsTrue ==
  \A r \in Run : /\ outcome[r] = "none" => Untouched(r)
                 /\ RowTrue(r, outcome[r])

\* The summary l of alert a, when its runs have outcomes o and are scheduled at t.
RowsOf(a, o) == {r \in Run : r[1] = a /\ o[r] \notin {"none", "gone"}}
Latest(a, o, t, l) ==
  /\ RowsOf(a, o) = {} => l.at = 0
  /\ RowsOf(a, o) # {} =>
       \E r \in RowsOf(a, o) : /\ \A s \in RowsOf(a, o) : t[s] =< t[r]
                               /\ l = [at |-> t[r], outcome |-> o[r]]

LastTrue == \A a \in alerts : Latest(a, outcome, at, last[a])

CallsSound ==
  \A c \in Caller :
    /\ call[c].pc = "idle" => call[c] = Idle
    /\ call[c].pc = "claim" => call[c].runs = <<>> /\ call[c].held >= 1
    /\ call[c].pc = "push" => call[c].held = Len(call[c].runs) /\ call[c].held >= 1

Waiting(c) == Range(call[c].runs)
Queued == Range(queue)

\* A run is in one place at most.
HeldApart ==
  /\ \A c \in Caller : IsInjective(call[c].runs) /\ Waiting(c) \cap Queued = {}
  /\ \A c, d \in Caller : c # d => Waiting(c) \cap Waiting(d) = {}
  /\ IsInjective(queue)
  /\ \A w \in Busy : work[w].run \notin Queued
  /\ \A w \in Busy, c \in Caller : work[w].run \notin Waiting(c)
  /\ \A v, w \in Busy : work[v].run = work[w].run => v = w

\* What a worker knows of the run it executes.
WorkTrue(w) ==
  LET r == work[w].run IN
  /\ r \in Run
  /\ outcome[r] # "none"
  /\ work[w].pc # "complete" => outcome[r] = "active"
  /\ work[w].pc = "start" => Untouched(r)
  /\ work[w].pc \in {"attach", "poll"} => r \notin delivery /\ posts[r] = 0
  /\ work[w].pc = "poll" => r \in attached
  /\ work[w].pc \in {"extend", "secret", "authorize"} =>
       r \in attached /\ search[r] = "true" /\ r \notin delivery /\ posts[r] = 0
  /\ work[w].pc \in {"read", "post"} =>
       r \in attached /\ search[r] = "true" /\ r \in delivery /\ posts[r] = 0
  /\ work[w].pc = "complete" =>
       work[w].says \in Finals \ {"overlap_skipped"} /\ RowTrue(r, work[w].says)

Fresh(r) == outcome[r] = "active" /\ Untouched(r)

HeldTrue ==
  /\ \A c \in Caller : \A r \in Waiting(c) : Fresh(r)
  /\ \A r \in Queued : Fresh(r)
  /\ \A w \in Busy : WorkTrue(w)

ActiveSomewhere ==
  \A r \in Unfinished \ lost :
    \/ deadline
    \/ \E c \in Caller : r \in Waiting(c)
    \/ r \in Queued
    \/ \E w \in Busy : work[w].run = r

Balance == slots = Cardinality(HeldSlots) + Len(queue) + Cardinality(Busy)

\* When the queue is closed no caller is under way, and a worker that left saw
\* it empty.
Shutting ==
  /\ phase \in {"drained", "closed"} => \A c \in Caller : call[c] = Idle
  /\ \A w \in Workers : work[w].pc = "idle" => work[w] = Free
  /\ \A w \in Workers : work[w].pc = "out" => queue = <<>> /\ phase \in {"drained", "closed"}
  /\ phase = "closed" => \A w \in Workers : work[w].pc = "out"

AlertsInv ==
  /\ AlertTypes /\ RunTypes /\ WorldTypes /\ HandTypes
  /\ RowsInOrder /\ OneActive /\ SecretsGrow /\ RowsTrue /\ LastTrue
  /\ CallsSound /\ HeldApart /\ HeldTrue /\ ActiveSomewhere /\ Balance /\ Shutting

-----------------------------------------------------------------------------
(* Lemmas on sequences, times and tables.                                   *)

\* What Append does to a sequence without repetition.
LEMMA AppendOnce ==
  ASSUME NEW S, NEW s \in Seq(S), NEW b \in S
  PROVE  /\ Append(s, b) \in Seq(S) /\ Len(Append(s, b)) = Len(s) + 1
         /\ Range(Append(s, b)) = Range(s) \cup {b}
         /\ IsInjective(s) /\ b \notin Range(s) => IsInjective(Append(s, b))
  <1>1. /\ Append(s, b) \in Seq(S) /\ Len(Append(s, b)) = Len(s) + 1
        /\ \A i \in 1 .. Len(s) : Append(s, b)[i] = s[i]
        /\ Append(s, b)[Len(s) + 1] = b /\ Len(s) \in Nat
    OBVIOUS
  <1>2. DOMAIN s = 1 .. Len(s) /\ DOMAIN Append(s, b) = 1 .. Len(s) + 1
    BY <1>1
  <1>3. /\ \A i \in 1 .. Len(s) + 1 : i \in 1 .. Len(s) \/ i = Len(s) + 1
        /\ 1 .. Len(s) \subseteq 1 .. Len(s) + 1 /\ Len(s) + 1 \in 1 .. Len(s) + 1
    BY <1>1
  <1>4. Range(Append(s, b)) = Range(s) \cup {b}
    BY <1>1, <1>2, <1>3, Zenon DEF Range
  <1>5. IsInjective(s) /\ b \notin Range(s) => IsInjective(Append(s, b))
    BY <1>1, <1>2, <1>3 DEF IsInjective, Range
  <1>. QED  BY <1>1, <1>4, <1>5

\* What Tail leaves of a sequence without repetition.
LEMMA TailOnce ==
  ASSUME NEW S, NEW s \in Seq(S), s # <<>>
  PROVE  /\ Tail(s) \in Seq(S) /\ Head(s) \in S /\ Head(s) \in Range(s)
         /\ Len(Tail(s)) = Len(s) - 1 /\ Len(s) \in Nat \ {0}
         /\ Range(s) = Range(Tail(s)) \cup {Head(s)}
         /\ IsInjective(s) => IsInjective(Tail(s)) /\ Head(s) \notin Range(Tail(s))
  <1>1. /\ Head(s) \in S /\ Tail(s) \in Seq(S) /\ Len(Tail(s)) = Len(s) - 1
        /\ \A i \in 1 .. Len(s) - 1 : Tail(s)[i] = s[i + 1]
        /\ Len(s) \in Nat \ {0} /\ Head(s) = s[1]
    OBVIOUS
  <1>2. DOMAIN s = 1 .. Len(s) /\ DOMAIN Tail(s) = 1 .. Len(s) - 1
    BY <1>1
  <1>3. /\ 1 \in 1 .. Len(s)
        /\ \A i \in 1 .. Len(s) - 1 : i + 1 \in 1 .. Len(s) /\ i + 1 # 1
        /\ \A i, j \in 1 .. Len(s) - 1 : i + 1 = j + 1 => i = j
    BY <1>1
  <1>4. \A i \in 1 .. Len(s) : i = 1 \/ \E j \in 1 .. Len(s) - 1 : i = j + 1
    <2>. TAKE i \in 1 .. Len(s)
    <2>1. i # 1 => i - 1 \in 1 .. Len(s) - 1 /\ i = (i - 1) + 1
      BY <1>1
    <2>. QED  BY <2>1
  <1>5. Head(s) \in Range(s) /\ \A x \in Range(Tail(s)) : x \in Range(s)
    BY <1>1, <1>2, <1>3 DEF Range
  <1>6. ASSUME NEW x \in Range(s), x # Head(s) PROVE x \in Range(Tail(s))
    <2>1. PICK i \in 1 .. Len(s) : x = s[i]
      BY <1>2 DEF Range
    <2>2. PICK j \in 1 .. Len(s) - 1 : i = j + 1
      BY <1>1, <1>4, <1>6, <2>1
    <2>3. x = Tail(s)[j]
      BY <1>1, <2>1, <2>2
    <2>. QED  BY <1>2, <2>3 DEF Range
  <1>7. Range(s) = Range(Tail(s)) \cup {Head(s)}
    BY <1>5, <1>6
  <1>8. IsInjective(s) => IsInjective(Tail(s)) /\ Head(s) \notin Range(Tail(s))
    BY <1>1, <1>2, <1>3 DEF IsInjective, Range
  <1>. QED  BY <1>1, <1>5, <1>7, <1>8

\* The elements of a sequence, and the empty one.
LEMMA RangeOf ==
  /\ \A S : \A s \in Seq(S) : Range(s) \subseteq S /\ (Range(s) = {} <=> s = <<>>)
  /\ Range(<<>>) = {} /\ IsInjective(<<>>) /\ Len(<<>>) = 0 /\ \A S : <<>> \in Seq(S)
  <1>1. ASSUME NEW S, NEW s \in Seq(S)
        PROVE  Range(s) \subseteq S /\ (Range(s) = {} <=> s = <<>>)
    <2>1. DOMAIN s = 1 .. Len(s) /\ Len(s) \in Nat /\ \A i \in 1 .. Len(s) : s[i] \in S
      OBVIOUS
    <2>2. Range(s) \subseteq S
      BY <2>1 DEF Range
    <2>3. s = <<>> => Range(s) = {}
      BY DEF Range
    <2>4. s # <<>> => Range(s) # {}
      BY TailOnce
    <2>. QED  BY <2>2, <2>3, <2>4
  <1>2. DOMAIN <<>> = {} /\ Len(<<>>) = 0 /\ \A S : <<>> \in Seq(S)
    OBVIOUS
  <1>3. Range(<<>>) = {} /\ IsInjective(<<>>)
    BY <1>2, Zenon DEF Range, IsInjective
  <1>. QED  BY <1>1, <1>2, <1>3

\* SetToSeq lists a finite set without repetition.
LEMMA Listed ==
  ASSUME NEW S, IsFiniteSet(S)
  PROVE  /\ SetToSeq(S) \in Seq(S) /\ Len(SetToSeq(S)) = Cardinality(S)
         /\ Range(SetToSeq(S)) = S /\ IsInjective(SetToSeq(S))
  <1>. DEFINE n == Cardinality(S)
              s == SetToSeq(S)
  <1>1. n \in Nat
    BY FS_CardinalityType
  <1>2. PICK f : f \in [1 .. n -> S] /\ IsInjective(f)
    BY FS_CardinalityType DEF ExistsBijection, Bijection, Injection
  <1>3. s \in [1 .. n -> S] /\ IsInjective(s)
    BY <1>2 DEF SetToSeq
  <1>. HIDE DEF s
  <1>4. s \in Injection(1 .. n, S) /\ IsFiniteSet(1 .. n) /\ Cardinality(1 .. n) = n
    BY <1>1, <1>3, FS_Interval DEF Injection
  <1>5. s \in Surjection(1 .. n, S)
    BY <1>4, FS_Injection, Zenon
  <1>6. Range(s) = S
    BY <1>3, <1>5 DEF Range, Surjection
  <1>7. s \in Seq(S) /\ Len(s) = n
    BY <1>1, <1>3
  <1>. QED  BY <1>3, <1>6, <1>7 DEF s

\* A call's run is scheduled at a time of its occurrence.
LEMMA Times ==
  ASSUME now \in 0 .. MaxNow, NEW i \in 0 .. MaxRuns
  PROVE  Occurrence(now) + i \in Time
  <1>. DEFINE k == MaxRuns + 1
  <1>1. MaxNow \in Nat /\ k \in Nat /\ now \in Nat /\ MaxNow - now \in Nat /\ i \in Nat /\ i < k
    BY AlertRunsConstants
  <1>. HIDE DEF k
  <1>2. /\ (MaxNow + 1) * k = (MaxNow - now) * k + now * k + k
        /\ (MaxNow - now) * k >= 0 /\ now * k \in Nat /\ (MaxNow + 1) * k \in Nat
    BY <1>1
  <1>3. now * k + i \in Nat /\ now * k + i =< (MaxNow + 1) * k
    <2>. DEFINE p == now * k
                q == (MaxNow - now) * k
                t == (MaxNow + 1) * k
    <2>1. p \in Nat /\ q >= 0 /\ q \in Int /\ t = q + p + k /\ t \in Nat
      BY <1>1, <1>2
    <2>. HIDE DEF p, q, t
    <2>2. p + i \in Nat /\ p + i =< t
      BY <1>1, <2>1
    <2>. QED  BY <2>2 DEF p, t
  <1>. QED  BY <1>3 DEF Time, Occurrence, k

\* Alerts and the numbers of their runs.
LEMMA Runs ==
  /\ \A r \in Run : r[1] \in Alert /\ r[2] \in 1 .. MaxRuns /\ r = <<r[1], r[2]>>
  /\ \A a \in Alert : \A i \in 1 .. MaxRuns : <<a, i>> \in Run
  /\ MaxRuns \in Nat /\ MaxNow \in Nat /\ MaxUpsets \in Nat
  /\ Capacity \in Nat \ {0} /\ MaxHistory \in Nat \ {0}
  BY AlertRunsConstants DEF Run

\* The next run of an alert is the one behind those that were claimed.
LEMMA NextRun ==
  ASSUME RowsInOrder, NEW a \in Alert
  PROVE  \E n \in 0 .. MaxRuns :
           /\ NewRun(a) = <<a, n + 1>>
           /\ \A i \in 1 .. MaxRuns : outcome[<<a, i>>] # "none" <=> i =< n
  <1>1. PICK n \in 0 .. MaxRuns : \A i \in 1 .. MaxRuns : outcome[<<a, i>>] # "none" <=> i =< n
    BY DEF RowsInOrder
  <1>. DEFINE f == [i \in 1 .. n |-> <<a, i>>]
  <1>2. Claimed(a) = {<<a, i>> : i \in 1 .. n}
    <2>1. 1 .. n \subseteq 1 .. MaxRuns /\ \A i \in 1 .. MaxRuns : i =< n <=> i \in 1 .. n
      BY Runs
    <2>2. ASSUME NEW r \in Claimed(a) PROVE r \in {<<a, i>> : i \in 1 .. n}
      BY <1>1, <2>1, Runs DEF Claimed
    <2>3. ASSUME NEW i \in 1 .. n PROVE <<a, i>> \in Claimed(a)
      BY <1>1, <2>1, Runs DEF Claimed
    <2>. QED  BY <2>2, <2>3
  <1>3. f \in Bijection(1 .. n, Claimed(a))
    <2>1. f \in [1 .. n -> Claimed(a)] /\ IsInjective(f)
      BY <1>2 DEF IsInjective
    <2>2. \A r \in Claimed(a) : \E i \in 1 .. n : f[i] = r
      BY <1>2
    <2>. QED  BY <2>1, <2>2 DEF Bijection, Injection, Surjection
  <1>4. Cardinality(Claimed(a)) = n
    BY <1>3, FS_CountingElements DEF ExistsBijection
  <1>. QED  BY <1>1, <1>4 DEF NewRun

\* ... and was not claimed before; claimed, it leaves the runs in order.
LEMMA NewIsNew ==
  ASSUME RowsInOrder, NEW a \in Alert, NewRun(a) \in Run
  PROVE  /\ NewRun(a)[1] = a /\ outcome[NewRun(a)] = "none"
         /\ \A o : (\A i \in 1 .. MaxRuns : o[<<a, i>>] # "none" <=>
                       outcome[<<a, i>>] # "none" \/ <<a, i>> = NewRun(a))
              => \E n \in 0 .. MaxRuns : \A i \in 1 .. MaxRuns : o[<<a, i>>] # "none" <=> i =< n
  <1>1. PICK n \in 0 .. MaxRuns :
           /\ NewRun(a) = <<a, n + 1>>
           /\ \A i \in 1 .. MaxRuns : outcome[<<a, i>>] # "none" <=> i =< n
    BY NextRun
  <1>2. n + 1 \in 1 .. MaxRuns
    BY <1>1, Runs
  <1>3. NewRun(a)[1] = a /\ outcome[NewRun(a)] = "none"
    BY <1>1, <1>2
  <1>4. ASSUME NEW o, \A i \in 1 .. MaxRuns : o[<<a, i>>] # "none" <=>
                         outcome[<<a, i>>] # "none" \/ <<a, i>> = NewRun(a)
        PROVE  \E m \in 0 .. MaxRuns : \A i \in 1 .. MaxRuns : o[<<a, i>>] # "none" <=> i =< m
    <2>1. \A i \in 1 .. MaxRuns : (i =< n \/ i = n + 1) <=> i =< n + 1
      BY <1>1, Runs
    <2>2. n + 1 \in 0 .. MaxRuns
      BY <1>2, Runs
    <2>3. \A i \in 1 .. MaxRuns : <<a, i>> = NewRun(a) <=> i = n + 1
      BY <1>1
    <2>4. \A i \in 1 .. MaxRuns : o[<<a, i>>] # "none" <=> i =< n + 1
      BY <1>1, <1>4, <2>1, <2>3
    <2>. QED  BY <2>2, <2>4
  <1>. QED  BY <1>3, <1>4

-----------------------------------------------------------------------------
(* Lemmas on rows.                                                          *)

\* Rows w are rows v of which some that ended are gone, each older than one that
\* ended and stayed or went as well.
Trimmed(w, v, t) ==
  \A r \in Run : w[r] # v[r] =>
    /\ w[r] = "gone" /\ v[r] \in Finals
    /\ \E s \in Run : s[1] = r[1] /\ v[s] \in Finals /\ t[s] > t[r]

\* What remains after a completion's pruning: a row that goes has a later one, and other
\* alerts' rows stay.
LEMMA WrittenTrims ==
  ASSUME NEW as \in SUBSET Alert, NEW v \in [Run -> Outcomes], NEW t
  PROVE  /\ Written(as, v, t) \in [Run -> Outcomes]
         /\ Trimmed(Written(as, v, t), v, t)
         /\ \A r \in Run : r[1] \notin as => Written(as, v, t)[r] = v[r]
  <1>. DEFINE gone == UNION {Pruned(a, v, t) : a \in as}
              w == Written(as, v, t)
  <1>1. w = [r \in Run |-> IF r \in gone THEN "gone" ELSE v[r]]
    BY DEF Written
  <1>2. w \in [Run -> Outcomes]
    BY <1>1 DEF Outcomes
  <1>3. ASSUME NEW r \in gone
        PROVE  /\ r[1] \in as /\ v[r] \in Finals
               /\ \E s \in Run : s[1] = r[1] /\ v[s] \in Finals /\ t[s] > t[r]
    <2>1. PICK a \in as : r \in Pruned(a, v, t)
      OBVIOUS
    <2>. DEFINE kept == {x \in Run : x[1] = a /\ v[x] \in Finals}
                newer == {x \in kept : t[x] > t[r]}
    <2>2. r \in kept /\ Cardinality(newer) >= MaxHistory
      BY <2>1 DEF Pruned
    <2>3. newer # {}
      <3>1. MaxHistory \in Nat \ {0} /\ Cardinality({}) = 0
        BY FS_EmptySet, Runs
      <3>. HIDE DEF newer
      <3>. QED  BY <2>2, <3>1
    <2>4. PICK s \in newer : TRUE
      BY <2>3
    <2>. QED  BY <2>2, <2>4
  <1>. HIDE DEF gone, w
  <1>4. \A r \in Run : w[r] # v[r] => r \in gone /\ w[r] = "gone"
    BY <1>1
  <1>5. Trimmed(w, v, t)
    BY <1>3, <1>4 DEF Trimmed
  <1>6. \A r \in Run : r[1] \notin as => w[r] = v[r]
    BY <1>3, <1>4
  <1>. QED  BY <1>2, <1>5, <1>6 DEF w

\* The latest row is never among those that go.
LEMMA LatestTrimmed ==
  ASSUME NEW a \in Alert, NEW v, NEW w, NEW t \in [Run -> Nat], NEW l,
         Trimmed(w, v, t), Latest(a, v, t, l)
  PROVE  Latest(a, w, t, l)
  <1>1. \A r \in Run : w[r] \notin {"none", "gone"} => w[r] = v[r]
    BY DEF Trimmed
  <1>2. RowsOf(a, w) \subseteq RowsOf(a, v)
    BY <1>1 DEF RowsOf
  <1>3. CASE RowsOf(a, v) = {}
    BY <1>2, <1>3 DEF Latest
  <1>4. CASE RowsOf(a, v) # {}
    <2>1. PICK r \in RowsOf(a, v) : /\ \A s \in RowsOf(a, v) : t[s] =< t[r]
                                    /\ l = [at |-> t[r], outcome |-> v[r]]
      BY <1>4 DEF Latest
    <2>2. r \in Run /\ r[1] = a
      BY DEF RowsOf
    <2>3. w[r] = v[r]
      <3>1. SUFFICES ASSUME w[r] # v[r] PROVE FALSE
        OBVIOUS
      <3>2. PICK s \in Run : s[1] = a /\ v[s] \in Finals /\ t[s] > t[r]
        BY <2>2, <3>1 DEF Trimmed
      <3>3. s \in RowsOf(a, v)
        BY <3>2 DEF RowsOf, Finals
      <3>. QED  BY <2>1, <2>2, <3>2, <3>3
    <2>4. r \in RowsOf(a, w)
      BY <2>3 DEF RowsOf
    <2>. QED  BY <1>2, <2>1, <2>3, <2>4 DEF Latest
  <1>. QED  BY <1>3, <1>4

\* The rows of other alerts do not count.
LEMMA LatestSame ==
  ASSUME NEW a, NEW v, NEW w, NEW t, NEW u, NEW l,
         \A r \in Run : r[1] = a => v[r] = w[r] /\ t[r] = u[r], Latest(a, v, t, l)
  PROVE  Latest(a, w, u, l)
  <1>1. RowsOf(a, v) = RowsOf(a, w)
    BY DEF RowsOf
  <1>2. \A r \in RowsOf(a, v) : r \in Run /\ r[1] = a
    BY DEF RowsOf
  <1>. QED  BY <1>1, <1>2, Zenon DEF Latest

\* One row is new, or gets another outcome, and the alert is summarized.
LEMMA LatestSummarized ==
  ASSUME NEW a, NEW v, NEW w, NEW t \in [Run -> Nat], NEW u \in [Run -> Nat],
         NEW l \in LastType, NEW r \in Run, r[1] = a, w[r] \notin {"none", "gone"},
         v[r] = "none" \/ u[r] = t[r],
         v[r] # "gone",
         \A s \in Run : s[1] = a /\ s # r => v[s] = w[s] /\ t[s] = u[s],
         Latest(a, v, t, l)
  PROVE  Latest(a, w, u, Summarized(l, r, u[r], w[r]))
  <1>1. r \in RowsOf(a, w) /\ \A s \in RowsOf(a, w) : s = r \/ (s \in RowsOf(a, v) /\ t[s] = u[s])
    BY DEF RowsOf
  <1>2. \A s \in RowsOf(a, w) : s \in Run /\ u[s] \in Nat
    BY DEF RowsOf
  <1>3. l.at \in Nat /\ u[r] \in Nat
    BY DEF LastType
  <1>4. \A s \in RowsOf(a, v) : t[s] =< l.at
    <2>1. CASE RowsOf(a, v) = {}
      BY <2>1
    <2>2. CASE RowsOf(a, v) # {}
      <3>1. PICK x \in RowsOf(a, v) : /\ \A s \in RowsOf(a, v) : t[s] =< t[x]
                                      /\ l = [at |-> t[x], outcome |-> v[x]]
        BY <2>2 DEF Latest
      <3>2. l.at = t[x]
        BY <3>1
      <3>. QED  BY <3>1, <3>2
    <2>. QED  BY <2>1, <2>2
  <1>5. CASE l.at =< u[r]
    <2>1. Summarized(l, r, u[r], w[r]) = [at |-> u[r], outcome |-> w[r]]
      BY <1>5 DEF Summarized
    <2>2. \A s \in RowsOf(a, w) : u[s] =< u[r]
      <3>. TAKE s \in RowsOf(a, w)
      <3>1. CASE s = r
        BY <1>3, <3>1
      <3>2. CASE s \in RowsOf(a, v) /\ t[s] = u[s]
        <4>1. u[s] \in Nat /\ u[s] =< l.at
          BY <1>2, <1>4, <3>2
        <4>. QED  BY <1>3, <1>5, <4>1
      <3>. QED  BY <1>1, <3>1, <3>2
    <2>. QED  BY <1>1, <2>1, <2>2, Zenon DEF Latest
  <1>6. CASE ~ (l.at =< u[r])
    <2>1. Summarized(l, r, u[r], w[r]) = l /\ u[r] < l.at
      BY <1>3, <1>6 DEF Summarized
    <2>2. RowsOf(a, v) # {}
      BY <1>3, <2>1 DEF Latest
    <2>3. PICK x \in RowsOf(a, v) : /\ \A s \in RowsOf(a, v) : t[s] =< t[x]
                                    /\ l = [at |-> t[x], outcome |-> v[x]]
      BY <2>2 DEF Latest
    <2>4. x \in Run /\ x[1] = a /\ v[x] # "none" /\ l.at = t[x]
      BY <2>3 DEF RowsOf
    <2>5. x # r
      BY <1>3, <2>1, <2>4
    <2>6. v[x] = w[x] /\ t[x] = u[x] /\ x \in RowsOf(a, w)
      BY <2>3, <2>4, <2>5 DEF RowsOf
    <2>7. \A s \in RowsOf(a, w) : u[s] =< u[x]
      BY <1>1, <1>3, <2>1, <2>3, <2>4, <2>6
    <2>8. l = [at |-> u[x], outcome |-> w[x]]
      BY <2>3, <2>6
    <2>. QED  BY <2>1, <2>6, <2>7, <2>8, Zenon DEF Latest
  <1>. QED  BY <1>5, <1>6

\* A run that a step leaves as it is, but that may end if it is not active.
Kept(r) ==
  /\ outcome[r] = "active" => outcome'[r] = "active"
  /\ outcome[r] # "none" => outcome'[r] # "none" /\ signedBy'[r] = signedBy[r]
  /\ gen[r[1]] =< gen'[r[1]]
  /\ search'[r] = search[r] /\ posts'[r] = posts[r]
  /\ r \in delivery' <=> r \in delivery
  /\ r \in attached' <=> r \in attached
  /\ r \in received' <=> r \in received

\* What may be recorded of a run stays true while the run is kept.
LEMMA KeptIsTrue ==
  ASSUME AlertTypes, AlertTypes', RunTypes, NEW r \in Run, Kept(r)
  PROVE  /\ Fresh(r) => Fresh(r)'
         /\ \A v : outcome[r] # "none" /\ RowTrue(r, v) => RowTrue(r, v)'
  <1>1. r[1] \in Alert /\ gen[r[1]] \in Nat /\ gen'[r[1]] \in Nat /\ signedBy[r] \in Nat
    BY Runs DEF AlertTypes, RunTypes
  <1>2. Fresh(r) => Fresh(r)'
    BY DEF Kept, Fresh, Untouched
  <1>3. ASSUME NEW v, outcome[r] # "none", RowTrue(r, v) PROVE RowTrue(r, v)'
    BY <1>1, <1>3 DEF Kept, RowTrue
  <1>. QED  BY <1>2, <1>3

\* A worker that does not move knows what it knew of a run that was kept.
LEMMA KeptWork ==
  ASSUME AlertTypes, AlertTypes', RunTypes, NEW w \in Busy, WorkTrue(w),
         Kept(work[w].run), work'[w] = work[w]
  PROVE  WorkTrue(w)'
  <1>. DEFINE r == work[w].run
  <1>1. r \in Run /\ outcome[r] # "none"
    BY DEF WorkTrue
  <1>2. work'[w].run = r /\ outcome'[r] # "none"
    BY <1>1 DEF Kept
  <1>3. /\ work'[w].pc # "complete" => outcome'[r] = "active"
        /\ work'[w].pc = "start" => Untouched(r)'
    BY <1>1 DEF Kept, WorkTrue, Untouched
  <1>4. /\ work'[w].pc \in {"attach", "poll"} => r \notin delivery' /\ posts'[r] = 0
        /\ work'[w].pc = "poll" => r \in attached'
        /\ work'[w].pc \in {"extend", "secret", "authorize"} =>
             r \in attached' /\ search'[r] = "true" /\ r \notin delivery' /\ posts'[r] = 0
        /\ work'[w].pc \in {"read", "post"} =>
             r \in attached' /\ search'[r] = "true" /\ r \in delivery' /\ posts'[r] = 0
    BY <1>1 DEF Kept, WorkTrue
  <1>5. work'[w].pc = "complete" =>
          work'[w].says \in Finals \ {"overlap_skipped"} /\ RowTrue(r, work[w].says)'
    <2>1. work[w].pc = "complete" => RowTrue(r, work[w].says)
      BY DEF WorkTrue
    <2>. QED  BY <1>1, <2>1, KeptIsTrue, Zenon DEF WorkTrue
  <1>. QED  BY <1>1, <1>2, <1>3, <1>4, <1>5, Zenon DEF WorkTrue

\* Rows that stay, or are gone after they ended.
EndsOrStays(r) ==
  outcome'[r] = outcome[r] \/ (outcome[r] \in Finals /\ outcome'[r] = "gone")

\* Claimed runs end, stay, or are gone after they ended; an active one not with
\* its alert.
Advance ==
  \A r \in Run : outcome[r] # "none" =>
    \/ EndsOrStays(r)
    \/ outcome[r] = "active" /\ outcome'[r] \in Finals \cup {"gone"} /\ r[1] \in alerts'

\* A claim adds a row for each alert, and takes from its history.
LEMMA ClaimRows ==
  ASSUME AlertTypes, RunTypes, RowsInOrder, OneActive, SecretsGrow, RowsTrue, LastTrue,
         NEW as \in SUBSET Alert, NEW t \in Time, Claim(as, t),
         UNCHANGED <<alerts, gen, attached, delivery, outside>>
  PROVE  /\ RunTypes' /\ RowsInOrder' /\ OneActive' /\ RowsTrue' /\ LastTrue'
         /\ \A r \in Run : signedBy'[r] =< gen[r[1]]
         /\ \A a \in as :
              NewRun(a) \in Run /\ NewRun(a)[1] = a /\ outcome[NewRun(a)] = "none"
         /\ \A r \in {NewRun(a) : a \in as} :
              IF Active(r[1]) = {} THEN Fresh(r)' ELSE outcome'[r] # "active"
         /\ \A r \in Run \ {NewRun(a) : a \in as} : EndsOrStays(r) /\ signedBy'[r] = signedBy[r]
  <1>. DEFINE new == {NewRun(a) : a \in as}
              over == {a \in as : Active(a) # {}}
              v == [r \in Run |-> IF r \in new THEN ClaimVerdict(r[1]) ELSE outcome[r]]
              u == [r \in Run |-> IF r \in new THEN t ELSE at[r]]
  <1>1. /\ as \subseteq alerts /\ new \subseteq Run
        /\ at' = u /\ outcome' = Written(over, v, u)
        /\ signedBy' = [r \in Run |-> IF r \in new THEN gen[r[1]] ELSE signedBy[r]]
        /\ last' = [a \in Alert |-> IF a \in as THEN Summarized(last[a], NewRun(a), t, ClaimVerdict(a))
                                                ELSE last[a]]
    BY Zenon DEF Claim
  <1>2. \A a \in as : NewRun(a) \in Run /\ NewRun(a)[1] = a /\ outcome[NewRun(a)] = "none"
    BY <1>1, NewIsNew
  <1>3. \A a \in Alert : ClaimVerdict(a) \in {"active", "overlap_skipped"}
    BY DEF ClaimVerdict
  <1>4. v \in [Run -> Outcomes] /\ u \in [Run -> Time] /\ over \in SUBSET Alert
    <2>1. \A r \in Run : ClaimVerdict(r[1]) \in Outcomes
      BY <1>3, Runs DEF Outcomes, Finals
    <2>2. \A r \in Run : outcome[r] \in Outcomes /\ at[r] \in Time
      BY DEF RunTypes
    <2>3. v \in [Run -> Outcomes] /\ u \in [Run -> Time]
      <3>. HIDE DEF new
      <3>. QED  BY <2>1, <2>2, Zenon
    <2>. QED  BY <2>3, Zenon
  <1>5. /\ outcome' \in [Run -> Outcomes] /\ Trimmed(outcome', v, u)
        /\ \A r \in Run : r[1] \notin over => outcome'[r] = v[r]
    <2>. HIDE DEF v, u, over
    <2>. QED  BY <1>1, <1>4, WrittenTrims
  <1>6. \A r \in new : r \in Run /\ r[1] \in as /\ r = NewRun(r[1]) /\ outcome[r] = "none"
    BY <1>2
  <1>. HIDE DEF new, over, v, u
  <1>7. /\ \A r \in Run : r \in new => v[r] = ClaimVerdict(r[1]) /\ u[r] = t
        /\ \A r \in Run : r \notin new => v[r] = outcome[r] /\ u[r] = at[r]
        /\ \A a \in as : NewRun(a) \in new
        /\ \A a \in as : a \in over <=> Active(a) # {}
    BY DEF new, over, v, u
  <1>8. \A r \in Run : r \notin new => EndsOrStays(r) /\ signedBy'[r] = signedBy[r]
    BY <1>1, <1>5, <1>7 DEF Trimmed, EndsOrStays
  <1>9. \A r \in new : /\ outcome'[r] \in {"active", "overlap_skipped", "gone"}
                       /\ outcome'[r] = "active" <=> Active(r[1]) = {}
    <2>. TAKE r \in new
    <2>1. CASE Active(r[1]) = {}
      <3>1. r[1] \notin over /\ v[r] = "active"
        BY <1>6, <1>7, <2>1 DEF ClaimVerdict
      <3>. QED  BY <1>5, <1>6, <2>1, <3>1
    <2>2. CASE Active(r[1]) # {}
      <3>1. v[r] = "overlap_skipped"
        BY <1>6, <1>7, <2>2 DEF ClaimVerdict
      <3>. QED  BY <1>5, <1>6, <2>2, <3>1 DEF Trimmed
    <2>. QED  BY <2>1, <2>2
  <1>10. \A r \in new : IF Active(r[1]) = {} THEN Fresh(r)' ELSE outcome'[r] # "active"
    <2>. TAKE r \in new
    <2>1. Untouched(r)'
      BY <1>6 DEF RowsTrue, Untouched, outside
    <2>. QED  BY <1>9, <2>1 DEF Fresh
  <1>11. RunTypes'
    <2>1. signedBy' \in [Run -> 0 .. MaxUpsets + 1]
      BY <1>1, Runs DEF RunTypes, AlertTypes
    <2>2. \A a \in Alert : last'[a] \in LastType /\ last'[a].at \in Time
      <3>. TAKE a \in Alert
      <3>1. t \in Nat /\ last[a] \in LastType /\ last[a].at \in Time
        BY DEF RunTypes, Time
      <3>2. [at |-> t, outcome |-> ClaimVerdict(a)] \in LastType
        BY <1>3, <3>1 DEF LastType, Finals
      <3>3. \A l \in LastType : \A r : l.at \in Time =>
              /\ Summarized(l, r, t, ClaimVerdict(a)) \in LastType
              /\ Summarized(l, r, t, ClaimVerdict(a)).at \in Time
        BY <3>2 DEF Summarized
      <3>4. last'[a] = last[a] \/ last'[a] = Summarized(last[a], NewRun(a), t, ClaimVerdict(a))
        BY <1>1
      <3>. QED  BY <3>1, <3>3, <3>4
    <2>3. last' \in [Alert -> LastType]
      BY <1>1, <2>2
    <2>. QED  BY <1>1, <1>4, <1>5, <2>1, <2>2, <2>3 DEF RunTypes
  <1>12. RowsInOrder'
    <2>. SUFFICES ASSUME NEW a \in Alert
                  PROVE  \E n \in 0 .. MaxRuns : \A i \in 1 .. MaxRuns :
                           outcome'[<<a, i>>] # "none" <=> i =< n
      BY DEF RowsInOrder
    <2>1. \A r \in Run : outcome'[r] # "none" <=> outcome[r] # "none" \/ r \in new
      BY <1>8, <1>9 DEF EndsOrStays, Finals
    <2>2. CASE a \in as
      <3>1. \A i \in 1 .. MaxRuns : <<a, i>> \in new <=> <<a, i>> = NewRun(a)
        BY <1>6, <1>7, <2>2
      <3>2. \A i \in 1 .. MaxRuns : outcome'[<<a, i>>] # "none" <=>
                       outcome[<<a, i>>] # "none" \/ <<a, i>> = NewRun(a)
        BY <2>1, <3>1, Runs
      <3>. QED  BY <1>2, <2>2, <3>2, NewIsNew
    <2>3. CASE a \notin as
      <3>1. \A i \in 1 .. MaxRuns : outcome'[<<a, i>>] # "none" <=> outcome[<<a, i>>] # "none"
        BY <1>6, <2>1, <2>3, Runs
      <3>. QED  BY <3>1 DEF RowsInOrder
    <2>. QED  BY <2>2, <2>3
  <1>13. OneActive'
    <2>1. \A r \in Run : outcome'[r] = "active" =>
             \/ r \notin new /\ outcome[r] = "active"
             \/ r \in new /\ Active(r[1]) = {}
      BY <1>8, <1>9 DEF EndsOrStays
    <2>2. \A r \in Run : outcome[r] = "active" => Active(r[1]) # {}
      BY DEF Active
    <2>3. \A r, s \in new : r[1] = s[1] => r = s
      BY <1>6
    <2>. QED  BY <1>1, <1>6, <2>1, <2>2, <2>3 DEF OneActive, Unfinished
  <1>14. RowsTrue'
    <2>. SUFFICES ASSUME NEW r \in Run
                  PROVE  (outcome'[r] = "none" => Untouched(r)') /\ RowTrue(r, outcome[r])'
      BY DEF RowsTrue
    <2>1. (outcome[r] = "none" => Untouched(r)) /\ RowTrue(r, outcome[r]) /\ posts[r] \in Nat \cup {posts[r]}
      BY DEF RowsTrue
    <2>2. CASE r \in new
      <3>1. Untouched(r) /\ outcome'[r] \in {"active", "overlap_skipped", "gone"}
        BY <1>6, <1>9, <2>1, <2>2
      <3>. QED  BY <3>1 DEF Untouched, RowTrue, outside
    <2>3. CASE r \notin new
      BY <1>8, <2>1, <2>3 DEF EndsOrStays, Untouched, RowTrue, outside, Finals
    <2>. QED  BY <2>2, <2>3
  <1>15. LastTrue'
    <2>. SUFFICES ASSUME NEW a \in alerts PROVE Latest(a, outcome', at', last'[a])
      BY DEF LastTrue
    <2>1. a \in Alert /\ Latest(a, outcome, at, last[a]) /\ at \in [Run -> Nat] /\ u \in [Run -> Nat]
      BY <1>4 DEF AlertTypes, RunTypes, LastTrue, Time
    <2>2. Latest(a, v, u, last'[a])
      <3>1. CASE a \in as
        <4>. DEFINE r == NewRun(a)
        <4>1. r \in Run /\ r[1] = a /\ outcome[r] = "none" /\ v[r] = ClaimVerdict(a) /\ u[r] = t
          BY <1>2, <1>7, <3>1
        <4>2. \A s \in Run : s[1] = a /\ s # r => outcome[s] = v[s] /\ at[s] = u[s]
          BY <1>6, <1>7
        <4>3. v[r] \notin {"none", "gone"}
          BY <1>3, <2>1, <4>1
        <4>4. last[a] \in LastType /\ last'[a] = Summarized(last[a], r, u[r], v[r])
          BY <1>1, <2>1, <3>1, <4>1 DEF RunTypes
        <4>5. (outcome[r] = "none" \/ u[r] = at[r]) /\ outcome[r] # "gone"
          BY <4>1
        <4>. HIDE DEF r
        <4>6. Latest(a, v, u, Summarized(last[a], r, u[r], v[r]))
          BY <2>1, <4>1, <4>2, <4>3, <4>4, <4>5, LatestSummarized, SMTT(60)
        <4>. QED  BY <4>4, <4>6
      <3>2. CASE a \notin as
        <4>1. \A s \in Run : s[1] = a => outcome[s] = v[s] /\ at[s] = u[s]
          BY <1>6, <1>7, <3>2
        <4>2. last'[a] = last[a]
          BY <1>1, <2>1, <3>2
        <4>. QED  BY <2>1, <4>1, <4>2, LatestSame
      <3>. QED  BY <3>1, <3>2
    <2>. QED  BY <1>1, <1>5, <2>1, <2>2, LatestTrimmed
  <1>16. \A r \in Run : signedBy'[r] =< gen[r[1]]
    BY <1>1, Runs DEF SecretsGrow, AlertTypes
  <1>17. /\ \A r \in {NewRun(a) : a \in as} :
              IF Active(r[1]) = {} THEN Fresh(r)' ELSE outcome'[r] # "active"
         /\ \A r \in Run \ {NewRun(a) : a \in as} : EndsOrStays(r) /\ signedBy'[r] = signedBy[r]
    BY <1>8, <1>10 DEF new
  <1>. QED  BY <1>2, <1>11, <1>12, <1>13, <1>14, <1>15, <1>16, <1>17

\* Some active runs, those of alerts as, end with an outcome that is true of them.
Ended(E, verdict, v, as) ==
  /\ \A r \in E : v[r] = verdict /\ RowTrue(r, verdict) /\ r[1] \in as
  /\ \A r \in Run \ E : v[r] = outcome[r]
  /\ \A a \in as : \E r \in E : r[1] = a
  /\ outcome' = Written(as, v, at)
  /\ last' = [a \in Alert |-> last'[a]]
  /\ \A a \in Alert \ as : last'[a] = last[a]
  /\ \A r \in E : last'[r[1]] = Summarized(last[r[1]], r, at[r], verdict)
  /\ UNCHANGED <<alerts, gen, at, signedBy, attached, delivery, outside>>

\* Runs that end with a verdict that is true keep the rows in order and true.
LEMMA EndRows ==
  ASSUME AlertTypes, RunTypes, RowsInOrder, OneActive, RowsTrue, LastTrue,
         NEW E \in SUBSET Unfinished, NEW verdict \in Finals,
         NEW v \in [Run -> Outcomes], NEW as \in SUBSET Alert, Ended(E, verdict, v, as)
  PROVE  /\ RunTypes' /\ RowsInOrder' /\ OneActive' /\ RowsTrue' /\ LastTrue'
         /\ \A r \in E : outcome'[r] \in Finals \cup {"gone"}
         /\ \A r \in Run \ E : EndsOrStays(r)
  <1>1. E \subseteq Run /\ \A r \in E : outcome[r] = "active"
    BY DEF Unfinished
  <1>a. outcome' = Written(as, v, at)
    BY Zenon DEF Ended
  <1>v. /\ \A r \in E : v[r] = verdict /\ RowTrue(r, verdict) /\ r[1] \in as
        /\ \A r \in Run \ E : v[r] = outcome[r]
        /\ \A a \in as : \E r \in E : r[1] = a
    BY Zenon DEF Ended
  <1>l. /\ \A a \in Alert \ as : last'[a] = last[a]
        /\ \A r \in E : last'[r[1]] = Summarized(last[r[1]], r, at[r], verdict)
        /\ last' = [a \in Alert |-> last'[a]]
    BY Zenon DEF Ended
  <1>u. UNCHANGED <<alerts, gen, at, signedBy, attached, delivery, outside>>
    BY Zenon DEF Ended
  <1>3. /\ outcome' \in [Run -> Outcomes] /\ Trimmed(outcome', v, at)
        /\ \A r \in Run : r[1] \notin as => outcome'[r] = v[r]
    BY <1>a, WrittenTrims
  <1>4. \A r \in E : outcome'[r] \in {verdict, "gone"}
    BY <1>1, <1>3, <1>v DEF Trimmed
  <1>5. \A r \in Run \ E : EndsOrStays(r)
    BY <1>3, <1>v DEF Trimmed, EndsOrStays
  <1>6. RunTypes'
    <2>1. \A a \in Alert : last'[a] \in LastType /\ last'[a].at \in Time
      <3>. TAKE a \in Alert
      <3>1. CASE a \notin as
        BY <1>l, <3>1 DEF RunTypes
      <3>2. CASE a \in as
        <4>1. PICK r \in E : r[1] = a
          BY <1>v, <3>2
        <4>2. at[r] \in Time /\ last[a] \in LastType /\ last[a].at \in Time
          BY <1>1, <4>1 DEF RunTypes
        <4>3. [at |-> at[r], outcome |-> verdict] \in LastType
          BY <4>2 DEF LastType, Time
        <4>4. last'[a] = Summarized(last[a], r, at[r], verdict)
          BY <1>l, <4>1
        <4>. QED  BY <4>2, <4>3, <4>4 DEF Summarized
      <3>. QED  BY <3>1, <3>2
    <2>. QED  BY <1>3, <1>l, <1>u, <2>1, Zenon DEF RunTypes
  <1>7. RowsInOrder'
    <2>1. \A r \in Run : outcome'[r] # "none" <=> outcome[r] # "none"
      BY <1>1, <1>4, <1>5 DEF EndsOrStays, Finals
    <2>2. \A a \in Alert : \A i \in 1 .. MaxRuns : outcome'[<<a, i>>] # "none" <=> outcome[<<a, i>>] # "none"
      BY <2>1, Runs
    <2>. QED  BY <2>2 DEF RowsInOrder
  <1>8. OneActive'
    <2>1. \A r \in Run : outcome'[r] = "active" => outcome[r] = "active"
      BY <1>4, <1>5 DEF EndsOrStays, Finals
    <2>. QED  BY <1>u, <2>1 DEF OneActive, Unfinished
  <1>9. RowsTrue'
    <2>. SUFFICES ASSUME NEW r \in Run
                  PROVE  (outcome'[r] = "none" => Untouched(r)') /\ RowTrue(r, outcome[r])'
      BY DEF RowsTrue
    <2>1. (outcome[r] = "none" => Untouched(r)) /\ RowTrue(r, outcome[r])
      BY DEF RowsTrue
    <2>2. CASE r \in E
      <3>1. RowTrue(r, verdict) /\ outcome'[r] \in {verdict, "gone"} /\ verdict # "none"
        BY <1>4, <1>v, <2>2 DEF Finals
      <3>. QED  BY <1>u, <3>1 DEF Untouched, RowTrue, outside
    <2>3. CASE r \notin E
      BY <1>5, <1>u, <2>1, <2>3 DEF EndsOrStays, Untouched, RowTrue, outside, Finals
    <2>. QED  BY <2>2, <2>3
  <1>10. LastTrue'
    <2>. SUFFICES ASSUME NEW a \in alerts PROVE Latest(a, outcome', at, last'[a])
      BY <1>u DEF LastTrue
    <2>1. a \in Alert /\ Latest(a, outcome, at, last[a]) /\ at \in [Run -> Nat] /\ last[a] \in LastType
      BY DEF AlertTypes, RunTypes, LastTrue, Time
    <2>2. Latest(a, v, at, last'[a])
      <3>1. CASE a \in as
        <4>1. PICK r \in E : r[1] = a
          BY <1>v, <3>1
        <4>2. r \in Run /\ v[r] = verdict /\ v[r] \notin {"none", "gone"} /\ outcome[r] = "active"
          BY <1>1, <1>v, <4>1 DEF Finals
        <4>3. \A s \in Run : s[1] = a /\ s # r => outcome[s] = v[s] /\ at[s] = at[s]
          BY <1>1, <1>v, <4>1 DEF OneActive
        <4>4. last'[a] = Summarized(last[a], r, at[r], v[r])
          BY <1>l, <4>1, <4>2
        <4>5. Latest(a, v, at, Summarized(last[a], r, at[r], v[r]))
          BY <2>1, <4>1, <4>2, <4>3, LatestSummarized, SMTT(60)
        <4>. QED  BY <4>4, <4>5
      <3>2. CASE a \notin as
        <4>1. \A s \in Run : s[1] = a => outcome[s] = v[s] /\ at[s] = at[s]
          BY <1>v, <3>2
        <4>2. last'[a] = last[a]
          BY <1>l, <2>1, <3>2
        <4>. QED  BY <2>1, <4>1, <4>2, LatestSame
      <3>. QED  BY <3>1, <3>2
    <2>. QED  BY <1>3, <1>u, <2>1, <2>2, LatestTrimmed
  <1>. QED  BY <1>4, <1>5, <1>6, <1>7, <1>8, <1>9, <1>10

\* A worker's verdict is recorded.
LEMMA SettleRows ==
  ASSUME AlertTypes, RunTypes, RowsInOrder, OneActive, RowsTrue, LastTrue,
         NEW r0 \in Unfinished, NEW verdict \in Finals, RowTrue(r0, verdict),
         Settle(r0, verdict),
         UNCHANGED <<alerts, gen, at, signedBy, attached, delivery, outside>>
  PROVE  /\ RunTypes' /\ RowsInOrder' /\ OneActive' /\ RowsTrue' /\ LastTrue'
         /\ outcome'[r0] \in Finals \cup {"gone"}
         /\ \A r \in Run \ {r0} : EndsOrStays(r)
  <1>. DEFINE v == [outcome EXCEPT ![r0] = verdict]
  <1>1. r0 \in Run /\ r0[1] \in Alert
    BY Runs DEF Unfinished
  <1>2. outcome' = Written({r0[1]}, v, at)
    BY Zenon DEF Settle
  <1>3. v \in [Run -> Outcomes] /\ v[r0] = verdict /\ \A r \in Run \ {r0} : v[r] = outcome[r]
    BY <1>1 DEF RunTypes, Outcomes
  <1>4. last' = [last EXCEPT ![r0[1]] = Summarized(@, r0, at[r0], verdict)]
    BY Zenon DEF Settle
  <1>. DEFINE D == LastType \cup {last'[r0[1]]}
  <1>5. /\ last' \in [Alert -> D]
        /\ \A a \in Alert \ {r0[1]} : last'[a] = last[a]
        /\ last'[r0[1]] = Summarized(last[r0[1]], r0, at[r0], verdict)
    BY <1>1, <1>4 DEF RunTypes
  <1>6. {r0} \in SUBSET Unfinished /\ {r0[1]} \in SUBSET Alert
    BY <1>1
  <1>. HIDE DEF v, D
  <1>7. /\ RunTypes' /\ RowsInOrder' /\ OneActive' /\ RowsTrue' /\ LastTrue'
        /\ \A r \in {r0} : outcome'[r] \in Finals \cup {"gone"}
        /\ \A r \in Run \ {r0} : EndsOrStays(r)
    <2>1. \A r \in {r0} : /\ RowTrue(r, verdict) /\ v[r] = verdict /\ r[1] \in {r0[1]}
                          /\ last'[r[1]] = Summarized(last[r[1]], r, at[r], verdict)
      BY <1>3, <1>5
    <2>2. \A a \in {r0[1]} : \E r \in {r0} : r[1] = a
      OBVIOUS
    <2>3. Ended({r0}, verdict, v, {r0[1]})
      BY <1>2, <1>3, <1>5, <2>1, <2>2 DEF Ended
    <2>. QED  BY <1>3, <1>6, <2>3, EndRows
  <1>. QED  BY <1>7
-----------------------------------------------------------------------------
(* Lemmas on slots.                                                         *)

\* The slots of one caller are as many as it holds.
LEMMA OwnSlots ==
  ASSUME NEW c, NEW n \in 0 .. Capacity
  PROVE  LET own == {x \in {c} \X (1 .. Capacity) : x[2] =< n}
         IN  IsFiniteSet(own) /\ Cardinality(own) = n
  <1>. DEFINE own == {x \in {c} \X (1 .. Capacity) : x[2] =< n}
              f == [i \in 1 .. n |-> <<c, i>>]
  <1>1. n \in Nat /\ \A i \in Nat : i \in 1 .. Capacity /\ i =< n <=> i \in 1 .. n
    BY Runs
  <1>2. f \in Injection(1 .. n, own)
    <2>1. \A i \in 1 .. n : <<c, i>> \in own
      BY <1>1
    <2>. QED  BY <2>1 DEF Injection, IsInjective
  <1>3. \A x \in own : \E i \in 1 .. n : f[i] = x
    BY <1>1
  <1>4. f \in Bijection(1 .. n, own)
    BY <1>2, <1>3 DEF Bijection, Surjection, Injection
  <1>. HIDE DEF own, f
  <1>5. n \in Nat /\ ExistsBijection(1 .. n, own)
    BY <1>1, <1>4, Zenon DEF ExistsBijection
  <1>6. IsFiniteSet(own) /\ Cardinality(own) = n
    BY <1>5, FS_CountingElements, FS_NatBijection, Zenon
  <1>. QED  BY <1>6 DEF own

\* The slots in the hands of callers are counted.
LEMMA HeldIsFinite ==
  IsFiniteSet(HeldSlots) /\ Cardinality(HeldSlots) \in Nat
  <1>1. IsFiniteSet(Caller) /\ IsFiniteSet(1 .. Capacity)
    BY AlertRunsConstants, FS_AddElement, FS_Interval DEF Caller
  <1>2. IsFiniteSet(Caller \X (1 .. Capacity))
    BY <1>1, FS_Product
  <1>3. IsFiniteSet(HeldSlots)
    BY <1>2, FS_Subset DEF HeldSlots
  <1>. QED  BY <1>3, FS_CardinalityType

\* The slots in the hands of callers when one caller has others.
LEMMA SlotsOf ==
  ASSUME call \in [Caller -> CallType], NEW c \in Caller, NEW k \in CallType,
         call' = [call EXCEPT ![c] = k]
  PROVE  /\ call' \in [Caller -> CallType]
         /\ Cardinality(HeldSlots) \in Nat /\ Cardinality(HeldSlots') \in Nat
         /\ Cardinality(HeldSlots) >= call[c].held
         /\ Cardinality(HeldSlots') = (Cardinality(HeldSlots) - call[c].held) + k.held
  <1>. DEFINE All == Caller \X (1 .. Capacity)
              Rest == {x \in All : x[1] # c /\ x[2] =< call[x[1]].held}
              Own(n) == {x \in {c} \X (1 .. Capacity) : x[2] =< n}
  <1>1. /\ call' \in [Caller -> CallType]
        /\ call'[c] = k /\ \A d \in Caller : d # c => call'[d] = call[d]
    OBVIOUS
  <1>2. call[c].held \in 0 .. Capacity /\ k.held \in 0 .. Capacity
    BY DEF CallType
  <1>3. HeldSlots = Rest \cup Own(call[c].held) /\ HeldSlots' = Rest \cup Own(k.held)
    BY <1>1 DEF HeldSlots
  <1>4. IsFiniteSet(Rest)
    <2>1. IsFiniteSet(Caller)
      BY AlertRunsConstants, FS_AddElement DEF Caller
    <2>2. IsFiniteSet(1 .. Capacity)
      BY AlertRunsConstants, FS_Interval
    <2>3. IsFiniteSet(All)
      BY <2>1, <2>2, FS_Product
    <2>. QED  BY <2>3, FS_Subset
  <1>5. \A n : Rest \cap Own(n) = {}
    OBVIOUS
  <1>6. \A n \in 0 .. Capacity : IsFiniteSet(Own(n)) /\ Cardinality(Own(n)) = n
    BY OwnSlots
  <1>. HIDE DEF Rest, Own
  <1>7. \A n \in 0 .. Capacity : Cardinality(Rest \cup Own(n)) = Cardinality(Rest) + n
    <2>. TAKE n \in 0 .. Capacity
    <2>1. Cardinality(Rest \cup Own(n)) = Cardinality(Rest) + Cardinality(Own(n)) - Cardinality({})
      BY <1>4, <1>5, <1>6, FS_Union
    <2>2. Cardinality({}) = 0 /\ Cardinality(Rest) \in Nat /\ n \in Nat
      BY <1>4, FS_EmptySet, FS_CardinalityType
    <2>. QED  BY <1>6, <2>1, <2>2
  <1>8. Cardinality(Rest) \in Nat
    BY <1>4, FS_CardinalityType
  <1>. QED  BY <1>1, <1>2, <1>3, <1>7, <1>8

\* A caller's own slots are among them.
LEMMA HeldAtLeast ==
  ASSUME NEW c \in Caller, call[c].held \in 0 .. Capacity
  PROVE  Cardinality(HeldSlots) >= call[c].held
  <1>. DEFINE own == {x \in {c} \X (1 .. Capacity) : x[2] =< call[c].held}
  <1>1. own \subseteq HeldSlots
    BY DEF HeldSlots
  <1>2. Cardinality(own) = call[c].held
    BY OwnSlots
  <1>. HIDE DEF own
  <1>3. Cardinality(own) =< Cardinality(HeldSlots)
    BY <1>1, HeldIsFinite, FS_Subset
  <1>. QED  BY <1>2, <1>3, HeldIsFinite

\* Callers without slots.
LEMMA NothingInHand ==
  ASSUME \A c \in Caller : call[c] = Idle
  PROVE  HeldSlots = {}
  <1>1. \A x \in Caller \X (1 .. Capacity) : x[1] \in Caller /\ x[2] \in 1 .. Capacity
    OBVIOUS
  <1>2. \A n \in 1 .. Capacity : ~ (n =< 0)
    BY Runs
  <1>3. \A c \in Caller : call[c].held = 0
    BY DEF Idle
  <1>. QED  BY <1>1, <1>2, <1>3 DEF HeldSlots

\* The busy workers when one begins, goes on or lets go.
LEMMA BusyOf ==
  ASSUME NEW w \in Workers, \A v \in Workers \ {w} : work'[v] = work[v]
  PROVE  /\ Cardinality(Busy) \in Nat
         /\ w \in Busy /\ work'[w].pc \in Steps => Busy' = Busy
         /\ w \notin Busy /\ work'[w].pc \in Steps =>
              Busy' = Busy \cup {w} /\ Cardinality(Busy') = Cardinality(Busy) + 1
         /\ w \in Busy /\ work'[w].pc \notin Steps =>
              Busy' = Busy \ {w} /\ Cardinality(Busy') = Cardinality(Busy) - 1
  <1>1. IsFiniteSet(Busy)
    BY AlertRunsConstants, FS_Subset DEF Busy
  <1>2. Cardinality(Busy) \in Nat
    BY <1>1, FS_CardinalityType
  <1>3. w \in Busy /\ work'[w].pc \in Steps => Busy' = Busy
    BY DEF Busy
  <1>4. w \notin Busy /\ work'[w].pc \in Steps => Busy' = Busy \cup {w}
    BY DEF Busy
  <1>5. w \in Busy /\ work'[w].pc \notin Steps => Busy' = Busy \ {w}
    BY DEF Busy
  <1>6. /\ w \notin Busy => Cardinality(Busy \cup {w}) = Cardinality(Busy) + 1
        /\ w \in Busy => Cardinality(Busy \ {w}) = Cardinality(Busy) - 1
    BY <1>1, FS_AddElement, FS_RemoveElement
  <1>. QED  BY <1>2, <1>3, <1>4, <1>5, <1>6
-----------------------------------------------------------------------------
(* What the steps of callers and workers leave in hand.                     *)

HandsInv ==
  /\ HandTypes /\ CallsSound /\ HeldApart /\ HeldTrue /\ ActiveSomewhere
  /\ Balance /\ Shutting

\* The runs that were claimed are kept, but for those of set S.
KeptBut(S) == \A r \in Run \ S : outcome[r] # "none" => Kept(r)

\* The runs in hand were claimed.
LEMMA InHand ==
  ASSUME HandTypes, HeldTrue
  PROVE  /\ \A c \in Caller : Waiting(c) \subseteq Run /\ \A r \in Waiting(c) : outcome[r] = "active"
         /\ Queued \subseteq Run /\ \A r \in Queued : outcome[r] = "active"
         /\ \A w \in Busy : work[w].run \in Run /\ outcome[work[w].run] # "none"
  <1>1. ASSUME NEW c \in Caller PROVE Waiting(c) \subseteq Run
    <2>1. call[c].runs \in Seq(Run)
      BY DEF HandTypes, CallType
    <2>. QED  BY <2>1, RangeOf DEF Waiting
  <1>2. Queued \subseteq Run
    BY RangeOf DEF HandTypes, Queued
  <1>3. \A c \in Caller : \A r \in Waiting(c) : outcome[r] = "active"
    BY Zenon DEF HeldTrue, Fresh
  <1>4. \A r \in Queued : outcome[r] = "active"
    BY Zenon DEF HeldTrue, Fresh
  <1>5. \A w \in Busy : work[w].run \in Run /\ outcome[work[w].run] # "none"
    BY Zenon DEF HeldTrue, WorkTrue
  <1>. QED  BY <1>1, <1>2, <1>3, <1>4, <1>5

\* What is kept of the runs that wait, are queued, or are with other workers.
LEMMA StillTrue ==
  ASSUME AlertTypes, AlertTypes', RunTypes, HandTypes, HeldTrue,
         NEW S, KeptBut(S)
  PROVE  /\ \A c \in Caller : \A r \in Waiting(c) \ S : Fresh(r)'
         /\ \A r \in Queued \ S : Fresh(r)'
         /\ \A w \in Busy : work'[w] = work[w] /\ work[w].run \notin S => WorkTrue(w)'
  <1>1. \A r \in Run \ S : Fresh(r) => Fresh(r)'
    <2>. SUFFICES ASSUME NEW r \in Run \ S, Fresh(r) PROVE Fresh(r)'
      OBVIOUS
    <2>1. Kept(r)
      BY DEF KeptBut, Fresh
    <2>. QED  BY <2>1, KeptIsTrue
  <1>2. \A c \in Caller : \A r \in Waiting(c) \ S : Fresh(r)'
    BY <1>1, InHand, Zenon DEF HeldTrue
  <1>3. \A r \in Queued \ S : Fresh(r)'
    BY <1>1, InHand, Zenon DEF HeldTrue
  <1>4. ASSUME NEW w \in Busy, work'[w] = work[w], work[w].run \notin S PROVE WorkTrue(w)'
    <2>1. WorkTrue(w) /\ Kept(work[w].run)
      BY <1>4, InHand, Zenon DEF HeldTrue, KeptBut
    <2>. QED  BY <1>4, <2>1, KeptWork
  <1>. QED  BY <1>2, <1>3, <1>4

\* The steps of everyone else: nobody's hand changes.
LEMMA HandsStay ==
  ASSUME AlertTypes, AlertTypes', RunTypes, HandsInv, UNCHANGED memory,
         KeptBut({}), Unfinished' \ lost' \subseteq Unfinished \ lost,
         deadline => deadline'
  PROVE  /\ HandTypes' /\ CallsSound' /\ HeldApart' /\ HeldTrue' /\ ActiveSomewhere'
         /\ Balance'
  <1>1. UNCHANGED <<call, slots, queue, work>>
    BY DEF memory
  <1>2. HandTypes' /\ CallsSound' /\ HeldApart'
    BY <1>1 DEF HandsInv, HandTypes, CallsSound, HeldApart, Waiting, Queued, Busy
  <1>3. HeldTrue'
    <2>1. /\ \A c \in Caller : \A r \in Waiting(c) : Fresh(r)'
          /\ \A r \in Queued : Fresh(r)'
          /\ \A w \in Busy : WorkTrue(w)'
      BY <1>1, StillTrue DEF HandsInv
    <2>2. Busy' = Busy /\ Queued' = Queued /\ \A c \in Caller : Waiting(c)' = Waiting(c)
      BY <1>1 DEF Busy, Queued, Waiting
    <2>. QED  BY <2>1, <2>2, Zenon DEF HeldTrue
  <1>4. ActiveSomewhere'
    BY <1>1 DEF HandsInv, ActiveSomewhere, Waiting, Queued, Busy
  <1>5. Balance'
    BY <1>1 DEF HandsInv, Balance, HeldSlots, Busy
  <1>. QED  BY <1>2, <1>3, <1>4, <1>5

\* A caller takes slots before it claims.
LEMMA ReserveHands ==
  ASSUME AlertTypes, RunTypes, HandsInv, NEW c \in Caller, NEW n \in Nat,
         NEW a \in Alert \cup {None}, Reserve(c, n, a)
  PROVE  HandsInv'
  <1>. DEFINE k == [pc |-> "claim", held |-> n, runs |-> <<>>, for |-> a]
  <1>1. /\ call[c] = Idle /\ phase = "open" /\ n > 0 /\ slots + n =< Capacity /\ slots' = slots + n
        /\ call' = [call EXCEPT ![c] = k]
        /\ UNCHANGED <<queue, work, phase, deadline, outcome, lost>>
    BY DEF Reserve, Cancelled, runRows, closing, bounds
  <1>2. /\ AlertTypes' /\ UNCHANGED <<outcome, signedBy, gen, search, posts, delivery, attached, received>>
    BY DEF Reserve, alertRows, runRows, outside, AlertTypes
  <1>3. KeptBut({})
    <2>. SUFFICES ASSUME NEW r \in Run PROVE Kept(r)
      BY DEF KeptBut
    <2>1. r[1] \in Alert /\ gen[r[1]] \in Nat
      BY Runs DEF AlertTypes
    <2>. QED  BY <1>2, <2>1 DEF Kept
  <1>4. slots \in 0 .. Capacity /\ call \in [Caller -> CallType] /\ queue \in Seq(Run)
    BY DEF HandsInv, HandTypes
  <1>5. k \in CallType /\ k.held = n /\ k.runs = <<>> /\ k.pc = "claim"
    BY <1>1, <1>4, RangeOf, Runs DEF CallType
  <1>. HIDE DEF k
  <1>6. /\ call' \in [Caller -> CallType]
        /\ Cardinality(HeldSlots) \in Nat /\ Cardinality(HeldSlots') \in Nat
        /\ Cardinality(HeldSlots') = (Cardinality(HeldSlots) - call[c].held) + k.held
    BY <1>1, <1>4, <1>5, SlotsOf
  <1>7. call'[c] = k /\ \A d \in Caller : d # c => call'[d] = call[d]
    BY <1>1, <1>4
  <1>8. HandTypes'
    BY <1>1, <1>4, <1>6, Runs DEF HandsInv, HandTypes
  <1>9. CallsSound'
    BY <1>1, <1>5, <1>7 DEF HandsInv, CallsSound
  <1>10. \A d \in Caller : Waiting(d)' = Waiting(d) /\ call'[d].runs = call[d].runs
    BY <1>1, <1>5, <1>7 DEF Waiting, Idle
  <1>11. Queued' = Queued /\ Busy' = Busy
    BY <1>1 DEF Queued, Busy
  <1>12. HeldApart'
    BY <1>1, <1>10, <1>11 DEF HandsInv, HeldApart
  <1>13. HeldTrue'
    <2>1. /\ \A d \in Caller : \A r \in Waiting(d) : Fresh(r)'
          /\ \A r \in Queued : Fresh(r)'
          /\ \A w \in Busy : WorkTrue(w)'
      BY <1>1, <1>2, <1>3, StillTrue DEF HandsInv
    <2>. QED  BY <1>10, <1>11, <2>1, Zenon DEF HeldTrue
  <1>14. ActiveSomewhere'
    BY <1>1, <1>10, <1>11 DEF HandsInv, ActiveSomewhere, Unfinished
  <1>15. Balance'
    <2>1. /\ slots = Cardinality(HeldSlots) + Len(queue) + Cardinality(Busy)
          /\ Len(queue) \in Nat /\ Cardinality(Busy) \in Nat /\ call[c].held = 0
      <3>1. \A v \in Workers : work'[v] = work[v]
        BY <1>1
      <3>2. Cardinality(Busy) \in Nat
        BY <3>1, BusyOf, AlertRunsConstants, FS_Subset, FS_CardinalityType DEF Busy
      <3>. QED  BY <1>1, <1>4, <3>2 DEF HandsInv, Balance, Idle
    <2>. QED  BY <1>1, <1>4, <1>5, <1>6, <1>11, <2>1 DEF Balance
  <1>16. Shutting'
    BY <1>1 DEF HandsInv, Shutting
  <1>. QED  BY <1>8, <1>9, <1>12, <1>13, <1>14, <1>15, <1>16 DEF HandsInv

\* A caller that held m slots keeps n of them.
LEMMA SlotsBack ==
  ASSUME NEW m \in Nat, NEW n \in Nat, n =< m,
         slots \in 0 .. Capacity, slots' = slots - (m - n),
         slots = Cardinality(HeldSlots) + Len(queue) + Cardinality(Busy),
         Cardinality(HeldSlots) \in Nat, Cardinality(HeldSlots) >= m,
         Cardinality(HeldSlots') = (Cardinality(HeldSlots) - m) + n,
         Len(queue) \in Nat, Len(queue') = Len(queue),
         Cardinality(Busy) \in Nat, Cardinality(Busy') = Cardinality(Busy)
  PROVE  slots' = Cardinality(HeldSlots') + Len(queue') + Cardinality(Busy') /\ slots' \in 0 .. Capacity
  <1>1. Capacity \in Nat
    BY Runs
  <1>. QED  BY <1>1

\* A claim ends: the runs that became active stay with the caller.
Returned(c, runs) ==
  /\ Return(c, runs) /\ Len(runs) =< call[c].held /\ IsInjective(runs)
  /\ \A r \in Range(runs) : Fresh(r)' /\ outcome[r] = "none"
  /\ Unfinished' \ lost' \subseteq (Unfinished \ lost) \cup Range(runs)

\* A claim that returns gives back the slots it does not use, and keeps its new runs.
LEMMA ReturnHands ==
  ASSUME AlertTypes, AlertTypes', RunTypes, HandsInv, NEW c \in Caller, call[c].pc = "claim",
         NEW runs \in Seq(Run), Returned(c, runs), KeptBut({}),
         UNCHANGED <<queue, work, closing>>
  PROVE  HandsInv'
  <1>1. /\ slots' = slots - (call[c].held - Len(runs))
        /\ Len(runs) =< call[c].held /\ IsInjective(runs)
        /\ UNCHANGED <<queue, work, phase, deadline>>
    BY DEF Returned, Return, closing
  <1>2. \A r \in Range(runs) : Fresh(r)' /\ outcome[r] = "none"
    BY Zenon DEF Returned
  <1>3. slots \in 0 .. Capacity /\ call \in [Caller -> CallType] /\ queue \in Seq(Run)
    BY DEF HandsInv, HandTypes
  <1>4. call[c].held \in 0 .. Capacity /\ Len(runs) \in Nat
    BY <1>3 DEF CallType
  <1>5. PICK k \in CallType :
          /\ call' = [call EXCEPT ![c] = k] /\ k.runs = runs /\ k.held = Len(runs)
          /\ runs = <<>> => k = Idle
          /\ runs # <<>> => k.pc = "push" /\ k.held >= 1
    <2>1. CASE runs = <<>>
      <3>1. Idle \in CallType /\ Idle.runs = <<>> /\ Idle.held = 0
        BY RangeOf, Runs DEF Idle, CallType
      <3>2. call' = [call EXCEPT ![c] = Idle]
        BY <2>1 DEF Returned, Return
      <3>. QED  BY <2>1, <3>1, <3>2, RangeOf
    <2>2. CASE runs # <<>>
      <3>. DEFINE x == [pc |-> "push", held |-> Len(runs), runs |-> runs, for |-> None]
      <3>1. x \in CallType /\ x.runs = runs /\ x.held = Len(runs) /\ x.pc = "push"
        BY <1>1, <1>4, Runs DEF CallType
      <3>2. call' = [call EXCEPT ![c] = x]
        BY <2>2 DEF Returned, Return
      <3>3. Len(runs) >= 1
        BY <2>2, TailOnce
      <3>. QED  BY <2>2, <3>1, <3>2, <3>3
    <2>. QED  BY <2>1, <2>2
  <1>6. /\ call' \in [Caller -> CallType]
        /\ Cardinality(HeldSlots) \in Nat /\ Cardinality(HeldSlots') \in Nat
        /\ Cardinality(HeldSlots) >= call[c].held
        /\ Cardinality(HeldSlots') = (Cardinality(HeldSlots) - call[c].held) + k.held
    BY <1>3, <1>5, SlotsOf
  <1>7. call'[c] = k /\ \A d \in Caller : d # c => call'[d] = call[d]
    BY <1>3, <1>5
  <1>8. Queued' = Queued /\ Busy' = Busy
    BY <1>1 DEF Queued, Busy
  <1>9. /\ slots = Cardinality(HeldSlots) + Len(queue) + Cardinality(Busy)
        /\ Len(queue) \in Nat /\ Cardinality(Busy) \in Nat
    <2>1. Cardinality(Busy) \in Nat
      BY AlertRunsConstants, FS_Subset, FS_CardinalityType DEF Busy
    <2>. QED  BY <1>3, <2>1 DEF HandsInv, Balance
  <1>10. slots' = Cardinality(HeldSlots') + Len(queue') + Cardinality(Busy') /\ slots' \in 0 .. Capacity
    <2>1. /\ call[c].held \in Nat /\ k.held \in Nat /\ k.held =< call[c].held
          /\ slots' = slots - (call[c].held - k.held)
      BY <1>1, <1>4, <1>5, Runs
    <2>2. Len(queue') = Len(queue) /\ Cardinality(Busy') = Cardinality(Busy)
      BY <1>1, <1>8
    <2>. QED  BY <1>3, <1>6, <1>9, <2>1, <2>2, SlotsBack
  <1>11. HandTypes'
    BY <1>1, <1>6, <1>10 DEF HandsInv, HandTypes
  <1>12. CallsSound'
    <2>. SUFFICES ASSUME NEW d \in Caller
                  PROVE  /\ call'[d].pc = "idle" => call'[d] = Idle
                         /\ call'[d].pc = "claim" => call'[d].runs = <<>> /\ call'[d].held >= 1
                         /\ call'[d].pc = "push" => call'[d].held = Len(call'[d].runs) /\ call'[d].held >= 1
      BY DEF CallsSound
    <2>1. CASE d = c
      <3>1. Idle.pc = "idle"
        BY DEF Idle
      <3>. QED  BY <1>5, <1>7, <2>1, <3>1
    <2>2. CASE d # c
      BY <1>7, <2>2 DEF HandsInv, CallsSound
    <2>. QED  BY <2>1, <2>2
  <1>13. /\ Waiting(c)' = Range(runs) /\ Waiting(c) = {}
         /\ \A d \in Caller : d # c => Waiting(d)' = Waiting(d) /\ call'[d].runs = call[d].runs
    BY <1>5, <1>7, RangeOf DEF Waiting, HandsInv, CallsSound
  <1>14. \A r \in Range(runs) : /\ r \notin Queued /\ \A w \in Busy : work[w].run # r
                                /\ \A d \in Caller : r \notin Waiting(d)
    BY <1>2, InHand DEF HandsInv
  <1>15. HeldApart'
    <2>1. HeldApart
      BY DEF HandsInv
    <2>2. \A d \in Caller : IsInjective(call'[d].runs) /\ Waiting(d)' \cap Queued' = {}
      BY <1>1, <1>5, <1>7, <1>8, <1>13, <1>14, <2>1 DEF HeldApart
    <2>3. \A d, e \in Caller : d # e => Waiting(d)' \cap Waiting(e)' = {}
      BY <1>13, <1>14, <2>1 DEF HeldApart
    <2>4. \A w \in Busy, d \in Caller : work[w].run \notin Waiting(d)'
      BY <1>13, <1>14, <2>1 DEF HeldApart
    <2>. QED  BY <1>1, <1>8, <2>1, <2>2, <2>3, <2>4 DEF HeldApart
  <1>16. HeldTrue'
    <2>1. /\ \A d \in Caller : \A r \in Waiting(d) : Fresh(r)'
          /\ \A r \in Queued : Fresh(r)'
          /\ \A w \in Busy : WorkTrue(w)'
      BY <1>1, StillTrue DEF HandsInv
    <2>. QED  BY <1>2, <1>8, <1>13, <2>1, Zenon DEF HeldTrue
  <1>17. ActiveSomewhere'
    <2>. SUFFICES ASSUME NEW r \in Unfinished' \ lost', ~deadline
                  PROVE  \/ \E d \in Caller : r \in Waiting(d)'
                         \/ r \in Queued
                         \/ \E w \in Busy : work[w].run = r
      BY <1>1, <1>8 DEF ActiveSomewhere
    <2>1. CASE r \in Range(runs)
      BY <1>13, <2>1
    <2>2. CASE r \in Unfinished \ lost
      <3>1. \/ \E d \in Caller : r \in Waiting(d)
            \/ r \in Queued
            \/ \E w \in Busy : work[w].run = r
        BY <2>2 DEF HandsInv, ActiveSomewhere
      <3>. QED  BY <1>13, <3>1
    <2>. QED  BY <2>1, <2>2 DEF Returned
  <1>18. Shutting'
    <2>1. phase \notin {"drained", "closed"}
      BY DEF HandsInv, Shutting, Idle
    <2>. QED  BY <1>1, <2>1 DEF HandsInv, Shutting
  <1>. QED  BY <1>10, <1>11, <1>12, <1>15, <1>16, <1>17, <1>18 DEF HandsInv, Balance

\* A caller moves a run to the queue.
LEMMA PushHands ==
  ASSUME AlertTypes, RunTypes, HandsInv, NEW c \in Caller, Push(c)
  PROVE  HandsInv'
  <1>. DEFINE s == call[c].runs
              r == Head(s)
  <1>1. /\ call[c].pc = "push" /\ queue' = Append(queue, r)
        /\ UNCHANGED <<slots, work, phase, deadline, outcome, lost>>
    BY DEF Push, runRows, closing, bounds
  <1>2. /\ AlertTypes' /\ UNCHANGED <<outcome, signedBy, gen, search, posts, delivery, attached, received>>
    BY DEF Push, alertRows, runRows, outside, AlertTypes
  <1>3. KeptBut({})
    <2>. SUFFICES ASSUME NEW x \in Run PROVE Kept(x)
      BY DEF KeptBut
    <2>1. x[1] \in Alert /\ gen[x[1]] \in Nat
      BY Runs DEF AlertTypes
    <2>. QED  BY <1>2, <2>1 DEF Kept
  <1>4. slots \in 0 .. Capacity /\ call \in [Caller -> CallType] /\ queue \in Seq(Run)
    BY DEF HandsInv, HandTypes
  <1>5. s \in Seq(Run) /\ call[c].held = Len(s) /\ call[c].held >= 1 /\ s # <<>>
    BY <1>1, <1>4, RangeOf DEF CallType, HandsInv, CallsSound
  <1>6. /\ Tail(s) \in Seq(Run) /\ r \in Run /\ r \in Range(s)
        /\ Len(Tail(s)) = Len(s) - 1 /\ Len(s) \in Nat \ {0}
        /\ Range(s) = Range(Tail(s)) \cup {r}
        /\ IsInjective(s) => IsInjective(Tail(s)) /\ r \notin Range(Tail(s))
    BY <1>5, TailOnce
  <1>7. PICK k \in CallType :
          /\ call' = [call EXCEPT ![c] = k] /\ k.runs = Tail(s) /\ k.held = Len(s) - 1
          /\ k = Idle \/ (k.pc = "push" /\ k.held >= 1)
    <2>1. CASE Tail(s) = <<>>
      <3>1. Idle \in CallType /\ Idle.runs = <<>> /\ Idle.held = 0
        BY RangeOf, Runs DEF Idle, CallType
      <3>2. call' = [call EXCEPT ![c] = Idle]
        BY <2>1 DEF Push
      <3>. QED  BY <1>6, <2>1, <3>1, <3>2, RangeOf
    <2>2. CASE Tail(s) # <<>>
      <3>. DEFINE x == [call[c] EXCEPT !.runs = Tail(s), !.held = Len(Tail(s))]
      <3>1. Len(Tail(s)) >= 1 /\ Len(Tail(s)) \in 0 .. Capacity
        <4>. DEFINE n == Len(Tail(s))
                    m == Len(s)
        <4>1. n \in Nat \ {0} /\ n = m - 1 /\ m \in Nat
          BY <1>6, <2>2, TailOnce
        <4>2. m \in 0 .. Capacity /\ Capacity \in Nat
          BY <1>4, <1>5, Runs DEF CallType
        <4>. HIDE DEF n, m
        <4>3. n >= 1 /\ n \in 0 .. Capacity
          BY <4>1, <4>2
        <4>. QED  BY <4>3 DEF n
      <3>2. x \in CallType /\ x.runs = Tail(s) /\ x.held = Len(Tail(s)) /\ x.pc = "push"
        BY <1>1, <1>4, <1>6, <3>1 DEF CallType
      <3>3. call' = [call EXCEPT ![c] = x]
        BY <2>2 DEF Push
      <3>. QED  BY <1>6, <3>1, <3>2, <3>3
    <2>. QED  BY <2>1, <2>2
  <1>8. /\ call' \in [Caller -> CallType]
        /\ Cardinality(HeldSlots) \in Nat /\ Cardinality(HeldSlots') \in Nat
        /\ Cardinality(HeldSlots') = (Cardinality(HeldSlots) - call[c].held) + k.held
    BY <1>4, <1>7, SlotsOf
  <1>9. call'[c] = k /\ \A d \in Caller : d # c => call'[d] = call[d]
    BY <1>4, <1>7
  <1>10. /\ Waiting(c) = Waiting(c)' \cup {r} /\ r \notin Waiting(c)' /\ IsInjective(call'[c].runs)
         /\ \A d \in Caller : d # c => Waiting(d)' = Waiting(d) /\ call'[d].runs = call[d].runs
    <2>1. IsInjective(s)
      BY DEF HandsInv, HeldApart
    <2>. QED  BY <1>6, <1>7, <1>9, <2>1 DEF Waiting
  <1>11. r \notin Queued /\ (\A d \in Caller : d # c => r \notin Waiting(d))
         /\ \A w \in Busy : work[w].run # r
    BY <1>10 DEF HandsInv, HeldApart
  <1>12. /\ queue' \in Seq(Run) /\ Len(queue') = Len(queue) + 1 /\ Len(queue) \in Nat
         /\ Queued' = Queued \cup {r} /\ IsInjective(queue')
    BY <1>1, <1>4, <1>6, <1>11, AppendOnce DEF Queued, HandsInv, HeldApart
  <1>. HIDE DEF s, r
  <1>13. Busy' = Busy
    BY <1>1 DEF Busy
  <1>14. HandTypes'
    BY <1>1, <1>8, <1>12 DEF HandsInv, HandTypes
  <1>15. CallsSound'
    <2>. SUFFICES ASSUME NEW d \in Caller
                  PROVE  /\ call'[d].pc = "idle" => call'[d] = Idle
                         /\ call'[d].pc = "claim" => call'[d].runs = <<>> /\ call'[d].held >= 1
                         /\ call'[d].pc = "push" => call'[d].held = Len(call'[d].runs) /\ call'[d].held >= 1
      BY DEF CallsSound
    <2>1. CASE d = c
      <3>1. Idle.pc = "idle" /\ k.held = Len(k.runs)
        BY <1>6, <1>7 DEF Idle
      <3>. QED  BY <1>7, <1>9, <2>1, <3>1
    <2>2. CASE d # c
      BY <1>9, <2>2 DEF HandsInv, CallsSound
    <2>. QED  BY <2>1, <2>2
  <1>16. HeldApart'
    <2>1. HeldApart
      BY DEF HandsInv
    <2>2. \A d \in Caller : IsInjective(call'[d].runs) /\ Waiting(d)' \cap Queued' = {}
      BY <1>10, <1>11, <1>12, <2>1 DEF HeldApart
    <2>3. \A d, e \in Caller : d # e => Waiting(d)' \cap Waiting(e)' = {}
      BY <1>10, <2>1 DEF HeldApart
    <2>4. \A w \in Busy, d \in Caller : work[w].run \notin Waiting(d)'
      BY <1>10, <2>1 DEF HeldApart
    <2>5. \A w \in Busy : work[w].run \notin Queued'
      BY <1>11, <1>12, <2>1 DEF HeldApart
    <2>. QED  BY <1>1, <1>12, <1>13, <2>1, <2>2, <2>3, <2>4, <2>5 DEF HeldApart
  <1>17. HeldTrue'
    <2>1. /\ \A d \in Caller : \A x \in Waiting(d) : Fresh(x)'
          /\ \A x \in Queued : Fresh(x)'
          /\ \A w \in Busy : WorkTrue(w)'
      BY <1>1, <1>2, <1>3, StillTrue DEF HandsInv
    <2>2. \A x \in Queued' : Fresh(x)'
      BY <1>10, <1>12, <2>1
    <2>3. \A d \in Caller : \A x \in Waiting(d)' : Fresh(x)'
      BY <1>10, <2>1
    <2>. QED  BY <1>13, <2>1, <2>2, <2>3, Zenon DEF HeldTrue
  <1>18. ActiveSomewhere'
    <2>. SUFFICES ASSUME NEW x \in Unfinished \ lost, ~deadline
                  PROVE  \/ \E d \in Caller : x \in Waiting(d)'
                         \/ x \in Queued'
                         \/ \E w \in Busy : work[w].run = x
      BY <1>1, <1>13 DEF ActiveSomewhere, Unfinished
    <2>1. \/ \E d \in Caller : x \in Waiting(d)
          \/ x \in Queued
          \/ \E w \in Busy : work[w].run = x
      BY DEF HandsInv, ActiveSomewhere
    <2>. QED  BY <1>10, <1>12, <2>1
  <1>19. Balance'
    <2>1. Cardinality(Busy) \in Nat
      BY AlertRunsConstants, FS_Subset, FS_CardinalityType DEF Busy
    <2>2. slots = Cardinality(HeldSlots) + Len(queue) + Cardinality(Busy)
      BY DEF HandsInv, Balance
    <2>3. k.held = Len(s) - 1 /\ call[c].held = Len(s) /\ Len(s) \in Nat
      BY <1>5, <1>6, <1>7
    <2>. QED  BY <1>1, <1>8, <1>12, <1>13, <2>1, <2>2, <2>3 DEF Balance
  <1>20. Shutting'
    <2>1. phase \notin {"drained", "closed"}
      BY <1>1 DEF HandsInv, Shutting, Idle
    <2>. QED  BY <1>1, <2>1 DEF HandsInv, Shutting
  <1>. QED  BY <1>14, <1>15, <1>16, <1>17, <1>18, <1>19, <1>20 DEF HandsInv

\* The row and the world of a step that only moves a run.
LEMMA AllKept ==
  ASSUME AlertTypes, UNCHANGED <<outcome, signedBy, gen, search, posts, delivery, attached, received>>
  PROVE  KeptBut({})
  <1>. SUFFICES ASSUME NEW x \in Run PROVE Kept(x)
    BY DEF KeptBut
  <1>1. x[1] \in Alert /\ gen[x[1]] \in Nat
    BY Runs DEF AlertTypes
  <1>. QED  BY <1>1 DEF Kept

\* A worker takes a run from the queue.
LEMMA TakeHands ==
  ASSUME AlertTypes, RunTypes, HandsInv, NEW w \in Workers, Take(w)
  PROVE  HandsInv'
  <1>0. PICK r : r = Head(queue)
    OBVIOUS
  <1>. DEFINE x == [run |-> r, pc |-> "start", says |-> None]
  <1>1. /\ work[w] = Free /\ queue # <<>> /\ queue' = Tail(queue)
        /\ work' = [work EXCEPT ![w] = x]
        /\ UNCHANGED <<call, slots, phase, deadline, outcome, lost>>
    BY <1>0 DEF Take, runRows, closing, bounds
  <1>2. /\ AlertTypes' /\ UNCHANGED <<outcome, signedBy, gen, search, posts, delivery, attached, received>>
    BY DEF Take, alertRows, runRows, outside, AlertTypes
  <1>3. KeptBut({})
    BY <1>2, AllKept
  <1>4. call \in [Caller -> CallType] /\ queue \in Seq(Run) /\ work \in [Workers -> WorkType]
    BY DEF HandsInv, HandTypes
  <1>5. /\ queue' \in Seq(Run) /\ r \in Run /\ r \in Queued
        /\ Len(queue') = Len(queue) - 1 /\ Len(queue) \in Nat
        /\ Queued = Queued' \cup {r} /\ IsInjective(queue') /\ r \notin Queued'
    BY <1>0, <1>1, <1>4, TailOnce DEF Queued, HandsInv, HeldApart
  <1>6. x \in WorkType /\ x.run = r /\ x.pc = "start" /\ x.says = None
    BY <1>5 DEF WorkType, Steps
  <1>. HIDE DEF x
  <1>7. /\ work' \in [Workers -> WorkType]
        /\ work'[w] = x /\ \A v \in Workers \ {w} : work'[v] = work[v]
    BY <1>1, <1>4, <1>6
  <1>8. w \notin Busy /\ work'[w].pc \in Steps
    BY <1>1, <1>6, <1>7 DEF Busy, Free, Steps
  <1>9. Busy' = Busy \cup {w} /\ Cardinality(Busy') = Cardinality(Busy) + 1 /\ Cardinality(Busy) \in Nat
    BY <1>7, <1>8, BusyOf
  <1>10. \A d \in Caller : Waiting(d)' = Waiting(d) /\ call'[d] = call[d]
    BY <1>1 DEF Waiting
  <1>11. /\ \A d \in Caller : r \notin Waiting(d)
         /\ \A v \in Busy : work[v].run # r /\ v # w
    BY <1>5, <1>8 DEF HandsInv, HeldApart
  <1>12. \A v \in Busy : work'[v] = work[v] /\ v \in Workers
    BY <1>7, <1>8 DEF Busy
  <1>13. HandTypes'
    BY <1>1, <1>4, <1>5, <1>7 DEF HandsInv, HandTypes
  <1>14. CallsSound'
    BY <1>1 DEF HandsInv, CallsSound
  <1>15. HeldApart'
    <2>1. HeldApart
      BY DEF HandsInv
    <2>2. \A d \in Caller : IsInjective(call'[d].runs) /\ Waiting(d)' \cap Queued' = {}
      BY <1>5, <1>10, <2>1 DEF HeldApart
    <2>3. \A d, e \in Caller : d # e => Waiting(d)' \cap Waiting(e)' = {}
      BY <1>10, <2>1 DEF HeldApart
    <2>4. \A v \in Busy' : \A d \in Caller : work'[v].run \notin Waiting(d)'
      BY <1>6, <1>7, <1>9, <1>10, <1>11, <1>12, <2>1 DEF HeldApart
    <2>5. \A v \in Busy' : work'[v].run \notin Queued'
      BY <1>5, <1>6, <1>7, <1>9, <1>12, <2>1 DEF HeldApart
    <2>6. \A u, v \in Busy' : work'[u].run = work'[v].run => u = v
      BY <1>6, <1>7, <1>9, <1>11, <1>12, <2>1 DEF HeldApart
    <2>. QED  BY <1>5, <2>2, <2>3, <2>4, <2>5, <2>6 DEF HeldApart
  <1>16. HeldTrue'
    <2>1. /\ \A d \in Caller : \A y \in Waiting(d) : Fresh(y)'
          /\ \A y \in Queued : Fresh(y)'
          /\ \A v \in Busy : WorkTrue(v)'
      BY <1>2, <1>3, <1>12, StillTrue DEF HandsInv
    <2>2. WorkTrue(w)'
      <3>1. work'[w].run = r /\ work'[w].pc = "start" /\ r \in Run
        BY <1>5, <1>6, <1>7
      <3>2. outcome'[r] = "active" /\ Untouched(r)'
        BY <1>5, <2>1 DEF Fresh
      <3>. QED  BY <3>1, <3>2 DEF WorkTrue
    <2>. QED  BY <1>5, <1>9, <1>10, <2>1, <2>2 DEF HeldTrue
  <1>17. ActiveSomewhere'
    <2>. SUFFICES ASSUME NEW y \in Unfinished \ lost, ~deadline
                  PROVE  \/ \E d \in Caller : y \in Waiting(d)'
                         \/ y \in Queued'
                         \/ \E v \in Busy' : work'[v].run = y
      BY <1>1 DEF ActiveSomewhere, Unfinished
    <2>1. \/ \E d \in Caller : y \in Waiting(d)
          \/ y \in Queued
          \/ \E v \in Busy : work[v].run = y
      BY DEF HandsInv, ActiveSomewhere
    <2>. QED  BY <1>5, <1>6, <1>7, <1>9, <1>10, <1>12, <2>1
  <1>18. Balance'
    <2>1. HeldSlots' = HeldSlots
      BY <1>1 DEF HeldSlots
    <2>2. Cardinality(HeldSlots) \in Nat
      <3>1. Tick \in Caller /\ call' = [call EXCEPT ![Tick] = call[Tick]] /\ call[Tick] \in CallType
        BY <1>1, <1>4 DEF Caller
      <3>. QED  BY <1>4, <3>1, SlotsOf
    <2>3. slots = Cardinality(HeldSlots) + Len(queue) + Cardinality(Busy)
      BY DEF HandsInv, Balance
    <2>. QED  BY <1>1, <1>5, <1>9, <2>1, <2>2, <2>3 DEF Balance
  <1>19. Shutting'
    <2>1. \A v \in Workers : work[v].pc # "out"
      BY <1>1 DEF HandsInv, Shutting
    <2>2. \A v \in Workers : work'[v].pc # "out" /\ (work'[v].pc = "idle" => work'[v] = Free)
      <3>. TAKE v \in Workers
      <3>1. CASE v = w
        BY <1>6, <1>7, <3>1
      <3>2. CASE v # w
        BY <1>7, <2>1, <3>2 DEF HandsInv, Shutting
      <3>. QED  BY <3>1, <3>2
    <2>3. phase # "closed"
      BY <1>1 DEF HandsInv, Shutting, Free
    <2>. QED  BY <1>1, <2>2, <2>3 DEF HandsInv, Shutting
  <1>. QED  BY <1>13, <1>14, <1>15, <1>16, <1>17, <1>18, <1>19 DEF HandsInv

\* A busy worker goes on with its run.
LEMMA GoesHands ==
  ASSUME AlertTypes, AlertTypes', RunTypes, HandsInv, NEW w \in Busy,
         work' \in [Workers -> WorkType], \A v \in Workers \ {w} : work'[v] = work[v],
         work'[w].run = work[w].run, work'[w].pc \in Steps,
         UNCHANGED <<call, slots, queue, phase, deadline, lost>>,
         KeptBut({work[w].run}), Unfinished' \subseteq Unfinished, WorkTrue(w)'
  PROVE  HandsInv'
  <1>. DEFINE r == work[w].run
  <1>1. w \in Workers /\ \A v \in Busy : v \in Workers
    BY DEF Busy
  <1>2. Busy' = Busy
    BY <1>1, BusyOf
  <1>3. Queued' = Queued /\ \A d \in Caller : Waiting(d)' = Waiting(d)
    BY DEF Queued, Waiting
  <1>4. \A v \in Busy : work'[v].run = work[v].run
    BY <1>1
  <1>5. HandTypes' /\ CallsSound'
    BY DEF HandsInv, HandTypes, CallsSound
  <1>6. HeldApart
    BY DEF HandsInv
  <1>7. HeldApart'
    BY <1>2, <1>3, <1>4, <1>6 DEF HeldApart
  <1>8. HeldTrue'
    <2>1. /\ \A d \in Caller : \A y \in Waiting(d) \ {r} : Fresh(y)'
          /\ \A y \in Queued \ {r} : Fresh(y)'
          /\ \A v \in Busy : work'[v] = work[v] /\ work[v].run \notin {r} => WorkTrue(v)'
      BY StillTrue DEF HandsInv
    <2>2. r \notin Queued /\ \A d \in Caller : r \notin Waiting(d)
      BY <1>6 DEF HeldApart
    <2>3. \A v \in Busy : WorkTrue(v)'
      <3>. TAKE v \in Busy
      <3>1. CASE v = w
        BY <3>1
      <3>2. CASE v # w
        <4>1. work[v].run # r /\ work'[v] = work[v]
          BY <1>1, <1>6, <3>2 DEF HeldApart
        <4>. QED  BY <2>1, <4>1
      <3>. QED  BY <3>1, <3>2
    <2>. QED  BY <1>2, <1>3, <2>1, <2>2, <2>3 DEF HeldTrue
  <1>9. ActiveSomewhere'
    <2>. SUFFICES ASSUME NEW y \in Unfinished \ lost, ~deadline
                  PROVE  \/ \E d \in Caller : y \in Waiting(d)'
                         \/ y \in Queued'
                         \/ \E v \in Busy' : work'[v].run = y
      BY DEF ActiveSomewhere
    <2>1. \/ \E d \in Caller : y \in Waiting(d)
          \/ y \in Queued
          \/ \E v \in Busy : work[v].run = y
      BY DEF HandsInv, ActiveSomewhere
    <2>. QED  BY <1>2, <1>3, <1>4, <2>1
  <1>10. Balance'
    <2>1. HeldSlots' = HeldSlots
      BY DEF HeldSlots
    <2>. QED  BY <1>2, <2>1 DEF HandsInv, Balance
  <1>11. Shutting'
    <2>1. work[w].pc \in Steps
      BY DEF Busy
    <2>2. \A v \in Workers : /\ work'[v].pc = "idle" => work'[v] = Free
                             /\ work'[v].pc = "out" => work[v].pc = "out"
      BY DEF HandsInv, Shutting, Steps
    <2>3. phase # "closed"
      BY <1>1, <2>1 DEF HandsInv, Shutting, Steps
    <2>. QED  BY <2>2, <2>3 DEF HandsInv, Shutting
  <1>. QED  BY <1>5, <1>7, <1>8, <1>9, <1>10, <1>11 DEF HandsInv

\* A worker lets go of its run, which is over, or the grace period is.
LEMMA LeavesHands ==
  ASSUME AlertTypes, AlertTypes', RunTypes, HandsInv, NEW w \in Busy, Leaves(w),
         UNCHANGED <<call, queue, phase, deadline, lost>>,
         KeptBut({work[w].run}), Unfinished' \subseteq Unfinished,
         deadline \/ work[w].run \notin Unfinished'
  PROVE  HandsInv'
  <1>. DEFINE r == work[w].run
  <1>1. w \in Workers /\ work[w].pc \in Steps /\ \A v \in Busy : v \in Workers
    BY DEF Busy
  <1>2. call \in [Caller -> CallType] /\ queue \in Seq(Run) /\ work \in [Workers -> WorkType]
        /\ slots \in 0 .. Capacity
    BY DEF HandsInv, HandTypes
  <1>3. Free \in WorkType /\ Free.pc = "idle"
    BY DEF WorkType, Free
  <1>4. /\ work' \in [Workers -> WorkType]
        /\ work'[w] = Free /\ \A v \in Workers \ {w} : work'[v] = work[v]
    BY <1>1, <1>2, <1>3 DEF Leaves
  <1>5. work'[w].pc \notin Steps
    BY <1>3, <1>4 DEF Steps
  <1>6. /\ Busy' = Busy \ {w} /\ Cardinality(Busy') = Cardinality(Busy) - 1
        /\ Cardinality(Busy) \in Nat
    BY <1>1, <1>4, <1>5, BusyOf
  <1>7. Cardinality(Busy') \in Nat
    BY AlertRunsConstants, FS_Subset, FS_CardinalityType DEF Busy
  <1>8. Queued' = Queued /\ \A d \in Caller : Waiting(d)' = Waiting(d)
    BY DEF Queued, Waiting
  <1>9. \A v \in Busy' : v \in Busy /\ v # w /\ work'[v] = work[v]
    BY <1>1, <1>4, <1>6
  <1>10. HeldApart
    BY DEF HandsInv
  <1>11. CallsSound'
    BY DEF HandsInv, CallsSound
  <1>12. HeldApart'
    BY <1>8, <1>9, <1>10 DEF HeldApart
  <1>13. HeldTrue'
    <2>1. /\ \A d \in Caller : \A y \in Waiting(d) \ {r} : Fresh(y)'
          /\ \A y \in Queued \ {r} : Fresh(y)'
          /\ \A v \in Busy : work'[v] = work[v] /\ work[v].run \notin {r} => WorkTrue(v)'
      BY StillTrue DEF HandsInv
    <2>2. r \notin Queued /\ \A d \in Caller : r \notin Waiting(d)
      BY <1>10 DEF HeldApart
    <2>3. \A v \in Busy' : WorkTrue(v)'
      <3>. TAKE v \in Busy'
      <3>1. work[v].run # r /\ work'[v] = work[v] /\ v \in Busy
        BY <1>9, <1>10 DEF HeldApart
      <3>. QED  BY <2>1, <3>1
    <2>. QED  BY <1>8, <2>1, <2>2, <2>3 DEF HeldTrue
  <1>14. ActiveSomewhere'
    <2>. SUFFICES ASSUME NEW y \in Unfinished' \ lost, ~deadline
                  PROVE  \/ \E d \in Caller : y \in Waiting(d)'
                         \/ y \in Queued'
                         \/ \E v \in Busy' : work'[v].run = y
      BY DEF ActiveSomewhere
    <2>1. \/ \E d \in Caller : y \in Waiting(d)
          \/ y \in Queued
          \/ \E v \in Busy : work[v].run = y
      BY DEF HandsInv, ActiveSomewhere
    <2>2. y # r
      OBVIOUS
    <2>3. \A v \in Busy : work[v].run = y => v \in Busy'
      BY <1>6, <2>2
    <2>. QED  BY <1>8, <1>9, <2>1, <2>3
  <1>15. slots' \in 0 .. Capacity /\ Balance'
    <2>1. HeldSlots' = HeldSlots
      BY DEF HeldSlots
    <2>2. Cardinality(HeldSlots) \in Nat
      <3>1. Tick \in Caller /\ call' = [call EXCEPT ![Tick] = call[Tick]] /\ call[Tick] \in CallType
        BY <1>2 DEF Caller
      <3>. QED  BY <1>2, <3>1, SlotsOf
    <2>3. slots = Cardinality(HeldSlots) + Len(queue) + Cardinality(Busy) /\ Len(queue) \in Nat
      BY <1>2 DEF HandsInv, Balance
    <2>4. slots' = slots - 1
      BY DEF Leaves
    <2>5. Capacity \in Nat
      BY Runs
    <2>6. slots' = Cardinality(HeldSlots') + Len(queue') + Cardinality(Busy')
      BY <1>6, <2>1, <2>2, <2>3, <2>4
    <2>7. slots' \in 0 .. Capacity
      BY <1>2, <1>6, <1>7, <2>2, <2>3, <2>4, <2>5
    <2>. QED  BY <2>6, <2>7 DEF Balance
  <1>16. HandTypes'
    BY <1>2, <1>4, <1>15 DEF HandTypes
  <1>17. Shutting'
    <2>1. \A v \in Workers : /\ work'[v].pc = "idle" => work'[v] = Free
                             /\ work'[v].pc = "out" => work[v].pc = "out"
      BY <1>3, <1>4 DEF HandsInv, Shutting
    <2>2. phase # "closed"
      BY <1>1 DEF HandsInv, Shutting, Steps
    <2>. QED  BY <2>1, <2>2 DEF HandsInv, Shutting
  <1>. QED  BY <1>11, <1>12, <1>13, <1>14, <1>15, <1>16, <1>17 DEF HandsInv

\* A worker that found the queue closed and empty is gone.
LEMMA OutHands ==
  ASSUME AlertTypes, RunTypes, HandsInv, NEW w \in Workers, Leave(w)
  PROVE  HandsInv'
  <1>1. /\ phase = "drained" /\ work[w] = Free /\ queue = <<>>
        /\ work' = [work EXCEPT ![w].pc = "out"]
        /\ UNCHANGED <<call, queue, slots, phase, deadline, outcome, lost>>
    BY DEF Leave, runRows, closing, bounds
  <1>2. /\ AlertTypes' /\ UNCHANGED <<outcome, signedBy, gen, search, posts, delivery, attached, received>>
    BY DEF Leave, alertRows, runRows, outside, AlertTypes
  <1>3. KeptBut({})
    BY <1>2, AllKept
  <1>4. work \in [Workers -> WorkType]
    BY DEF HandsInv, HandTypes
  <1>5. PICK x \in WorkType : x.pc = "out" /\ work' = [work EXCEPT ![w] = x]
    <2>. DEFINE x == [work[w] EXCEPT !.pc = "out"]
    <2>1. x \in WorkType /\ x.pc = "out"
      BY <1>4 DEF WorkType
    <2>2. work' = [work EXCEPT ![w] = x]
      BY <1>1
    <2>. QED  BY <2>1, <2>2
  <1>6. /\ work' \in [Workers -> WorkType]
        /\ work'[w].pc = "out" /\ \A v \in Workers \ {w} : work'[v] = work[v]
    BY <1>4, <1>5
  <1>7. Busy' = Busy /\ \A v \in Busy : work'[v] = work[v]
    BY <1>1, <1>6 DEF Busy, Free, Steps
  <1>8. Queued' = Queued /\ \A d \in Caller : Waiting(d)' = Waiting(d)
    BY <1>1 DEF Queued, Waiting
  <1>9. HandTypes' /\ CallsSound'
    BY <1>1, <1>6 DEF HandsInv, HandTypes, CallsSound
  <1>10. HeldApart'
    BY <1>1, <1>7, <1>8 DEF HandsInv, HeldApart
  <1>11. HeldTrue'
    <2>1. /\ \A d \in Caller : \A r \in Waiting(d) : Fresh(r)'
          /\ \A r \in Queued : Fresh(r)'
          /\ \A v \in Busy : WorkTrue(v)'
      BY <1>2, <1>3, <1>7, StillTrue DEF HandsInv
    <2>. QED  BY <1>7, <1>8, <2>1, Zenon DEF HeldTrue
  <1>12. ActiveSomewhere'
    BY <1>1, <1>7, <1>8 DEF HandsInv, ActiveSomewhere, Unfinished
  <1>13. Balance'
    <2>1. HeldSlots' = HeldSlots
      BY <1>1 DEF HeldSlots
    <2>. QED  BY <1>1, <1>7, <2>1 DEF HandsInv, Balance
  <1>14. Shutting'
    BY <1>1, <1>6 DEF HandsInv, Shutting
  <1>. QED  BY <1>9, <1>10, <1>11, <1>12, <1>13, <1>14 DEF HandsInv
-----------------------------------------------------------------------------
(* Steps that leave the rows alone, and the steps of a worker.              *)

RowsInv ==
  /\ RunTypes /\ RowsInOrder /\ OneActive /\ SecretsGrow /\ RowsTrue /\ LastTrue

\* The invariant, as its halves.
LEMMA InvParts ==
  /\ AlertsInv <=> AlertTypes /\ WorldTypes /\ RowsInv /\ HandsInv
  /\ AlertsInv' <=> AlertTypes' /\ WorldTypes' /\ RowsInv' /\ HandsInv'
  BY DEF AlertsInv, RowsInv, HandsInv

\* Calls, shutdown and the clock touch neither rows nor the world.
LEMMA RowsStay ==
  ASSUME AlertTypes, WorldTypes, RowsInv, UNCHANGED <<alerts, gen, runRows, outside>>,
         upsets' \in Int, upsets' >= upsets
  PROVE  RowsInv'
  <1>1. UNCHANGED <<last, outcome, at, signedBy, delivery, attached, search, posts, received>>
    BY DEF runRows, outside
  <1>2. RunTypes' /\ RowsInOrder' /\ OneActive'
    BY <1>1 DEF RowsInv, RunTypes, RowsInOrder, OneActive, Unfinished
  <1>3. SecretsGrow'
    <2>1. \A a \in Alert : gen[a] \in Int /\ upsets \in Int
      BY DEF AlertTypes, WorldTypes
    <2>. QED  BY <1>1, <2>1 DEF RowsInv, SecretsGrow
  <1>4. RowsTrue'
    BY <1>1 DEF RowsInv, RowsTrue, Untouched, RowTrue
  <1>5. LastTrue'
    BY <1>1 DEF RowsInv, LastTrue
  <1>. QED  BY <1>2, <1>3, <1>4, <1>5 DEF RowsInv

\* Where a worker goes with its run, and what it will say.
MovesTo(w, p, verdict) ==
  /\ work' \in [Workers -> WorkType]
  /\ work'[w].run = work[w].run /\ work'[w].pc = p /\ work'[w].says = verdict
  /\ \A v \in Workers \ {w} : work'[v] = work[v]

\* Both ways in which a worker gets on leave its run as it was.
LEMMA Moves ==
  ASSUME HandTypes, NEW w \in Workers
  PROVE  /\ \A p \in Steps : Goes(w, p) => MovesTo(w, p, work[w].says)
         /\ \A verdict \in Finals : Says(w, verdict) => MovesTo(w, "complete", verdict)
  <1>1. work \in [Workers -> WorkType]
    BY DEF HandTypes
  <1>2. ASSUME NEW x \in WorkType, x.run = work[w].run, work' = [work EXCEPT ![w] = x]
        PROVE  MovesTo(w, x.pc, x.says)
    BY <1>1, <1>2 DEF MovesTo
  <1>3. ASSUME NEW p \in Steps, Goes(w, p) PROVE MovesTo(w, p, work[w].says)
    <2>. DEFINE x == [work[w] EXCEPT !.pc = p]
    <2>1. x \in WorkType /\ x.run = work[w].run /\ x.pc = p /\ x.says = work[w].says
      BY <1>1 DEF WorkType
    <2>2. work' = [work EXCEPT ![w] = x]
      BY <1>3 DEF Goes
    <2>. HIDE DEF x
    <2>3. MovesTo(w, x.pc, x.says)
      BY <1>2, <2>1, <2>2
    <2>. QED  BY <2>1, <2>3
  <1>4. ASSUME NEW verdict \in Finals, Says(w, verdict) PROVE MovesTo(w, "complete", verdict)
    <2>. DEFINE x == [work[w] EXCEPT !.pc = "complete", !.says = verdict]
    <2>1. x \in WorkType /\ x.run = work[w].run /\ x.pc = "complete" /\ x.says = verdict
      BY <1>1 DEF WorkType, Steps
    <2>2. work' = [work EXCEPT ![w] = x]
      BY <1>1, <1>4 DEF Says
    <2>. HIDE DEF x
    <2>3. MovesTo(w, x.pc, x.says)
      BY <1>2, <2>1, <2>2
    <2>. QED  BY <2>1, <2>3
  <1>. QED  BY <1>3, <1>4

\* What happens to a run happens to no other.
WorldBut(r) ==
  \A x \in Run \ {r} :
    /\ search'[x] = search[x] /\ posts'[x] = posts[x]
    /\ x \in delivery' <=> x \in delivery
    /\ x \in attached' <=> x \in attached
    /\ x \in received' <=> x \in received

\* A worker executes the next step of its run.
LEMMA WorkStep ==
  ASSUME AlertsInv, NEW w \in Busy, NEW r \in Run, r = work[w].run, outcome[r] = "active",
         NEW p \in Steps, NEW verdict, MovesTo(w, p, verdict), WorldTypes', WorldBut(r),
         UNCHANGED <<Elsewhere, last, outcome, at, signedBy>>, upsets' >= upsets,
         WorkTrue(w)', RowTrue(r, "active")'
  PROVE  AlertsInv'
  <1>1. /\ UNCHANGED <<alertRows, alerts, gen, last, outcome, at, signedBy>>
        /\ UNCHANGED <<call, slots, queue, phase, deadline, lost>>
    BY DEF Elsewhere, alertRows, closing
  <1>2. AlertTypes /\ WorldTypes /\ RowsInv /\ HandsInv
    BY InvParts
  <1>3. AlertTypes'
    BY <1>1, <1>2 DEF AlertTypes, alertRows
  <1>4. KeptBut({r})
    <2>. SUFFICES ASSUME NEW x \in Run \ {r} PROVE Kept(x)
      BY DEF KeptBut
    <2>1. x[1] \in Alert /\ gen[x[1]] \in Nat
      BY <1>2, Runs DEF AlertTypes
    <2>. QED  BY <1>1, <2>1 DEF Kept, WorldBut
  <1>5. HandsInv'
    <2>1. /\ work' \in [Workers -> WorkType] /\ work'[w].run = work[w].run /\ work'[w].pc \in Steps
          /\ \A v \in Workers \ {w} : work'[v] = work[v]
      BY Zenon DEF MovesTo
    <2>2. Unfinished' = Unfinished /\ KeptBut({work[w].run})
      BY <1>1, <1>4 DEF Unfinished
    <2>. QED  BY <1>1, <1>2, <1>3, <2>1, <2>2, GoesHands DEF RowsInv
  <1>6. RunTypes' /\ RowsInOrder' /\ OneActive' /\ LastTrue'
    BY <1>1, <1>2 DEF RowsInv, RunTypes, RowsInOrder, OneActive, LastTrue, Unfinished
  <1>7. SecretsGrow'
    <2>1. \A a \in Alert : gen[a] \in Int /\ upsets \in Int /\ upsets' \in Int
      BY <1>2 DEF AlertTypes, WorldTypes
    <2>. QED  BY <1>1, <1>2, <2>1 DEF RowsInv, SecretsGrow
  <1>8. RowsTrue'
    <2>. SUFFICES ASSUME NEW x \in Run
                  PROVE  (outcome'[x] = "none" => Untouched(x)') /\ RowTrue(x, outcome[x])'
      BY DEF RowsTrue
    <2>1. (outcome[x] = "none" => Untouched(x)) /\ RowTrue(x, outcome[x])
      BY <1>2 DEF RowsInv, RowsTrue
    <2>2. CASE x = r
      <3>1. RowTrue(x, "active")' /\ outcome'[x] = "active"
        BY <1>1, <2>2
      <3>. QED  BY <3>1
    <2>3. CASE x # r
      <3>1. /\ search'[x] = search[x] /\ posts'[x] = posts[x]
            /\ x \in delivery' <=> x \in delivery
            /\ x \in attached' <=> x \in attached
            /\ x \in received' <=> x \in received
        BY <2>3 DEF WorldBut
      <3>. QED  BY <1>1, <2>1, <3>1 DEF Untouched, RowTrue
    <2>. QED  BY <2>2, <2>3
  <1>. QED  BY <1>3, <1>5, <1>6, <1>7, <1>8, InvParts DEF RowsInv

\* A call that fails or not.
LEMMA Counts ==
  ASSUME WorldTypes, Falters \/ Upset \/ UNCHANGED upsets
  PROVE  upsets' \in 0 .. MaxUpsets /\ upsets' \in Int /\ upsets' >= upsets
  <1>1. upsets \in 0 .. MaxUpsets /\ MaxUpsets \in Nat
    BY Runs DEF WorldTypes
  <1>. QED  BY <1>1 DEF Falters, Upset

\* What a worker knows at each of its steps.
LEMMA Knows ==
  ASSUME AlertsInv, NEW w \in Workers, work[w].pc \in Steps
  PROVE  w \in Busy /\ work[w].run \in Run /\ WorkTrue(w)
  <1>1. w \in Busy
    BY DEF Busy
  <1>2. WorkTrue(w)
    BY <1>1 DEF AlertsInv, HeldTrue
  <1>. QED  BY <1>1, <1>2, Zenon DEF WorkTrue

\* The search is admitted, or the run is over before it began.
LEMMA StartKeeps ==
  ASSUME AlertsInv, NEW w \in Workers, Start(w)
  PROVE  AlertsInv'
  <1>1. work[w].pc = "start" /\ WorldTypes /\ HandTypes
    BY DEF Start, At, AlertsInv
  <1>2. PICK r \in Run : r = work[w].run
    BY <1>1, Knows DEF Steps
  <1>3. w \in Busy /\ outcome[r] = "active" /\ Untouched(r)
    BY <1>1, <1>2, Knows DEF Steps, WorkTrue
  <1>4. UNCHANGED <<Elsewhere, last, outcome, at, signedBy, attached, delivery, posts, received,
                    lost, now, phase, deadline>>
    BY DEF Start, runRows, Elsewhere, closing
  <1>5. upsets' \in 0 .. MaxUpsets /\ upsets' >= upsets
    BY <1>1, Counts DEF Start
  <1>6. RowTrue(r, "active")' /\ (\A verdict \in {"interrupted", "search_failed"} : RowTrue(r, verdict)')
    BY <1>3, <1>4 DEF Untouched, RowTrue
  <1>7. ASSUME NEW verdict \in {"interrupted", "search_failed"}, Says(w, verdict), UNCHANGED search
        PROVE  AlertsInv'
    <2>1. verdict \in Finals /\ "complete" \in Steps
      BY DEF Finals, Steps
    <2>2. MovesTo(w, "complete", verdict)
      BY <1>1, <1>7, <2>1, Moves
    <2>3. WorldTypes' /\ WorldBut(r)
      BY <1>1, <1>4, <1>5, <1>7 DEF WorldTypes, WorldBut
    <2>4. WorkTrue(w)'
      BY <1>2, <1>3, <1>4, <1>6, <2>1, <2>2 DEF MovesTo, WorkTrue
    <2>. QED  BY <1>2, <1>3, <1>4, <1>5, <1>6, <2>1, <2>2, <2>3, <2>4, WorkStep
  <1>8. ASSUME search' = [search EXCEPT ![r] = "running"], Goes(w, "attach")
        PROVE  AlertsInv'
    <2>1. "attach" \in Steps
      BY DEF Steps
    <2>2. MovesTo(w, "attach", work[w].says)
      BY <1>1, <1>8, <2>1, Moves
    <2>3. search' \in [Run -> SearchVerdicts \cup {"none", "running"}] /\ \A x \in Run \ {r} : search'[x] = search[x]
      BY <1>1, <1>8 DEF WorldTypes
    <2>4. WorldTypes' /\ WorldBut(r)
      BY <1>1, <1>4, <1>5, <2>3 DEF WorldTypes, WorldBut
    <2>5. WorkTrue(w)'
      BY <1>2, <1>3, <1>4, <2>2 DEF MovesTo, WorkTrue, Untouched
    <2>. QED  BY <1>2, <1>3, <1>4, <1>5, <1>6, <2>1, <2>2, <2>4, <2>5, WorkStep
  <1>. QED  BY <1>2, <1>7, <1>8 DEF Start

\* A worker decides what to write, or goes on, without touching anything.
LEMMA QuietStep ==
  ASSUME AlertsInv, NEW w \in Workers, work[w].pc \in Steps, NEW r \in Run, r = work[w].run,
         outcome[r] = "active", NEW p \in Steps, NEW verdict, MovesTo(w, p, verdict),
         UNCHANGED <<Elsewhere, runRows, outside>>, Falters \/ Upset \/ UNCHANGED upsets,
         WorkTrue(w)', RowTrue(r, "active")
  PROVE  AlertsInv'
  <1>1. w \in Busy /\ WorldTypes
    BY Knows DEF AlertsInv
  <1>2. UNCHANGED <<Elsewhere, last, outcome, at, signedBy, attached, delivery, search, posts,
                    received, lost, now, phase, deadline, alerts, gen>>
    BY DEF runRows, outside, Elsewhere, closing, alertRows
  <1>3. upsets' \in 0 .. MaxUpsets /\ upsets' >= upsets
    BY <1>1, Counts
  <1>4. WorldTypes' /\ WorldBut(r)
    BY <1>1, <1>2, <1>3 DEF WorldTypes, WorldBut
  <1>5. RowTrue(r, "active")'
    BY <1>2 DEF RowTrue
  <1>. QED  BY <1>1, <1>2, <1>3, <1>4, <1>5, WorkStep

\* A worker that reaches a verdict and touches no row keeps the invariant.
LEMMA QuietSays ==
  ASSUME AlertsInv, NEW w \in Workers, work[w].pc \in Steps, NEW r \in Run, r = work[w].run,
         outcome[r] = "active", NEW verdict \in Finals \ {"overlap_skipped"}, Says(w, verdict),
         UNCHANGED <<Elsewhere, runRows, outside>>, Falters \/ Upset \/ UNCHANGED upsets,
         RowTrue(r, "active"), RowTrue(r, verdict)
  PROVE  AlertsInv'
  <1>1. MovesTo(w, "complete", verdict) /\ "complete" \in Steps
    BY Moves DEF AlertsInv, Steps
  <1>2. UNCHANGED <<outcome, signedBy, attached, delivery, search, posts, received, gen>>
    BY DEF runRows, outside, Elsewhere, alertRows
  <1>3. RowTrue(r, verdict)'
    BY <1>2 DEF RowTrue
  <1>4. WorkTrue(w)'
    BY <1>1, <1>2, <1>3 DEF MovesTo, WorkTrue
  <1>. QED  BY <1>1, <1>4, QuietStep

\* The search is the run's, as far as the row is active.
LEMMA AttachKeeps ==
  ASSUME AlertsInv, NEW w \in Workers, Attach(w)
  PROVE  AlertsInv'
  <1>1. work[w].pc = "attach" /\ work[w].pc \in Steps /\ WorldTypes /\ HandTypes
    BY DEF Attach, At, AlertsInv, Steps
  <1>2. PICK r \in Run : r = work[w].run
    BY <1>1, Knows
  <1>3. w \in Busy /\ outcome[r] = "active" /\ r \notin delivery /\ posts[r] = 0
    BY <1>1, <1>2, Knows DEF WorkTrue
  <1>4. UNCHANGED <<Elsewhere, last, outcome, at, signedBy, delivery, search, posts, received,
                    lost, now, phase, deadline, outside>>
    BY DEF Attach, outside, Elsewhere, closing
  <1>5. upsets' \in 0 .. MaxUpsets /\ upsets' >= upsets /\ (Falters \/ UNCHANGED upsets)
    BY <1>1, Counts DEF Attach
  <1>6. RowTrue(r, "active") /\ RowTrue(r, "search_failed")
    BY <1>3, <1>1 DEF RowTrue
  <1>7. RowTrue(r, "active")' /\ RowTrue(r, "search_failed")'
    BY <1>3, <1>4 DEF RowTrue
  <1>8. "search_failed" \in Finals \ {"overlap_skipped"} /\ {"poll", "complete"} \subseteq Steps
    BY DEF Finals, Steps
  <1>9. CASE Says(w, "search_failed") /\ UNCHANGED attached
    BY <1>1, <1>2, <1>3, <1>4, <1>5, <1>6, <1>8, <1>9, QuietSays DEF runRows
  <1>10. CASE attached' = attached \cup {r} /\ (Goes(w, "poll") \/ Says(w, "search_failed"))
    <2>1. WorldTypes' /\ WorldBut(r)
      BY <1>1, <1>4, <1>5, <1>10 DEF WorldTypes, WorldBut
    <2>2. CASE Goes(w, "poll")
      <3>1. MovesTo(w, "poll", work[w].says)
        BY <1>1, <1>8, <2>2, Moves
      <3>2. WorkTrue(w)'
        BY <1>2, <1>3, <1>4, <1>10, <3>1 DEF MovesTo, WorkTrue
      <3>. QED  BY <1>2, <1>3, <1>4, <1>5, <1>7, <1>8, <2>1, <3>1, <3>2, WorkStep
    <2>3. CASE Says(w, "search_failed")
      <3>1. MovesTo(w, "complete", "search_failed")
        BY <1>1, <1>8, <2>3, Moves
      <3>2. WorkTrue(w)'
        BY <1>2, <1>3, <1>4, <1>7, <1>8, <3>1 DEF MovesTo, WorkTrue
      <3>. QED  BY <1>2, <1>3, <1>4, <1>5, <1>7, <1>8, <2>1, <3>1, <3>2, WorkStep
    <2>. QED  BY <1>10, <2>2, <2>3
  <1>. QED  BY <1>2, <1>9, <1>10 DEF Attach

\* The search ends, and is judged.
LEMMA PollKeeps ==
  ASSUME AlertsInv, NEW w \in Workers, Poll(w)
  PROVE  AlertsInv'
  <1>1. work[w].pc = "poll" /\ work[w].pc \in Steps /\ WorldTypes /\ HandTypes
    BY DEF Poll, At, AlertsInv, Steps
  <1>2. PICK r \in Run : r = work[w].run
    BY <1>1, Knows
  <1>3. w \in Busy /\ outcome[r] = "active" /\ r \notin delivery /\ posts[r] = 0 /\ r \in attached
    BY <1>1, <1>2, Knows DEF WorkTrue
  <1>4. UNCHANGED <<Elsewhere, last, outcome, at, signedBy, attached, delivery, posts, received,
                    lost, now, phase, deadline, runRows>>
    BY DEF Poll, runRows, Elsewhere, closing
  <1>5. upsets' \in 0 .. MaxUpsets /\ upsets' >= upsets /\ (Upset \/ UNCHANGED upsets)
    BY <1>1, Counts DEF Poll
  <1>6. RowTrue(r, "active") /\ RowTrue(r, "search_failed") /\ RowTrue(r, "interrupted")
    BY <1>3, <1>1 DEF RowTrue
  <1>7. "search_failed" \in Finals \ {"overlap_skipped"} /\ {"extend", "complete"} \subseteq Steps
        /\ "interrupted" \in Finals \ {"overlap_skipped"}
    BY DEF Finals, Steps
  <1>8. ASSUME NEW said \in {"search_failed", "interrupted"}, Says(w, said), UNCHANGED search
        PROVE  AlertsInv'
    <2>1. UNCHANGED <<Elsewhere, runRows, outside>>
      BY <1>4, <1>8 DEF outside
    <2>2. said \in Finals \ {"overlap_skipped"} /\ RowTrue(r, said)
      BY <1>6, <1>7
    <2>. QED  BY <1>1, <1>2, <1>3, <1>5, <1>6, <1>8, <2>1, <2>2, QuietSays
  <1>9. ASSUME NEW verdict \in Verdicts, search' = [search EXCEPT ![r] = verdict],
               IF Judgement(verdict) # "triggered" THEN Says(w, Judgement(verdict))
               ELSE Says(w, "interrupted") \/ Goes(w, "extend")
        PROVE  AlertsInv'
    <2>1. verdict \in SearchVerdicts
      BY AlertRunsConstants
    <2>2. /\ search' \in [Run -> SearchVerdicts \cup {"none", "running"}]
          /\ search'[r] = verdict /\ \A x \in Run \ {r} : search'[x] = search[x]
      BY <1>1, <1>9, <2>1 DEF WorldTypes
    <2>3. WorldTypes' /\ WorldBut(r)
      BY <1>1, <1>4, <1>5, <2>2 DEF WorldTypes, WorldBut
    <2>4. RowTrue(r, "active")'
      BY <1>3, <1>4 DEF RowTrue
    <2>5. CASE Goes(w, "extend") /\ Judgement(verdict) = "triggered"
      <3>1. MovesTo(w, "extend", work[w].says)
        BY <1>1, <1>7, <2>5, Moves
      <3>2. verdict = "true"
        BY <2>1, <2>5 DEF SearchVerdicts, Judgement
      <3>3. WorkTrue(w)'
        BY <1>2, <1>3, <1>4, <2>2, <3>1, <3>2 DEF MovesTo, WorkTrue
      <3>. QED  BY <1>2, <1>3, <1>4, <1>5, <1>7, <2>3, <2>4, <3>1, <3>3, WorkStep
    <2>6. ASSUME NEW said \in Finals \ {"overlap_skipped"}, Says(w, said),
                 said = "interrupted" \/ said = Judgement(verdict)
          PROVE  AlertsInv'
      <3>1. MovesTo(w, "complete", said)
        BY <1>1, <2>6, Moves
      <3>2. said \notin {"delivered", "delivery_skipped", "overlap_skipped"}
            /\ (said = "not_triggered" => verdict = "false")
        BY <2>1, <2>6 DEF SearchVerdicts, Judgement
      <3>3. RowTrue(r, said)'
        BY <1>3, <1>4, <2>2, <3>2 DEF RowTrue
      <3>4. WorkTrue(w)'
        BY <1>2, <1>3, <1>4, <3>1, <3>3 DEF MovesTo, WorkTrue
      <3>. QED  BY <1>2, <1>3, <1>4, <1>5, <1>7, <2>3, <2>4, <3>1, <3>4, WorkStep
    <2>7. Judgement(verdict) # "triggered" => Judgement(verdict) \in Finals \ {"overlap_skipped"}
      BY <2>1 DEF SearchVerdicts, Judgement, Finals
    <2>. QED  BY <1>7, <1>9, <2>5, <2>6, <2>7
  <1>. QED  BY <1>2, <1>8, <1>9 DEF Poll

\* The results are linked and retained.
LEMMA ExtendKeeps ==
  ASSUME AlertsInv, NEW w \in Workers, Extend(w)
  PROVE  AlertsInv'
  <1>1. work[w].pc = "extend" /\ work[w].pc \in Steps /\ HandTypes
    BY DEF Extend, At, AlertsInv, Steps
  <1>2. PICK r \in Run : r = work[w].run
    BY <1>1, Knows
  <1>3. /\ outcome[r] = "active" /\ r \in attached /\ search[r] = "true"
        /\ r \notin delivery /\ posts[r] = 0
    BY <1>1, <1>2, Knows DEF WorkTrue
  <1>4. UNCHANGED <<Elsewhere, runRows, outside>> /\ (Falters \/ UNCHANGED upsets)
    BY DEF Extend
  <1>5. UNCHANGED <<outcome, attached, search, delivery, posts>>
    BY <1>4 DEF runRows, outside
  <1>6. RowTrue(r, "active") /\ RowTrue(r, "delivery_failed")
    BY <1>3 DEF RowTrue
  <1>7. "delivery_failed" \in Finals \ {"overlap_skipped"} /\ "secret" \in Steps
    BY DEF Finals, Steps
  <1>8. CASE Goes(w, "secret")
    <2>1. MovesTo(w, "secret", work[w].says)
      BY <1>1, <1>7, <1>8, Moves
    <2>2. WorkTrue(w)'
      BY <1>2, <1>3, <1>5, <2>1 DEF MovesTo, WorkTrue
    <2>. QED  BY <1>1, <1>2, <1>3, <1>4, <1>6, <1>7, <2>1, <2>2, QuietStep
  <1>9. CASE Says(w, "delivery_failed")
    BY <1>1, <1>2, <1>3, <1>4, <1>6, <1>7, <1>9, QuietSays
  <1>. QED  BY <1>8, <1>9 DEF Extend

\* The first look at the generation of the secret, which only grows.
LEMMA CheckSecretKeeps ==
  ASSUME AlertsInv, NEW w \in Workers, CheckSecret(w)
  PROVE  AlertsInv'
  <1>1. work[w].pc = "secret" /\ work[w].pc \in Steps /\ HandTypes
    BY DEF CheckSecret, At, AlertsInv, Steps
  <1>2. PICK r \in Run : r = work[w].run
    BY <1>1, Knows
  <1>3. /\ outcome[r] = "active" /\ r \in attached /\ search[r] = "true"
        /\ r \notin delivery /\ posts[r] = 0
    BY <1>1, <1>2, Knows DEF WorkTrue
  <1>4. UNCHANGED <<Elsewhere, runRows, outside>> /\ (Falters \/ UNCHANGED upsets)
    BY DEF CheckSecret
  <1>5. UNCHANGED <<outcome, attached, search, delivery, posts>>
    BY <1>4 DEF runRows, outside
  <1>6. RowTrue(r, "active") /\ RowTrue(r, "delivery_failed")
    BY <1>3 DEF RowTrue
  <1>7. "authorize" \in Steps /\ {"delivery_failed", "delivery_skipped"} \subseteq Finals \ {"overlap_skipped"}
    BY DEF Finals, Steps
  <1>8. CASE Goes(w, "authorize")
    <2>1. MovesTo(w, "authorize", work[w].says)
      BY <1>1, <1>7, <1>8, Moves
    <2>2. WorkTrue(w)'
      BY <1>2, <1>3, <1>5, <2>1 DEF MovesTo, WorkTrue
    <2>. QED  BY <1>1, <1>2, <1>3, <1>4, <1>6, <1>7, <2>1, <2>2, QuietStep
  <1>9. CASE Says(w, "delivery_failed")
    BY <1>1, <1>2, <1>3, <1>4, <1>6, <1>7, <1>9, QuietSays
  <1>10. CASE gen[r[1]] # signedBy[r] /\ Says(w, "delivery_skipped")
    <2>1. gen[r[1]] > signedBy[r]
      <3>1. signedBy[r] =< gen[r[1]] /\ signedBy[r] \in Int /\ gen[r[1]] \in Int
        BY Runs DEF AlertsInv, SecretsGrow, RunTypes, AlertTypes
      <3>. QED  BY <1>10, <3>1
    <2>2. RowTrue(r, "delivery_skipped")
      BY <1>3, <2>1 DEF RowTrue
    <2>. QED  BY <1>1, <1>2, <1>3, <1>4, <1>6, <1>7, <1>10, <2>2, QuietSays
  <1>. QED  BY <1>2, <1>8, <1>9, <1>10 DEF CheckSecret

\* The delivery is recorded under the generation the run was claimed with.
LEMMA AuthorizeKeeps ==
  ASSUME AlertsInv, NEW w \in Workers, Authorize(w)
  PROVE  AlertsInv'
  <1>1. work[w].pc = "authorize" /\ work[w].pc \in Steps /\ WorldTypes /\ HandTypes
    BY DEF Authorize, At, AlertsInv, Steps
  <1>2. PICK r \in Run : r = work[w].run
    BY <1>1, Knows
  <1>3. /\ w \in Busy /\ outcome[r] = "active" /\ r \in attached /\ search[r] = "true"
        /\ r \notin delivery /\ posts[r] = 0
    BY <1>1, <1>2, Knows DEF WorkTrue
  <1>4. UNCHANGED <<Elsewhere, last, outcome, at, signedBy, attached, outside, search, posts,
                    received, lost, now, phase, deadline>>
    BY DEF Authorize, outside, Elsewhere, closing
  <1>5. (Falters \/ UNCHANGED upsets) /\ upsets' \in 0 .. MaxUpsets /\ upsets' >= upsets
    BY <1>1, Counts DEF Authorize
  <1>6. RowTrue(r, "active") /\ RowTrue(r, "delivery_failed")
    BY <1>3 DEF RowTrue
  <1>7. /\ {"read", "complete"} \subseteq Steps
        /\ {"delivery_failed", "delivery_skipped"} \subseteq Finals \ {"overlap_skipped"}
    BY DEF Finals, Steps
  <1>8. CASE Says(w, "delivery_failed") /\ UNCHANGED delivery
    BY <1>1, <1>2, <1>3, <1>4, <1>5, <1>6, <1>7, <1>8, QuietSays DEF runRows
  <1>9. CASE gen[r[1]] # signedBy[r] /\ Says(w, "delivery_skipped") /\ UNCHANGED delivery
    <2>1. gen[r[1]] > signedBy[r]
      <3>1. signedBy[r] =< gen[r[1]] /\ signedBy[r] \in Int /\ gen[r[1]] \in Int
        BY Runs DEF AlertsInv, SecretsGrow, RunTypes, AlertTypes
      <3>. QED  BY <1>9, <3>1
    <2>2. RowTrue(r, "delivery_skipped")
      BY <1>3, <2>1 DEF RowTrue
    <2>. QED  BY <1>1, <1>2, <1>3, <1>4, <1>5, <1>6, <1>7, <1>9, <2>2, QuietSays DEF runRows
  <1>10. CASE delivery' = delivery \cup {r} /\ (Goes(w, "read") \/ Says(w, "delivery_failed"))
    <2>1. WorldTypes' /\ WorldBut(r)
      BY <1>1, <1>4, <1>5, <1>10 DEF WorldTypes, WorldBut
    <2>2. RowTrue(r, "active")' /\ RowTrue(r, "delivery_failed")'
      BY <1>3, <1>4 DEF RowTrue
    <2>3. CASE Goes(w, "read")
      <3>1. MovesTo(w, "read", work[w].says)
        BY <1>1, <1>7, <2>3, Moves
      <3>2. WorkTrue(w)'
        BY <1>2, <1>3, <1>4, <1>10, <3>1 DEF MovesTo, WorkTrue
      <3>. QED  BY <1>2, <1>3, <1>4, <1>5, <1>7, <2>1, <2>2, <3>1, <3>2, WorkStep
    <2>4. CASE Says(w, "delivery_failed")
      <3>1. MovesTo(w, "complete", "delivery_failed")
        BY <1>1, <1>7, <2>4, Moves
      <3>2. WorkTrue(w)'
        BY <1>2, <1>3, <1>4, <1>7, <2>2, <3>1 DEF MovesTo, WorkTrue
      <3>. QED  BY <1>2, <1>3, <1>4, <1>5, <1>7, <2>1, <2>2, <3>1, <3>2, WorkStep
    <2>. QED  BY <1>10, <2>3, <2>4
  <1>. QED  BY <1>2, <1>3, <1>8, <1>9, <1>10 DEF Authorize

\* The results are read for the payload.
LEMMA ReadKeeps ==
  ASSUME AlertsInv, NEW w \in Workers, ReadResults(w)
  PROVE  AlertsInv'
  <1>1. work[w].pc = "read" /\ work[w].pc \in Steps /\ HandTypes
    BY DEF ReadResults, At, AlertsInv, Steps
  <1>2. PICK r \in Run : r = work[w].run
    BY <1>1, Knows
  <1>3. /\ outcome[r] = "active" /\ r \in attached /\ search[r] = "true"
        /\ r \in delivery /\ posts[r] = 0
    BY <1>1, <1>2, Knows DEF WorkTrue
  <1>4. UNCHANGED <<Elsewhere, runRows, outside>> /\ (Falters \/ UNCHANGED upsets)
    BY DEF ReadResults
  <1>5. UNCHANGED <<outcome, attached, search, delivery, posts>>
    BY <1>4 DEF runRows, outside
  <1>6. RowTrue(r, "active") /\ RowTrue(r, "delivery_unknown")
    BY <1>3 DEF RowTrue
  <1>7. "delivery_unknown" \in Finals \ {"overlap_skipped"} /\ "post" \in Steps
    BY DEF Finals, Steps
  <1>8. CASE Goes(w, "post")
    <2>1. MovesTo(w, "post", work[w].says)
      BY <1>1, <1>7, <1>8, Moves
    <2>2. WorkTrue(w)'
      BY <1>2, <1>3, <1>5, <2>1 DEF MovesTo, WorkTrue
    <2>. QED  BY <1>1, <1>2, <1>3, <1>4, <1>6, <1>7, <2>1, <2>2, QuietStep
  <1>9. CASE Says(w, "delivery_unknown")
    BY <1>1, <1>2, <1>3, <1>4, <1>6, <1>7, <1>9, QuietSays
  <1>. QED  BY <1>8, <1>9 DEF ReadResults

\* The webhook is posted, once.
LEMMA PostKeeps ==
  ASSUME AlertsInv, NEW w \in Workers, Post(w)
  PROVE  AlertsInv'
  <1>1. work[w].pc = "post" /\ work[w].pc \in Steps /\ WorldTypes /\ HandTypes
    BY DEF Post, At, AlertsInv, Steps
  <1>2. PICK r \in Run : r = work[w].run
    BY <1>1, Knows
  <1>3. /\ w \in Busy /\ outcome[r] = "active" /\ r \in attached /\ search[r] = "true"
        /\ r \in delivery /\ posts[r] = 0
    BY <1>1, <1>2, Knows DEF WorkTrue
  <1>4. UNCHANGED <<Elsewhere, last, outcome, at, signedBy, attached, delivery, search, upsets,
                    lost, now, phase, deadline>>
    BY DEF Post, runRows, Elsewhere, closing
  <1>5. upsets' >= upsets
    BY <1>4, <1>1 DEF WorldTypes
  <1>6. /\ posts' = [posts EXCEPT ![r] = Smaller(2, @ + 1)]
        /\ \/ received' = received \cup {r} /\ Says(w, "delivered")
           \/ received' \in {received, received \cup {r}} /\ Says(w, "delivery_failed")
    BY <1>2 DEF Post
  <1>7. posts' \in [Run -> 0 .. 2] /\ posts'[r] = 1 /\ \A x \in Run \ {r} : posts'[x] = posts[x]
    BY <1>1, <1>3, <1>6 DEF WorldTypes, Smaller
  <1>8. WorldTypes' /\ WorldBut(r)
    BY <1>1, <1>4, <1>6, <1>7 DEF WorldTypes, WorldBut
  <1>9. RowTrue(r, "active")' /\ RowTrue(r, "delivery_failed")'
    BY <1>3, <1>4, <1>7 DEF RowTrue
  <1>10. {"delivered", "delivery_failed"} \subseteq Finals \ {"overlap_skipped"} /\ "complete" \in Steps
    BY DEF Finals, Steps
  <1>11. ASSUME NEW said \in {"delivered", "delivery_failed"}, Says(w, said), RowTrue(r, said)'
         PROVE  AlertsInv'
    <2>1. MovesTo(w, "complete", said)
      BY <1>1, <1>10, <1>11, Moves
    <2>2. WorkTrue(w)'
      BY <1>2, <1>3, <1>4, <1>10, <1>11, <2>1 DEF MovesTo, WorkTrue
    <2>. QED  BY <1>2, <1>3, <1>4, <1>5, <1>8, <1>9, <1>10, <2>1, <2>2, WorkStep
  <1>12. received' = received \cup {r} => RowTrue(r, "delivered")'
    BY <1>3, <1>4, <1>7 DEF RowTrue
  <1>. QED  BY <1>6, <1>9, <1>11, <1>12

-----------------------------------------------------------------------------
(* The outcome is written.                                                  *)

\* Rows that end or stay are kept.
LEMMA EndedKept ==
  ASSUME AlertTypes, NEW S, \A r \in Run \ S : EndsOrStays(r) /\ signedBy'[r] = signedBy[r],
         UNCHANGED <<gen, attached, delivery, outside>>
  PROVE  /\ KeptBut(S)
         /\ \A r \in Run \ S : outcome'[r] = "active" => outcome[r] = "active"
  <1>1. UNCHANGED <<search, posts, received>>
    BY DEF outside
  <1>2. ASSUME NEW r \in Run \ S, outcome[r] # "none" PROVE Kept(r)
    <2>2. /\ outcome[r] = "active" => outcome'[r] = "active"
          /\ outcome'[r] # "none" /\ signedBy'[r] = signedBy[r]
      BY <1>2 DEF EndsOrStays, Finals
    <2>3. gen[r[1]] =< gen'[r[1]]
      <3>1. gen[r[1]] \in Nat
        BY Runs DEF AlertTypes
      <3>. QED  BY <3>1
    <2>. QED  BY <1>1, <2>2, <2>3 DEF Kept
  <1>3. KeptBut(S)
    BY <1>2 DEF KeptBut
  <1>4. \A r \in Run \ S : outcome'[r] = "active" => outcome[r] = "active"
    BY DEF EndsOrStays
  <1>. QED  BY <1>3, <1>4

\* A worker's attempts to write the outcome, however they are answered.
LEMMA CompleteKeeps ==
  ASSUME AlertsInv, NEW w \in Workers, Complete(w)
  PROVE  AlertsInv' /\ Advance
  <1>1. /\ work[w].pc = "complete" /\ work[w].pc \in Steps
        /\ AlertTypes /\ WorldTypes /\ RowsInv /\ HandsInv
    BY InvParts DEF Complete, At, Steps
  <1>2. PICK r \in Run : r = work[w].run
    BY <1>1, Knows
  <1>3. PICK verdict : verdict = work[w].says
    OBVIOUS
  <1>4. /\ w \in Busy /\ outcome[r] # "none" /\ RowTrue(r, verdict)
        /\ verdict \in Finals \ {"overlap_skipped"}
    BY <1>1, <1>2, <1>3, Knows DEF WorkTrue
  <1>5. /\ UNCHANGED <<alertRows, alerts, gen, at, signedBy, attached, delivery, outside, call, queue,
                       phase, deadline, lost, now>>
        /\ UNCHANGED <<search, posts, received>>
    BY DEF Complete, alertRows, outside, closing
  <1>6. upsets' \in 0 .. MaxUpsets /\ upsets' \in Int /\ upsets' >= upsets
    BY <1>1, Counts DEF Complete
  <1>7. AlertTypes' /\ WorldTypes'
    BY <1>1, <1>5, <1>6 DEF AlertTypes, WorldTypes, alertRows
  <1>8. RowTrue(r, verdict)'
    BY <1>4, <1>5 DEF RowTrue
  <1>9. ASSUME UNCHANGED work, UNCHANGED slots, KeptBut({r}), Unfinished' \subseteq Unfinished,
               outcome'[r] # "none"
        PROVE  HandsInv'
    <2>1. work \in [Workers -> WorkType]
      BY <1>1 DEF HandsInv, HandTypes
    <2>2. WorkTrue(w)'
      BY <1>1, <1>2, <1>3, <1>4, <1>8, <1>9 DEF WorkTrue
    <2>. QED  BY <1>1, <1>2, <1>4, <1>5, <1>7, <1>9, <2>1, <2>2, GoesHands DEF RowsInv
  <1>10. ASSUME Leaves(w), KeptBut({r}), Unfinished' \subseteq Unfinished,
                deadline \/ r \notin Unfinished'
         PROVE  HandsInv'
    BY <1>1, <1>2, <1>4, <1>5, <1>7, <1>10, LeavesHands DEF RowsInv
  <1>11. CASE UNCHANGED <<outcome, last>>
    <2>1. RowsInv'
      BY <1>1, <1>5, <1>6, <1>11, RowsStay DEF runRows
    <2>2. KeptBut({r}) /\ Unfinished' \subseteq Unfinished /\ outcome'[r] # "none"
      <3>1. KeptBut({})
        BY <1>1, <1>5, <1>11, AllKept
      <3>. QED  BY <1>4, <1>11, <3>1 DEF KeptBut, Unfinished
    <2>3. \/ Leaves(w) /\ (deadline \/ r \notin Unfinished')
          \/ UNCHANGED work /\ UNCHANGED slots
      <3>1. outcome[r] # "active" => r \notin Unfinished'
        BY <1>11 DEF Unfinished
      <3>2. Settle(r, verdict) /\ outcome[r] = "active" => FALSE
        <4>. SUFFICES ASSUME Settle(r, verdict), outcome[r] = "active" PROVE FALSE
          OBVIOUS
        <4>1. r \in Unfinished
          BY <1>4, <1>2 DEF Unfinished
        <4>2. outcome'[r] \in Finals \cup {"gone"}
          BY <1>1, <1>4, <1>5, <4>1, SettleRows DEF RowsInv
        <4>. QED  BY <1>11, <4>2 DEF Finals
      <3>. QED  BY <1>2, <1>3, <3>1, <3>2 DEF Complete
    <2>4. HandsInv'
      BY <1>9, <1>10, <2>2, <2>3
    <2>5. Advance
      BY <1>11 DEF Advance, EndsOrStays
    <2>. QED  BY <1>7, <2>1, <2>4, <2>5, InvParts
  <1>12. CASE outcome[r] = "active" /\ Settle(r, verdict)
    <2>1. r \in Unfinished
      BY <1>12 DEF Unfinished
    <2>2. /\ RunTypes' /\ RowsInOrder' /\ OneActive' /\ RowsTrue' /\ LastTrue'
          /\ outcome'[r] \in Finals \cup {"gone"}
          /\ \A x \in Run \ {r} : EndsOrStays(x)
      BY <1>1, <1>4, <1>5, <1>12, <2>1, SettleRows DEF RowsInv
    <2>3. SecretsGrow'
      <3>1. \A a \in Alert : gen[a] \in Int /\ upsets \in Int
        BY <1>1 DEF AlertTypes, WorldTypes
      <3>. QED  BY <1>1, <1>5, <1>6, <3>1 DEF RowsInv, SecretsGrow
    <2>4. KeptBut({r}) /\ \A x \in Run \ {r} : outcome'[x] = "active" => outcome[x] = "active"
      BY <1>1, <1>5, <2>2, EndedKept
    <2>5. Unfinished' \subseteq Unfinished /\ r \notin Unfinished' /\ outcome'[r] # "none"
      BY <2>1, <2>2, <2>4 DEF Unfinished, Finals
    <2>6. Leaves(w) \/ (UNCHANGED work /\ UNCHANGED slots)
      BY DEF Complete
    <2>7. HandsInv'
      BY <1>9, <1>10, <2>4, <2>5, <2>6
    <2>8. Advance
      BY <1>1, <1>5, <2>1, <2>2 DEF Advance, Unfinished, RowsInv, OneActive
    <2>. QED  BY <1>7, <2>2, <2>3, <2>7, <2>8, InvParts DEF RowsInv
  <1>. QED  BY <1>2, <1>3, <1>11, <1>12 DEF Complete

-----------------------------------------------------------------------------
(* Submission.                                                              *)

\* Slots and the queue change hands; rows and the world do not.
LEMMA SubmitKeeps ==
  ASSUME AlertsInv, UNCHANGED <<alertRows, runRows, outside, closing, bounds>>, HandsInv'
  PROVE  AlertsInv'
  <1>1. AlertTypes /\ WorldTypes /\ RowsInv
    BY InvParts
  <1>2. AlertTypes'
    BY <1>1 DEF AlertTypes, alertRows
  <1>3. WorldTypes' /\ upsets' \in Int /\ upsets' >= upsets
    BY <1>1 DEF WorldTypes, runRows, outside, closing, bounds
  <1>4. RowsInv'
    BY <1>1, <1>3, RowsStay DEF alertRows
  <1>. QED  BY <1>2, <1>3, <1>4, InvParts

\* Reserving slots for a claim.
LEMMA ReserveKeeps ==
  ASSUME AlertsInv, NEW c \in Caller, NEW n \in Nat, NEW a \in Alert \cup {None}, Reserve(c, n, a)
  PROVE  AlertsInv'
  <1>1. AlertTypes /\ RunTypes /\ HandsInv
    BY InvParts DEF RowsInv
  <1>2. HandsInv'
    BY <1>1, ReserveHands
  <1>. QED  BY <1>2, SubmitKeeps DEF Reserve

\* A caller puts a run it claimed into the queue.
LEMMA PushKeeps ==
  ASSUME AlertsInv, NEW c \in Caller, Push(c)
  PROVE  AlertsInv'
  <1>1. AlertTypes /\ RunTypes /\ HandsInv
    BY InvParts DEF RowsInv
  <1>2. HandsInv'
    BY <1>1, PushHands
  <1>. QED  BY <1>2, SubmitKeeps DEF Push

\* A worker takes the first run of the queue.
LEMMA TakeKeeps ==
  ASSUME AlertsInv, NEW w \in Workers, Take(w)
  PROVE  AlertsInv'
  <1>1. AlertTypes /\ RunTypes /\ HandsInv
    BY InvParts DEF RowsInv
  <1>2. HandsInv'
    BY <1>1, TakeHands
  <1>. QED  BY <1>2, SubmitKeeps DEF Take

\* A worker leaves when the queue is closed and empty.
LEMMA LeaveKeeps ==
  ASSUME AlertsInv, NEW w \in Workers, Leave(w)
  PROVE  AlertsInv'
  <1>1. AlertTypes /\ RunTypes /\ HandsInv
    BY InvParts DEF RowsInv
  <1>2. HandsInv'
    BY <1>1, OutHands
  <1>. QED  BY <1>2, SubmitKeeps DEF Leave

\* A claim that was not made gives the slots back.
LEMMA ClaimFailsKeeps ==
  ASSUME AlertsInv, NEW c \in Caller, ClaimFails(c)
  PROVE  AlertsInv'
  <1>1. AlertTypes /\ WorldTypes /\ RowsInv /\ HandsInv /\ RunTypes
    BY InvParts DEF RowsInv
  <1>2. /\ call[c].pc = "claim" /\ Return(c, <<>>)
        /\ UNCHANGED <<alertRows, runRows, outside, queue, work, closing, lost, now>>
        /\ Falters \/ UNCHANGED upsets
    BY DEF ClaimFails
  <1>3. UNCHANGED <<alerts, enabled, next, gen, outcome, signedBy, at, last, attached, delivery,
                    search, posts, received, phase, deadline>>
    BY <1>2 DEF alertRows, runRows, outside, closing
  <1>4. upsets' \in 0 .. MaxUpsets /\ upsets' \in Int /\ upsets' >= upsets
    BY <1>1, <1>2, Counts
  <1>5. AlertTypes' /\ WorldTypes'
    BY <1>1, <1>2, <1>3, <1>4 DEF AlertTypes, WorldTypes
  <1>6. RowsInv'
    BY <1>1, <1>2, <1>3, <1>4, RowsStay
  <1>7. HandsInv'
    <2>1. KeptBut({})
      BY <1>1, <1>3, AllKept
    <2>2. Returned(c, <<>>)
      <3>1. call[c].held \in 0 .. Capacity
        BY <1>1 DEF HandsInv, HandTypes, CallType
      <3>. QED  BY <1>2, <1>3, <3>1, RangeOf DEF Returned, Unfinished
    <2>3. <<>> \in Seq(Run)
      BY RangeOf
    <2>. QED  BY <1>1, <1>2, <1>5, <2>1, <2>2, <2>3, ReturnHands
  <1>. QED  BY <1>5, <1>6, <1>7, InvParts

\* What a claim leaves, whether its answer arrives or not.
LEMMA ClaimKeeps ==
  ASSUME AlertsInv, NEW c \in Caller, call[c].pc = "claim",
         NEW as \in SUBSET Alert, NEW t \in Time, Claim(as, t), AlertTypes',
         NEW runs \in Seq(Run), Return(c, runs), Len(runs) =< call[c].held, IsInjective(runs),
         Range(runs) \subseteq {NewRun(a) : a \in {b \in as : Active(b) = {}}},
         \/ Range(runs) = {NewRun(a) : a \in {b \in as : Active(b) = {}}} /\ UNCHANGED lost
         \/ lost' = lost \cup {NewRun(a) : a \in as},
         UNCHANGED <<alerts, gen, attached, delivery, outside, queue, work, closing, now>>,
         Falters \/ UNCHANGED upsets
  PROVE  AlertsInv' /\ Advance
  <1>. DEFINE new == {NewRun(a) : a \in as}
              mine == {NewRun(a) : a \in {b \in as : Active(b) = {}}}
  <1>1. AlertTypes /\ WorldTypes /\ RowsInv /\ HandsInv /\ RunTypes
    BY InvParts DEF RowsInv
  <1>2. upsets' \in 0 .. MaxUpsets /\ upsets' \in Int /\ upsets' >= upsets
    BY <1>1, Counts
  <1>3. /\ RunTypes' /\ RowsInOrder' /\ OneActive' /\ RowsTrue' /\ LastTrue'
        /\ \A r \in Run : signedBy'[r] =< gen[r[1]]
        /\ \A a \in as : NewRun(a) \in Run /\ NewRun(a)[1] = a /\ outcome[NewRun(a)] = "none"
        /\ \A r \in new : IF Active(r[1]) = {} THEN Fresh(r)' ELSE outcome'[r] # "active"
        /\ \A r \in Run \ new : EndsOrStays(r) /\ signedBy'[r] = signedBy[r]
    BY <1>1, ClaimRows DEF RowsInv
  <1>4. WorldTypes'
    <2>1. lost' = lost \/ lost' = lost \cup new
      OBVIOUS
    <2>2. new \subseteq Run
      BY <1>3
    <2>3. lost' \subseteq Run
      BY <1>1, <2>1, <2>2 DEF WorldTypes
    <2>. QED  BY <1>1, <1>2, <2>3 DEF WorldTypes, outside, closing
  <1>5. SecretsGrow'
    <2>1. \A a \in Alert : gen[a] \in Int /\ upsets \in Int
      BY <1>1 DEF AlertTypes, WorldTypes
    <2>. QED  BY <1>1, <1>2, <1>3, <2>1 DEF RowsInv, SecretsGrow
  <1>6. /\ mine \subseteq new /\ new \subseteq Run
        /\ \A r \in mine : r[1] \in as /\ Active(r[1]) = {} /\ r = NewRun(r[1])
        /\ \A r \in new : outcome[r] = "none" /\ (Active(r[1]) = {} => r \in mine)
    <2>1. ASSUME NEW r \in new
          PROVE  r \in Run /\ r[1] \in as /\ r = NewRun(r[1]) /\ outcome[r] = "none"
      <3>1. PICK a \in as : r = NewRun(a)
        OBVIOUS
      <3>. QED  BY <1>3, <3>1
    <2>2. ASSUME NEW r \in mine PROVE r \in new /\ Active(r[1]) = {}
      <3>1. PICK a \in as : r = NewRun(a) /\ Active(a) = {}
        OBVIOUS
      <3>. QED  BY <1>3, <3>1
    <2>3. ASSUME NEW r \in new, Active(r[1]) = {} PROVE r \in mine
      BY <2>1, <2>3
    <2>. HIDE DEF new, mine
    <2>. QED  BY <2>1, <2>2, <2>3
  <1>. HIDE DEF new, mine
  <1>7. /\ KeptBut(new) /\ \A r \in Run \ new : outcome'[r] = "active" => outcome[r] = "active"
    BY <1>1, <1>3, EndedKept
  <1>8. KeptBut({})
    BY <1>6, <1>7 DEF KeptBut
  <1>9. \A r \in mine : Fresh(r)' /\ outcome[r] = "none"
    BY <1>3, <1>6
  <1>10. Range(runs) \subseteq mine
    BY DEF mine
  <1>11. Unfinished' \ lost' \subseteq (Unfinished \ lost) \cup Range(runs)
    <2>1. \A r \in Run : outcome'[r] = "active" => outcome[r] = "active" \/ r \in mine
      BY <1>3, <1>6, <1>7
    <2>2. \/ Range(runs) = mine /\ UNCHANGED lost
          \/ lost' = lost \cup new
      BY DEF mine, new
    <2>. QED  BY <1>6, <2>1, <2>2 DEF Unfinished
  <1>12. Returned(c, runs)
    BY <1>9, <1>10, <1>11 DEF Returned
  <1>13. HandsInv'
    BY <1>1, <1>8, <1>12, ReturnHands
  <1>14. Advance
    BY <1>3, <1>6 DEF Advance, new
  <1>. QED  BY <1>3, <1>4, <1>5, <1>13, <1>14, InvParts DEF RowsInv

\* The scheduler claims the due alerts it has slots for.
LEMMA ClaimDueKeeps ==
  ASSUME AlertsInv, ClaimDue
  PROVE  AlertsInv' /\ Advance
  <1>1. AlertTypes /\ WorldTypes /\ HandTypes /\ CallsSound
    BY DEF AlertsInv
  <1>2. PICK d \in DueFirst(call[Tick].held) :
          /\ Claim(d, Occurrence(now))
          /\ next' = [a \in Alert |-> IF a \in d THEN now + 1 ELSE next[a]]
          /\ \/ Return(Tick, SetToSeq({NewRun(a) : a \in {b \in d : Active(b) = {}}}))
                /\ UNCHANGED <<upsets, lost>>
             \/ d # {} /\ Falters /\ Return(Tick, <<>>) /\ lost' = lost \cup {NewRun(a) : a \in d}
    BY Zenon DEF ClaimDue
  <1>3. /\ call[Tick].pc = "claim"
        /\ UNCHANGED <<alerts, enabled, gen, attached, delivery, outside, queue, work, closing, now>>
    BY Zenon DEF ClaimDue
  <1>4. d \in SUBSET Alert /\ Cardinality(d) = Smaller(call[Tick].held, Cardinality(Due)) /\ d \subseteq Due
    BY <1>1 DEF DueFirst, Due, AlertTypes
  <1>5. Tick \in Caller /\ call[Tick].held \in Nat
    BY <1>1 DEF Caller, HandTypes, CallType
  <1>6. IsFiniteSet(d) /\ Cardinality(d) \in Nat /\ Cardinality(d) =< call[Tick].held
    <2>1. IsFiniteSet(d) /\ IsFiniteSet(Due)
      BY <1>1, <1>4, AlertRunsConstants, FS_Subset DEF Due, AlertTypes
    <2>2. Cardinality(d) \in Nat /\ Cardinality(Due) \in Nat
      BY <2>1, FS_CardinalityType
    <2>. QED  BY <1>4, <1>5, <2>1, <2>2 DEF Smaller
  <1>7. now \in 0 .. MaxNow /\ MaxNow \in Nat /\ MaxRuns \in Nat
    BY <1>1, Runs DEF WorldTypes
  <1>8. Occurrence(now) \in Time
    <2>1. 0 \in 0 .. MaxRuns
      BY <1>7
    <2>2. Occurrence(now) + 0 \in Time
      BY <1>7, <2>1, Times
    <2>3. Occurrence(now) \in Int
      BY <1>7 DEF Occurrence
    <2>. QED  BY <2>2, <2>3
  <1>9. AlertTypes'
    <2>1. next' \in [Alert -> 1 .. MaxNow + 1]
      BY <1>1, <1>2, <1>7 DEF AlertTypes
    <2>. QED  BY <1>1, <1>3, <2>1 DEF AlertTypes
  <1>. DEFINE mine == {NewRun(a) : a \in {b \in d : Active(b) = {}}}
  <1>10. \A a \in d : NewRun(a) \in Run
    BY <1>2 DEF Claim
  <1>11. CASE d # {} /\ Falters /\ Return(Tick, <<>>) /\ lost' = lost \cup {NewRun(a) : a \in d}
    <2>1. <<>> \in Seq(Run) /\ Len(<<>>) =< call[Tick].held /\ IsInjective(<<>>) /\ Range(<<>>) \subseteq mine
      BY <1>5, RangeOf
    <2>. QED  BY <1>2, <1>3, <1>4, <1>5, <1>8, <1>9, <1>11, <2>1, ClaimKeeps
  <1>12. CASE Return(Tick, SetToSeq(mine)) /\ UNCHANGED <<upsets, lost>>
    <2>1. IsFiniteSet(mine) /\ Cardinality(mine) =< call[Tick].held
      <3>. DEFINE D == {b \in d : Active(b) = {}}
      <3>1. IsFiniteSet(D) /\ Cardinality(D) =< Cardinality(d)
        BY <1>6, FS_Subset
      <3>. HIDE DEF D
      <3>2. IsFiniteSet({NewRun(a) : a \in D}) /\ Cardinality({NewRun(a) : a \in D}) =< Cardinality(D)
        <4>. DEFINE f == [a \in D |-> NewRun(a)]
        <4>1. f \in Surjection(D, {NewRun(a) : a \in D})
          BY DEF Surjection
        <4>. QED  BY <3>1, <4>1, FS_Surjection
      <3>3. Cardinality(D) \in Nat /\ Cardinality({NewRun(a) : a \in D}) \in Nat
        BY <3>1, <3>2, FS_CardinalityType
      <3>4. Cardinality({NewRun(a) : a \in D}) =< call[Tick].held
        BY <1>5, <1>6, <3>1, <3>2, <3>3
      <3>. QED  BY <3>2, <3>4 DEF D
    <2>2. mine \subseteq Run
      BY <1>10
    <2>. HIDE DEF mine
    <2>3. /\ SetToSeq(mine) \in Seq(mine) /\ Len(SetToSeq(mine)) = Cardinality(mine)
          /\ Range(SetToSeq(mine)) = mine /\ IsInjective(SetToSeq(mine))
      BY <2>1, Listed
    <2>4. PICK runs : runs = SetToSeq(mine)
      OBVIOUS
    <2>5. runs \in Seq(Run) /\ Len(runs) =< call[Tick].held /\ IsInjective(runs) /\ Range(runs) = mine
      BY <2>1, <2>2, <2>3, <2>4
    <2>6. Range(runs) = {NewRun(a) : a \in {b \in d : Active(b) = {}}} /\ Return(Tick, runs)
      BY <1>12, <2>4, <2>5 DEF mine
    <2>. QED  BY <1>2, <1>3, <1>4, <1>5, <1>8, <1>9, <1>12, <2>5, <2>6, ClaimKeeps
  <1>. QED  BY <1>2, <1>11, <1>12

\* An immediate run.
LEMMA ClaimRunNowKeeps ==
  ASSUME AlertsInv, NEW u \in Users, ClaimRunNow(u)
  PROVE  AlertsInv' /\ Advance
  <1>1. AlertTypes /\ WorldTypes /\ HandTypes /\ CallsSound
    BY DEF AlertsInv
  <1>2. PICK a : a = call[u].for
    OBVIOUS
  <1>3. /\ call[u].pc = "claim" /\ a \in alerts
        /\ \E i \in 1 .. MaxRuns : Claim({a}, Occurrence(now) + i)
        /\ \/ Return(u, IF Active(a) = {} THEN <<NewRun(a)>> ELSE <<>>) /\ UNCHANGED <<upsets, lost>>
           \/ Falters /\ Return(u, <<>>) /\ lost' = lost \cup {NewRun(a)}
        /\ UNCHANGED <<alertRows, attached, delivery, outside, queue, work, closing, now>>
    BY <1>2, Zenon DEF ClaimRunNow
  <1>4. PICK i \in 1 .. MaxRuns : Claim({a}, Occurrence(now) + i)
    BY <1>3
  <1>5. /\ u \in Caller /\ call[u].held \in Nat /\ call[u].held >= 1
        /\ a \in Alert /\ {a} \in SUBSET Alert
    BY <1>1, <1>3 DEF Caller, HandTypes, CallType, CallsSound, AlertTypes
  <1>6. Occurrence(now) + i \in Time
    <2>1. i \in 0 .. MaxRuns /\ now \in 0 .. MaxNow
      BY <1>1, Runs DEF WorldTypes
    <2>. QED  BY <2>1, Times
  <1>7. AlertTypes' /\ UNCHANGED <<alerts, gen>>
    BY <1>1, <1>3 DEF AlertTypes, alertRows
  <1>. DEFINE mine == {NewRun(x) : x \in {b \in {a} : Active(b) = {}}}
  <1>8. /\ {NewRun(x) : x \in {a}} = {NewRun(a)}
        /\ Active(a) = {} => mine = {NewRun(a)}
        /\ Active(a) # {} => mine = {}
    OBVIOUS
  <1>9. NewRun(a) \in Run
    BY <1>4 DEF Claim
  <1>. HIDE DEF mine
  <1>10. ASSUME NEW runs \in Seq(Run), Return(u, runs), Len(runs) =< 1, Len(runs) \in Nat, IsInjective(runs),
                Range(runs) \subseteq mine,
                (Range(runs) = mine /\ UNCHANGED lost) \/ lost' = lost \cup {NewRun(a)},
                Falters \/ UNCHANGED upsets
         PROVE  AlertsInv' /\ Advance
    <2>1. Len(runs) =< call[u].held
      BY <1>5, <1>10
    <2>2. /\ Range(runs) \subseteq {NewRun(x) : x \in {b \in {a} : Active(b) = {}}}
          /\ \/ Range(runs) = {NewRun(x) : x \in {b \in {a} : Active(b) = {}}} /\ UNCHANGED lost
             \/ lost' = lost \cup {NewRun(x) : x \in {a}}
      BY <1>8, <1>10 DEF mine
    <2>. QED  BY <1>3, <1>4, <1>5, <1>6, <1>7, <1>10, <2>1, <2>2, ClaimKeeps
  <1>11. /\ <<>> \in Seq(Run) /\ Len(<<>>) =< 1 /\ Len(<<>>) \in Nat /\ IsInjective(<<>>)
         /\ Range(<<>>) = {} /\ Range(<<>>) \subseteq mine
    BY RangeOf
  <1>12. CASE Falters /\ Return(u, <<>>) /\ lost' = lost \cup {NewRun(a)}
    BY <1>10, <1>11, <1>12, Zenon
  <1>13. CASE Return(u, IF Active(a) = {} THEN <<NewRun(a)>> ELSE <<>>) /\ UNCHANGED <<upsets, lost>>
    <2>1. CASE Active(a) # {}
      <3>1. Return(u, <<>>) /\ UNCHANGED <<upsets, lost>> /\ Range(<<>>) = mine
        BY <1>8, <1>11, <1>13, <2>1
      <3>. QED  BY <1>10, <1>11, <3>1, Zenon
    <2>2. CASE Active(a) = {}
      <3>1. PICK runs : runs = <<NewRun(a)>>
        OBVIOUS
      <3>2. /\ runs \in Seq(Run) /\ Len(runs) = 1 /\ DOMAIN runs = {1} /\ runs[1] = NewRun(a)
        BY <1>9, <3>1
      <3>3. IsInjective(runs) /\ Range(runs) = {NewRun(a)}
        BY <3>2 DEF IsInjective, Range
      <3>4. /\ Return(u, runs) /\ UNCHANGED <<upsets, lost>> /\ Range(runs) = mine
            /\ Len(runs) =< 1 /\ Len(runs) \in Nat
        BY <1>8, <1>13, <2>2, <3>1, <3>2, <3>3
      <3>. QED  BY <1>10, <3>2, <3>3, <3>4, Zenon
    <2>. QED  BY <2>1, <2>2
  <1>. QED  BY <1>3, <1>12, <1>13

-----------------------------------------------------------------------------
(* The API, the clock and shutdown.                                         *)

\* A step that leaves the hands alone, and kept every run.
LEMMA AroundHands ==
  ASSUME AlertsInv, AlertTypes', UNCHANGED Around, KeptBut({}), Unfinished' \subseteq Unfinished
  PROVE  HandsInv'
  <1>1. AlertTypes /\ RunTypes /\ HandsInv
    BY InvParts DEF RowsInv
  <1>2. UNCHANGED memory /\ UNCHANGED <<call, queue, work, phase, deadline, lost>>
    BY DEF Around, memory, closing
  <1>3. Shutting'
    BY <1>1, <1>2 DEF HandsInv, Shutting
  <1>4. HandTypes' /\ CallsSound' /\ HeldApart' /\ HeldTrue' /\ ActiveSomewhere' /\ Balance'
    BY <1>1, <1>2, HandsStay
  <1>. QED  BY <1>3, <1>4 DEF HandsInv

\* Rotation only adds to the generation that runs were signed with.
LEMMA RotateKeeps ==
  ASSUME AlertsInv, NEW a \in Alert, RotateSecret(a)
  PROVE  AlertsInv'
  <1>1. AlertTypes /\ WorldTypes /\ RowsInv
    BY InvParts
  <1>2. /\ a \in alerts /\ gen' = [gen EXCEPT ![a] = @ + 1]
        /\ upsets < MaxUpsets /\ upsets' = upsets + 1
        /\ UNCHANGED <<alerts, enabled, next, runRows, Around>>
    BY DEF RotateSecret, Upset
  <1>3. UNCHANGED <<last, outcome, at, signedBy, attached, delivery, search, posts, received,
                    phase, deadline, lost, now>>
    BY <1>2 DEF runRows, Around, outside, closing
  <1>4. /\ upsets \in Nat /\ MaxUpsets \in Nat /\ upsets' \in 0 .. MaxUpsets
        /\ \A b \in Alert : gen[b] \in 1 .. MaxUpsets + 1 /\ gen[b] =< upsets + 1
    BY <1>1, <1>2, Runs DEF WorldTypes, AlertTypes, RowsInv, SecretsGrow
  <1>5. /\ gen'[a] = gen[a] + 1 /\ \A b \in Alert \ {a} : gen'[b] = gen[b]
        /\ DOMAIN gen' = Alert
    BY <1>1, <1>2 DEF AlertTypes
  <1>6. \A b \in Alert : gen'[b] >= gen[b] /\ gen'[b] \in 1 .. MaxUpsets + 1 /\ gen'[b] =< upsets' + 1
    <2>. TAKE b \in Alert
    <2>1. CASE b = a
      BY <1>2, <1>4, <1>5, <2>1
    <2>2. CASE b # a
      BY <1>2, <1>4, <1>5, <2>2
    <2>. QED  BY <2>1, <2>2
  <1>7. AlertTypes'
    <2>1. gen' \in [Alert -> 1 .. MaxUpsets + 1]
      BY <1>1, <1>2, <1>6 DEF AlertTypes
    <2>. QED  BY <1>1, <1>2, <2>1 DEF AlertTypes
  <1>8. WorldTypes'
    BY <1>1, <1>3, <1>4 DEF WorldTypes
  <1>9. \A r \in Run : r[1] \in Alert /\ signedBy[r] \in Int /\ signedBy[r] =< gen[r[1]]
                       /\ gen[r[1]] \in Int /\ gen'[r[1]] \in Int /\ gen'[r[1]] >= gen[r[1]]
    <2>1. \A r \in Run : r[1] \in Alert /\ signedBy[r] \in Int /\ signedBy[r] =< gen[r[1]]
      BY <1>1, Runs DEF RowsInv, RunTypes, SecretsGrow
    <2>2. \A b \in Alert : gen[b] \in Int /\ gen'[b] \in Int
      BY <1>4, <1>6
    <2>. QED  BY <1>6, <2>1, <2>2
  <1>10. RowsInv'
    <2>1. RunTypes' /\ RowsInOrder' /\ OneActive' /\ LastTrue'
      BY <1>1, <1>2, <1>3 DEF RowsInv, RunTypes, RowsInOrder, OneActive, LastTrue, Unfinished
    <2>2. SecretsGrow'
      BY <1>3, <1>6, <1>9 DEF SecretsGrow
    <2>3. RowsTrue'
      <3>. SUFFICES ASSUME NEW r \in Run
                    PROVE  (outcome'[r] = "none" => Untouched(r)') /\ RowTrue(r, outcome[r])'
        BY DEF RowsTrue
      <3>1. (outcome[r] = "none" => Untouched(r)) /\ RowTrue(r, outcome[r])
        BY <1>1 DEF RowsInv, RowsTrue
      <3>2. gen[r[1]] > signedBy[r] => gen'[r[1]] > signedBy[r]
        BY <1>9
      <3>. QED  BY <1>3, <3>1, <3>2 DEF Untouched, RowTrue
    <2>. QED  BY <2>1, <2>2, <2>3 DEF RowsInv
  <1>11. KeptBut({})
    <2>. SUFFICES ASSUME NEW r \in Run PROVE Kept(r)
      BY DEF KeptBut
    <2>1. gen[r[1]] =< gen'[r[1]]
      BY <1>9
    <2>. QED  BY <1>3, <2>1 DEF Kept
  <1>12. Unfinished' = Unfinished
    BY <1>3 DEF Unfinished
  <1>. QED  BY <1>2, <1>7, <1>8, <1>10, <1>11, <1>12, AroundHands, InvParts

\* Enabling, disabling and updates concern the schedule only.
LEMMA ScheduleKeeps ==
  ASSUME AlertsInv, NEW a \in Alert, SetState(a) \/ Update(a)
  PROVE  AlertsInv'
  <1>1. AlertTypes /\ WorldTypes /\ RowsInv
    BY InvParts
  <1>2. /\ UNCHANGED <<alerts, gen, runRows, Around, outside>> /\ upsets < MaxUpsets /\ upsets' = upsets + 1
        /\ a \in alerts
    BY <1>1 DEF SetState, Update, Upset, Around, AlertTypes
  <1>3. UNCHANGED <<last, outcome, at, signedBy, attached, delivery, search, posts, received,
                    phase, deadline, lost, now>>
    BY <1>2 DEF runRows, Around, outside, closing
  <1>4. upsets \in Nat /\ upsets' \in 0 .. MaxUpsets /\ upsets' >= upsets /\ upsets' \in Int
    BY <1>1, <1>2, Runs DEF WorldTypes
  <1>5. AlertTypes'
    <2>1. now + 1 \in 1 .. MaxNow + 1
      BY <1>1, Runs DEF WorldTypes
    <2>2. /\ enabled' = enabled \/ enabled' = enabled \ {a} \/ enabled' = enabled \cup {a}
          /\ next' = next \/ next' = [next EXCEPT ![a] = now + 1]
      BY DEF SetState, Update
    <2>3. enabled' \subseteq alerts
      BY <1>1, <1>2, <2>2 DEF AlertTypes
    <2>4. next' \in [Alert -> 1 .. MaxNow + 1]
      BY <1>1, <2>1, <2>2 DEF AlertTypes
    <2>. QED  BY <1>1, <1>2, <2>3, <2>4 DEF AlertTypes
  <1>6. WorldTypes'
    BY <1>1, <1>3, <1>4 DEF WorldTypes
  <1>7. RowsInv'
    BY <1>1, <1>2, <1>4, RowsStay
  <1>8. KeptBut({}) /\ Unfinished' = Unfinished
    BY <1>1, <1>2, <1>3, AllKept DEF Unfinished
  <1>. QED  BY <1>2, <1>5, <1>6, <1>7, <1>8, AroundHands, InvParts

\* An alert without an active run goes with its rows.
LEMMA DeleteKeeps ==
  ASSUME AlertsInv, NEW a \in Alert, DeleteIfIdle(a)
  PROVE  AlertsInv' /\ Advance
  <1>1. AlertTypes /\ WorldTypes /\ RowsInv /\ RunTypes
    BY InvParts DEF RowsInv
  <1>2. /\ Active(a) = {} /\ alerts' = alerts \ {a} /\ enabled' = enabled \ {a}
        /\ outcome' = [r \in Run |-> IF r \in Rows(a) THEN "gone" ELSE outcome[r]]
        /\ upsets < MaxUpsets /\ upsets' = upsets + 1
        /\ UNCHANGED <<next, gen, last, at, signedBy, attached, delivery, Around, outside>>
    BY DEF DeleteIfIdle, Upset, Around
  <1>3. UNCHANGED <<search, posts, received, phase, deadline, lost, now>>
    BY <1>2 DEF Around, outside, closing
  <1>4. upsets \in Nat /\ upsets' \in 0 .. MaxUpsets /\ upsets' >= upsets /\ upsets' \in Int
    BY <1>1, <1>2, Runs DEF WorldTypes
  <1>5. AlertTypes'
    BY <1>1, <1>2 DEF AlertTypes
  <1>6. WorldTypes'
    BY <1>1, <1>2, <1>3, <1>4 DEF WorldTypes
  <1>7. \A r \in Run : \/ outcome'[r] = outcome[r]
                       \/ outcome[r] \in Finals /\ outcome'[r] = "gone" /\ r[1] = a
    <2>. TAKE r \in Run
    <2>1. CASE r \in Rows(a)
      <3>1. r[1] = a /\ outcome[r] \in Outcomes \ {"none", "gone", "active"}
        BY <1>1, <1>2, <2>1 DEF Rows, Active, RunTypes
      <3>. QED  BY <1>2, <2>1, <3>1 DEF Outcomes
    <2>2. CASE r \notin Rows(a)
      BY <1>2, <2>2
    <2>. QED  BY <2>1, <2>2
  <1>8. RunTypes'
    <2>1. outcome' \in [Run -> Outcomes]
      <3>1. \A r \in Run : outcome'[r] \in Outcomes
        BY <1>1, <1>7 DEF RunTypes, Outcomes
      <3>. QED  BY <1>2, <3>1
    <2>. QED  BY <1>1, <1>2, <2>1 DEF RunTypes
  <1>9. RowsInOrder'
    <2>1. \A r \in Run : outcome'[r] # "none" <=> outcome[r] # "none"
      BY <1>7 DEF Finals
    <2>2. \A b \in Alert : \A i \in 1 .. MaxRuns : outcome'[<<b, i>>] # "none" <=> outcome[<<b, i>>] # "none"
      BY <2>1, Runs
    <2>. QED  BY <1>1, <2>2 DEF RowsInOrder, RowsInv
  <1>10. OneActive' /\ Unfinished' \subseteq Unfinished
    <2>1. \A r \in Run : outcome'[r] = "active" => outcome[r] = "active" /\ r[1] # a
      BY <1>2, <1>7 DEF Active
    <2>. QED  BY <1>1, <1>2, <2>1 DEF OneActive, Unfinished, RowsInv
  <1>11. SecretsGrow'
    <2>1. \A b \in Alert : gen[b] \in Int /\ upsets \in Int
      BY <1>1 DEF AlertTypes, WorldTypes
    <2>. QED  BY <1>1, <1>2, <1>4, <2>1 DEF RowsInv, SecretsGrow
  <1>12. RowsTrue'
    <2>. SUFFICES ASSUME NEW r \in Run
                  PROVE  (outcome'[r] = "none" => Untouched(r)') /\ RowTrue(r, outcome[r])'
      BY DEF RowsTrue
    <2>1. (outcome[r] = "none" => Untouched(r)) /\ RowTrue(r, outcome[r])
      BY <1>1 DEF RowsInv, RowsTrue
    <2>. QED  BY <1>2, <1>3, <1>7, <2>1 DEF Untouched, RowTrue
  <1>13. LastTrue'
    <2>. SUFFICES ASSUME NEW b \in alerts \ {a} PROVE Latest(b, outcome', at', last'[b])
      BY <1>2 DEF LastTrue
    <2>1. Latest(b, outcome, at, last[b])
      BY <1>1 DEF RowsInv, LastTrue
    <2>2. \A r \in Run : r[1] = b => outcome[r] = outcome'[r] /\ at[r] = at'[r]
      BY <1>2, <1>7
    <2>3. last'[b] = last[b]
      BY <1>2
    <2>. QED  BY <2>1, <2>2, <2>3, LatestSame
  <1>14. KeptBut({})
    <2>1. \A r \in Run \ {} : EndsOrStays(r) /\ signedBy'[r] = signedBy[r]
      BY <1>2, <1>7 DEF EndsOrStays
    <2>. QED  BY <1>1, <1>2, <2>1, EndedKept
  <1>15. HandsInv'
    BY <1>2, <1>5, <1>10, <1>14, AroundHands
  <1>16. Advance
    BY <1>7 DEF Advance, EndsOrStays
  <1>. QED  BY <1>16, <1>5, <1>6, <1>8, <1>9, <1>10, <1>11, <1>12, <1>13, <1>15, InvParts DEF RowsInv

\* The clock and shutdown, as far as nothing is left behind.
LEMMA ClosingKeeps ==
  ASSUME AlertsInv, UNCHANGED <<alertRows, runRows, outside, memory, lost>>,
         WorldTypes', upsets' >= upsets, deadline => deadline', Shutting'
  PROVE  AlertsInv'
  <1>1. AlertTypes /\ WorldTypes /\ RowsInv /\ HandsInv /\ RunTypes
    BY InvParts DEF RowsInv
  <1>2. UNCHANGED <<alerts, enabled, next, gen, outcome, signedBy, search, posts, delivery,
                    attached, received>>
    BY DEF alertRows, runRows, outside
  <1>3. AlertTypes'
    BY <1>1, <1>2 DEF AlertTypes
  <1>4. upsets' \in Int
    BY DEF WorldTypes
  <1>5. RowsInv'
    BY <1>1, <1>2, <1>4, RowsStay
  <1>6. KeptBut({}) /\ Unfinished' = Unfinished
    BY <1>1, <1>2, AllKept DEF Unfinished
  <1>7. HandTypes' /\ CallsSound' /\ HeldApart' /\ HeldTrue' /\ ActiveSomewhere' /\ Balance'
    BY <1>1, <1>3, <1>6, HandsStay
  <1>. QED  BY <1>3, <1>5, <1>7, InvParts DEF HandsInv

\* The clock and the steps of Close.
LEMMA CloseKeeps ==
  ASSUME AlertsInv, Passes \/ CloseBegins \/ CloseQueue \/ GraceEnds \/ CloseEnds
  PROVE  AlertsInv'
  <1>1. WorldTypes /\ Shutting
    BY DEF AlertsInv
  <1>2. UNCHANGED <<alertRows, runRows, outside, memory, lost>> /\ (deadline => deadline')
    <2>1. CASE Passes
      BY <2>1 DEF Passes, closing
    <2>2. CASE CloseBegins
      BY <2>2 DEF CloseBegins
    <2>3. CASE CloseQueue \/ CloseEnds
      BY <2>3 DEF CloseQueue, CloseEnds, bounds
    <2>4. CASE GraceEnds
      BY <2>4 DEF GraceEnds, bounds
    <2>. QED  BY <2>1, <2>2, <2>3, <2>4
  <1>3. UNCHANGED <<search, posts, received, attached, delivery, call, queue, work>>
    BY <1>2 DEF runRows, outside, memory
  <1>4. now' \in 0 .. MaxNow
    BY <1>1, Runs DEF WorldTypes, Passes, CloseBegins, CloseQueue, GraceEnds, CloseEnds, bounds
  <1>5. upsets' \in 0 .. MaxUpsets /\ upsets' >= upsets
    BY <1>1, Counts DEF Passes, CloseBegins, CloseQueue, GraceEnds, CloseEnds, bounds
  <1>6. phase' \in {"open", "closing", "drained", "closed"} /\ deadline' \in BOOLEAN
    BY <1>1 DEF WorldTypes, Passes, CloseBegins, CloseQueue, GraceEnds, CloseEnds, closing
  <1>7. WorldTypes'
    BY <1>1, <1>2, <1>3, <1>4, <1>5, <1>6 DEF WorldTypes
  <1>8. Shutting'
    <2>1. CASE UNCHANGED phase
      BY <1>1, <1>3, <2>1 DEF Shutting
    <2>2. CASE CloseBegins
      <3>1. phase = "open" /\ phase' = "closing"
        BY <2>2 DEF CloseBegins
      <3>. QED  BY <1>1, <1>3, <3>1 DEF Shutting
    <2>3. CASE CloseQueue
      <3>1. phase = "closing" /\ phase' = "drained" /\ \A c \in Caller : call[c] = Idle
        BY <2>3 DEF CloseQueue
      <3>. QED  BY <1>1, <1>3, <3>1 DEF Shutting
    <2>4. CASE CloseEnds
      <3>1. phase = "drained" /\ phase' = "closed" /\ \A w \in Workers : work[w].pc = "out"
        BY <2>4 DEF CloseEnds, At
      <3>. QED  BY <1>1, <1>3, <3>1 DEF Shutting
    <2>. QED  BY <2>1, <2>2, <2>3, <2>4 DEF Passes, GraceEnds, closing
  <1>. QED  BY <1>2, <1>5, <1>7, <1>8, ClosingKeeps

-----------------------------------------------------------------------------
(* Restart and the initial states.                                          *)

\* Nobody holds anything.
AllIdle ==
  /\ call = [c \in Caller |-> Idle] /\ slots = 0 /\ queue = <<>>
  /\ work = [w \in Workers |-> Free] /\ phase = "open"

\* The process as it starts.
LEMMA NothingHeld ==
  AllIdle => HandTypes /\ CallsSound /\ HeldApart /\ HeldTrue /\ Balance /\ Shutting
  <1>. SUFFICES ASSUME AllIdle
                PROVE  HandTypes /\ CallsSound /\ HeldApart /\ HeldTrue /\ Balance /\ Shutting
    OBVIOUS
  <1>. USE DEF AllIdle
  <1>1. Idle \in CallType /\ Idle.pc = "idle" /\ Idle.held = 0 /\ Idle.runs = <<>>
    BY RangeOf, Runs DEF Idle, CallType
  <1>2. Free \in WorkType /\ Free.pc = "idle"
    BY DEF Free, WorkType
  <1>3. \A c \in Caller : call[c] = Idle
    OBVIOUS
  <1>4. \A w \in Workers : work[w] = Free
    OBVIOUS
  <1>5. Busy = {}
    BY <1>2, <1>4 DEF Busy, Steps
  <1>6. Queued = {} /\ \A c \in Caller : Waiting(c) = {} /\ IsInjective(call[c].runs)
    BY <1>1, <1>3, RangeOf DEF Queued, Waiting
  <1>7. HeldSlots = {}
    BY <1>3, NothingInHand
  <1>8. HandTypes
    <2>1. 0 \in 0 .. Capacity
      BY Runs
    <2>. QED  BY <1>1, <1>2, <2>1, RangeOf DEF HandTypes
  <1>9. CallsSound
    BY <1>1, <1>3 DEF CallsSound
  <1>10. HeldApart
    BY <1>5, <1>6, RangeOf DEF HeldApart
  <1>11. HeldTrue
    BY <1>5, <1>6 DEF HeldTrue
  <1>12. Balance
    BY <1>5, <1>7, RangeOf, FS_EmptySet DEF Balance
  <1>13. Shutting
    BY <1>2, <1>4 DEF Shutting
  <1>. QED  BY <1>8, <1>9, <1>10, <1>11, <1>12, <1>13

\* The process ends, and its successor recovers the rows of the runs it had.
LEMMA RestartKeeps ==
  ASSUME AlertsInv, Restart
  PROVE  AlertsInv' /\ Advance
  <1>1. AlertTypes /\ WorldTypes /\ RowsInv
    BY InvParts
  <1>2. PICK v : v = [r \in Run |-> IF r \in Unfinished THEN "interrupted" ELSE outcome[r]]
    OBVIOUS
  <1>3. PICK hit : hit = {r[1] : r \in Unfinished}
    OBVIOUS
  <1>4. PICK E : E = Unfinished
    OBVIOUS
  <1>5. /\ outcome' = Written(hit, v, at)
        /\ last' = [a \in Alert |->
             IF a \notin hit THEN last[a]
             ELSE LET r == CHOOSE r \in Active(a) : TRUE
                  IN  Summarized(last[a], r, at[r], "interrupted")]
    <2>. DEFINE w == [r \in Run |-> IF r \in Unfinished THEN "interrupted" ELSE outcome[r]]
                h == {r[1] : r \in Unfinished}
    <2>1. /\ outcome' = Written(h, w, at)
          /\ last' = [a \in Alert |->
               IF a \notin h THEN last[a]
               ELSE LET r == CHOOSE r \in Active(a) : TRUE
                    IN  Summarized(last[a], r, at[r], "interrupted")]
      BY Zenon DEF Restart
    <2>2. v = w /\ hit = h
      BY <1>2, <1>3
    <2>. HIDE DEF w, h
    <2>. QED  BY <2>1, <2>2
  <1>6. /\ AllIdle' /\ deadline' = FALSE
        /\ upsets < MaxUpsets /\ upsets' = upsets + 1
        /\ UNCHANGED <<alertRows, at, signedBy, attached, delivery, outside, lost, now>>
    BY DEF Restart, AllIdle, Upset
  <1>7. UNCHANGED <<alerts, enabled, next, gen, search, posts, received>>
    BY <1>6 DEF alertRows, outside
  <1>8. upsets \in Nat /\ upsets' \in 0 .. MaxUpsets /\ upsets' >= upsets /\ upsets' \in Int
    BY <1>1, <1>6, Runs DEF WorldTypes
  <1>9. AlertTypes'
    BY <1>1, <1>7 DEF AlertTypes
  <1>10. WorldTypes'
    BY <1>1, <1>6, <1>7, <1>8 DEF WorldTypes, AllIdle
  <1>11. /\ E \in SUBSET Unfinished /\ E \subseteq Run /\ hit \in SUBSET Alert
         /\ "interrupted" \in Finals
    BY <1>3, <1>4, Runs DEF Unfinished, Finals
  <1>12. v \in [Run -> Outcomes]
    <2>1. \A r \in Run : outcome[r] \in Outcomes /\ "interrupted" \in Outcomes
      BY <1>1 DEF RowsInv, RunTypes, Outcomes, Finals
    <2>. QED  BY <1>2, <2>1
  <1>13. Ended(E, "interrupted", v, hit)
    <2>1. \A r \in E : v[r] = "interrupted" /\ r[1] \in hit
      BY <1>2, <1>3, <1>4 DEF Unfinished
    <2>2. \A r \in Run \ E : v[r] = outcome[r]
      BY <1>2, <1>4
    <2>3. \A a \in hit : \E r \in E : r[1] = a
      BY <1>3, <1>4
    <2>4. \A r \in E : RowTrue(r, "interrupted")
      <3>. TAKE r \in E
      <3>1. r \in Run /\ outcome[r] = "active"
        BY <1>4 DEF Unfinished
      <3>2. RowTrue(r, outcome[r])
        BY <1>1, <3>1 DEF RowsInv, RowsTrue
      <3>. QED  BY <3>1, <3>2 DEF RowTrue
    <2>5. /\ \A a \in Alert \ hit : last'[a] = last[a]
          /\ last' = [a \in Alert |-> last'[a]]
      BY <1>5
    <2>6. \A r \in E : last'[r[1]] = Summarized(last[r[1]], r, at[r], "interrupted")
      <3>. TAKE r \in E
      <3>1. r \in Run /\ r \in Unfinished /\ r[1] \in Alert /\ r[1] \in hit
        BY <1>4, <1>11, <2>1
      <3>2. Active(r[1]) = {r}
        BY <1>1, <3>1 DEF Active, Unfinished, RowsInv, OneActive
      <3>3. (CHOOSE x \in Active(r[1]) : TRUE) = r
        BY <3>2
      <3>. QED  BY <1>5, <3>1, <3>3
    <2>7. UNCHANGED <<alerts, gen, at, signedBy, attached, delivery, outside>>
      BY <1>6, <1>7
    <2>. QED  BY <1>5, <2>1, <2>2, <2>3, <2>4, <2>5, <2>6, <2>7, Zenon DEF Ended
  <1>14. /\ RunTypes' /\ RowsInOrder' /\ OneActive' /\ RowsTrue' /\ LastTrue'
         /\ \A r \in E : outcome'[r] \in Finals \cup {"gone"}
         /\ \A r \in Run \ E : EndsOrStays(r)
    BY <1>1, <1>11, <1>12, <1>13, EndRows DEF RowsInv
  <1>15. SecretsGrow'
    <2>1. \A a \in Alert : gen[a] \in Int /\ upsets \in Int
      BY <1>1 DEF AlertTypes, WorldTypes
    <2>. QED  BY <1>1, <1>6, <1>7, <1>8, <2>1 DEF RowsInv, SecretsGrow
  <1>16. ActiveSomewhere'
    <2>1. \A r \in Run : outcome'[r] # "active"
      BY <1>4, <1>14 DEF EndsOrStays, Finals, Unfinished
    <2>. QED  BY <2>1 DEF ActiveSomewhere, Unfinished
  <1>17. HandTypes' /\ CallsSound' /\ HeldApart' /\ HeldTrue' /\ Balance' /\ Shutting'
    BY <1>6, NothingHeld, PTL
  <1>18. Advance
    BY <1>1, <1>4, <1>7, <1>14 DEF Advance, Unfinished, RowsInv, OneActive
  <1>. QED  BY <1>9, <1>10, <1>14, <1>15, <1>16, <1>17, <1>18, InvParts DEF RowsInv, HandsInv

\* At first no run was claimed.
LEMMA InitInv ==
  Init => AlertsInv
  <1>. SUFFICES ASSUME Init PROVE AlertsInv
    OBVIOUS
  <1>1. AllIdle
    BY DEF Init, AllIdle
  <1>2. HandTypes /\ CallsSound /\ HeldApart /\ HeldTrue /\ Balance /\ Shutting
    BY <1>1, NothingHeld
  <1>3. MaxRuns \in Nat /\ MaxNow \in Nat /\ MaxUpsets \in Nat
    BY Runs
  <1>4. AlertTypes
    BY <1>3 DEF Init, AlertTypes
  <1>5. 0 \in Time
    <2>1. Occurrence(MaxNow + 1) \in Nat
      BY <1>3 DEF Occurrence
    <2>. QED  BY <2>1 DEF Time
  <1>6. /\ \A r \in Run : outcome[r] = "none" /\ signedBy[r] = 0 /\ search[r] = "none" /\ posts[r] = 0
        /\ \A a \in Alert : last[a] = [at |-> 0, outcome |-> "none"] /\ gen[a] = 1
        /\ delivery = {} /\ attached = {} /\ received = {} /\ lost = {}
    BY DEF Init
  <1>7. RunTypes
    <2>1. [at |-> 0, outcome |-> "none"] \in LastType
      BY DEF LastType
    <2>2. last \in [Alert -> LastType] /\ outcome \in [Run -> Outcomes] /\ at \in [Run -> Time]
      BY <1>5, <2>1 DEF Init, Outcomes
    <2>3. signedBy \in [Run -> 0 .. MaxUpsets + 1]
      BY <1>3 DEF Init
    <2>. QED  BY <1>5, <1>6, <2>2, <2>3 DEF RunTypes
  <1>8. WorldTypes
    <2>1. search \in [Run -> SearchVerdicts \cup {"none", "running"}] /\ posts \in [Run -> 0 .. 2]
      BY DEF Init
    <2>2. now = 0 /\ upsets = 0 /\ phase = "open" /\ deadline = FALSE
      BY DEF Init
    <2>3. delivery = {} /\ attached = {} /\ received = {} /\ lost = {}
      BY DEF Init
    <2>4. now \in 0 .. MaxNow /\ upsets \in 0 .. MaxUpsets
      BY <1>3, <2>2
    <2>5. phase \in {"open", "closing", "drained", "closed"} /\ deadline \in BOOLEAN
      BY <2>2
    <2>. QED  BY <2>1, <2>3, <2>4, <2>5 DEF WorldTypes
  <1>9. Unfinished = {} /\ \A a \in Alert : RowsOf(a, outcome) = {}
    BY <1>6 DEF Unfinished, RowsOf
  <1>10. RowsInOrder
    <2>. SUFFICES ASSUME NEW a \in Alert
                  PROVE  \E n \in 0 .. MaxRuns : \A i \in 1 .. MaxRuns : outcome[<<a, i>>] # "none" <=> i =< n
      BY DEF RowsInOrder
    <2>1. \A i \in 1 .. MaxRuns : outcome[<<a, i>>] # "none" <=> i =< 0
      BY <1>6, Runs
    <2>2. 0 \in 0 .. MaxRuns
      BY <1>3
    <2>. QED  BY <2>1, <2>2
  <1>11. OneActive /\ ActiveSomewhere
    BY <1>9 DEF OneActive, ActiveSomewhere
  <1>12. SecretsGrow
    BY <1>6, Runs DEF SecretsGrow, Init
  <1>13. RowsTrue
    BY <1>6 DEF RowsTrue, RowTrue, Untouched
  <1>14. LastTrue
    BY <1>4, <1>6, <1>9 DEF LastTrue, Latest, AlertTypes
  <1>. QED  BY <1>2, <1>4, <1>7, <1>8, <1>10, <1>11, <1>12, <1>13, <1>14 DEF AlertsInv

-----------------------------------------------------------------------------
(* Every step, and the theorems.                                            *)

\* Every step keeps the invariant.
LEMMA StepKeeps ==
  AlertsInv /\ [Next]_vars => AlertsInv'
  <1>. SUFFICES ASSUME AlertsInv, [Next]_vars PROVE AlertsInv'
    OBVIOUS
  <1>1. CASE StepBegins
    <2>1. slots \in 0 .. Capacity /\ Capacity \in Nat /\ ClaimLimit \in Nat
      BY Runs, AlertRunsConstants DEF AlertsInv, HandTypes
    <2>2. Smaller(ClaimLimit, Capacity - slots) \in Nat /\ Tick \in Caller
      BY <2>1 DEF Smaller, Caller
    <2>. QED  BY <1>1, <2>2, ReserveKeeps DEF StepBegins
  <1>2. CASE ClaimDue
    BY <1>2, ClaimDueKeeps
  <1>3. ASSUME NEW u \in Users, RunNowBegins(u) PROVE AlertsInv'
    <2>1. u \in Caller /\ 1 \in Nat
      BY DEF Caller
    <2>. QED  BY <1>3, <2>1, ReserveKeeps DEF RunNowBegins
  <1>4. ASSUME NEW u \in Users, ClaimRunNow(u) PROVE AlertsInv'
    BY <1>4, ClaimRunNowKeeps
  <1>5. ASSUME NEW c \in Caller, ClaimFails(c) PROVE AlertsInv'
    BY <1>5, ClaimFailsKeeps
  <1>6. ASSUME NEW c \in Caller, Push(c) PROVE AlertsInv'
    BY <1>6, PushKeeps
  <1>7. ASSUME NEW w \in Workers, Execute(w) PROVE AlertsInv'
    <2>1. CASE Take(w) \/ Leave(w)
      BY <2>1, TakeKeeps, LeaveKeeps
    <2>2. CASE Start(w) \/ Attach(w) \/ Poll(w)
      BY <2>2, StartKeeps, AttachKeeps, PollKeeps
    <2>3. CASE Extend(w) \/ CheckSecret(w) \/ Authorize(w)
      BY <2>3, ExtendKeeps, CheckSecretKeeps, AuthorizeKeeps
    <2>4. CASE ReadResults(w) \/ Post(w) \/ Complete(w)
      BY <2>4, ReadKeeps, PostKeeps, CompleteKeeps
    <2>. QED  BY <1>7, <2>1, <2>2, <2>3, <2>4 DEF Execute
  <1>8. ASSUME NEW a \in Alert, RotateSecret(a) \/ SetState(a) \/ Update(a) \/ DeleteIfIdle(a)
        PROVE  AlertsInv'
    BY <1>8, RotateKeeps, ScheduleKeeps, DeleteKeeps
  <1>9. CASE Passes \/ CloseBegins \/ CloseQueue \/ GraceEnds \/ CloseEnds
    BY <1>9, CloseKeeps
  <1>10. CASE Restart
    BY <1>10, RestartKeeps
  <1>11. CASE UNCHANGED vars
    <2>1. /\ UNCHANGED <<alertRows, runRows, outside, memory, lost>>
          /\ UNCHANGED <<attached, delivery, search, posts, received, lost, now, upsets, phase, deadline>>
          /\ UNCHANGED <<call, queue, work>>
      BY <1>11 DEF vars, runRows, outside, memory, closing, bounds
    <2>2. WorldTypes' /\ Shutting' /\ upsets' >= upsets
      BY <2>1 DEF AlertsInv, WorldTypes, Shutting
    <2>. QED  BY <2>1, <2>2, ClosingKeeps
  <1>. QED  BY <1>1, <1>2, <1>3, <1>4, <1>5, <1>6, <1>7, <1>8, <1>9, <1>10, <1>11 DEF Next, Submit

\* The inductive invariant of alert runs (coordinator.go, service.go, alertstore).
THEOREM AlertsInvariant == Spec => []AlertsInv
  BY InitInv, StepKeeps, PTL DEF Spec

\* Rows, queue, slots and workers hold what they are declared to hold, and the
\* queue never holds more than its capacity (coordinator.go enqueue).
THEOREM AlertsTypeCorrect == Spec => []TypeOK
  <1>1. AlertsInv => TypeOK
    <2>. SUFFICES ASSUME AlertsInv PROVE TypeOK
      OBVIOUS
    <2>1. AlertTypes /\ RunTypes /\ WorldTypes /\ HandTypes /\ Balance
      BY DEF AlertsInv
    <2>2. last \in [Alert -> [at : Time, outcome : Finals \cup {"active", "none"}]]
      <3>1. \A a \in Alert : last[a] \in [at : Time, outcome : Finals \cup {"active", "none"}]
        BY <2>1 DEF RunTypes, LastType
      <3>. QED  BY <2>1, <3>1 DEF RunTypes
    <2>3. \A c \in Caller : call[c].pc \in {"idle", "claim", "push"} /\ call[c].held \in 0 .. Capacity
      BY <2>1 DEF HandTypes, CallType
    <2>4. \A w \in Workers : work[w].pc \in Steps \cup {"idle", "out"} /\ work[w].says \in Finals \cup {None}
      BY <2>1 DEF HandTypes, WorkType
    <2>5. Len(queue) =< Capacity
      <3>1. Cardinality(HeldSlots) \in Nat /\ Cardinality(Busy) \in Nat /\ Len(queue) \in Nat
        BY <2>1, HeldIsFinite, AlertRunsConstants, FS_Subset, FS_CardinalityType DEF Busy, HandTypes
      <3>2. slots \in 0 .. Capacity /\ slots = Cardinality(HeldSlots) + Len(queue) + Cardinality(Busy)
            /\ Capacity \in Nat
        BY <2>1, Runs DEF HandTypes, Balance
      <3>. QED  BY <3>1, <3>2
    <2>6. outcome \in [Run -> Finals \cup {"none", "active", "gone"}] /\ at \in [Run -> Time]
          /\ signedBy \in [Run -> 0 .. MaxUpsets + 1]
      BY <2>1 DEF RunTypes, Outcomes
    <2>. QED  BY <2>1, <2>2, <2>3, <2>4, <2>5, <2>6, Zenon DEF TypeOK, AlertTypes, WorldTypes, HandTypes
  <1>. QED  BY <1>1, AlertsInvariant, PTL

\* The outcome of a run is what happened to its search and to its one POST, and
\* the alert shows its latest, in whatever order runs end (service.go, alertstore).
THEOREM OutcomesTrue == Spec => []OutcomeIsTrue
  <1>1. AlertsInv => OutcomeIsTrue
    <2>. SUFFICES ASSUME AlertsInv PROVE OutcomeIsTrue
      OBVIOUS
    <2>1. RowsTrue /\ LastTrue
      BY DEF AlertsInv
    <2>2. OnePost
      BY <2>1 DEF RowsTrue, RowTrue, OnePost
    <2>3. LastOutcomeIsLatest
      <3>1. \A a : Rows(a) = RowsOf(a, outcome)
        BY DEF Rows, RowsOf
      <3>. QED  BY <2>1, <3>1, Zenon DEF LastTrue, Latest, LastOutcomeIsLatest
    <2>4. \A r \in Run : RowTrue(r, outcome[r])
      BY <2>1 DEF RowsTrue
    <2>. QED  BY <2>2, <2>3, <2>4, Zenon DEF OutcomeIsTrue, RowTrue
  <1>. QED  BY <1>1, AlertsInvariant, PTL

\* An alert has one active run at most, which one party holds with one slot, and
\* after Close nothing is held (coordinator.go Step, RunNow, execute, Close).
THEOREM RunsHeld == Spec => []RunsAreHeld
  <1>1. AlertsInv => RunsAreHeld
    <2>. SUFFICES ASSUME AlertsInv PROVE RunsAreHeld
      OBVIOUS
    <2>1. OneActive /\ HeldApart /\ ActiveSomewhere /\ HandTypes /\ CallsSound /\ Balance /\ Shutting
      BY DEF AlertsInv
    <2>2. Cardinality({}) = 0 /\ \A x : Cardinality({x}) = 1
      BY FS_EmptySet, FS_Singleton
    <2>3. \A a \in Alert : Cardinality(Active(a)) =< 1
      <3>. TAKE a \in Alert
      <3>1. CASE Active(a) = {}
        BY <2>2, <3>1
      <3>2. CASE Active(a) # {}
        <4>1. PICK r : r \in Active(a)
          BY <3>2
        <4>2. \A s \in Active(a) : s = r
          BY <2>1, <4>1 DEF Active, OneActive, Unfinished
        <4>3. Active(a) = {r}
          BY <4>1, <4>2
        <4>4. Cardinality(Active(a)) = 1
          BY <2>2, <4>3
        <4>. QED  BY <4>4
      <3>. QED  BY <3>1, <3>2
    <2>4. ActiveIsHeld
      <3>. SUFFICES ASSUME NEW r \in Unfinished \ lost, ~deadline
                    PROVE  Cardinality({c \in Caller : r \in Range(call[c].runs)})
                           + Cardinality({i \in 1 .. Len(queue) : queue[i] = r})
                           + Cardinality({w \in Busy : work[w].run = r}) = 1
        BY DEF ActiveIsHeld
      <3>. DEFINE A == {c \in Caller : r \in Range(call[c].runs)}
                  B == {i \in 1 .. Len(queue) : queue[i] = r}
                  C == {w \in Busy : work[w].run = r}
      <3>1. DOMAIN queue = 1 .. Len(queue)
        BY <2>1 DEF HandTypes
      <3>2. /\ \A c \in Caller : c \in A <=> r \in Waiting(c)
            /\ B # {} <=> r \in Queued
            /\ \A w \in Busy : w \in C <=> work[w].run = r
        BY <3>1 DEF Waiting, Queued, Range
      <3>3. A # {} \/ B # {} \/ C # {}
        BY <2>1, <3>2 DEF ActiveSomewhere
      <3>4. CASE A # {}
        <4>1. PICK c : A = {c}
          <5>1. PICK x : x \in A
            BY <3>4
          <5>2. \A y \in A : y = x
            BY <2>1, <3>2, <5>1 DEF HeldApart
          <5>. QED  BY <5>1, <5>2
        <4>2. c \in Caller /\ r \in Waiting(c)
          BY <3>2, <4>1
        <4>3. B = {} /\ C = {}
          BY <2>1, <3>2, <4>2 DEF HeldApart
        <4>. HIDE DEF A, B, C
        <4>4. Cardinality(A) = 1 /\ Cardinality(B) = 0 /\ Cardinality(C) = 0
          BY <2>2, <4>1, <4>3
        <4>9. Cardinality(A) + Cardinality(B) + Cardinality(C) = 1
          BY <4>4
        <4>. QED  BY <4>9 DEF A, B, C
      <3>5. CASE A = {} /\ B # {}
        <4>1. PICK i : B = {i}
          <5>1. PICK x : x \in B
            BY <3>5
          <5>2. \A y \in B : y = x
            BY <2>1, <3>1, <5>1 DEF HeldApart, IsInjective
          <5>. QED  BY <5>1, <5>2
        <4>2. C = {}
          BY <2>1, <3>2, <3>5 DEF HeldApart
        <4>. HIDE DEF A, B, C
        <4>3. Cardinality(A) = 0 /\ Cardinality(B) = 1 /\ Cardinality(C) = 0
          BY <2>2, <3>5, <4>1, <4>2
        <4>9. Cardinality(A) + Cardinality(B) + Cardinality(C) = 1
          BY <4>3
        <4>. QED  BY <4>9 DEF A, B, C
      <3>6. CASE A = {} /\ B = {}
        <4>1. PICK w : C = {w}
          <5>1. PICK x : x \in C
            BY <3>3, <3>6
          <5>2. \A y \in C : y = x
            BY <2>1, <5>1 DEF HeldApart
          <5>. QED  BY <5>1, <5>2
        <4>. HIDE DEF A, B, C
        <4>2. Cardinality(A) = 0 /\ Cardinality(B) = 0 /\ Cardinality(C) = 1
          BY <2>2, <3>6, <4>1
        <4>9. Cardinality(A) + Cardinality(B) + Cardinality(C) = 1
          BY <4>2
        <4>. QED  BY <4>9 DEF A, B, C
      <3>. QED  BY <3>4, <3>5, <3>6
    <2>5. SlotsBalance
      <3>1. /\ Cardinality(HeldSlots) \in Nat /\ Cardinality(Busy) \in Nat /\ Len(queue) \in Nat
            /\ slots \in 0 .. Capacity /\ Capacity \in Nat
            /\ slots = Cardinality(HeldSlots) + Len(queue) + Cardinality(Busy)
        BY <2>1, HeldIsFinite, AlertRunsConstants, FS_Subset, FS_CardinalityType
           DEF Busy, HandTypes, Balance
      <3>2. ASSUME NEW c \in Caller, call[c].pc = "push" PROVE Len(queue) < Capacity
        <4>1. call \in [Caller -> CallType] /\ call[c].held >= 1 /\ call[c].held \in Nat
          BY <2>1, <3>2 DEF HandTypes, CallType, CallsSound
        <4>2. Cardinality(HeldSlots) >= call[c].held
          BY <4>1, HeldAtLeast DEF CallType
        <4>. QED  BY <3>1, <4>1, <4>2
      <3>. QED  BY <3>1, <3>2 DEF SlotsBalance
    <2>6. phase = "closed" => queue = <<>> /\ slots = 0 /\ Busy = {} /\ \A c \in Caller : call[c] = Idle
      <3>. SUFFICES ASSUME phase = "closed"
                    PROVE  queue = <<>> /\ slots = 0 /\ Busy = {} /\ \A c \in Caller : call[c] = Idle
        OBVIOUS
      <3>1. (\A c \in Caller : call[c] = Idle) /\ \A w \in Workers : work[w].pc = "out"
        BY <2>1 DEF Shutting
      <3>2. Busy = {}
        BY <3>1 DEF Busy, Steps
      <3>3. PICK w \in Workers : TRUE
        BY AlertRunsConstants, FS_EmptySet
      <3>4. queue = <<>>
        BY <2>1, <3>1, <3>3 DEF Shutting
      <3>5. HeldSlots = {}
        BY <3>1, NothingInHand
      <3>. QED  BY <2>1, <2>2, <3>1, <3>2, <3>4, <3>5, RangeOf DEF Balance
    <2>. QED  BY <2>3, <2>4, <2>5, <2>6 DEF RunsAreHeld
  <1>. QED  BY <1>1, AlertsInvariant, PTL

\* An outcome is final, and an active run is never deleted with its alert, neither
\* by the claims that trim the history nor by DeleteIfIdle (alertstore).
THEOREM OutcomesOnlyAdvance == Spec => OutcomesAdvance
  <1>1. AlertsInv /\ [Next]_vars => Advance
    <2>. SUFFICES ASSUME AlertsInv, [Next]_vars PROVE Advance
      OBVIOUS
    <2>. DEFINE Same == UNCHANGED outcome
    <2>1. Same => Advance
      BY DEF Advance, EndsOrStays
    <2>2. CASE Submit
      <3>1. CASE ClaimDue
        BY <3>1, ClaimDueKeeps
      <3>2. ASSUME NEW u \in Users, ClaimRunNow(u) PROVE Advance
        BY <3>2, ClaimRunNowKeeps
      <3>3. ASSUME NEW c \in Caller, ClaimFails(c) \/ Push(c) PROVE Same
        BY <3>3 DEF ClaimFails, Push, runRows
      <3>4. StepBegins => Same
        BY DEF StepBegins, Reserve, runRows
      <3>5. ASSUME NEW u \in Users, RunNowBegins(u) PROVE Same
        BY <3>5 DEF RunNowBegins, Reserve, runRows
      <3>. QED  BY <2>1, <2>2, <3>1, <3>2, <3>3, <3>4, <3>5 DEF Submit
    <2>3. ASSUME NEW w \in Workers, Execute(w) PROVE Advance
      <3>1. CASE Complete(w)
        BY <3>1, CompleteKeeps
      <3>2. CASE Take(w) \/ Leave(w) \/ Start(w) \/ Poll(w) \/ Extend(w) \/ CheckSecret(w)
                 \/ ReadResults(w) \/ Post(w)
        BY <2>1, <3>2 DEF Take, Leave, Start, Poll, Extend, CheckSecret, ReadResults, Post, runRows
      <3>3. CASE Attach(w) \/ Authorize(w)
        BY <2>1, <3>3 DEF Attach, Authorize
      <3>. QED  BY <2>3, <3>1, <3>2, <3>3 DEF Execute
    <2>4. ASSUME NEW a \in Alert, RotateSecret(a) \/ SetState(a) \/ Update(a) PROVE Advance
      BY <2>1, <2>4 DEF RotateSecret, SetState, Update, runRows
    <2>5. ASSUME NEW a \in Alert, DeleteIfIdle(a) PROVE Advance
      BY <2>5, DeleteKeeps
    <2>6. CASE Passes \/ CloseBegins \/ CloseQueue \/ GraceEnds \/ CloseEnds
      BY <2>1, <2>6 DEF Passes, CloseBegins, CloseQueue, GraceEnds, CloseEnds, runRows
    <2>7. CASE Restart
      BY <2>7, RestartKeeps
    <2>8. CASE UNCHANGED vars
      BY <2>1, <2>8 DEF vars, runRows
    <2>. QED  BY <2>2, <2>3, <2>4, <2>5, <2>6, <2>7, <2>8 DEF Next
  <1>2. Advance => \A r \in Run :
          /\ outcome[r] \in Finals => outcome'[r] \in {outcome[r], "gone"}
          /\ outcome[r] = "active" => outcome'[r] \in Finals \cup {"active", "gone"}
          /\ outcome[r] = "active" /\ outcome'[r] = "gone" => r[1] \in alerts'
    BY DEF Advance, EndsOrStays, Finals
  <1>. QED  BY <1>1, <1>2, AlertsInvariant, PTL DEF Spec, OutcomesAdvance

\* A delivery is recorded only for an active run whose generation of the secret is
\* the alert's, however rotation falls between the worker's two looks at it
\* (alertstore AuthorizeDelivery).
THEOREM SecretIsCurrent == Spec => OnlyCurrentSecret
  <1>. DEFINE Current == \A r \in delivery' \ delivery : gen[r[1]] = signedBy[r] /\ outcome[r] = "active"
  <1>1. AlertsInv /\ [Next]_vars => Current
    <2>. SUFFICES ASSUME AlertsInv, [Next]_vars PROVE Current
      OBVIOUS
    <2>1. UNCHANGED delivery => Current
      OBVIOUS
    <2>2. CASE Submit
      <3>1. ClaimDue => UNCHANGED delivery
        BY Zenon DEF ClaimDue
      <3>2. ASSUME NEW u \in Users, ClaimRunNow(u) PROVE UNCHANGED delivery
        BY <3>2, Zenon DEF ClaimRunNow
      <3>3. ASSUME NEW c \in Caller, ClaimFails(c) \/ Push(c) PROVE UNCHANGED delivery
        BY <3>3 DEF ClaimFails, Push, runRows
      <3>4. StepBegins => UNCHANGED delivery
        BY DEF StepBegins, Reserve, runRows
      <3>5. ASSUME NEW u \in Users, RunNowBegins(u) PROVE UNCHANGED delivery
        BY <3>5 DEF RunNowBegins, Reserve, runRows
      <3>. QED  BY <2>1, <2>2, <3>1, <3>2, <3>3, <3>4, <3>5 DEF Submit
    <2>3. ASSUME NEW w \in Workers, Execute(w) PROVE Current
      <3>1. CASE Authorize(w)
        <4>1. work[w].pc = "authorize" /\ work[w].pc \in Steps
          BY <3>1 DEF Authorize, At, Steps
        <4>2. outcome[work[w].run] = "active"
          BY <4>1, Knows DEF WorkTrue
        <4>. QED  BY <3>1, <4>2 DEF Authorize
      <3>2. CASE Take(w) \/ Leave(w) \/ Start(w) \/ Poll(w) \/ Extend(w) \/ CheckSecret(w)
                 \/ ReadResults(w) \/ Post(w)
        BY <2>1, <3>2 DEF Take, Leave, Start, Poll, Extend, CheckSecret, ReadResults, Post, runRows
      <3>3. CASE Attach(w) \/ Complete(w)
        BY <2>1, <3>3 DEF Attach, Complete
      <3>. QED  BY <2>3, <3>1, <3>2, <3>3 DEF Execute
    <2>4. ASSUME NEW a \in Alert, RotateSecret(a) \/ SetState(a) \/ Update(a) \/ DeleteIfIdle(a)
          PROVE  Current
      BY <2>1, <2>4 DEF RotateSecret, SetState, Update, DeleteIfIdle, runRows
    <2>5. CASE Passes \/ CloseBegins \/ CloseQueue \/ GraceEnds \/ CloseEnds \/ Restart
      BY <2>1, <2>5 DEF Passes, CloseBegins, CloseQueue, GraceEnds, CloseEnds, Restart, runRows
    <2>6. CASE UNCHANGED vars
      BY <2>1, <2>6 DEF vars, runRows
    <2>. QED  BY <2>2, <2>3, <2>4, <2>5, <2>6 DEF Next
  <1>. QED  BY <1>1, AlertsInvariant, PTL DEF Spec, OnlyCurrentSecret
=============================================================================
