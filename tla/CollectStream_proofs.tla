-------------------------- MODULE CollectStream_proofs --------------------------
(***************************************************************************)
(* What holds of the stream for every queue, every limit and any number of *)
(* failures and broken streams.                                            *)
(*                                                                         *)
(* Every batch in flight is on its way in one place: among the requests,   *)
(* with the server, among the responses, or with a retry that will send it *)
(* (OnItsWayOnce).  What is answered terminally is what the store keeps,   *)
(* and has left the history of the stream (Truthful).                      *)
(***************************************************************************)
EXTENDS CollectStream, FiniteSetTheorems, SequenceTheorems, TLAPS

WorkerType == [pc : {"none", "lookup", "storing", "resuming", "done"},
               answer : Terminal \cup Retries \cup {"none"}]
StoredType == Terminal \cup {"none", "pending"}
AnswerType == [kind : Terminal \cup Retries \cup {"throttle"}, batch : Batches \cup {0}]

\* A sequence of batches without repetition; the batches a sequence of answers
\* is about, and such a sequence with one answer to each.
Distinct(s) == \A i, j \in DOMAIN s : s[i] = s[j] => i = j
Back(s) == {r.batch : r \in Range(s)} \ {0}
BackOnce(s) == \A i, j \in DOMAIN s : s[i].batch = s[j].batch /\ s[i].batch # 0 => i = j

SenderTypes ==
    /\ connected \in BOOLEAN /\ throttled \in BOOLEAN
    /\ held \in Batches \cup {0} /\ cursor \in Batches \cup {0}
    /\ inflight \subseteq Batches /\ deferred \subseteq Batches
    /\ retry \in [Batches -> {"none", "waiting", "sent"}]
    /\ outcome \in [Batches -> Terminal \cup {"none"}]

WireTypes == requests \in Seq(Batches) /\ responses \in Seq(AnswerType)

ServerTypes ==
    /\ worker \in [Batches -> WorkerType]
    /\ admitting \in Batches \cup {0} /\ highest \in Batches \cup {0}
    /\ pending \subseteq Batches
    /\ stored \in [Batches -> StoredType]

Bounded ==
    /\ Cardinality(inflight) <= MaxInFlight
    /\ Cardinality(Busy) <= MaxInFlight

\* The pump goes on in the order of the queue.
PumpInOrder ==
    /\ held # 0 => held = cursor /\ held \notin inflight
    /\ \A b \in inflight : b <= cursor

OnItsWayOnce ==
    /\ Distinct(requests) /\ BackOnce(responses)
    /\ Range(requests) \cup Back(responses) \cup Busy \subseteq inflight
    /\ Range(requests) \cap Back(responses) = {}
    /\ Busy \cap (Range(requests) \cup Back(responses)) = {}
    /\ \A b \in Batches : retry[b] = "waiting" =>
          b \in inflight \ (Range(requests) \cup Back(responses) \cup Busy)

\* A retry that ends with its sending is never joined too late.
NothingLost ==
    ~Lingers =>
        /\ \A b \in Batches : retry[b] # "sent"
        /\ \A b \in inflight :
              b \in Range(requests) \cup Back(responses) \cup Busy \/ retry[b] = "waiting"

\* An answer in the hands of the server, one on the wire, a durable outcome.
WorkersTruthful ==
    \A b \in Batches :
        /\ worker[b].pc = "done" => worker[b].answer \notin {"none", "busy"}
        /\ worker[b].pc = "done" /\ worker[b].answer \in Terminal =>
              worker[b].answer = stored[b] /\ b \notin pending
AnswersTruthful ==
    \A r \in Range(responses) :
        /\ r.kind = "throttle" <=> r.batch = 0
        /\ r.kind # "busy"
        /\ r.kind \in Terminal => r.kind = stored[r.batch] /\ r.batch \notin pending

StreamInv ==
    /\ SenderTypes /\ WireTypes /\ ServerTypes /\ Bounded
    /\ PumpInOrder /\ OnItsWayOnce /\ NothingLost
    /\ WorkersTruthful /\ AnswersTruthful /\ OutcomesAgree
    /\ pending \subseteq inflight

-----------------------------------------------------------------------------
(* Lemmas on the wire.                                                     *)

\* What Append does to a sequence without repetition.
LEMMA AppendOnce ==
    ASSUME NEW S, NEW s \in Seq(S), NEW b \in S
    PROVE  /\ Append(s, b) \in Seq(S)
           /\ Range(Append(s, b)) = Range(s) \cup {b}
           /\ Distinct(s) /\ b \notin Range(s) => Distinct(Append(s, b))
  <1>1. /\ Append(s, b) \in Seq(S) /\ Len(Append(s, b)) = Len(s) + 1
        /\ \A i \in 1 .. Len(s) : Append(s, b)[i] = s[i]
        /\ Append(s, b)[Len(s) + 1] = b /\ Len(s) \in Nat
    BY AppendProperties, LenProperties
  <1>2. DOMAIN s = 1 .. Len(s) /\ DOMAIN Append(s, b) = 1 .. Len(s) + 1
    BY <1>1, LenProperties
  <1>3. \A i \in 1 .. Len(s) + 1 : i \in 1 .. Len(s) \/ i = Len(s) + 1
    BY <1>1
  <1>4. 1 .. Len(s) \subseteq 1 .. Len(s) + 1 /\ Len(s) + 1 \in 1 .. Len(s) + 1
    BY <1>1
  <1>5. Range(Append(s, b)) = Range(s) \cup {b}
    BY <1>1, <1>2, <1>3, <1>4, Zenon DEF Range
  <1>6. Distinct(s) /\ b \notin Range(s) => Distinct(Append(s, b))
    BY <1>1, <1>2, <1>3 DEF Distinct, Range
  <1>. QED
    BY <1>1, <1>5, <1>6

\* What Tail leaves of a sequence without repetition.
LEMMA TailOnce ==
    ASSUME NEW S, NEW s \in Seq(S), s # <<>>
    PROVE  /\ Tail(s) \in Seq(S) /\ Head(s) \in S /\ Head(s) \in Range(s)
           /\ Range(Tail(s)) \subseteq Range(s)
           /\ Range(s) = Range(Tail(s)) \cup {Head(s)}
           /\ Distinct(s) => Distinct(Tail(s)) /\ Head(s) \notin Range(Tail(s))
  <1>1. /\ Head(s) \in S /\ Tail(s) \in Seq(S) /\ Len(Tail(s)) = Len(s) - 1
        /\ \A i \in 1 .. Len(Tail(s)) : Tail(s)[i] = s[i + 1]
    BY HeadTailProperties
  <1>2. Len(s) \in Nat \ {0} /\ Head(s) = s[1]
    BY LenProperties, EmptySeq
  <1>3. DOMAIN s = 1 .. Len(s) /\ DOMAIN Tail(s) = 1 .. Len(s) - 1
    BY <1>1, LenProperties
  <1>4. /\ 1 \in 1 .. Len(s)
        /\ \A i \in 1 .. Len(s) - 1 : i + 1 \in 1 .. Len(s) /\ i + 1 # 1
        /\ \A i, j \in 1 .. Len(s) - 1 : i + 1 = j + 1 => i = j
    BY <1>2
  <1>5. \A i \in 1 .. Len(s) : i = 1 \/ \E j \in 1 .. Len(s) - 1 : i = j + 1
    <2>. TAKE i \in 1 .. Len(s)
    <2>1. i # 1 => i - 1 \in 1 .. Len(s) - 1 /\ i = (i - 1) + 1
      BY <1>2
    <2>. QED  BY <2>1
  <1>6. /\ \A x \in Range(s) : x = Head(s) \/ x \in Range(Tail(s))
        /\ \A x \in Range(Tail(s)) : x \in Range(s)
        /\ Head(s) \in Range(s)
    <2>1. Head(s) \in Range(s)
      BY <1>2, <1>3, <1>4 DEF Range
    <2>2. ASSUME NEW x \in Range(Tail(s)) PROVE x \in Range(s)
      BY <1>1, <1>3, <1>4 DEF Range
    <2>3. ASSUME NEW x \in Range(s), x # Head(s) PROVE x \in Range(Tail(s))
      <3>1. PICK i \in 1 .. Len(s) : x = s[i]
        BY <1>3 DEF Range
      <3>2. PICK j \in 1 .. Len(s) - 1 : i = j + 1
        BY <1>2, <1>5, <2>3, <3>1
      <3>3. x = Tail(s)[j]
        BY <1>1, <3>1, <3>2
      <3>. QED  BY <1>3, <3>3 DEF Range
    <2>. QED  BY <2>1, <2>2, <2>3
  <1>7. Distinct(s) => Distinct(Tail(s)) /\ Head(s) \notin Range(Tail(s))
    BY <1>1, <1>2, <1>3, <1>4 DEF Distinct, Range
  <1>. QED
    BY <1>1, <1>6, <1>7

\* The answers that are left when the first is received.
LEMMA TailBack ==
    ASSUME NEW s \in Seq(AnswerType), s # <<>>, BackOnce(s)
    PROVE  /\ Tail(s) \in Seq(AnswerType) /\ Head(s) \in AnswerType
           /\ Head(s) \in Range(s) /\ Range(Tail(s)) \subseteq Range(s)
           /\ Back(s) = Back(Tail(s)) \cup ({Head(s).batch} \ {0})
           /\ BackOnce(Tail(s))
           /\ Head(s).batch \notin Back(Tail(s))
  <1>1. /\ Tail(s) \in Seq(AnswerType) /\ Head(s) \in AnswerType
        /\ Head(s) \in Range(s) /\ Range(Tail(s)) \subseteq Range(s)
        /\ Range(s) = Range(Tail(s)) \cup {Head(s)}
    BY TailOnce
  <1>2. Back(s) = Back(Tail(s)) \cup ({Head(s).batch} \ {0})
    BY <1>1 DEF Back
  <1>3. /\ Len(Tail(s)) = Len(s) - 1 /\ Len(s) \in Nat \ {0} /\ Head(s) = s[1]
        /\ \A i \in 1 .. Len(Tail(s)) : Tail(s)[i] = s[i + 1]
        /\ DOMAIN s = 1 .. Len(s) /\ DOMAIN Tail(s) = 1 .. Len(s) - 1
    BY <1>1, HeadTailProperties, LenProperties, EmptySeq
  <1>4. /\ 1 \in 1 .. Len(s)
        /\ \A i \in 1 .. Len(s) - 1 : i + 1 \in 1 .. Len(s) /\ i + 1 # 1
        /\ \A i, j \in 1 .. Len(s) - 1 : i + 1 = j + 1 => i = j
    BY <1>3
  <1>5. BackOnce(Tail(s)) /\ Head(s).batch \notin Back(Tail(s))
    BY <1>3, <1>4 DEF BackOnce, Back, Range
  <1>. QED
    BY <1>1, <1>2, <1>5

\* An answer is put on the wire, with throttles behind it or none.
LEMMA AnswerBack ==
    ASSUME NEW s \in Seq(AnswerType), NEW r \in AnswerType, NEW t \in Seq(AnswerType),
           \A x \in Range(t) : x.batch = 0, BackOnce(s), r.batch \notin Back(s)
    PROVE  LET u == s \o <<r>> \o t
           IN /\ u \in Seq(AnswerType)
              /\ Range(u) = Range(s) \cup {r} \cup Range(t)
              /\ Back(u) = Back(s) \cup ({r.batch} \ {0})
              /\ BackOnce(u)
  <1>. DEFINE v == s \o <<r>>
              u == v \o t
  <1>1. v = Append(s, r) /\ v \in Seq(AnswerType) /\ Range(v) = Range(s) \cup {r}
    <2>1. v = Append(s, r)
      BY AppendIsConcat
    <2>2. Append(s, r) \in Seq(AnswerType) /\ Range(Append(s, r)) = Range(s) \cup {r}
      BY AppendOnce
    <2>. QED  BY <2>1, <2>2
  <1>2. u \in Seq(AnswerType) /\ Range(u) = Range(v) \cup Range(t)
    <2>. HIDE DEF v
    <2>. QED  BY <1>1, ConcatProperties, RangeConcatenation
  <1>3. Back(u) = Back(s) \cup ({r.batch} \ {0})
    BY <1>1, <1>2 DEF Back
  <1>4. BackOnce(v)
    <2>1. /\ Len(v) = Len(s) + 1 /\ \A i \in 1 .. Len(s) : v[i] = s[i]
          /\ v[Len(s) + 1] = r /\ Len(s) \in Nat
      BY <1>1, AppendProperties, LenProperties
    <2>2. DOMAIN s = 1 .. Len(s) /\ DOMAIN v = 1 .. Len(s) + 1
      BY <1>1, <2>1, LenProperties
    <2>3. \A i \in 1 .. Len(s) + 1 : i \in 1 .. Len(s) \/ i = Len(s) + 1
      BY <2>1
    <2>. HIDE DEF v
    <2>. QED
      BY <2>1, <2>2, <2>3 DEF BackOnce, Back, Range
  <1>5. BackOnce(u)
    <2>1. /\ Len(u) = Len(v) + Len(t) /\ Len(v) \in Nat /\ Len(t) \in Nat
          /\ DOMAIN u = 1 .. Len(v) + Len(t) /\ DOMAIN v = 1 .. Len(v) /\ DOMAIN t = 1 .. Len(t)
          /\ \A i \in 1 .. Len(v) + Len(t) :
                u[i] = IF i <= Len(v) THEN v[i] ELSE t[i - Len(v)]
      BY <1>1, <1>2, ConcatProperties, LenProperties
    <2>2. \A i \in DOMAIN u : (i \in DOMAIN v /\ u[i] = v[i]) \/ u[i].batch = 0
      <3>. TAKE i \in DOMAIN u
      <3>1. CASE i <= Len(v)
        BY <2>1, <3>1
      <3>2. CASE ~(i <= Len(v))
        <4>1. i - Len(v) \in DOMAIN t /\ u[i] = t[i - Len(v)]
          BY <2>1, <3>2
        <4>. HIDE DEF u, v
        <4>. QED  BY <4>1 DEF Range
      <3>. QED  BY <3>1, <3>2
    <2>. HIDE DEF u, v
    <2>. QED
      BY <1>4, <2>2 DEF BackOnce
  <1>. QED
    BY <1>1, <1>2, <1>3, <1>5

\* An empty wire.
LEMMA EmptyWire ==
    /\ \A S : <<>> \in Seq(S)
    /\ Range(<<>>) = {} /\ Back(<<>>) = {} /\ Distinct(<<>>) /\ BackOnce(<<>>)
  BY DEF Range, Back, Distinct, BackOnce
-----------------------------------------------------------------------------
(* Initial states and the sender.                                          *)

\* The sets of the model are finite, and a batch is never 0.
LEMMA Finite ==
    /\ IsFiniteSet(Batches) /\ 0 \notin Batches /\ Batches \subseteq Nat
    /\ MaxInFlight \in Nat
    /\ \A S \in SUBSET Batches : IsFiniteSet(S) /\ Cardinality(S) \in Nat
    /\ Cardinality({}) = 0
  <1>1. IsFiniteSet(Batches) /\ 0 \notin Batches /\ Batches \subseteq Nat /\ MaxInFlight \in Nat
    BY StreamAssumption
  <1>2. ASSUME NEW S \in SUBSET Batches PROVE IsFiniteSet(S) /\ Cardinality(S) \in Nat
    BY <1>1, FS_Subset, FS_CardinalityType
  <1>3. Cardinality({}) = 0
    BY FS_EmptySet
  <1>. QED  BY <1>1, <1>2, <1>3

\* What is on the wire is about batches of the queue.
LEMMA OnTheWire ==
    ASSUME WireTypes
    PROVE  /\ Range(requests) \subseteq Batches
           /\ Range(responses) \subseteq AnswerType
           /\ \A r \in Range(responses) : r.batch # 0 => r.batch \in Batches \cap Back(responses)
  <1>1. Range(requests) \subseteq Batches /\ Range(responses) \subseteq AnswerType
    BY RangeOfSeq DEF WireTypes
  <1>. QED  BY <1>1 DEF AnswerType, Back

\* The collector starts with an idle stream.
LEMMA InitInv == Init => StreamInv
  <1>. SUFFICES ASSUME Init PROVE StreamInv
    OBVIOUS
  <1>1. Busy = {}
    BY DEF Init, Busy, Idle
  <1>2. SenderTypes /\ WireTypes /\ ServerTypes
    BY EmptyWire DEF Init, SenderTypes, WireTypes, ServerTypes, Idle, WorkerType, StoredType
  <1>3. Bounded /\ PumpInOrder /\ NothingLost /\ OnItsWayOnce
    BY <1>1, Finite, EmptyWire DEF Init, Bounded, PumpInOrder, NothingLost, OnItsWayOnce
  <1>4. WorkersTruthful /\ AnswersTruthful /\ OutcomesAgree /\ pending \subseteq inflight
    BY EmptyWire DEF Init, WorkersTruthful, AnswersTruthful, OutcomesAgree, Idle
  <1>. QED
    BY <1>2, <1>3, <1>4 DEF StreamInv

\* A broken stream leaves an empty wire and idle workers; what is durable stays.
LEMMA StreamBreaksInv ==
    ASSUME StreamInv, StreamBreaks
    PROVE  StreamInv'
  <1>. USE DEF StreamBreaks
  <1>1. /\ outcome \in [Batches -> Terminal \cup {"none"}]
        /\ stored \in [Batches -> StoredType] /\ deferred \subseteq Batches
        /\ OutcomesAgree
    BY DEF StreamInv, SenderTypes, ServerTypes
  <1>2. Busy' = {} /\ worker' = [c \in Batches |-> Idle]
    BY DEF NewStream, Busy, Idle
  <1>3. SenderTypes' /\ WireTypes'
    BY <1>1, EmptyWire DEF SenderTypes, WireTypes, NewStream
  <1>4. ServerTypes'
    BY <1>1, <1>2 DEF ServerTypes, NewStream, Idle, WorkerType
  <1>5. Bounded' /\ PumpInOrder' /\ NothingLost'
    BY <1>2, Finite DEF Bounded, PumpInOrder, NothingLost, NewStream
  <1>6. OnItsWayOnce'
    BY <1>2, EmptyWire DEF OnItsWayOnce, NewStream
  <1>7. WorkersTruthful' /\ AnswersTruthful' /\ OutcomesAgree' /\ (pending \subseteq inflight)'
    BY <1>1, <1>2, EmptyWire
       DEF WorkersTruthful, AnswersTruthful, OutcomesAgree, NewStream, Idle
  <1>. QED
    BY <1>3, <1>4, <1>5, <1>6, <1>7 DEF StreamInv

\* Steps that touch neither the wire nor what is in flight.
LEMMA TimePasses ==
    ASSUME StreamInv,
           Connect \/ Clock \/ \E b \in Batches : RetryEnds(b)
    PROVE  StreamInv'
  <1>1. /\ UNCHANGED <<cursor, held, inflight, outcome, wireVars, serverVars, storeVars>>
        /\ connected' \in BOOLEAN /\ throttled' \in BOOLEAN /\ deferred' \subseteq Batches
        /\ retry' \in [Batches -> {"none", "waiting", "sent"}]
        /\ \A c \in Batches : \/ retry'[c] = retry[c]
                              \/ retry[c] = "sent" /\ retry'[c] = "none"
    BY DEF Connect, Clock, ThrottleEnds, DelayEnds, RetryEnds, StreamInv, SenderTypes,
           senderVars
  <1>2. SenderTypes' /\ WireTypes' /\ ServerTypes'
    BY <1>1 DEF StreamInv, SenderTypes, WireTypes, ServerTypes, wireVars, serverVars, storeVars
  <1>3. Busy' = Busy
    BY <1>1 DEF Busy, serverVars
  <1>4. Bounded' /\ PumpInOrder' /\ OnItsWayOnce' /\ NothingLost'
    BY <1>1, <1>3 DEF StreamInv, Bounded, PumpInOrder, OnItsWayOnce, NothingLost, wireVars,
                      SenderTypes
  <1>5. /\ WorkersTruthful' /\ AnswersTruthful' /\ OutcomesAgree'
        /\ (pending \subseteq inflight)'
    BY <1>1 DEF StreamInv, WorkersTruthful, AnswersTruthful, OutcomesAgree,
                wireVars, serverVars, storeVars
  <1>. QED
    BY <1>2, <1>4, <1>5 DEF StreamInv

\* The pump takes the next batch of the queue.
LEMMA PumpTakesInv ==
    ASSUME StreamInv, PumpTakes
    PROVE  StreamInv'
  <1>1. /\ held' \in Batches /\ held' > cursor /\ cursor' = held'
        /\ UNCHANGED <<connected, inflight, retry, deferred, throttled, outcome,
                       wireVars, serverVars, storeVars>>
    BY DEF PumpTakes, NextUp
  <1>2. SenderTypes' /\ WireTypes' /\ ServerTypes'
    BY <1>1 DEF StreamInv, SenderTypes, WireTypes, ServerTypes, wireVars, serverVars, storeVars
  <1>3. Busy' = Busy
    BY <1>1 DEF Busy, serverVars
  <1>4. Bounded' /\ OnItsWayOnce' /\ NothingLost'
    BY <1>1, <1>3 DEF StreamInv, Bounded, OnItsWayOnce, NothingLost, wireVars
  <1>5. PumpInOrder'
    <2>1. cursor \in Nat /\ held' \in Nat /\ \A b \in inflight : b \in Nat /\ b <= cursor
      BY <1>1, Finite DEF StreamInv, SenderTypes, PumpInOrder
    <2>. QED  BY <1>1, <2>1 DEF PumpInOrder
  <1>6. /\ WorkersTruthful' /\ AnswersTruthful' /\ OutcomesAgree'
        /\ (pending \subseteq inflight)'
    BY <1>1 DEF StreamInv, WorkersTruthful, AnswersTruthful, OutcomesAgree,
                wireVars, serverVars, storeVars
  <1>. QED
    BY <1>2, <1>4, <1>5, <1>6 DEF StreamInv

\* The pump sends the batch that it took and gives it a slot.
LEMMA PumpSendsInv ==
    ASSUME StreamInv, PumpSends
    PROVE  StreamInv'
  <1>1. /\ held \in Batches /\ held \notin inflight /\ held = cursor /\ held' = 0
        /\ requests' = Append(requests, held)
        /\ inflight' = inflight \cup {held}
        /\ UNCHANGED <<connected, cursor, retry, deferred, throttled, outcome,
                       responses, serverVars, storeVars>>
    BY DEF PumpSends, Put, StreamInv, SenderTypes, PumpInOrder
  <1>2. held \notin Range(requests) \cup Back(responses) \cup Busy
    BY <1>1 DEF StreamInv, OnItsWayOnce
  <1>3. /\ requests' \in Seq(Batches) /\ Distinct(requests')
        /\ Range(requests') = Range(requests) \cup {held}
    BY <1>1, <1>2, AppendOnce DEF StreamInv, WireTypes, OnItsWayOnce
  <1>4. SenderTypes' /\ WireTypes' /\ ServerTypes'
    BY <1>1, <1>3 DEF StreamInv, SenderTypes, WireTypes, ServerTypes, serverVars, storeVars
  <1>5. Busy' = Busy
    BY <1>1 DEF Busy, serverVars
  <1>6. Bounded'
    <2>1. IsFiniteSet(inflight) /\ Cardinality(inflight) \in Nat
      BY Finite DEF StreamInv, SenderTypes
    <2>2. Cardinality(inflight') = Cardinality(inflight) + 1
      BY <1>1, <2>1, FS_AddElement
    <2>3. Cardinality(inflight') <= MaxInFlight
      BY <2>1, <2>2, Finite DEF PumpSends, HasSlot
    <2>. QED  BY <1>5, <2>3 DEF StreamInv, Bounded
  <1>7. PumpInOrder'
    <2>1. cursor <= cursor
      BY <1>1, Finite
    <2>. QED  BY <1>1, <2>1 DEF StreamInv, PumpInOrder
  <1>8. OnItsWayOnce'
    BY <1>1, <1>2, <1>3, <1>5 DEF StreamInv, OnItsWayOnce
  <1>9. NothingLost'
    BY <1>1, <1>3, <1>5 DEF StreamInv, NothingLost
  <1>10. /\ WorkersTruthful' /\ AnswersTruthful' /\ OutcomesAgree'
         /\ (pending \subseteq inflight)'
    BY <1>1 DEF StreamInv, WorkersTruthful, AnswersTruthful, OutcomesAgree,
                serverVars, storeVars
  <1>. QED
    BY <1>4, <1>6, <1>7, <1>8, <1>9, <1>10 DEF StreamInv

\* A retry sends its batch again.
LEMMA RetrySendsInv ==
    ASSUME StreamInv, NEW b \in Batches, RetrySends(b)
    PROVE  StreamInv'
  <1>1. /\ b \in inflight
        /\ b \notin Range(requests) \cup Back(responses) \cup Busy
    BY DEF RetrySends, StreamInv, OnItsWayOnce
  <1>2. /\ requests' = Append(requests, b)
        /\ retry' = [retry EXCEPT ![b] = IF Lingers THEN "sent" ELSE "none"]
        /\ UNCHANGED <<connected, cursor, held, inflight, deferred, throttled, outcome,
                       responses, serverVars, storeVars>>
    BY DEF RetrySends, Put
  <1>3. /\ requests' \in Seq(Batches) /\ Distinct(requests')
        /\ Range(requests') = Range(requests) \cup {b}
    BY <1>1, <1>2, AppendOnce DEF StreamInv, WireTypes, OnItsWayOnce
  <1>4. /\ retry' \in [Batches -> {"none", "waiting", "sent"}]
        /\ \A c \in Batches : retry'[c] = IF c = b THEN (IF Lingers THEN "sent" ELSE "none")
                                          ELSE retry[c]
    BY <1>2 DEF StreamInv, SenderTypes
  <1>5. SenderTypes' /\ WireTypes' /\ ServerTypes'
    BY <1>2, <1>3, <1>4 DEF StreamInv, SenderTypes, WireTypes, ServerTypes, serverVars, storeVars
  <1>6. Busy' = Busy
    BY <1>2 DEF Busy, serverVars
  <1>7. Bounded' /\ PumpInOrder'
    BY <1>2, <1>6 DEF StreamInv, Bounded, PumpInOrder
  <1>8. OnItsWayOnce'
    BY <1>1, <1>2, <1>3, <1>4, <1>6 DEF StreamInv, OnItsWayOnce
  <1>9. NothingLost'
    BY <1>2, <1>3, <1>4, <1>6 DEF StreamInv, NothingLost, SenderTypes
  <1>10. /\ WorkersTruthful' /\ AnswersTruthful' /\ OutcomesAgree'
         /\ (pending \subseteq inflight)'
    BY <1>2 DEF StreamInv, WorkersTruthful, AnswersTruthful, OutcomesAgree,
                serverVars, storeVars
  <1>. QED
    BY <1>5, <1>7, <1>8, <1>9, <1>10 DEF StreamInv

\* What receiving an answer says of it and of the rest of the wire.
LEMMA Received ==
    ASSUME StreamInv, NEW kinds, Receive(kinds)
    PROVE  /\ Response \in AnswerType /\ Response.kind \in kinds
           /\ Response.kind = "throttle" <=> Response.batch = 0
           /\ Response.batch # 0 =>
                 /\ Response.batch \in inflight
                 /\ Response.batch \notin Range(requests) \cup Busy
                 /\ retry[Response.batch] # "waiting"
                 /\ Response.kind \in Terminal =>
                       Response.kind = stored[Response.batch] /\ Response.batch \notin pending
           /\ responses' \in Seq(AnswerType) /\ BackOnce(responses')
           /\ Range(responses') \subseteq Range(responses)
           /\ Back(responses') = Back(responses) \ {Response.batch}
           /\ UNCHANGED <<connected, cursor, held, requests, serverVars, storeVars>>
  <1>1. /\ responses # <<>> /\ Response.kind \in kinds /\ responses' = Tail(responses)
        /\ UNCHANGED <<connected, cursor, held, requests, serverVars, storeVars>>
    BY DEF Receive
  <1>2. responses \in Seq(AnswerType) /\ BackOnce(responses)
    BY DEF StreamInv, WireTypes, OnItsWayOnce
  <1>3. /\ responses' \in Seq(AnswerType) /\ Response \in AnswerType
        /\ Response \in Range(responses) /\ Range(responses') \subseteq Range(responses)
        /\ Back(responses) = Back(responses') \cup ({Response.batch} \ {0})
        /\ BackOnce(responses') /\ Response.batch \notin Back(responses')
    BY <1>1, <1>2, TailBack DEF Response
  <1>4. Back(responses') = Back(responses) \ {Response.batch}
    <2>1. 0 \notin Back(responses)
      BY DEF Back
    <2>. QED  BY <1>3, <2>1
  <1>5. /\ Response.kind = "throttle" <=> Response.batch = 0
        /\ Response.kind \in Terminal =>
              Response.kind = stored[Response.batch] /\ Response.batch \notin pending
    BY <1>3 DEF StreamInv, AnswersTruthful
  <1>6. ASSUME Response.batch # 0
        PROVE  /\ Response.batch \in inflight
               /\ Response.batch \notin Range(requests) \cup Busy
               /\ retry[Response.batch] # "waiting"
    <2>1. Response.batch \in Batches \cap Back(responses)
      BY <1>3, <1>6, OnTheWire DEF StreamInv
    <2>. QED  BY <2>1 DEF StreamInv, OnItsWayOnce
  <1>. QED
    BY <1>1, <1>3, <1>4, <1>5, <1>6

\* A terminal answer is recorded and gives its slot back.
LEMMA ReceiveOutcomeInv ==
    ASSUME StreamInv, ReceiveOutcome
    PROVE  StreamInv'
  <1>. DEFINE b == Response.batch
  <1>1. Receive(Terminal)
    BY DEF ReceiveOutcome
  <1>2. /\ Response \in AnswerType /\ Response.kind \in Terminal /\ b # 0 /\ b \in Batches
        /\ b \in inflight /\ b \notin Range(requests) \cup Busy /\ retry[b] # "waiting"
        /\ Response.kind = stored[b] /\ b \notin pending
    BY <1>1, Received DEF Terminal, AnswerType
  <1>3. /\ responses' \in Seq(AnswerType) /\ BackOnce(responses')
        /\ Range(responses') \subseteq Range(responses)
        /\ Back(responses') = Back(responses) \ {b}
        /\ UNCHANGED <<connected, cursor, held, requests, serverVars, storeVars>>
    BY <1>1, Received
  <1>4. /\ outcome' = [outcome EXCEPT ![b] = Response.kind]
        /\ inflight' = inflight \ {b} /\ deferred' = deferred \ {b}
        /\ retry' = [retry EXCEPT ![b] = "none"]
        /\ UNCHANGED throttled
    BY DEF ReceiveOutcome
  <1>. HIDE DEF b
  <1>5. /\ retry' \in [Batches -> {"none", "waiting", "sent"}]
        /\ \A c \in Batches : retry'[c] = IF c = b THEN "none" ELSE retry[c]
    BY <1>4 DEF StreamInv, SenderTypes
  <1>6. /\ outcome' \in [Batches -> Terminal \cup {"none"}]
        /\ \A c \in Batches : outcome'[c] = IF c = b THEN Response.kind ELSE outcome[c]
    BY <1>2, <1>4 DEF StreamInv, SenderTypes
  <1>7. SenderTypes' /\ WireTypes' /\ ServerTypes'
    BY <1>3, <1>4, <1>5, <1>6
       DEF StreamInv, SenderTypes, WireTypes, ServerTypes, serverVars, storeVars
  <1>8. Busy' = Busy
    BY <1>3 DEF Busy, serverVars
  <1>9. Bounded'
    <2>1. IsFiniteSet(inflight) /\ Cardinality(inflight) \in Nat /\ Cardinality(inflight') \in Nat
      BY <1>4, Finite DEF StreamInv, SenderTypes
    <2>2. Cardinality(inflight') <= Cardinality(inflight)
      BY <1>4, <2>1, FS_Subset
    <2>. QED  BY <1>8, <2>1, <2>2, Finite DEF StreamInv, Bounded
  <1>10. PumpInOrder'
    BY <1>3, <1>4 DEF StreamInv, PumpInOrder
  <1>11. OnItsWayOnce'
    BY <1>2, <1>3, <1>4, <1>5, <1>8 DEF StreamInv, OnItsWayOnce
  <1>12. NothingLost'
    BY <1>3, <1>4, <1>5, <1>8 DEF StreamInv, NothingLost, SenderTypes
  <1>13. WorkersTruthful' /\ AnswersTruthful' /\ (pending \subseteq inflight)'
    BY <1>2, <1>3, <1>4 DEF StreamInv, WorkersTruthful, AnswersTruthful, serverVars, storeVars
  <1>14. OutcomesAgree'
    BY <1>2, <1>3, <1>6 DEF StreamInv, OutcomesAgree, storeVars
  <1>. QED
    BY <1>7, <1>9, <1>10, <1>11, <1>12, <1>13, <1>14 DEF StreamInv

\* A retry is taken up, or joined to the goroutine that has the batch already.
LEMMA ReceiveRetryInv ==
    ASSUME StreamInv, ReceiveRetry
    PROVE  StreamInv'
  <1>. DEFINE b == Response.batch
  <1>1. Receive(Retries)
    BY DEF ReceiveRetry
  <1>2. /\ b # 0 /\ b \in Batches /\ b \in inflight
        /\ b \notin Range(requests) \cup Busy /\ retry[b] # "waiting"
    BY <1>1, Received DEF Retries, AnswerType
  <1>3. /\ responses' \in Seq(AnswerType) /\ BackOnce(responses')
        /\ Range(responses') \subseteq Range(responses)
        /\ Back(responses') = Back(responses) \ {b}
        /\ UNCHANGED <<connected, cursor, held, requests, serverVars, storeVars>>
    BY <1>1, Received
  <1>4. /\ deferred' = deferred \cup {b}
        /\ retry' = [retry EXCEPT ![b] = IF @ = "none" THEN "waiting" ELSE @]
        /\ UNCHANGED <<inflight, throttled, outcome>>
    BY DEF ReceiveRetry
  <1>. HIDE DEF b
  <1>5. /\ retry' \in [Batches -> {"none", "waiting", "sent"}]
        /\ \A c \in Batches : retry'[c] = IF c = b /\ retry[c] = "none" THEN "waiting"
                                          ELSE retry[c]
    BY <1>4 DEF StreamInv, SenderTypes
  <1>6. SenderTypes' /\ WireTypes' /\ ServerTypes'
    BY <1>2, <1>3, <1>4, <1>5
       DEF StreamInv, SenderTypes, WireTypes, ServerTypes, serverVars, storeVars
  <1>7. Busy' = Busy
    BY <1>3 DEF Busy, serverVars
  <1>8. Bounded' /\ PumpInOrder'
    BY <1>3, <1>4, <1>7 DEF StreamInv, Bounded, PumpInOrder
  <1>9. OnItsWayOnce'
    BY <1>2, <1>3, <1>4, <1>5, <1>7 DEF StreamInv, OnItsWayOnce
  <1>10. NothingLost'
    BY <1>2, <1>3, <1>4, <1>5, <1>7 DEF StreamInv, NothingLost, SenderTypes
  <1>11. /\ WorkersTruthful' /\ AnswersTruthful' /\ OutcomesAgree'
         /\ (pending \subseteq inflight)'
    BY <1>3, <1>4 DEF StreamInv, WorkersTruthful, AnswersTruthful, OutcomesAgree,
                      serverVars, storeVars
  <1>. QED
    BY <1>6, <1>8, <1>9, <1>10, <1>11 DEF StreamInv

\* A Throttle is about no batch.
LEMMA ReceiveThrottleInv ==
    ASSUME StreamInv, ReceiveThrottle
    PROVE  StreamInv'
  <1>1. /\ responses' \in Seq(AnswerType) /\ BackOnce(responses')
        /\ Range(responses') \subseteq Range(responses)
        /\ Back(responses') = Back(responses) \ {Response.batch}
        /\ Response.batch = 0
        /\ UNCHANGED <<connected, cursor, held, requests, serverVars, storeVars>>
    BY Received DEF ReceiveThrottle
  <1>2. Back(responses') = Back(responses)
    BY <1>1 DEF Back
  <1>3. /\ throttled' = TRUE /\ UNCHANGED <<inflight, retry, deferred, outcome>>
    BY DEF ReceiveThrottle
  <1>4. SenderTypes' /\ WireTypes' /\ ServerTypes'
    BY <1>1, <1>3 DEF StreamInv, SenderTypes, WireTypes, ServerTypes, serverVars, storeVars
  <1>5. Busy' = Busy
    BY <1>1 DEF Busy, serverVars
  <1>6. Bounded' /\ PumpInOrder' /\ OnItsWayOnce' /\ NothingLost'
    BY <1>1, <1>2, <1>3, <1>5 DEF StreamInv, Bounded, PumpInOrder, OnItsWayOnce, NothingLost
  <1>7. /\ WorkersTruthful' /\ AnswersTruthful' /\ OutcomesAgree'
        /\ (pending \subseteq inflight)'
    BY <1>1, <1>3 DEF StreamInv, WorkersTruthful, AnswersTruthful, OutcomesAgree,
                      serverVars, storeVars
  <1>. QED
    BY <1>4, <1>6, <1>7 DEF StreamInv

-----------------------------------------------------------------------------
(* The server and the store.                                               *)

\* The server takes a request in hand.
LEMMA StartInv ==
    ASSUME StreamInv, Start
    PROVE  StreamInv'
  <1>. DEFINE b == Head(requests)
              w == [pc |-> "lookup", answer |-> "none"]
  <1>1. /\ b \in Batches /\ b \in Range(requests) /\ requests' \in Seq(Batches)
        /\ Range(requests') = Range(requests) \ {b} /\ Distinct(requests')
    <2>1. requests \in Seq(Batches) /\ requests # <<>> /\ Distinct(requests)
      BY DEF StreamInv, WireTypes, OnItsWayOnce, Start
    <2>2. requests' = Tail(requests)
      BY DEF Start
    <2>. QED  BY <2>1, <2>2, TailOnce
  <1>2. /\ admitting' = b /\ worker' = [worker EXCEPT ![b] = w]
        /\ Cardinality(Busy) < MaxInFlight
        /\ UNCHANGED <<connected, senderVars, responses, highest, pending, storeVars>>
    <2>1. Idle \in WorkerType /\ Idle.answer = "none"
      BY DEF Idle, WorkerType
    <2>2. PICK i \in WorkerType : i = Idle
      BY <2>1
    <2>3. [i EXCEPT !.pc = "lookup"] = w
      BY <2>1, <2>2 DEF WorkerType
    <2>. QED  BY <2>2, <2>3 DEF Start
  <1>3. /\ b \in inflight /\ b \notin Back(responses) \cup Busy /\ retry[b] # "waiting"
    BY <1>1 DEF StreamInv, OnItsWayOnce
  <1>. HIDE DEF b
  <1>4. w \in WorkerType
    BY DEF WorkerType
  <1>5. /\ worker' \in [Batches -> WorkerType]
        /\ \A c \in Batches : worker'[c] = IF c = b THEN w ELSE worker[c]
    BY <1>1, <1>2, <1>4 DEF StreamInv, ServerTypes
  <1>6. Busy' = Busy \cup {b}
    BY <1>1, <1>5 DEF Busy
  <1>7. SenderTypes' /\ WireTypes' /\ ServerTypes'
    BY <1>1, <1>2, <1>5
       DEF StreamInv, SenderTypes, WireTypes, ServerTypes, senderVars, storeVars
  <1>8. Bounded'
    <2>1. IsFiniteSet(Busy) /\ Cardinality(Busy) \in Nat
      BY Finite DEF Busy
    <2>2. Cardinality(Busy') = Cardinality(Busy) + 1
      BY <1>3, <1>6, <2>1, FS_AddElement
    <2>. QED  BY <1>2, <2>1, <2>2, Finite DEF StreamInv, Bounded, senderVars
  <1>9. PumpInOrder'
    BY <1>2 DEF StreamInv, PumpInOrder, senderVars
  <1>10. OnItsWayOnce'
    BY <1>1, <1>2, <1>3, <1>6 DEF StreamInv, OnItsWayOnce, senderVars
  <1>11. NothingLost'
    BY <1>1, <1>2, <1>6 DEF StreamInv, NothingLost, senderVars
  <1>12. WorkersTruthful'
    BY <1>2, <1>5 DEF StreamInv, WorkersTruthful, storeVars
  <1>13. AnswersTruthful' /\ OutcomesAgree' /\ (pending \subseteq inflight)'
    BY <1>2 DEF StreamInv, AnswersTruthful, OutcomesAgree, senderVars, storeVars
  <1>. QED
    BY <1>7, <1>8, <1>9, <1>10, <1>11, <1>12, <1>13 DEF StreamInv

\* A call that has ended is answered.
LEMMA FinishInv ==
    ASSUME StreamInv, NEW b \in Batches, Finish(b)
    PROVE  StreamInv'
  <1>. DEFINE r == [kind |-> worker[b].answer, batch |-> b]
              t == IF worker[b].answer = "limited"
                   THEN <<[kind |-> "throttle", batch |-> 0]>> ELSE <<>>
  <1>1. /\ worker[b].pc = "done" /\ responses' = responses \o <<r>> \o t
        /\ worker' = [worker EXCEPT ![b] = Idle]
        /\ UNCHANGED <<connected, senderVars, requests, admitting, highest, pending, storeVars>>
    BY DEF Finish
  <1>2. /\ b \in Busy /\ b \in inflight /\ b # 0
        /\ b \notin Range(requests) \cup Back(responses) /\ retry[b] # "waiting"
        /\ worker[b].answer \in Terminal \cup {"retry", "limited", "conflict"}
        /\ worker[b].answer \in Terminal => worker[b].answer = stored[b] /\ b \notin pending
    BY <1>1, Finite DEF StreamInv, OnItsWayOnce, WorkersTruthful, Busy, ServerTypes, WorkerType,
                        Retries
  <1>3. r \in AnswerType
    BY <1>2 DEF AnswerType, Terminal, Retries
  <1>4. t \in Seq(AnswerType) /\ \A x \in Range(t) : x.batch = 0 /\ x.kind = "throttle"
    <2>1. [kind |-> "throttle", batch |-> 0] \in AnswerType
      BY DEF AnswerType
    <2>2. /\ <<[kind |-> "throttle", batch |-> 0]>> \in Seq(AnswerType)
          /\ Range(<<[kind |-> "throttle", batch |-> 0]>>) = {[kind |-> "throttle", batch |-> 0]}
      BY <2>1 DEF Range
    <2>. QED  BY <2>2, EmptyWire
  <1>5. /\ responses' \in Seq(AnswerType) /\ BackOnce(responses')
        /\ Range(responses') = Range(responses) \cup {r} \cup Range(t)
        /\ Back(responses') = Back(responses) \cup {b}
    <2>1. responses \in Seq(AnswerType) /\ BackOnce(responses)
      BY DEF StreamInv, WireTypes, OnItsWayOnce
    <2>2. r.batch = b
      OBVIOUS
    <2>. HIDE DEF r, t
    <2>. QED  BY <1>1, <1>2, <1>3, <1>4, <2>1, <2>2, AnswerBack
  <1>6. /\ worker' \in [Batches -> WorkerType]
        /\ \A c \in Batches : worker'[c] = IF c = b THEN Idle ELSE worker[c]
    BY <1>1 DEF StreamInv, ServerTypes, WorkerType, Idle
  <1>7. Busy' = Busy \ {b}
    BY <1>6 DEF Busy, Idle
  <1>8. r.kind = worker[b].answer /\ r.batch = b
    OBVIOUS
  <1>. HIDE DEF r, t
  <1>9. SenderTypes' /\ WireTypes' /\ ServerTypes'
    BY <1>1, <1>5, <1>6
       DEF StreamInv, SenderTypes, WireTypes, ServerTypes, senderVars, storeVars
  <1>10. Bounded'
    <2>1. IsFiniteSet(Busy) /\ Cardinality(Busy) \in Nat /\ Cardinality(Busy') \in Nat
      BY <1>7, Finite DEF Busy
    <2>2. Cardinality(Busy') <= Cardinality(Busy)
      BY <1>7, <2>1, FS_Subset
    <2>. QED  BY <1>1, <2>1, <2>2, Finite DEF StreamInv, Bounded, senderVars
  <1>11. PumpInOrder'
    BY <1>1 DEF StreamInv, PumpInOrder, senderVars
  <1>12. OnItsWayOnce'
    BY <1>1, <1>2, <1>5, <1>7 DEF StreamInv, OnItsWayOnce, senderVars
  <1>13. NothingLost'
    BY <1>1, <1>5, <1>7 DEF StreamInv, NothingLost, senderVars
  <1>14. WorkersTruthful'
    BY <1>1, <1>6 DEF StreamInv, WorkersTruthful, storeVars, Idle
  <1>15. AnswersTruthful'
    <2>. SUFFICES ASSUME NEW x \in Range(responses)'
                  PROVE  /\ x.kind = "throttle" <=> x.batch = 0
                         /\ x.kind # "busy"
                         /\ x.kind \in Terminal => x.kind = stored[x.batch] /\ x.batch \notin pending
      BY <1>1 DEF AnswersTruthful, storeVars
    <2>1. CASE x \in Range(responses)
      BY <2>1 DEF StreamInv, AnswersTruthful
    <2>2. CASE x = r
      BY <1>2, <1>8, <2>2 DEF Terminal
    <2>3. CASE x \in Range(t)
      BY <1>4, <2>3 DEF Terminal
    <2>. QED  BY <1>5, <2>1, <2>2, <2>3
  <1>16. OutcomesAgree' /\ (pending \subseteq inflight)'
    BY <1>1 DEF StreamInv, OutcomesAgree, senderVars, storeVars
  <1>. QED
    BY <1>9, <1>10, <1>11, <1>12, <1>13, <1>14, <1>15, <1>16 DEF StreamInv

\* What the store has bound for good stays bound.
StoreKeeps ==
    /\ stored' \in [Batches -> StoredType]
    /\ \A c \in Batches : stored[c] \in Terminal => stored'[c] = stored[c]

\* The store moves on its own.
LEMMA StoreInv ==
    ASSUME StreamInv, Store
    PROVE  StreamInv'
  <1>1. /\ UNCHANGED <<connected, senderVars, wireVars, serverVars>> /\ StoreKeeps
    BY DEF Store, StoreCommits, StoreAbandons, OrphanReturns, StoreKeeps, StreamInv,
           ServerTypes, StoredType, Terminal
  <1>2. SenderTypes' /\ WireTypes' /\ ServerTypes'
    BY <1>1 DEF StreamInv, SenderTypes, WireTypes, ServerTypes, senderVars, wireVars, serverVars,
                StoreKeeps
  <1>3. Busy' = Busy
    BY <1>1 DEF Busy, serverVars
  <1>4. Bounded' /\ PumpInOrder' /\ OnItsWayOnce' /\ NothingLost'
    BY <1>1, <1>3 DEF StreamInv, Bounded, PumpInOrder, OnItsWayOnce, NothingLost,
                      senderVars, wireVars
  <1>5. WorkersTruthful'
    BY <1>1 DEF StreamInv, WorkersTruthful, serverVars, StoreKeeps
  <1>6. AnswersTruthful'
    BY <1>1, OnTheWire DEF StreamInv, AnswersTruthful, wireVars, serverVars, StoreKeeps, Terminal
  <1>7. OutcomesAgree' /\ (pending \subseteq inflight)'
    BY <1>1 DEF StreamInv, OutcomesAgree, SenderTypes, senderVars, serverVars, StoreKeeps, Terminal
  <1>. QED
    BY <1>2, <1>4, <1>5, <1>6, <1>7 DEF StreamInv

\* A step of the call of b: it goes on or is answered, and what it answers
\* terminally is what the store keeps and is pending no more.
CallStep(b, w) ==
    /\ worker[b].pc # "none" /\ w \in WorkerType /\ w.pc # "none"
    /\ worker' = [worker EXCEPT ![b] = w]
    /\ admitting' \in Batches \cup {0} /\ highest' \in Batches \cup {0}
    /\ pending' \subseteq pending \cup {b}
    /\ StoreKeeps
    /\ w.pc = "done" => /\ w.answer \notin {"none", "busy"}
                        /\ w.answer \in Terminal => w.answer = stored'[b] /\ b \notin pending'
    /\ UNCHANGED <<connected, senderVars, wireVars>>

\* Such a step keeps the invariant.
LEMMA CallStepInv ==
    ASSUME StreamInv, NEW b \in Batches, NEW w, CallStep(b, w)
    PROVE  StreamInv'
  <1>. USE DEF CallStep
  <1>1. /\ worker' \in [Batches -> WorkerType]
        /\ \A c \in Batches : worker'[c] = IF c = b THEN w ELSE worker[c]
    BY DEF StreamInv, ServerTypes
  <1>2. Busy' = Busy
    BY <1>1 DEF Busy
  <1>3. b \in Busy /\ b \in inflight /\ b \notin Back(responses)
    BY DEF Busy, StreamInv, OnItsWayOnce
  <1>4. SenderTypes' /\ WireTypes'
    BY DEF StreamInv, SenderTypes, WireTypes, senderVars, wireVars
  <1>5. ServerTypes'
    BY <1>1 DEF StreamInv, ServerTypes, StoreKeeps
  <1>6. Bounded' /\ PumpInOrder' /\ OnItsWayOnce' /\ NothingLost'
    BY <1>2 DEF StreamInv, Bounded, PumpInOrder, OnItsWayOnce, NothingLost, senderVars, wireVars
  <1>7. WorkersTruthful'
    BY <1>1 DEF StreamInv, WorkersTruthful, StoreKeeps
  <1>8. AnswersTruthful'
    <2>. SUFFICES ASSUME NEW x \in Range(responses)
                  PROVE  /\ x.kind = "throttle" <=> x.batch = 0
                         /\ x.kind # "busy"
                         /\ x.kind \in Terminal =>
                               x.kind = stored'[x.batch] /\ x.batch \notin pending'
      BY DEF AnswersTruthful, wireVars
    <2>1. /\ x.kind = "throttle" <=> x.batch = 0
          /\ x.kind # "busy"
          /\ x.kind \in Terminal => x.kind = stored[x.batch] /\ x.batch \notin pending
      BY DEF StreamInv, AnswersTruthful
    <2>2. x.kind \in Terminal => x.batch \in Batches /\ x.batch # b
      BY <1>3, <2>1, OnTheWire DEF StreamInv, Terminal
    <2>. QED  BY <2>1, <2>2 DEF StoreKeeps
  <1>9. OutcomesAgree'
    BY DEF StreamInv, OutcomesAgree, SenderTypes, senderVars, StoreKeeps, Terminal
  <1>10. (pending \subseteq inflight)'
    BY <1>3 DEF StreamInv, senderVars
  <1>. QED
    BY <1>4, <1>5, <1>6, <1>7, <1>8, <1>9, <1>10 DEF StreamInv

\* What completeBatchIdentity and the other ends of a call amount to.
LEMMA CompletesStep ==
    ASSUME StreamInv, NEW b \in Batches, Completes(b), worker[b].pc # "none",
           StoreKeeps, stored'[b] \in Terminal,
           admitting' \in Batches \cup {0},
           UNCHANGED <<connected, senderVars, wireVars>>
    PROVE  StreamInv'
  <1>. DEFINE w == [pc |-> "done", answer |-> stored'[b]]
  <1>1. w \in WorkerType /\ w.pc = "done" /\ w.answer = stored'[b]
    BY DEF WorkerType
  <1>2. /\ worker' = [worker EXCEPT ![b] = w] /\ pending' = pending \ {b}
        /\ highest' \in Batches \cup {0}
    BY DEF Completes, Answered, Highest, StreamInv, ServerTypes
  <1>. HIDE DEF w
  <1>3. CallStep(b, w)
    BY <1>1, <1>2 DEF CallStep, Terminal
  <1>. QED  BY <1>3, CallStepInv

\* A call goes on.
LEMMA ContinuesStep ==
    ASSUME StreamInv, NEW b \in Batches, worker[b].pc # "none",
           NEW pc \in {"storing", "resuming"}, Continues(b, pc),
           highest' \in Batches \cup {0}, admitting' \in Batches \cup {0},
           pending' \subseteq pending \cup {b},
           UNCHANGED <<connected, senderVars, wireVars, stored>>
    PROVE  StreamInv'
  <1>. DEFINE w == [worker[b] EXCEPT !.pc = pc]
  <1>1. w \in WorkerType /\ w.pc = pc
    BY DEF StreamInv, ServerTypes, WorkerType
  <1>2. worker' = [worker EXCEPT ![b] = w]
    BY DEF Continues
  <1>3. StoreKeeps
    BY DEF StreamInv, ServerTypes, StoreKeeps
  <1>. HIDE DEF w
  <1>4. CallStep(b, w)
    BY <1>1, <1>2, <1>3 DEF CallStep
  <1>. QED  BY <1>4, CallStepInv

\* A call is answered with something to do again.
LEMMA RetryStep ==
    ASSUME StreamInv, NEW b \in Batches, worker[b].pc # "none",
           NEW answer \in {"retry", "limited", "conflict"}, Answered(b, answer),
           StoreKeeps, admitting' \in Batches \cup {0},
           UNCHANGED <<connected, senderVars, wireVars, highest, pending>>
    PROVE  StreamInv'
  <1>. DEFINE w == [pc |-> "done", answer |-> answer]
  <1>1. w \in WorkerType /\ w.pc = "done" /\ w.answer = answer
    BY DEF WorkerType, Retries
  <1>2. /\ worker' = [worker EXCEPT ![b] = w]
        /\ highest' \in Batches \cup {0}
    BY DEF Answered, StreamInv, ServerTypes
  <1>. HIDE DEF w
  <1>3. CallStep(b, w)
    BY <1>1, <1>2 DEF CallStep, Terminal
  <1>. QED  BY <1>3, CallStepInv

\* recordBatchIdentity.  The stream cannot be full: what is pending has a slot
\* of the collector, and b has one that is not among them.
LEMMA RecordStep ==
    ASSUME StreamInv, NEW b \in Batches, worker[b].pc # "none", Record(b),
           UNCHANGED <<connected, senderVars, wireVars, stored>>
    PROVE  StreamInv'
  <1>1. admitting' \in Batches \cup {0} /\ StoreKeeps
    BY DEF Record, Released, StreamInv, ServerTypes, StoreKeeps
  <1>2. b \notin pending => Cardinality(pending) < MaxInFlight
    <2>. SUFFICES ASSUME b \notin pending PROVE Cardinality(pending) < MaxInFlight
      OBVIOUS
    <2>1. b \in inflight /\ pending \subseteq inflight \ {b}
      BY DEF StreamInv, OnItsWayOnce, Busy
    <2>2. /\ IsFiniteSet(inflight) /\ IsFiniteSet(inflight \ {b})
          /\ {Cardinality(inflight), Cardinality(inflight \ {b}), Cardinality(pending)} \subseteq Nat
      BY <2>1, Finite DEF StreamInv, SenderTypes
    <2>3. Cardinality(inflight \ {b}) = Cardinality(inflight) - 1
      BY <2>1, <2>2, FS_RemoveElement
    <2>4. Cardinality(pending) <= Cardinality(inflight \ {b})
      BY <2>1, <2>2, FS_Subset
    <2>. QED  BY <2>2, <2>3, <2>4, Finite DEF StreamInv, Bounded
  <1>3. CASE b \in pending /\ Continues(b, "storing") /\ UNCHANGED <<highest, pending>>
    <2>1. highest' \in Batches \cup {0} /\ pending' \subseteq pending \cup {b}
      BY <1>3 DEF StreamInv, ServerTypes
    <2>. QED  BY <1>1, <1>3, <2>1, ContinuesStep
  <1>4. CASE Answered(b, "conflict") /\ UNCHANGED <<highest, pending>>
    BY <1>1, <1>4, RetryStep
  <1>5. CASE b \notin pending /\ Cardinality(pending) >= MaxInFlight
    <2>1. Cardinality(pending) \in Nat
      BY Finite DEF StreamInv, ServerTypes
    <2>. QED  BY <1>2, <1>5, <2>1, Finite
  <1>6. CASE Continues(b, "storing") /\ highest' = b /\ pending' = pending \cup {b}
    BY <1>1, <1>6, ContinuesStep
  <1>. QED
    BY <1>3, <1>4, <1>5, <1>6 DEF Record

\* Every step of a call keeps the invariant.
LEMMA ReturnsInv ==
    ASSUME StreamInv, NEW b \in Batches, Returns(b)
    PROVE  StreamInv'
  <1>1. /\ stored[b] \in StoredType /\ highest \in Batches \cup {0}
        /\ admitting \in Batches \cup {0}
        /\ stored \in [Batches -> StoredType] /\ StreamInv
    BY DEF StreamInv, ServerTypes
  <1>2. stored' = stored => StoreKeeps
    BY <1>1 DEF StoreKeeps
  <1>3. Released(b) => admitting' \in Batches \cup {0}
    BY <1>1 DEF Released
  <1>4. CASE LookupFinds(b)
    <2>1. /\ worker[b].pc # "none" /\ stored' = stored /\ stored'[b] \in Terminal
          /\ Completes(b) /\ Released(b) /\ UNCHANGED <<connected, senderVars, wireVars>>
      BY <1>4 DEF LookupFinds
    <2>. QED  BY <1>1, <1>2, <1>3, <2>1, CompletesStep
  <1>5. CASE LookupFindsPending(b)
    <2>1. /\ worker[b].pc # "none" /\ Continues(b, "resuming") /\ Released(b)
          /\ highest' \in Batches \cup {0} /\ pending' \subseteq pending \cup {b}
          /\ UNCHANGED <<connected, senderVars, wireVars, stored>>
      BY <1>1, <1>5 DEF LookupFindsPending, Highest, storeVars
    <2>. QED  BY <1>1, <1>3, <2>1, ContinuesStep
  <1>6. CASE LookupFindsNothing(b)
    <2>1. /\ worker[b].pc # "none" /\ Record(b)
          /\ UNCHANGED <<connected, senderVars, wireVars, stored>>
      BY <1>6 DEF LookupFindsNothing, storeVars
    <2>. QED  BY <1>1, <2>1, RecordStep
  <1>7. CASE LookupFailsOnce(b)
    <2>1. /\ worker[b].pc # "none" /\ Answered(b, "retry") /\ Released(b) /\ stored' = stored
          /\ UNCHANGED <<connected, senderVars, wireVars, highest, pending>>
      BY <1>7 DEF LookupFailsOnce, storeVars
    <2>. QED  BY <1>1, <1>2, <1>3, <2>1, RetryStep
  <1>8. CASE ResumeReturns(b)
    <2>1. /\ worker[b].pc # "none" /\ Completes(b) /\ stored[b] # "none"
          /\ stored' = [stored EXCEPT ![b] = IF @ = "pending" THEN "ack" ELSE @]
          /\ UNCHANGED <<connected, senderVars, wireVars, admitting>>
      BY <1>8 DEF ResumeReturns
    <2>2. StoreKeeps /\ stored'[b] \in Terminal
      BY <1>1, <2>1 DEF StoreKeeps, StoredType, Terminal
    <2>. QED  BY <1>1, <2>1, <2>2, CompletesStep
  <1>9. CASE ResumeFindsNothing(b)
    <2>1. /\ worker[b].pc # "none" /\ Record(b)
          /\ UNCHANGED <<connected, senderVars, wireVars, stored>>
      BY <1>9 DEF ResumeFindsNothing, storeVars
    <2>. QED  BY <1>1, <2>1, RecordStep
  <1>10. CASE StoreReturns(b)
    <2>1. /\ worker[b].pc # "none" /\ Completes(b)
          /\ UNCHANGED <<connected, senderVars, wireVars, admitting>>
      BY <1>10 DEF StoreReturns
    <2>2. PICK bound \in Terminal : /\ stored' = [stored EXCEPT ![b] = bound]
                                    /\ stored[b] \in Terminal => bound = stored[b]
      BY <1>1, <1>10 DEF StoreReturns, StoredType, Terminal
    <2>3. StoreKeeps /\ stored'[b] \in Terminal
      BY <1>1, <2>2 DEF StoreKeeps, StoredType
    <2>. QED  BY <1>1, <2>1, <2>3, CompletesStep
  <1>11. CASE CallFails(b)
    <2>1. /\ Answered(b, "retry") \/ Answered(b, "limited")
          /\ UNCHANGED <<connected, senderVars, wireVars, admitting, highest, pending>>
      BY <1>11 DEF CallFails
    <2>2. StoreKeeps
      BY <1>1, <1>11 DEF CallFails, StoreKeeps, StoredType, Terminal
    <2>3. worker[b].pc # "none" /\ admitting' \in Batches \cup {0}
      BY <1>1, <1>11 DEF CallFails
    <2>. QED  BY <1>1, <2>1, <2>2, <2>3, RetryStep
  <1>. QED
    BY <1>4, <1>5, <1>6, <1>7, <1>8, <1>9, <1>10, <1>11 DEF Returns

-----------------------------------------------------------------------------
(* Theorems.                                                               *)

\* Every step keeps the invariant.
LEMMA StreamStep == StreamInv /\ [Next]_vars => StreamInv'
  <1>. SUFFICES ASSUME StreamInv, [Next]_vars PROVE StreamInv'
    OBVIOUS
  <1>1. CASE Connect \/ Clock
    BY <1>1, TimePasses
  <1>2. CASE StreamBreaks
    BY <1>2, StreamBreaksInv
  <1>3. CASE Pump
    BY <1>3, PumpTakesInv, PumpSendsInv DEF Pump
  <1>4. CASE Receiver
    BY <1>4, ReceiveOutcomeInv, ReceiveRetryInv, ReceiveThrottleInv DEF Receiver
  <1>5. CASE Start
    BY <1>5, StartInv
  <1>6. CASE Store
    BY <1>6, StoreInv
  <1>7. ASSUME NEW b \in Batches, Retry(b) PROVE StreamInv'
    BY <1>7, RetrySendsInv, TimePasses DEF Retry
  <1>8. ASSUME NEW b \in Batches, Returns(b) PROVE StreamInv'
    BY <1>8, ReturnsInv
  <1>9. ASSUME NEW b \in Batches, Finish(b) PROVE StreamInv'
    BY <1>9, FinishInv
  <1>10. CASE UNCHANGED vars
    <2>. USE <1>10 DEF vars, senderVars, wireVars, serverVars, storeVars
    <2>1. SenderTypes' /\ WireTypes' /\ ServerTypes'
      BY DEF StreamInv, SenderTypes, WireTypes, ServerTypes
    <2>2. Busy' = Busy
      BY DEF Busy
    <2>3. Bounded' /\ PumpInOrder' /\ OnItsWayOnce' /\ NothingLost'
      BY <2>2 DEF StreamInv, Bounded, PumpInOrder, OnItsWayOnce, NothingLost
    <2>4. /\ WorkersTruthful' /\ AnswersTruthful' /\ OutcomesAgree'
          /\ (pending \subseteq inflight)'
      BY DEF StreamInv, WorkersTruthful, AnswersTruthful, OutcomesAgree
    <2>. QED  BY <2>1, <2>3, <2>4 DEF StreamInv
  <1>. QED
    BY <1>1, <1>2, <1>3, <1>4, <1>5, <1>6, <1>7, <1>8, <1>9, <1>10 DEF Next

\* The inductive invariant of the stream holds in every reachable state.
THEOREM StreamInvariant == Spec => []StreamInv
  BY InitInv, StreamStep, PTL DEF Spec

\* The stream is type-correct: in particular neither the collector nor the
\* server ever has more batches in hand than Ready negotiated.
THEOREM StreamTypeCorrect == Spec => []StreamTypeOK
  <1>1. StreamInv => StreamTypeOK
    BY DEF StreamInv, SenderTypes, WireTypes, ServerTypes, Bounded, StreamTypeOK, WorkerType,
           StoredType
  <1>. QED  BY <1>1, StreamInvariant, PTL

\* What the collector has made durable as the outcome of a batch is what the
\* store keeps, over every order of calls, retries and broken streams.
THEOREM OutcomesMatch == Spec => []OutcomesAgree
  <1>1. StreamInv => OutcomesAgree
    BY DEF StreamInv
  <1>. QED  BY <1>1, StreamInvariant, PTL

\* Something that is there once is counted once.
LEMMA CountOnce ==
    ASSUME OnItsWayOnce, NEW b \in Batches
    PROVE  Count(b) = IF b \in Range(requests) \cup Back(responses) \cup Busy THEN 1 ELSE 0
  <1>. DEFINE I == {i \in DOMAIN requests : requests[i] = b}
              J == {i \in DOMAIN responses : responses[i].batch = b}
  <1>1. b # 0
    BY Finite
  <1>2. ASSUME NEW S, \A i, j \in S : i = j
        PROVE  Cardinality(S) = IF S = {} THEN 0 ELSE 1
    <2>1. S # {} => \E i : S = {i}
      BY <1>2
    <2>. QED  BY <2>1, FS_Singleton, FS_EmptySet
  <1>3. Cardinality(I) = IF b \in Range(requests) THEN 1 ELSE 0
    <2>1. \A i, j \in I : i = j
      BY DEF OnItsWayOnce, Distinct
    <2>2. I = {} <=> b \notin Range(requests)
      BY DEF Range
    <2>. HIDE DEF I
    <2>. QED  BY <1>2, <2>1, <2>2
  <1>4. Cardinality(J) = IF b \in Back(responses) THEN 1 ELSE 0
    <2>1. \A i, j \in J : i = j
      BY <1>1 DEF OnItsWayOnce, BackOnce
    <2>2. J = {} <=> b \notin Back(responses)
      BY <1>1 DEF Back, Range
    <2>. HIDE DEF J
    <2>. QED  BY <1>2, <2>1, <2>2
  <1>5. Count(b) = Cardinality(I) + Cardinality(J) + (IF b \in Busy THEN 1 ELSE 0)
    BY DEF Count, Busy
  <1>6. b \notin Range(requests) \cap Back(responses) /\ b \notin Busy \cap (Range(requests) \cup Back(responses))
    BY DEF OnItsWayOnce
  <1>. HIDE DEF I, J
  <1>. QED
    BY <1>3, <1>4, <1>5, <1>6

\* What the server keeps for a stream has slots of the collector, the limit of
\* batches is never reached by an honest one, and a batch in flight is on its
\* way in one place, if it is not one whose retry was joined too late.
THEOREM PendingInSlots == Spec => []PendingHasSlot
  <1>1. StreamInv => PendingHasSlot
    <2>. SUFFICES ASSUME StreamInv PROVE PendingHasSlot
      OBVIOUS
    <2>1. \A i \in DOMAIN responses : responses[i].kind # "busy"
      BY DEF StreamInv, AnswersTruthful, Range
    <2>2. ASSUME NEW b \in Batches, connected
          PROVE  \/ RetryIsLost(b)
                 \/ Count(b) + (IF retry[b] = "waiting" THEN 1 ELSE 0) =
                       (IF b \in inflight THEN 1 ELSE 0)
      <3>1. Count(b) = IF b \in Range(requests) \cup Back(responses) \cup Busy THEN 1 ELSE 0
        BY CountOnce DEF StreamInv
      <3>2. /\ b \in Range(requests) \cup Back(responses) \cup Busy => b \in inflight
            /\ retry[b] = "waiting" =>
                  b \in inflight \ (Range(requests) \cup Back(responses) \cup Busy)
        BY DEF StreamInv, OnItsWayOnce
      <3>. QED  BY <2>2, <3>1, <3>2 DEF RetryIsLost
    <2>. QED
      BY <2>1, <2>2 DEF StreamInv, PendingHasSlot
  <1>. QED  BY <1>1, StreamInvariant, PTL

\* The one reason for which a batch that is to be sent again is not: its retry
\* was answered before the goroutine that sent it had ended.
THEOREM RetainedUnlessLate == (Lingers = FALSE) => (Spec => []RetainedIsResent)
  <1>. SUFFICES ASSUME Lingers = FALSE PROVE Spec => []RetainedIsResent
    OBVIOUS
  <1>1. StreamInv => RetainedIsResent
    <2>. SUFFICES ASSUME StreamInv, NEW b \in Batches, b \in inflight, Count(b) = 0,
                         retry[b] # "waiting"
                  PROVE  FALSE
      BY DEF RetainedIsResent, RetryIsLost
    <2>1. Count(b) = IF b \in Range(requests) \cup Back(responses) \cup Busy THEN 1 ELSE 0
      BY CountOnce DEF StreamInv
    <2>2. b \in Range(requests) \cup Back(responses) \cup Busy
      BY DEF StreamInv, NothingLost
    <2>. QED  BY <2>1, <2>2
  <1>. QED  BY <1>1, StreamInvariant, PTL

\* No stream sends a batch before its retry_after has passed.
THEOREM NotResentEarly == Spec => NoEarlyResend
  <1>1. ASSUME StreamInv, [Next]_vars
        PROVE  [\A b \in deferred : requests' # Append(requests, b)]_vars
    <2>. SUFFICES ASSUME NEW b \in deferred, requests' = Append(requests, b) PROVE FALSE
      OBVIOUS
    <2>1. /\ requests \in Seq(Batches) /\ b \in Batches
          /\ Append(requests, b) # requests /\ Append(requests, b) # <<>>
          /\ Append(requests, b) # Tail(requests) \/ requests = <<>>
      <3>1. requests \in Seq(Batches) /\ b \in Batches
        BY <1>1 DEF StreamInv, WireTypes, SenderTypes
      <3>2. Len(Append(requests, b)) = Len(requests) + 1 /\ Len(requests) \in Nat
        BY <3>1, AppendProperties, LenProperties
      <3>3. requests # <<>> => Len(Tail(requests)) = Len(requests) - 1
        BY <3>1, HeadTailProperties
      <3>4. Len(<<>>) = 0
        OBVIOUS
      <3>. QED  BY <3>1, <3>2, <3>3, <3>4
    <2>2. \A c \in Batches : Append(requests, c) = Append(requests, b) => c = b
      BY <2>1, AppendInjective
    <2>3. PumpSends \/ \E c \in Batches : RetrySends(c)
      <3>1. ASSUME requests' # requests, ~StreamBreaks, ~Start
            PROVE  PumpSends \/ \E c \in Batches : RetrySends(c)
        BY <1>1, <3>1 DEF Next, vars, Connect, Pump, PumpTakes, Clock, ThrottleEnds, DelayEnds,
             Receiver, ReceiveOutcome, ReceiveRetry, ReceiveThrottle, Receive, Store,
             StoreCommits, StoreAbandons, OrphanReturns, Retry, RetryEnds, Returns,
             LookupFinds, LookupFindsPending, LookupFindsNothing, LookupFailsOnce,
             ResumeReturns, ResumeFindsNothing, StoreReturns, CallFails, Finish, wireVars
      <3>2. ~StreamBreaks
        BY <2>1 DEF StreamBreaks, NewStream
      <3>3. ~Start
        BY <2>1 DEF Start
      <3>. QED  BY <2>1, <3>1, <3>2, <3>3
    <2>4. ASSUME PumpSends PROVE FALSE
      <3>1. held \in Batches /\ held \notin deferred /\ requests' = Append(requests, held)
        BY <1>1, <2>4 DEF PumpSends, Put, StreamInv, SenderTypes
      <3>. QED  BY <2>2, <3>1
    <2>5. ASSUME NEW c \in Batches, RetrySends(c) PROVE FALSE
      BY <2>2, <2>5 DEF RetrySends, Put
    <2>. QED  BY <2>3, <2>4, <2>5
  <1>. QED  BY <1>1, StreamInvariant, PTL DEF Spec, NoEarlyResend
===============================================================================
