---------------------------- MODULE SearchStream ----------------------------
(***************************************************************************)
(* The search WebSocket: what internal/searchws publishes about one search *)
(* job, and what the browser's client (lib/api/search-websocket.ts) makes  *)
(* of it.                                                                  *)
(*                                                                         *)
(* The server holds a target for the job: numbered events, the newest one  *)
(* of each category, a replay ring, its subscribers and one poller.        *)
(* Numbers belong to the target and start at a random base, so an evicted  *)
(* target or a restarted server begins a new epoch.  A client keeps the    *)
(* last number it processed and resumes after it; where the server cannot  *)
(* replay it answers with a resynchronization, and the client reads the    *)
(* job over HTTP.  Its watch of the search (app/search-workspace.tsx) also  *)
(* reads the job from time to time; both share the GET that is under way.   *)
(*                                                                         *)
(* State, progress and schema are one category here ("state"), and rows    *)
(* are counted: a preview that shows rows is a positive number, the empty  *)
(* RESET that clears them is zero.                                         *)
(***************************************************************************)
EXTENDS Integers, FiniteSets, SequencesExt

CONSTANTS
  Client,
  Previewers,     \* clients that subscribe with previews
  EpochBases,     \* the bases that each of the successive epochs may take
  MaxReplay,      \* Config.MaximumReplayEvents
  MaxQueue,       \* Config.MaximumQueuedFrames
  MaxFailures,    \* maximumConsecutivePollFailures
  Endings,        \* the states the search may end in
  Faults,         \* what may go wrong
  MaxFaults,      \* bound: how many of them in one behaviour, each once
  MaxRows,        \* bound: rows of the job
  EpochSize,      \* bound: events of one epoch
  Void,           \* a GET that will not be used
  None

AllFaults == {"poll", "get", "store", "omit", "drop", "evict", "restart"}

ASSUME SearchStreamConstants ==
  /\ Previewers \subseteq Client /\ Faults \subseteq AllFaults
  /\ {MaxReplay, MaxQueue, MaxFailures, EpochSize} \subseteq Nat \ {0}
  /\ {MaxFaults, MaxRows} \subseteq Nat
  /\ Endings \subseteq {"done", "failed"} /\ Endings # {}
  /\ \A i \in DOMAIN EpochBases : EpochBases[i] # {} /\ EpochBases[i] \subseteq Nat \ {0}
  /\ \A i, j \in DOMAIN EpochBases : \A m \in EpochBases[i], n \in EpochBases[j] :
       i # j => (m + EpochSize < n \/ n + EpochSize < m)

VARIABLES
  job,        \* external: the job in internal/searchjobs
  bases,      \* the bases of the epochs to come
  target,     \* Service.targets: the target, or None
  loading,    \* Service.loads: the one load of the target, with the projection it read
  poll,       \* the target's poller
  conn,       \* each client's connection on the server
  client,     \* each client: its checkpoint, its GET, and what it shows
  faults      \* what has gone wrong

vars == <<job, bases, target, loading, poll, conn, client, faults>>

-----------------------------------------------------------------------------
(* The job, and the projection the service reads of it.                     *)

Terminal(phase) == phase \in {"done", "failed", "expired"}
Invalidates(phase) == phase \in {"failed", "expired"}
Version(j) == j.rows + 1 + (IF j.phase = "running" THEN 0 ELSE IF j.phase = "expired" THEN 2 ELSE 1)

\* The rows a preview shows: none are asked for, none are there yet, or the
\* job's state denies them.
Projection(wanted) ==
  [phase |-> job.phase, version |-> Version(job), wanted |-> wanted,
   rows |-> IF wanted /\ ~Invalidates(job.phase) THEN job.rows ELSE 0]

\* The retention time of the results is over.
Due == job.phase \in {"expired", "gone"}

JobProgress ==
  /\ job.phase = "running" /\ job.rows < MaxRows
  /\ job' = [job EXCEPT !.rows = @ + 1]
  /\ UNCHANGED <<bases, target, loading, poll, conn, client, faults>>

JobEnds ==
  /\ job.phase = "running"
  /\ \E phase \in Endings : job' = [job EXCEPT !.phase = phase]
  /\ UNCHANGED <<bases, target, loading, poll, conn, client, faults>>

JobExpires ==
  /\ job.phase \in {"done", "failed"}
  /\ job' = [job EXCEPT !.phase = "expired"]
  /\ UNCHANGED <<bases, target, loading, poll, conn, client, faults>>

JobRemoved ==
  /\ job.phase = "expired"
  /\ job' = [job EXCEPT !.phase = "gone"]
  /\ UNCHANGED <<bases, target, loading, poll, conn, client, faults>>

-----------------------------------------------------------------------------
(* A target's journal.                                                      *)

Category == {"state", "preview", "terminal"}
Order == <<"state", "preview", "terminal">>

NewTarget(base) ==
  [base |-> base, latest |-> base, established |-> FALSE,
   phase |-> "running", version |-> 0, projected |-> FALSE,
   current |-> << >>, expected |-> {}, finger |-> << >>, incomplete |-> FALSE,
   quiet |-> FALSE, log |-> {}, replay |-> {}, refresher |-> None]

Restricted(f, S) == [x \in DOMAIN f \cap S |-> f[x]]
With(f, x, v) == [y \in DOMAIN f \cup {x} |-> IF y = x THEN v ELSE f[y]]
Values(f) == {f[x] : x \in DOMAIN f}

\* An event is retained while it is its category's newest or in the ring.
Retaining(t) == [t EXCEPT !.log = {e \in @ : e.seq \in Values(t.current) \cup t.replay}]
EventAt(t, seq) == CHOOSE e \in t.log : e.seq = seq
Unpinned(t) == t.replay \ Values(t.current)

Discarded(t, categories) == Retaining([t EXCEPT !.current = Restricted(@, Category \ categories)])

\* Mutant: rows that are no longer valid stay replayable.
PurgedKeepsRing(t, category) == Discarded(t, {category})

Purged(t, category) ==
  LET kept == {e \in t.log : e.category # category} IN
  [t EXCEPT !.current = Restricted(@, Category \ {category}), !.log = kept,
            !.replay = @ \cap {e.seq : e \in kept}]

DropsOldest(t) ==
  IF Cardinality(t.replay) < MaxReplay \/ Unpinned(t) = {} THEN t
  ELSE LET oldest == CHOOSE s \in Unpinned(t) : \A o \in Unpinned(t) : s =< o
       IN Retaining([t EXCEPT !.replay = @ \ {oldest}])

Stored(t, e) ==
  LET held == [Discarded(t, {e.category}) EXCEPT !.current = With(@, e.category, e.seq),
                                                 !.log = @ \cup {e}]
      room == DropsOldest(held)
  IN IF Cardinality(room.replay) < MaxReplay THEN [room EXCEPT !.replay = @ \cup {e.seq}]
     ELSE room

\* The visible rows of the newest preview.
ShowsRows(t) == "preview" \in DOMAIN t.current /\ EventAt(t, t.current["preview"]).rows > 0

Tombstone(t, p) == ShowsRows(t) /\ (~p.wanted \/ Invalidates(p.phase))
Stale(t, p) == p.version < t.version
Settled(t, p) == ~t.incomplete /\ p.version = t.version /\ p.wanted = t.projected

\* The categories of a projection.  A preview that does not fit is omitted.
Present(t, p, omit) ==
  {"state"} \cup (IF (p.rows > 0 \/ Tombstone(t, p)) /\ ~omit THEN {"preview"} ELSE {})
            \cup (IF Terminal(p.phase) THEN {"terminal"} ELSE {})

Fingerprint(p, category) == IF category = "preview" THEN p.rows ELSE p.version

\* The categories that get a new event.
Changed(t, p, initial, present) ==
  LET differs == {c \in present :
        \/ initial
        \/ c \in t.expected \ DOMAIN t.current
        \/ c \notin DOMAIN t.finger
        \/ c \in DOMAIN t.finger /\ t.finger[c] # Fingerprint(p, c)}
  IN IF "preview" \in differs THEN differs \cup (present \cap {"terminal"}) ELSE differs

\* The new events, numbered in the order of the categories.
Events(t, p, changed) ==
  LET order == SelectSeq(Order, LAMBDA c : c \in changed) IN
  [i \in DOMAIN order |->
     [epoch |-> t.base, seq |-> t.latest + i, category |-> order[i], version |-> p.version, phase |-> p.phase,
      rows |-> IF order[i] = "preview" THEN p.rows ELSE 0]]

\* Publishing a projection: the target afterwards, the events to deliver, and
\* whether the subscribers must be told to resynchronize.  A target that was
\* incomplete keeps quiet about events it fails to deliver.
Publication(t, p, initial, omit, unstored) ==
  LET present == Present(t, p, omit)
      changed == Changed(t, p, initial, present)
      events  == Events(t, p, changed)
      kept    == SelectSeq(events, LAMBDA e : e.category \notin unstored)
      purged  == IF Tombstone(t, p) \/ Invalidates(p.phase) THEN Purged(t, "preview") ELSE t
      cleared == Discarded(purged, (t.expected \ present) \cup (unstored \cap changed))
      stored  == FoldLeft(Stored, cleared, kept)
      failed  == unstored \cap changed # {} \/ (Tombstone(t, p) /\ omit)
  IN [target |-> [stored EXCEPT
        !.latest = t.latest + Len(events), !.expected = present,
        !.finger = [c \in present |-> Fingerprint(p, c)],
        !.incomplete = \E c \in present : c \notin DOMAIN stored.current,
        !.quiet = IF events = <<>> THEN @ ELSE failed /\ t.incomplete,
        !.phase = p.phase, !.version = p.version, !.projected = p.wanted],
      events |-> events,
      frames |-> IF failed THEN <<>> ELSE kept,
      resync |-> failed /\ ~t.incomplete]

-----------------------------------------------------------------------------
(* Who holds the target.                                                    *)

Subscribing == {"pinned", "apply", "ready"}
Attached == {"on", "closing"}
At(c) == target # None /\ conn[c].epoch = target.base
Subs == {c \in Client : conn[c].pc \in Attached /\ At(c)}
Pinned == {c \in Client : conn[c].pc \in Subscribing /\ At(c)}
Demand == (Subs \cup Pinned) \cap Previewers # {}

Off == [pc |-> "off", after |-> 0, epoch |-> 0, initial |-> FALSE, proj |-> None, queue |-> <<>>]
NoLoad == [on |-> FALSE, proj |-> None]
NoPoll == [on |-> FALSE, cancelled |-> FALSE, pc |-> "delay", wait |-> "soon",
           proj |-> None, failures |-> 0, notified |-> FALSE]

Possible(kind) == kind \in Faults \ faults /\ Cardinality(faults) < MaxFaults
Sound == UNCHANGED faults
Fault(kind) == Possible(kind) /\ faults' = faults \cup {kind}
Comes(kind) == IF kind = None THEN Sound ELSE Fault(kind)

\* What publishing a projection may come to: nothing goes wrong, the preview
\* does not fit, an event is too large for a frame.
Published(t, p, initial) ==
  {[fault |-> None, made |-> Publication(t, p, initial, FALSE, {})]}
  \cup {[fault |-> "omit", made |-> Publication(t, p, initial, TRUE, {})] :
          c \in {x \in Present(t, p, FALSE) : x = "preview" /\ Possible("omit")}}
  \cup {[fault |-> "store", made |-> Publication(t, p, initial, FALSE, {c})] :
          c \in {x \in Changed(t, p, initial, Present(t, p, FALSE)) : Possible("store")}}

Frame(c, e) == [kind |-> "event", event |-> IF c \in Previewers THEN e ELSE [e EXCEPT !.rows = 0]]
Resync(reason, latest) == [kind |-> "resync", reason |-> reason, latest |-> latest]

\* A connection that cannot take its frames is closed at once.
Delivered(C, subs, frames) ==
  [c \in Client |->
     IF c \notin subs \/ C[c].pc # "on" THEN C[c]
     ELSE IF Len(C[c].queue) + Len(frames[c]) =< MaxQueue
          THEN [C[c] EXCEPT !.queue = @ \o frames[c]]
          ELSE [C[c] EXCEPT !.pc = "closing", !.queue = <<>>]]

Sent(C, subs, publication) ==
  Delivered(C, subs, [c \in Client |->
    IF publication.resync THEN <<Resync("expired", publication.target.latest)>>
    ELSE [i \in DOMAIN publication.frames |-> Frame(c, publication.frames[i])]])

InBounds(publication) == publication.target.latest =< publication.target.base + EpochSize

Closed(C, cs) ==
  [c \in Client |-> IF c \in cs /\ C[c].pc = "on" THEN [C[c] EXCEPT !.pc = "closing", !.queue = <<>>]
                    ELSE C[c]]

-----------------------------------------------------------------------------
(* The poller.                                                              *)

NextWait(t, demand) ==
  IF t.projected # demand \/ ~Terminal(t.phase) \/ t.phase = "expired" THEN "soon" ELSE "expiry"

\* Starts a poller unless one runs; a cancelled one still runs.
Polling(p, t, subs, demand) ==
  IF p.on \/ subs = {} THEN p ELSE [NoPoll EXCEPT !.on = TRUE, !.wait = NextWait(t, demand)]

Elapsed == poll.wait = "soon" \/ Due

PollRead ==
  /\ poll.on /\ ~poll.cancelled /\ poll.pc = "delay" /\ Elapsed
  /\ target.refresher = None /\ job.phase # "gone"
  /\ poll' = [poll EXCEPT !.pc = "apply", !.proj = Projection(Demand)]
  /\ target' = [target EXCEPT !.refresher = "poll"]
  /\ UNCHANGED <<job, bases, loading, conn, client, faults>>

Repeats(t, p) == Stale(t, p) \/ Settled(t, p)

PollApply ==
  LET done(t) == [poll EXCEPT !.pc = "delay", !.proj = None, !.wait = NextWait(t, Demand),
                              !.failures = 0, !.notified = FALSE]
      take(publication) ==
        /\ InBounds(publication)
        /\ target' = [publication.target EXCEPT !.refresher = None]
        /\ conn' = Sent(conn, Subs, publication)
        /\ poll' = done(target')
  IN
  /\ poll.on /\ poll.pc = "apply"
  /\ IF Repeats(target, poll.proj)
     THEN /\ target' = [target EXCEPT !.refresher = None]
          /\ poll' = done(target) /\ UNCHANGED conn /\ Sound
     ELSE \E way \in Published(target, poll.proj, FALSE) : take(way.made) /\ Comes(way.fault)
  /\ UNCHANGED <<job, bases, loading, client>>

\* The target is forgotten and its connections are closed.
Retires ==
  /\ target' = None /\ poll' = NoPoll
  /\ conn' = Closed(conn, Subs)

\* A read that times out, or a job that is gone: an expired job's target is
\* retired, any other is polled again and its subscribers are told once.
PollFails ==
  LET told == poll.failures + 1 >= MaxFailures /\ ~poll.notified IN
  /\ poll.on /\ ~poll.cancelled /\ poll.pc = "delay" /\ Elapsed /\ target.refresher = None
  /\ (job.phase = "gone" /\ Sound) \/ Fault("poll")
  /\ IF job.phase = "gone" /\ Terminal(target.phase) THEN Retires
     ELSE /\ poll' = [poll EXCEPT !.wait = "soon", !.notified = @ \/ told,
                                  !.failures = IF @ < MaxFailures THEN @ + 1 ELSE @]
          /\ target' = IF told THEN [target EXCEPT !.incomplete = TRUE] ELSE target
          /\ conn' = IF told THEN Delivered(conn, Subs, [c \in Client |-> <<Resync("diverged", target.latest)>>])
                     ELSE conn
  /\ UNCHANGED <<job, bases, loading, client>>

\* Mutant: the poller that was told to stop does not look for new subscribers.
PollStopsForGood ==
  /\ poll.on /\ poll.cancelled
  /\ poll' = NoPoll
  /\ target' = IF poll.pc = "apply" THEN [target EXCEPT !.refresher = None] ELSE target
  /\ UNCHANGED <<job, bases, loading, conn, client, faults>>

\* A cancelled poller leaves, and hands over if a subscriber came meanwhile.
PollStops ==
  /\ poll.on /\ poll.cancelled
  /\ poll' = Polling(NoPoll, target, Subs, Demand)
  /\ target' = IF poll.pc = "apply" THEN [target EXCEPT !.refresher = None] ELSE target
  /\ UNCHANGED <<job, bases, loading, conn, client, faults>>

-----------------------------------------------------------------------------
(* Subscribing: resolve the target, refresh it, reply and attach.           *)

\* The client reconnects once its last connection's frames are settled.
Connect(c) ==
  /\ client[c].watch = "live" /\ client[c].pending = None /\ conn[c].pc = "off"
  /\ conn' = [conn EXCEPT ![c] = [Off EXCEPT !.pc = "resolve", !.after = client[c].last]]
  /\ UNCHANGED <<job, bases, target, loading, poll, client, faults>>

Resolve(c) ==
  /\ conn[c].pc = "resolve"
  /\ IF target # None
     THEN conn' = [conn EXCEPT ![c].pc = "pinned", ![c].epoch = target.base] /\ UNCHANGED loading
     ELSE /\ conn' = [conn EXCEPT ![c].pc = "wait"]
          /\ loading' = [loading EXCEPT !.on = TRUE]
  /\ UNCHANGED <<job, bases, target, poll, client, faults>>

LoadRead ==
  /\ loading.on /\ loading.proj = None /\ job.phase # "gone"
  /\ loading' = [loading EXCEPT !.proj = Projection(FALSE)]
  /\ UNCHANGED <<job, bases, target, poll, conn, client, faults>>

Waiting == {c \in Client : conn[c].pc = "wait"}

LoadInstall ==
  LET take(publication) ==
        /\ InBounds(publication)
        /\ target' = publication.target
        /\ conn' = [c \in Client |-> IF c \in Waiting
             THEN [conn[c] EXCEPT !.pc = "pinned", !.epoch = publication.target.base] ELSE conn[c]]
  IN
  /\ loading.proj # None /\ bases # <<>>
  /\ \E base \in Head(bases) : \E way \in Published(NewTarget(base), loading.proj, TRUE) :
       take(way.made) /\ Comes(way.fault)
  /\ bases' = Tail(bases) /\ loading' = NoLoad
  /\ UNCHANGED <<job, poll, client>>

\* The client drops a subscription the server refuses, and only polls.
Refused(cs) ==
  /\ conn' = [c \in Client |-> IF c \in cs THEN Off ELSE conn[c]]
  /\ client' = [c \in Client |-> IF c \in cs THEN [client[c] EXCEPT !.watch = "polling"] ELSE client[c]]

LoadFails ==
  /\ loading.on /\ loading.proj = None
  /\ (job.phase = "gone" /\ Sound) \/ Fault("poll")
  /\ loading' = NoLoad /\ Refused(Waiting)
  /\ UNCHANGED <<job, bases, target, poll>>

Contiguous(t) ==
  LET seqs == Values(t.current) IN
  /\ t.latest \in seqs
  /\ \A s \in seqs : s > t.latest - Cardinality(seqs)

Wanted(c) == c \in Previewers \/ Demand \/ target.projected
Exclusive(c) == conn[c].after = 0 /\ Subs = {}
MustRefresh(c) ==
  \/ Wanted(c) # target.projected
  \/ Exclusive(c) /\ ~Contiguous(target)
  \/ target.phase = "expired"

\* Begins the refresh, unless none is needed or the target was retired.
RefreshBegin(c) ==
  /\ conn[c].pc = "pinned" /\ (At(c) => target.refresher = None)
  /\ CASE ~At(c) -> Refused({c}) /\ UNCHANGED target
       [] At(c) /\ ~MustRefresh(c) ->
            conn' = [conn EXCEPT ![c].pc = "ready"] /\ UNCHANGED <<target, client>>
       [] OTHER ->
            /\ job.phase # "gone"
            /\ conn' = [conn EXCEPT ![c].pc = "apply", ![c].proj = Projection(Wanted(c)),
                                    ![c].initial = Exclusive(c)]
            /\ target' = [target EXCEPT !.refresher = c] /\ UNCHANGED client
  /\ UNCHANGED <<job, bases, loading, poll, faults>>

RefreshFails(c) ==
  /\ conn[c].pc = "pinned" /\ At(c) /\ target.refresher = None /\ MustRefresh(c)
  /\ (job.phase = "gone" /\ Sound) \/ Fault("poll")
  /\ IF job.phase = "gone" /\ Terminal(target.phase)
     THEN /\ target' = None /\ poll' = NoPoll
          /\ conn' = [Closed(conn, Subs) EXCEPT ![c] = Off]
          /\ client' = [client EXCEPT ![c].watch = "polling"]
     ELSE Refused({c}) /\ UNCHANGED <<target, poll>>
  /\ UNCHANGED <<job, bases, loading>>

\* A rebuild of every category is kept from subscribers that came meanwhile.
RefreshApply(c) ==
  LET initial == conn[c].initial /\ Subs = {}
      ready(C) == [C EXCEPT ![c].pc = "ready", ![c].proj = None]
      take(publication) ==
        /\ InBounds(publication)
        /\ target' = [publication.target EXCEPT !.refresher = None]
        /\ conn' = ready(Sent(conn, Subs, publication))
  IN
  /\ conn[c].pc = "apply" /\ At(c)
  /\ IF Stale(target, conn[c].proj) \/ (~initial /\ Settled(target, conn[c].proj))
     THEN /\ target' = [target EXCEPT !.refresher = None]
          /\ conn' = ready(conn) /\ Sound
     ELSE \E way \in Published(target, conn[c].proj, initial) : take(way.made) /\ Comes(way.fault)
  /\ UNCHANGED <<job, bases, loading, poll, client>>

Retained(t, after) == {e \in t.log : e.seq > after}
Replayable(t, after) == Cardinality(Retained(t, after)) = t.latest - after
BySequence(events) == SetToSortSeq(events, LAMBDA a, b : a.seq < b.seq)
CurrentEvents(t) == {e \in t.log : e.seq \in Values(t.current)}

\* The results' time is over and the target does not know yet.
Overdue(t) == t.phase \in {"done", "failed"} /\ Due
Doubtful(t) == t.incomplete \/ Overdue(t)
InEpoch(t, after) == after > t.base /\ after =< t.latest

\* Why a subscription must resynchronize instead of reading events.
ReplyReason(t, after) ==
  CASE after = 0 -> IF Doubtful(t) \/ ~Contiguous(t) THEN "expired" ELSE "none"
    [] after # 0 /\ ~InEpoch(t, after) -> IF ~t.established THEN "restarted"
                                        ELSE IF Doubtful(t) THEN "expired" ELSE "diverged"
    [] OTHER -> IF Doubtful(t) \/ ~Replayable(t, after) THEN "expired" ELSE "none"

Reply(c) ==
  LET after  == conn[c].after
      reason == ReplyReason(target, after)
      events == BySequence(IF after = 0 THEN CurrentEvents(target) ELSE Retained(target, after))
  IN IF reason # "none" THEN <<Resync(reason, target.latest)>>
     ELSE [i \in DOMAIN events |-> Frame(c, events[i])]

\* A refresh that is not followed by its subscription restarts the poller.
Uncommitted(c) ==
  LET demand == ((Subs \cup Pinned) \ {c}) \cap Previewers # {} IN
  IF conn[c].pc # "ready" \/ ~At(c) THEN poll
  ELSE IF target.projected = demand THEN poll
  ELSE IF poll.on THEN [poll EXCEPT !.cancelled = TRUE]
  ELSE Polling(poll, target, Subs, demand)

\* The reply and the attachment are one step under publishMu.  A target that
\* was retired meanwhile refuses.
Install(c) ==
  LET reply == Reply(c) IN
  /\ conn[c].pc = "ready"
  /\ IF ~At(c) \/ Len(reply) > MaxQueue
     THEN Refused({c}) /\ poll' = Uncommitted(c) /\ UNCHANGED target
     ELSE /\ conn' = [conn EXCEPT ![c] = [Off EXCEPT !.pc = "on", !.epoch = target.base, !.queue = reply]]
          /\ target' = [target EXCEPT !.established =
               @ \/ conn[c].after = 0 \/ ReplyReason(target, conn[c].after) = "none"]
          /\ poll' = Polling(poll, target, Subs \cup {c}, Demand)
          /\ UNCHANGED client
  /\ UNCHANGED <<job, bases, loading, faults>>

\* The server takes a closed connection's subscription off its target.
Detach(c) ==
  /\ conn[c].pc = "closing"
  /\ conn' = [conn EXCEPT ![c] = Off]
  /\ poll' = IF At(c) /\ Subs = {c} THEN [poll EXCEPT !.cancelled = poll.on] ELSE poll
  /\ UNCHANGED <<job, bases, target, loading, client, faults>>

\* The end of a connection, wherever its subscription is.
Cut(c) ==
  /\ conn' = IF conn[c].pc \in Attached THEN Closed(conn, {c}) ELSE [conn EXCEPT ![c] = Off]
  /\ target' = IF conn[c].pc = "apply" /\ At(c) THEN [target EXCEPT !.refresher = None] ELSE target
  /\ poll' = Uncommitted(c)

Drop(c) ==
  /\ conn[c].pc \notin {"off", "closing"}
  /\ Fault("drop") /\ Cut(c)
  /\ UNCHANGED <<job, bases, loading, client>>

Evict ==
  /\ target # None /\ Subs = {} /\ Pinned = {} /\ bases # <<>>
  /\ Fault("evict")
  /\ target' = None /\ poll' = NoPoll
  /\ UNCHANGED <<job, bases, loading, conn, client>>

\* Jobs live in the process: a restarted server knows none.
Restart ==
  /\ bases # <<>>
  /\ Fault("restart")
  /\ job' = [job EXCEPT !.phase = "gone"]
  /\ target' = None /\ poll' = NoPoll /\ loading' = NoLoad
  /\ conn' = [c \in Client |-> Off]
  /\ UNCHANGED <<bases, client>>

-----------------------------------------------------------------------------
(* The client.                                                              *)

NewerOf(m, n) == IF m < n THEN n ELSE m

Takes(c, seq) == client[c].last = 0 \/ seq = client[c].last + 1
Ignores(c, seq) == client[c].suspended \/ seq =< client[c].last

\* The client's GET has been answered with a running search.
Running(c) == client[c].get \notin {None, Void}

\* That answer is void once an event without a version of its own, a preview or a
\* schema, is shown before it returns, or one that is newer.
Overtaken(c, e) ==
  CASE ~Running(c) -> {client[c].get}
    [] e.category = "preview" \/ client[c].get < e.version -> {Void}
    [] e.category = "state" -> {client[c].get, Void}
    [] OTHER -> {client[c].get}

Shown(c, e) ==
  {[client[c] EXCEPT
     !.last = e.seq, !.get = g,
     !.version = IF e.category = "preview" THEN @ ELSE NewerOf(@, e.version),
     !.behind = @ /\ e.category # "terminal",
     !.rows = IF e.category = "preview" THEN e.rows ELSE @,
     !.terminal = IF e.category = "terminal" THEN e.phase ELSE @] : g \in Overtaken(c, e)}

Received(c) == [conn EXCEPT ![c].queue = Tail(@)]

ReceiveEvent(c) ==
  LET frame == Head(conn[c].queue) IN
  /\ conn[c].pc = "on" /\ conn[c].queue # <<>> /\ client[c].pending = None
  /\ frame.kind = "event"
  /\ CASE Ignores(c, frame.event.seq) -> conn' = Received(c) /\ UNCHANGED <<client, target, poll>>
       [] ~Ignores(c, frame.event.seq) /\ Takes(c, frame.event.seq) ->
            /\ conn' = Received(c)
            /\ \E shown \in Shown(c, frame.event) : client' = [client EXCEPT ![c] = shown]
            /\ UNCHANGED <<target, poll>>
       [] OTHER -> Cut(c) /\ client' = [client EXCEPT ![c].rows = 0]
  /\ UNCHANGED <<job, bases, loading, faults>>

\* Only a restart of the sequence may move the checkpoint back.  The handler
\* waits for the GET that is under way, whatever it was answered, or starts one.
ReceiveResync(c) ==
  LET frame == Head(conn[c].queue)
      older == Running(c) /\ client[c].get < Version(job)
  IN
  /\ conn[c].pc = "on" /\ conn[c].queue # <<>> /\ client[c].pending = None
  /\ frame.kind = "resync"
  /\ IF frame.reason # "restarted" /\ frame.latest < client[c].last
     THEN Cut(c) /\ UNCHANGED client
     ELSE /\ conn' = Received(c)
          /\ client' = [client EXCEPT ![c].suspended = TRUE, ![c].pending = frame.latest,
                                      ![c].rows = 0, ![c].behind = older]
          /\ UNCHANGED <<target, poll>>
  /\ UNCHANGED <<job, bases, loading, faults>>

\* The server answers a GET of the job: the one a resynchronization waits for, or
\* one that the watchdog's timer, an error or a terminal event made the watch
\* start.  There is one at a time.  An answer that ends the watch is taken at
\* once: while it is on its way nothing changes but that it may be lost.
Asks(c) == client[c].watch # "over" /\ client[c].get = None

JobRead(c) ==
  /\ Asks(c) /\ job.phase = "running"
  /\ client' = [client EXCEPT ![c].get = Version(job)]
  /\ UNCHANGED <<job, bases, target, loading, poll, conn, faults>>

NewClient == [watch |-> "live", last |-> 0, suspended |-> FALSE, pending |-> None, get |-> None,
              version |-> 0, behind |-> FALSE, rows |-> 0, terminal |-> None]

\* The watch is over: its socket is disposed, and the rows make room for the
\* results or for the failure.  Nothing compares versions any more.
Ends(c, terminal) ==
  /\ client' = [client EXCEPT ![c] = [NewClient EXCEPT !.watch = "over", !.terminal = terminal]]
  /\ Cut(c)

Finish(c) ==
  /\ Asks(c) /\ Terminal(job.phase)
  /\ Ends(c, job.phase)
  /\ UNCHANGED <<job, bases, loading, faults>>

\* Mutant: recovery leaves the checkpoint where it was.
RecoverKeepsCheckpoint(c) ==
  /\ Running(c)
  /\ client' = [client EXCEPT ![c].version = client[c].get, ![c].get = None,
                              ![c].suspended = FALSE, ![c].pending = None]
  /\ UNCHANGED <<job, bases, target, loading, poll, conn, faults>>

\* The state is restored.  A resynchronization that waited for it is committed,
\* unless its connection is gone; the server may have closed it unnoticed.
Recover(c) ==
  LET got == [client[c] EXCEPT !.version = client[c].get, !.get = None]
      committed == [got EXCEPT !.suspended = FALSE, !.pending = None, !.last = client[c].pending]
  IN
  /\ Running(c)
  /\ \/ /\ client[c].pending = None
        /\ client' = [client EXCEPT ![c] = [got EXCEPT !.behind = FALSE]]
     \/ /\ client[c].pending # None /\ conn[c].pc \in Attached
        /\ client' = [client EXCEPT ![c] = committed]
     \/ /\ client[c].pending # None /\ conn[c].pc # "on"
        /\ client' = [client EXCEPT ![c] = [got EXCEPT !.pending = None]]
  /\ UNCHANGED <<job, bases, target, loading, poll, conn, faults>>

Unrecovered(c) ==
  /\ client' = [client EXCEPT ![c].get = None, ![c].pending = None]
  /\ IF client[c].pending # None THEN Cut(c) ELSE UNCHANGED <<conn, target, poll>>

\* A GET that fails or is void leaves the watch as it was, as if it had not been
\* made; a resynchronization that waited for it is not committed, and the client
\* reconnects.
RecoverFails(c) ==
  /\ (client[c].get = Void /\ Sound) \/ (client[c].pending # None /\ Fault("get"))
  /\ Unrecovered(c)
  /\ UNCHANGED <<job, bases, loading>>

\* A job that is not there ends the watch, if it was the watch that asked.
NotFound(c) ==
  /\ Asks(c) /\ job.phase = "gone"
  /\ Ends(c, client[c].terminal) \/ (client[c].pending # None /\ Unrecovered(c))
  /\ UNCHANGED <<job, bases, loading, faults>>

-----------------------------------------------------------------------------

Init ==
  /\ job = [phase |-> "running", rows |-> 0]
  /\ bases = EpochBases
  /\ target = None /\ loading = NoLoad /\ poll = NoPoll
  /\ conn = [c \in Client |-> Off]
  /\ client = [c \in Client |-> NewClient]
  /\ faults = {}

JobNext == JobProgress \/ JobEnds \/ JobExpires \/ JobRemoved
PollNext == PollRead \/ PollApply \/ PollFails \/ PollStops
LoadNext == LoadRead \/ LoadInstall \/ LoadFails
Serve(c) ==
  \/ Resolve(c) \/ RefreshBegin(c) \/ RefreshFails(c) \/ RefreshApply(c)
  \/ Install(c) \/ Detach(c)
Watch(c) ==
  \/ Connect(c) \/ ReceiveEvent(c) \/ ReceiveResync(c)
  \/ JobRead(c) \/ Finish(c) \/ NotFound(c) \/ Recover(c) \/ RecoverFails(c)

Next ==
  \/ JobNext \/ PollNext \/ LoadNext \/ Evict \/ Restart
  \/ \E c \in Client : Serve(c) \/ Watch(c) \/ Drop(c)

Spec == Init /\ [][Next]_vars

\* The poller runs, the target is loaded, the client reconnects and reads its
\* frames, a GET is answered and returns, and no subscription or detachment stays
\* half-way: nobody waits for refreshMu for ever.  The watchdog's GETs are not
\* among it: the socket has to do without them; nor need the search end.  Where
\* each step ends its own guard, weak fairness says that the guard does not hold
\* for ever.
FairSpec ==
  /\ Spec
  /\ WF_vars(PollRead \/ PollFails \/ PollStops) /\ []<>~(poll.on /\ poll.pc = "apply")
  /\ WF_vars(LoadRead \/ LoadFails) /\ []<>~(loading.proj # None /\ bases # <<>>)
  /\ \A c \in Client :
       /\ WF_vars(Connect(c)) /\ []<>(conn[c].pc \in {"off", "wait", "on"})
       /\ WF_vars(ReceiveEvent(c) \/ ReceiveResync(c))
       /\ []<>(client[c].get = None)
       /\ []<>~(client[c].pending # None /\ client[c].get = None)

-----------------------------------------------------------------------------

Phases == {"running", "done", "failed", "expired"}

TypeOK ==
  /\ job.phase \in Phases \cup {"gone"} /\ job.rows \in 0 .. MaxRows
  /\ target # None =>
       /\ DOMAIN target.current \subseteq Category /\ target.expected \subseteq Category
       /\ Values(target.current) \cup target.replay = {e.seq : e \in target.log}
       /\ Cardinality(target.replay) =< MaxReplay
       /\ \A c \in DOMAIN target.current : EventAt(target, target.current[c]).category = c
       /\ target.latest \in target.base .. target.base + EpochSize
  /\ \A c \in Client :
       /\ conn[c].pc \in {"off", "resolve", "wait"} \cup Subscribing \cup Attached
       /\ Len(conn[c].queue) =< MaxQueue
       /\ client[c].watch \in {"live", "polling", "over"} /\ client[c].terminal \in Phases \cup {None}
       /\ client[c].pending # None => client[c].suspended
  /\ target = None => ~poll.on

\* A client that read all it was sent.  Only a target that failed to keep an
\* event, or was silent about the last ones, may leave it behind.
InStep(c) ==
  /\ conn[c].pc = "on" /\ At(c) /\ conn[c].queue = <<>>
  /\ client[c].pending = None /\ ~client[c].suspended /\ ~target.incomplete
  /\ target.quiet => client[c].last = target.latest

\* The newest preview did not fit and was omitted; nothing tells the clients.
RowsOmitted == "omit" \in faults /\ "preview" \notin DOMAIN target.current

\* Such a client has the state of the job's newest projection and, where that is
\* an end, the end, and shows no rows but those of the newest preview, whatever
\* was replayed, skipped, dropped or read over HTTP instead
\* (search-websocket.ts handleMessage and commitResynchronization; target.go
\* applyProjection; connection.go subscribe).  Two exceptions: a
\* resynchronization may be acknowledged with a GET that was answered before it
\* (search-workspace.tsx:4110), and then the client is behind until the next
\* state, end or GET; and rows stay where the preview that would replace
\* them was omitted (target.go:834-842).
CheckpointIsTrue ==
  \A c \in Client : InStep(c) =>
    /\ client[c].last = target.latest
    /\ ~client[c].behind =>
         /\ client[c].version >= target.version
         /\ Terminal(target.phase) => client[c].terminal # None
    /\ client[c].rows > 0 /\ ~RowsOmitted =>
         ShowsRows(target) /\ client[c].rows = EventAt(target, target.current["preview"]).rows

\* A client that saw an end which invalidates the rows shows none (the empty
\* RESET of target.go:802-805 precedes the terminal event).
TerminalClearsRows ==
  \A c \in Client : (client[c].terminal # None /\ Invalidates(client[c].terminal)) => client[c].rows = 0

\* Nobody is left without a poller, and none sleeps until the results expire
\* while the search runs (target.go startPollingLocked, stopPollingLocked and
\* the handoff at the end of pollLoop).
SubscribersArePolled ==
  target # None /\ Subs # {} =>
    /\ poll.on
    /\ poll.pc = "delay" /\ ~poll.cancelled /\ poll.wait = "expiry" => Terminal(target.phase)

\* Once a projection denies the rows no connection is given any, not even from
\* the ring (target.go purgeCategoryLocked).
NoRowsAfterInvalidation ==
  [][\A c \in Client : \A i \in DOMAIN conn'[c].queue :
       /\ i > Len(conn[c].queue) \/ conn[c].queue = <<>>
       /\ conn'[c].queue[i].kind = "event" /\ conn'[c].queue[i].event.rows > 0
       => target' # None /\ ~Invalidates(target'.phase)]_vars

\* A client learns that the search ended, over the socket or by the
\* resynchronization it is told to make, without its watchdog, unless the job is
\* removed before (docs/api.md:150-153), the server refused its subscription, a
\* recovery of the client's was cut short (what SuspensionIsRecovered is about)
\* or acknowledged with an older GET, or the target is quiet.  In all of these
\* but the first the watchdog's next GET finishes the watch.  One client and two
\* faults keep away the loop of reconnects of ResyncIsAccepted.
CutShort(c) == client[c].suspended /\ client[c].pending = None
Silent == target # None /\ target.quiet
Learned(c) == client[c].terminal # None \/ job.phase = "gone"

EveryoneLearns ==
  \A c \in Client : Terminal(job.phase) ~>
    \/ Learned(c) \/ client[c].watch # "live" \/ CutShort(c)
    \/ client[c].behind \/ Silent

\* A client can act on every resynchronization it is sent: one behind its
\* checkpoint says that the sequence restarted (docs/api.md:150-153,
\* search-websocket.ts:1067).
ResyncIsAccepted ==
  \A c \in Client : \A i \in DOMAIN conn[c].queue :
    conn[c].queue[i].kind = "resync" /\ conn[c].queue[i].reason # "restarted"
      => conn[c].queue[i].latest >= client[c].last

\* A suspended client with a live connection is at its recovery or will be told
\* to make it (search-websocket.ts:1049-1055).
SuspensionIsRecovered ==
  \A c \in Client : client[c].suspended /\ conn[c].pc = "on" =>
    \/ client[c].pending # None
    \/ \E i \in DOMAIN conn[c].queue : conn[c].queue[i].kind = "resync"

=============================================================================
