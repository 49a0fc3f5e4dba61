------------------------------ MODULE EventBus ------------------------------
(***************************************************************************)
(* The event bus in memory and over a Redis stream, and the recorder that  *)
(* stores every event on its way (core/bus, storage/recorder.py).          *)
(*                                                                         *)
(* Three tasks publish: the trading loop, another one (LUMEN, the API),    *)
(* and the dispatch task from the handlers it runs.  A publication records *)
(* the event, which may flush the buffer to the store, and then appends it *)
(* to the log.  The memory bus has two dispatchers over one queue, its own *)
(* task and whoever drains; Redis has one consumer.  A task gives way to   *)
(* the others only where something suspends: nothing does in the memory    *)
(* bus over SQLite, a flush does into PostgreSQL, and publishing does over *)
(* Redis; a handler suspends only by publishing.  An event is its place in *)
(* the order of publication calls; a handler that raises is one that       *)
(* returns.                                                                *)
(***************************************************************************)
EXTENDS Naturals, FiniteSets, SequencesExt

CONSTANTS
    MaxEvents,     \* bound: events published in the run
    Subscribers,   \* number of subscriptions that want every event
    BufferSize,    \* Recorder.buffer_size
    Batch          \* events one read of the stream may return

ASSUME BusAssumption ==
    /\ MaxEvents \in Nat \ {0} /\ Subscribers \in Nat \ {0}
    /\ BufferSize \in Nat \ {0} /\ Batch \in Nat \ {0}

Event == 1..MaxEvents
Subs == 1..Subscribers
Tasks == {"tick", "other", "bus"}

VARIABLES
    transport,       \* "memory" or "redis"
    suspends,        \* whether recording or publishing suspends
    started,         \* start() has been called, and no stop()
    grouped,         \* the consumer group of the stream exists
    issued,          \* events published or being published
    publishing,      \* the event each task is publishing, and how far it is
    log,             \* the events in the order the transport has them
    queue,           \* the part of it that no dispatcher has read
    fetched,         \* what the consumer has read and not dispatched
    emptyRead,       \* the answer to its read is on its way: nothing new
    job,             \* the event each dispatcher is at, and what is left to call
    draining,        \* what the drain under way has to see dispatched
    seen,            \* what each subscription was called with
    published_id, dispatched_id,  \* _last_published_id, _last_dispatched_id
    buffer,          \* Recorder._buffer
    writing,         \* the batch each task is storing
    stored, lost,    \* events persisted, and counted in events_lost
    failures,        \* consecutive_failures
    skipped,         \* history: discarded by stop, or stranded in the stream
    vanished,        \* history: recorded events gone with a cancelled task
    crashed          \* bound: the process stops or crashes once

recorderVars == <<buffer, writing, stored, lost, failures, vanished>>
streamVars == <<log, queue, fetched, emptyRead, grouped>>
idVars == <<published_id, dispatched_id>>
dispatchVars == <<job, seen, draining>>
modeVars == <<transport, suspends, started, crashed>>
vars == <<recorderVars, streamVars, idVars, dispatchVars, modeVars, issued,
          publishing, skipped>>

None == <<>>
Full == [event : Event, stage : {"record", "sent"}]
Jobs == [event : Event, left : 0..Subscribers, inside : BOOLEAN]

Busy(t) ==
    \/ publishing[t] # None \/ job[t] # None \/ writing[t] # <<>>
    \/ t = "tick" /\ draining # {}

\* The task gives way: its flush is under way in a store that suspends, or
\* it is in a call to Redis, or in a drain that waits for the consumer.
Waits(t) ==
    /\ suspends
    /\ \/ writing[t] # <<>>
       \/ transport = "redis" /\ (publishing[t] # None \/ job[t] = None)

MayRun(t) == \A u \in Tasks \ {t} : Busy(u) => Waits(u)

\* The task is in code that may publish: its own, or a handler's.
MayPublish(t) ==
    /\ publishing[t] = None /\ writing[t] = <<>>
    /\ \/ job[t] # None /\ job[t].inside
       \/ job[t] = None /\ t # "bus" /\ (t = "tick" => draining = {})

---------------------------------------------------------------------------
(* The recorder *)

\* flush takes the batch out of the buffer before it stores it.
Flushed(t, full) ==
    /\ buffer' = <<>>
    /\ writing' = [writing EXCEPT ![t] = full]

\* publish: the middleware, record, comes first; it flushes a full buffer, and
\* any at its age.
Publish(t) ==
    /\ MayRun(t) /\ MayPublish(t)
    /\ issued < MaxEvents
    /\ issued' = issued + 1
    /\ publishing' = [publishing EXCEPT ![t] = [event |-> issued + 1, stage |-> "record"]]
    /\ LET full == Append(buffer, issued + 1) IN
       \/ Flushed(t, full)
       \/ Len(full) < BufferSize /\ buffer' = full /\ UNCHANGED writing
    /\ UNCHANGED <<stored, lost, failures, vanished, streamVars, idVars, dispatchVars,
                   modeVars, skipped>>

\* Orchestrator._persist
FlushIfDue ==
    /\ MayRun("tick") /\ ~Busy("tick") /\ started
    /\ buffer # <<>>
    /\ Flushed("tick", buffer)
    /\ UNCHANGED <<stored, lost, failures, vanished, streamVars, idVars, dispatchVars,
                   modeVars, issued, publishing, skipped>>

\* Mutant: a batch that could not be stored is not counted.
LostWith_uncounted(batch) == lost

LostWith(batch) == lost \cup ToSet(batch)

Store(t) ==
    /\ MayRun(t) /\ writing[t] # <<>>
    /\ \/ /\ stored' = stored \cup ToSet(writing[t])
          /\ failures' = 0
          /\ UNCHANGED lost
       \/ /\ lost' = LostWith(writing[t])
          /\ failures' = failures + 1
          /\ UNCHANGED stored
    /\ writing' = [writing EXCEPT ![t] = <<>>]
    /\ UNCHANGED <<buffer, vanished, streamVars, idVars, dispatchVars, modeVars,
                   issued, publishing, skipped>>

---------------------------------------------------------------------------
(* publish *)

\* Mutant: only start creates the group.
Readable_started == transport = "memory" \/ grouped

\* _ensure_group: a group reads what is added after it was created.
Readable == TRUE

Send(t) ==
    /\ MayRun(t) /\ publishing[t] # None /\ writing[t] = <<>>
    /\ publishing[t].stage = "record"
    /\ log' = Append(log, publishing[t].event)
    /\ queue' = IF Readable THEN Append(queue, publishing[t].event) ELSE queue
    /\ grouped' = TRUE
    /\ publishing' = [publishing EXCEPT ![t] =
          IF transport = "memory" THEN None ELSE [@ EXCEPT !.stage = "sent"]]
    /\ UNCHANGED <<fetched, emptyRead, idVars, dispatchVars, modeVars, recorderVars,
                   issued, skipped>>

PlaceOf(e) == CHOOSE i \in DOMAIN log : log[i] = e

IdOf(e) == PlaceOf(e)

\* The answer of XADD arrives.
Sent(t) ==
    /\ MayRun(t) /\ publishing[t] # None /\ publishing[t].stage = "sent"
    /\ published_id' = IdOf(publishing[t].event)
    /\ publishing' = [publishing EXCEPT ![t] = None]
    /\ UNCHANGED <<dispatched_id, streamVars, dispatchVars, modeVars, recorderVars,
                   issued, skipped>>

---------------------------------------------------------------------------
(* Dispatch *)

\* Mutant: the newest event is taken.
Foremost_newest(q) == Len(q)

\* The place a dispatcher takes the next event from.
Foremost(q) == 1

\* XREADGROUP, with an answer or, after block_ms, without ...
Read ==
    /\ transport = "redis" /\ started
    /\ fetched = <<>> /\ job["bus"] = None /\ ~emptyRead
    /\ LET n == IF Len(queue) < Batch THEN Len(queue) ELSE Batch IN
       /\ fetched' = SubSeq(queue, 1, n)
       /\ queue' = SubSeq(queue, n + 1, Len(queue))
       /\ emptyRead' = (n = 0)
    /\ UNCHANGED <<log, grouped, idVars, dispatchVars, modeVars, recorderVars, issued,
                   publishing, skipped>>

\* ... which counts as being caught up.
CaughtUp ==
    /\ MayRun("bus") /\ emptyRead
    /\ emptyRead' = FALSE
    /\ dispatched_id' = published_id
    /\ UNCHANGED <<published_id, log, queue, fetched, grouped, dispatchVars, modeVars,
                   recorderVars, issued, publishing, skipped>>

Begin(t, e) == job' = [job EXCEPT ![t] = [event |-> e, left |-> Subscribers, inside |-> FALSE]]

\* InMemoryEventBus._run, or drain, takes an event from the queue.
Take(t) ==
    /\ transport = "memory" /\ MayRun(t) /\ job[t] = None
    /\ \/ t = "bus" /\ started
       \/ t = "tick" /\ draining # {}
    /\ queue # <<>>
    /\ Begin(t, queue[Foremost(queue)])
    /\ queue' = RemoveAt(queue, Foremost(queue))
    /\ UNCHANGED <<log, fetched, emptyRead, grouped, seen, draining, idVars, modeVars,
                   recorderVars, issued, publishing, skipped>>

\* RedisStreamBus._consume goes through what it read.
TakeFetched ==
    /\ MayRun("bus") /\ fetched # <<>> /\ job["bus"] = None
    /\ Begin("bus", fetched[Foremost(fetched)])
    /\ fetched' = RemoveAt(fetched, Foremost(fetched))
    /\ UNCHANGED <<log, queue, emptyRead, grouped, seen, draining, idVars, modeVars,
                   recorderVars, issued, publishing, skipped>>

NextSub(t) == Subscribers - job[t].left + 1

Call(t) ==
    /\ MayRun(t) /\ job[t] # None /\ job[t].left > 0 /\ ~job[t].inside
    /\ seen' = [seen EXCEPT ![NextSub(t)] = Append(@, job[t].event)]
    /\ job' = [job EXCEPT ![t].left = @ - 1, ![t].inside = TRUE]
    /\ UNCHANGED <<draining, streamVars, idVars, modeVars, recorderVars, issued,
                   publishing, skipped>>

\* The handler returns, or raises and is counted.
Return(t) ==
    /\ MayRun(t) /\ job[t] # None /\ job[t].inside
    /\ publishing[t] = None /\ writing[t] = <<>>
    /\ job' = [job EXCEPT ![t] = IF @.left = 0 THEN None ELSE [@ EXCEPT !.inside = FALSE]]
    /\ dispatched_id' = IF transport = "redis" /\ job[t].left = 0
                        THEN PlaceOf(job[t].event) ELSE dispatched_id
    /\ UNCHANGED <<published_id, seen, draining, streamVars, modeVars, recorderVars,
                   issued, publishing, skipped>>

---------------------------------------------------------------------------
(* drain *)

\* What this instance has published: the publications that have returned.
Published ==
    {e \in ToSet(log) \ skipped :
        \A t \in Tasks : publishing[t] = None \/ publishing[t].event # e}

Drain ==
    /\ MayRun("tick") /\ ~Busy("tick")
    /\ transport = "redis" => started /\ published_id # 0
    /\ Published # {}
    /\ draining' = Published
    /\ UNCHANGED <<job, seen, streamVars, idVars, modeVars, recorderVars, issued,
                   publishing, skipped>>

\* Mutant: the last event of the queue is left.
QueueDone_last == Len(queue) <= 1

QueueDone == queue = <<>>

\* Redis compares ids, and what is being dispatched.
Caught == dispatched_id >= published_id /\ job["bus"] = None

DrainReturns ==
    /\ MayRun("tick") /\ draining # {} /\ job["tick"] = None
    /\ IF transport = "memory" THEN QueueDone ELSE Caught
    /\ draining' = {}
    /\ UNCHANGED <<job, seen, streamVars, idVars, modeVars, recorderVars, issued,
                   publishing, skipped>>

\* After five seconds Redis gives up, with a warning.
DrainTimesOut ==
    /\ MayRun("tick") /\ transport = "redis" /\ draining # {} /\ ~Caught
    /\ draining' = {}
    /\ UNCHANGED <<job, seen, streamVars, idVars, modeVars, recorderVars, issued,
                   publishing, skipped>>

---------------------------------------------------------------------------
(* start, stop and crash *)

Start ==
    /\ ~started /\ ~crashed
    /\ \A t \in Tasks : ~Busy(t)
    /\ started' = TRUE
    /\ grouped' = TRUE
    /\ UNCHANGED <<transport, suspends, crashed, log, queue, fetched, emptyRead, idVars,
                   dispatchVars, recorderVars, issued, publishing, skipped>>

Batches == UNION {ToSet(writing[t]) : t \in Tasks}
AtHand == ToSet(fetched) \cup {job[t].event : t \in {t \in Tasks : job[t] # None}}

\* The tasks are cancelled wherever they are.
Cancelled ==
    /\ publishing' = [t \in Tasks |-> None]
    /\ job' = [t \in Tasks |-> None]
    /\ draining' = {}
    /\ fetched' = <<>> /\ emptyRead' = FALSE

\* Platform.stop: the bus stops, then the recorder flushes what it has.  A
\* batch whose task is cancelled is neither stored nor counted.
Stop ==
    /\ started
    /\ \A t \in Tasks : Busy(t) => Waits(t)
    /\ Cancelled
    /\ started' = FALSE
    /\ crashed' = TRUE
    /\ vanished' = vanished \cup Batches
    /\ buffer' = <<>>
    /\ writing' = [t \in Tasks |-> IF t = "tick" THEN buffer ELSE <<>>]
    /\ skipped' = skipped \cup AtHand \cup IF transport = "memory" THEN ToSet(queue) ELSE {}
    /\ UNCHANGED <<transport, suspends, grouped, issued, log, queue, seen, idVars, stored,
                   lost, failures>>

\* The process dies and is started again: what the stream had delivered and
\* was not acknowledged stays pending, and nothing claims it.
Crash ==
    /\ transport = "redis" /\ started /\ ~crashed
    /\ Cancelled
    /\ crashed' = TRUE
    /\ vanished' = vanished \cup Batches \cup ToSet(buffer)
    /\ buffer' = <<>>
    /\ writing' = [t \in Tasks |-> <<>>]
    /\ failures' = 0
    /\ skipped' = skipped \cup AtHand
    /\ published_id' = 0 /\ dispatched_id' = 0
    /\ UNCHANGED <<transport, suspends, started, grouped, issued, log, queue, seen, stored, lost>>

---------------------------------------------------------------------------
Init ==
    /\ transport \in {"memory", "redis"}
    /\ suspends \in BOOLEAN /\ (transport = "redis" => suspends)
    /\ started = FALSE /\ grouped = (transport = "memory") /\ crashed = FALSE
    /\ issued = 0
    /\ publishing = [t \in Tasks |-> None]
    /\ job = [t \in Tasks |-> None]
    /\ log = <<>> /\ queue = <<>> /\ fetched = <<>> /\ emptyRead = FALSE
    /\ draining = {}
    /\ seen = [s \in Subs |-> <<>>]
    /\ published_id = 0 /\ dispatched_id = 0
    /\ buffer = <<>> /\ writing = [t \in Tasks |-> <<>>]
    /\ stored = {} /\ lost = {} /\ failures = 0
    /\ skipped = {} /\ vanished = {}

Next ==
    \/ \E t \in Tasks :
          Publish(t) \/ Store(t) \/ Send(t) \/ Sent(t) \/ Take(t) \/ Call(t) \/ Return(t)
    \/ FlushIfDue \/ Read \/ CaughtUp \/ TakeFetched
    \/ Drain \/ DrainReturns \/ DrainTimesOut
    \/ Start \/ Stop \/ Crash

Spec == Init /\ [][Next]_vars

---------------------------------------------------------------------------
(* Properties *)

\* The types of the tasks, of the stream and of the recorder; no event is twice
\* in the log, in the queue or in the buffer.
TypeOK ==
    /\ transport \in {"memory", "redis"}
    /\ {suspends, started, grouped, emptyRead, crashed} \subseteq BOOLEAN
    /\ issued \in 0..MaxEvents
    /\ \A t \in Tasks :
          /\ publishing[t] = None \/ publishing[t] \in Full
          /\ job[t] = None \/ job[t] \in Jobs
          /\ writing[t] \in Seq(Event)
    /\ \A q \in {log, queue, fetched, buffer} : q \in Seq(Event) /\ IsInjective(q)
    /\ published_id \in 0..Len(log) /\ dispatched_id \in 0..Len(log)
    /\ draining \cup stored \cup lost \cup skipped \cup vanished \subseteq Event
    /\ failures \in 0..MaxEvents

\* Over Redis, and in memory when nothing suspends, every subscription is
\* called in the order of the log, which keeps the order of each publisher:
\* clause 1 of the contract (drain, _run, _consume, _dispatch).
DeliveredInOrder ==
    (transport = "redis" \/ ~suspends) =>
        \A s \in Subs : \A i, j \in DOMAIN seen[s] :
            i < j => PlaceOf(seen[s][i]) < PlaceOf(seen[s][j])

\* An event in the log is in one of these places for each subscription: not
\* read yet, at a dispatcher, delivered once, or given up by stop or a crash.
\* In particular no two dispatchers deliver it, and none drops it
\* (_dispatch_one, _ensure_group, _consume).
NothingSkipped ==
    /\ TypeOK
    /\ \A e \in ToSet(log), s \in Subs :
          LET times == Cardinality({i \in DOMAIN seen[s] : seen[s][i] = e})
              coming == \/ e \in ToSet(queue) \cup ToSet(fetched)
                        \/ \E t \in Tasks : job[t] # None /\ job[t].event = e
                                               /\ NextSub(t) <= s
          IN  /\ times + (IF coming THEN 1 ELSE 0) <= 1
              /\ times = 1 \/ coming \/ e \in skipped

\* The audit trail is ahead of the deliveries and accounts for itself: an
\* event that was published is waiting, being stored, stored, or counted as
\* lost, in exactly one of these, unless its task was cancelled or crashed in
\* the middle of a flush; so a subscriber never sees what was not recorded
\* (publish, record, flush).
AuditTrail ==
    /\ \A e \in 1..issued :
          Cardinality({place \in {"buffer", "batch", "stored", "lost", "vanished"} :
              CASE place = "buffer" -> e \in ToSet(buffer)
                [] place = "batch" -> e \in Batches
                [] place = "stored" -> e \in stored
                [] place = "lost" -> e \in lost
                [] OTHER -> e \in vanished}) = 1
    /\ \A s \in Subs : ToSet(seen[s]) \subseteq 1..issued

HandledByAll(e) ==
    /\ \A s \in Subs : e \in ToSet(seen[s])
    /\ \A t \in Tasks : job[t] = None \/ job[t].event # e

\* Clause 4 of the contract: when drain returns, every event published through
\* this instance before the call has been dispatched to every subscription,
\* and those handlers have returned.
DrainCompletes == [][ (DrainReturns) => \A e \in draining : HandledByAll(e) ]_vars

\* Clause 4 holds in memory when nothing suspends: the platform over SQLite
\* (drain).
InlineDrainCompletes ==
    [][ (DrainReturns /\ transport = "memory" /\ ~suspends) =>
          \A e \in draining : HandledByAll(e) ]_vars
=============================================================================
