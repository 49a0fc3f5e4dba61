--------------------------- MODULE EventBus_proofs ---------------------------
(***************************************************************************)
(* Theorems about EventBus, for any number of events and subscriptions,    *)
(* any size of the recorder's buffer and any batch of the stream.          *)
(*                                                                         *)
(* Every event issued is in one of the recorder's five places (Accounted). *)
(* The transport reads its log from the front, so that what it has fetched *)
(* and what it has not read is the rest of the log (Reading); what is      *)
(* behind was given to every subscription once, is at one dispatcher that  *)
(* is at one place in the list of subscriptions, or was given up           *)
(* (Dispatching).  Where one task dispatches at a time, the event in hand  *)
(* is the last one taken (InLogOrder).                                     *)
(***************************************************************************)
EXTENDS EventBus, FiniteSetTheorems, TLAPS

\* What is kept for every task and every subscription.
Shapes ==
    /\ publishing \in [Tasks -> Full \cup {None}]
    /\ job \in [Tasks -> Jobs \cup {None}]
    /\ writing \in [Tasks -> Seq(Event)]
    /\ seen \in [Subs -> Seq(Event)]

\* The batches of two tasks have nothing in common, nor with the buffer.
BatchesApart ==
    \A t \in Tasks :
        /\ ToSet(writing[t]) \cap ToSet(buffer) = {}
        /\ \A u \in Tasks \ {t} : ToSet(writing[t]) \cap ToSet(writing[u]) = {}

\* What has been issued is in one of the recorder's five places.
Accounted ==
    /\ 1..issued = ToSet(buffer) \cup Batches \cup stored \cup lost \cup vanished
    /\ BatchesApart
    /\ (ToSet(buffer) \cup Batches) \cap (stored \cup lost \cup vanished) = {}
    /\ stored \cap lost = {} /\ stored \cap vanished = {} /\ lost \cap vanished = {}
    /\ failures <= Cardinality(lost)

\* Each event is published by one task, and is in the log once it is sent.
Publications ==
    /\ ToSet(log) \subseteq 1..issued
    /\ \A t \in Tasks : publishing[t] # None =>
          /\ publishing[t].event <= issued
          /\ publishing[t].stage = "record" <=> publishing[t].event \notin ToSet(log)
          /\ \A u \in Tasks \ {t} :
                publishing[u] # None => publishing[u].event # publishing[t].event

\* How far the dispatchers are in the log: what they fetched and what they
\* have not read is the rest of it.
Taken == Len(log) - Len(fetched) - Len(queue)

Reading ==
    /\ Taken \in Nat
    /\ \A i \in 1..Len(fetched) : fetched[i] = log[Taken + i]
    /\ \A i \in 1..Len(queue) : queue[i] = log[Taken + Len(fetched) + i]

Behind == {log[i] : i \in 1..Taken}

InHand == {job[t].event : t \in {t \in Tasks : job[t] # None}}

\* What was taken is at one dispatcher, or every subscription has had it once,
\* or it was given up; the one in hand has got to the subscriptions before the
\* next.
Dispatching ==
    /\ \A t \in Tasks : job[t] # None =>
          /\ job[t].event \in Behind
          /\ \A u \in Tasks \ {t} : job[u] # None => job[u].event # job[t].event
          /\ \A s \in Subs : job[t].event \in ToSet(seen[s]) <=> s < NextSub(t)
    /\ \A s \in Subs :
          /\ IsInjective(seen[s])
          /\ ToSet(seen[s]) \subseteq Behind
          /\ Behind \subseteq ToSet(seen[s]) \cup InHand \cup skipped

Draining == draining \subseteq ToSet(log) \ skipped

\* What the two transports and the stores leave to one task.
OneAtWork ==
    /\ transport = "memory" => fetched = <<>> /\ ~emptyRead
    /\ transport = "redis" => suspends /\ job["tick"] = None
    /\ job["other"] = None
    /\ ~suspends => \A t, u \in Tasks : Busy(t) /\ Busy(u) => t = u

\* Where one task dispatches at a time, the event in hand is the last one
\* taken, and the subscriptions have what they got in the order of the log.
InLogOrder ==
    (transport = "redis" \/ ~suspends) =>
        /\ \A t \in Tasks : job[t] # None => job[t].event = log[Taken]
        /\ \A s \in Subs : \A i, j \in DOMAIN seen[s] : \A p, q \in 1..Taken :
              i < j /\ log[p] = seen[s][i] /\ log[q] = seen[s][j] => p < q

Sound ==
    /\ TypeOK /\ Shapes /\ Accounted /\ Publications /\ Reading
    /\ Dispatching /\ Draining /\ OneAtWork /\ InLogOrder

---------------------------------------------------------------------------
(* Sequences and numbers *)

\* An appended element joins the others.
LEMMA Appended ==
    ASSUME NEW S, NEW q \in Seq(S), NEW e \in S
    PROVE  /\ Append(q, e) \in Seq(S)
           /\ ToSet(Append(q, e)) = ToSet(q) \cup {e}
           /\ IsInjective(q) /\ e \notin ToSet(q) => IsInjective(Append(q, e))
<1>1. Append(q, e) \in Seq(S) /\ Len(Append(q, e)) = Len(q) + 1
  OBVIOUS
<1>2. /\ Append(q, e)[Len(q) + 1] = e
      /\ \A i \in 1..Len(q) : Append(q, e)[i] = q[i]
  OBVIOUS
<1>3. DOMAIN q = 1..Len(q) /\ DOMAIN Append(q, e) = 1..(Len(q) + 1)
  OBVIOUS
<1>4. ToSet(Append(q, e)) = ToSet(q) \cup {e}
  <2>1. \A x \in ToSet(q) : x \in ToSet(Append(q, e))
    BY <1>2, <1>3 DEF ToSet
  <2>2. e \in ToSet(Append(q, e))
    BY <1>2, <1>3 DEF ToSet
  <2>3. ASSUME NEW x \in ToSet(Append(q, e)) PROVE x \in ToSet(q) \cup {e}
    <3>1. PICK i \in 1..(Len(q) + 1) : x = Append(q, e)[i]
      BY <1>3 DEF ToSet
    <3>2. i = Len(q) + 1 \/ i \in 1..Len(q)
      OBVIOUS
    <3> QED
      BY <3>1, <3>2, <1>2, <1>3 DEF ToSet
  <2> QED
    BY <2>1, <2>2, <2>3
<1>5. ASSUME IsInjective(q), e \notin ToSet(q) PROVE IsInjective(Append(q, e))
  <2> SUFFICES ASSUME NEW a \in 1..(Len(q) + 1), NEW b \in 1..(Len(q) + 1),
                      Append(q, e)[a] = Append(q, e)[b]
               PROVE  a = b
    BY <1>3 DEF IsInjective
  <2>1. \A i \in 1..Len(q) : q[i] # e
    BY <1>3, <1>5 DEF ToSet
  <2>2. a = Len(q) + 1 \/ a \in 1..Len(q)
    OBVIOUS
  <2>3. b = Len(q) + 1 \/ b \in 1..Len(q)
    OBVIOUS
  <2> QED
    BY <2>1, <2>2, <2>3, <1>2, <1>3, <1>5 DEF IsInjective
<1> QED
  BY <1>1, <1>4, <1>5

\* The empty sequence has no element.
LEMMA Emptied ==
    ASSUME NEW S
    PROVE  <<>> \in Seq(S) /\ ToSet(<<>>) = {} /\ IsInjective(<<>>) /\ Len(<<>>) = 0
BY DEF ToSet, IsInjective

\* What a sequence over a set holds is in the set, and it is empty when it
\* holds nothing.
LEMMA Elements ==
    ASSUME NEW S, NEW q \in Seq(S)
    PROVE  ToSet(q) \subseteq S /\ (ToSet(q) = {} => q = <<>>)
<1>1. ToSet(q) \subseteq S
  BY DEF ToSet
<1>2. ASSUME q # <<>> PROVE ToSet(q) # {}
  <2>1. 1 \in DOMAIN q
    BY <1>2
  <2> QED
    BY <2>1 DEF ToSet
<1> QED
  BY <1>1, <1>2

\* None is not what a task publishes, nor what it dispatches.
LEMMA NoneIsNothing == None \notin Full /\ None \notin Jobs
<1>1. DOMAIN None = {}
  BY DEF None
<1>2. \A r \in Full : "event" \in DOMAIN r
  BY DEF Full
<1>3. \A r \in Jobs : "event" \in DOMAIN r
  BY DEF Jobs
<1> QED
  BY <1>1, <1>2, <1>3

---------------------------------------------------------------------------
(* The recorder *)

RecorderTypes ==
    /\ issued \in 0..MaxEvents
    /\ buffer \in Seq(Event) /\ IsInjective(buffer)
    /\ writing \in [Tasks -> Seq(Event)]
    /\ stored \cup lost \cup vanished \subseteq Event
    /\ failures \in Nat

\* The invariant of the recorder, which is all that it depends on.
Recorder == RecorderTypes /\ Accounted

\* There are as many failures as events lost, at most all of them.
LEMMA FailuresBounded ==
    ASSUME Recorder
    PROVE  failures \in 0..MaxEvents /\ IsFiniteSet(lost)
<1>1. IsFiniteSet(Event) /\ Cardinality(Event) = MaxEvents
  BY FS_Interval, BusAssumption DEF Event
<1>2. lost \subseteq Event
  BY DEF Recorder, RecorderTypes
<1>3. IsFiniteSet(lost) /\ Cardinality(lost) <= MaxEvents
  BY <1>1, <1>2, FS_Subset
<1>4. Cardinality(lost) \in Nat
  BY <1>3, FS_CardinalityType
<1> QED
  BY <1>3, <1>4, BusAssumption DEF Recorder, RecorderTypes, Accounted

\* A flush moves the buffer into the task's batch, which was empty.
LEMMA FlushKeeps ==
    ASSUME Recorder, NEW t \in Tasks, writing[t] = <<>>,
           NEW full \in Seq(Event),
           ToSet(full) \cap (Batches \cup stored \cup lost \cup vanished) = {},
           issued' \in 0..MaxEvents, 1..issued' = 1..issued \cup ToSet(full),
           ToSet(buffer) \subseteq ToSet(full),
           Flushed(t, full), UNCHANGED <<stored, lost, failures, vanished>>
    PROVE  Recorder'
<1>1. buffer' = <<>> /\ writing' = [writing EXCEPT ![t] = full]
  BY DEF Flushed
<1>2. RecorderTypes'
  BY <1>1, Emptied DEF Recorder, RecorderTypes
<1>3. /\ writing'[t] = full
      /\ \A u \in Tasks : u # t => writing'[u] = writing[u]
  BY <1>1 DEF Recorder, RecorderTypes
<1>4. ToSet(buffer') = {} /\ ToSet(writing[t]) = {}
  BY <1>1, Emptied
<1>5. Batches' = Batches \cup ToSet(full)
  BY <1>3, <1>4 DEF Batches
<1>6. \A u \in Tasks : ToSet(writing[u]) \subseteq Batches
  BY DEF Batches
<1>7. BatchesApart'
  <2>1. \A u, w \in Tasks : u # w => ToSet(writing'[u]) \cap ToSet(writing'[w]) = {}
    BY <1>3, <1>6 DEF Recorder, Accounted, BatchesApart
  <2> QED
    BY <2>1, <1>4 DEF BatchesApart
<1>8. Accounted'
  BY <1>4, <1>5, <1>7 DEF Recorder, Accounted
<1> QED
  BY <1>2, <1>8 DEF Recorder

\* Recording an event puts it into the buffer, or into a batch with the rest.
LEMMA PublishKeepsRecorder ==
    ASSUME Recorder, NEW t \in Tasks, Publish(t)
    PROVE  Recorder'
<1> DEFINE e == issued + 1
           full == Append(buffer, e)
<1>1. e \in Event /\ issued' = e /\ issued' \in 0..MaxEvents
  BY BusAssumption DEF Publish, Recorder, RecorderTypes, Event
<1>2. 1..issued' = 1..issued \cup {e} /\ e \notin 1..issued
  BY <1>1 DEF Recorder, RecorderTypes
<1>3. buffer \in Seq(Event) /\ IsInjective(buffer)
  BY DEF Recorder, RecorderTypes
<1>4. e \notin ToSet(buffer) \cup Batches \cup stored \cup lost \cup vanished
  BY <1>2 DEF Recorder, Accounted
<1>5. full \in Seq(Event) /\ ToSet(full) = ToSet(buffer) \cup {e} /\ IsInjective(full)
  BY <1>1, <1>3, <1>4, Appended
<1>6. writing[t] = <<>>
  BY DEF Publish, MayPublish
<1>7. UNCHANGED <<stored, lost, failures, vanished>>
  BY DEF Publish
<1>8. ToSet(full) \cap (Batches \cup stored \cup lost \cup vanished) = {}
  <2>1. ToSet(buffer) \cap Batches = {}
    BY DEF Recorder, Accounted, BatchesApart, Batches
  <2> QED
    BY <2>1, <1>4, <1>5 DEF Recorder, Accounted
<1>9. ToSet(buffer) \subseteq 1..issued
  BY DEF Recorder, Accounted
<1>10. 1..issued' = 1..issued \cup ToSet(full) /\ ToSet(buffer) \subseteq ToSet(full)
  BY <1>2, <1>5, <1>9
<1>11. CASE Flushed(t, full)
  BY <1>1, <1>5, <1>6, <1>7, <1>8, <1>10, <1>11, FlushKeeps
<1>12. CASE buffer' = full /\ UNCHANGED writing
  <2>1. RecorderTypes'
    BY <1>1, <1>5, <1>7, <1>12 DEF Recorder, RecorderTypes
  <2>2. Batches' = Batches /\ ToSet(buffer') = ToSet(buffer) \cup {e}
    BY <1>5, <1>12 DEF Batches
  <2>3. \A u \in Tasks : ToSet(writing[u]) \subseteq Batches
    BY DEF Batches
  <2>4. BatchesApart'
    BY <2>2, <2>3, <1>4, <1>12 DEF Recorder, Accounted, BatchesApart
  <2>5. Accounted'
    BY <2>2, <2>4, <1>2, <1>4, <1>7 DEF Recorder, Accounted
  <2> QED
    BY <2>1, <2>5 DEF Recorder
<1> QED
  BY <1>11, <1>12 DEF Publish

\* A due flush takes the buffer as it is.
LEMMA FlushIfDueKeepsRecorder ==
    ASSUME Recorder, FlushIfDue
    PROVE  Recorder'
<1>1. /\ "tick" \in Tasks /\ writing["tick"] = <<>> /\ Flushed("tick", buffer)
      /\ UNCHANGED <<stored, lost, failures, vanished, issued>>
  BY DEF FlushIfDue, Busy, Tasks
<1>2. ToSet(buffer) \subseteq 1..issued /\ issued \in 0..MaxEvents /\ buffer \in Seq(Event)
  BY DEF Recorder, RecorderTypes, Accounted
<1>3. ToSet(buffer) \cap (Batches \cup stored \cup lost \cup vanished) = {}
  <2>1. ToSet(buffer) \cap Batches = {}
    BY DEF Recorder, Accounted, BatchesApart, Batches
  <2> QED
    BY <2>1 DEF Recorder, Accounted
<1>4. 1..issued' = 1..issued \cup ToSet(buffer)
  BY <1>1, <1>2
<1> QED
  BY <1>1, <1>2, <1>3, <1>4, FlushKeeps

\* A batch is stored, or it is lost and counted.
LEMMA StoreKeepsRecorder ==
    ASSUME Recorder, NEW t \in Tasks, Store(t)
    PROVE  Recorder'
<1> DEFINE batch == ToSet(writing[t])
<1>1. /\ writing[t] # <<>> /\ writing' = [writing EXCEPT ![t] = <<>>]
      /\ UNCHANGED <<buffer, vanished, issued>>
  BY DEF Store
<1>2. writing[t] \in Seq(Event)
  BY DEF Recorder, RecorderTypes
<1>3. batch \subseteq Event /\ batch # {}
  BY <1>1, <1>2, Elements
<1>4. /\ writing'[t] = <<>> /\ ToSet(<<>>) = {}
      /\ \A u \in Tasks : u # t => writing'[u] = writing[u]
  BY <1>1, Emptied DEF Recorder, RecorderTypes
<1>5. Batches = Batches' \cup batch /\ Batches' \cap batch = {}
  <2>1. \A x : x \in Batches <=> \E u \in Tasks : x \in ToSet(writing[u])
    BY DEF Batches
  <2>2. \A x : x \in Batches' <=> \E u \in Tasks : x \in ToSet(writing'[u])
    BY DEF Batches
  <2>3. \A u \in Tasks : u # t => ToSet(writing[u]) \cap batch = {}
    BY DEF Recorder, Accounted, BatchesApart
  <2> QED
    BY <2>1, <2>2, <2>3, <1>4
<1>6. BatchesApart'
  BY <1>1, <1>4 DEF Recorder, Accounted, BatchesApart
<1>7. writing' \in [Tasks -> Seq(Event)]
  BY <1>1, Emptied DEF Recorder, RecorderTypes
<1>8. batch \cap (stored \cup lost \cup vanished) = {}
  BY DEF Batches, Recorder, Accounted
<1>9. CASE stored' = stored \cup batch /\ failures' = 0 /\ UNCHANGED lost
  <2>1. RecorderTypes'
    BY <1>1, <1>3, <1>7, <1>9 DEF Recorder, RecorderTypes
  <2>2. Cardinality(lost) \in Nat
    BY FailuresBounded, FS_CardinalityType
  <2>3. issued' = issued /\ buffer' = buffer /\ vanished' = vanished /\ lost' = lost
    BY <1>1, <1>9
  <2>4. 1..issued' = ToSet(buffer') \cup Batches' \cup stored' \cup lost' \cup vanished'
    BY <2>3, <1>5, <1>9 DEF Recorder, Accounted
  <2>5. /\ (ToSet(buffer) \cup Batches') \cap (stored' \cup lost \cup vanished) = {}
        /\ stored' \cap lost = {} /\ stored' \cap vanished = {}
    <3>1. batch \cap ToSet(buffer) = {}
      BY DEF Recorder, Accounted, BatchesApart
    <3> QED
      BY <3>1, <1>5, <1>8, <1>9 DEF Recorder, Accounted
  <2>6. Accounted'
    BY <2>2, <2>3, <2>4, <2>5, <1>6, <1>9 DEF Recorder, Accounted
  <2> QED
    BY <2>1, <2>6 DEF Recorder
<1>10. CASE lost' = LostWith(writing[t]) /\ failures' = failures + 1 /\ UNCHANGED stored
  <2>1. lost' = lost \cup batch
    BY <1>10 DEF LostWith
  <2>2. RecorderTypes'
    BY <2>1, <1>1, <1>3, <1>7, <1>10 DEF Recorder, RecorderTypes
  <2>3. PICK e : e \in batch /\ e \notin lost
    BY <1>3, <1>8
  <2>4. IsFiniteSet(Event) /\ lost' \subseteq Event
    BY <2>2, FS_Interval, BusAssumption DEF RecorderTypes, Event
  <2>5. IsFiniteSet(lost) /\ IsFiniteSet(lost') /\ IsFiniteSet(lost \cup {e})
    BY <2>4, FailuresBounded, FS_Subset, FS_AddElement
  <2>6. Cardinality(lost \cup {e}) = Cardinality(lost) + 1
    BY <2>3, <2>5, FS_AddElement
  <2>7. Cardinality(lost \cup {e}) <= Cardinality(lost')
    BY <2>1, <2>3, <2>5, FS_Subset
  <2>8. /\ Cardinality(lost) \in Nat /\ Cardinality(lost') \in Nat
        /\ Cardinality(lost \cup {e}) \in Nat
    BY <2>5, FS_CardinalityType
  <2>9. failures' <= Cardinality(lost')
    BY <2>6, <2>7, <2>8, <1>10 DEF Recorder, RecorderTypes, Accounted
  <2>10. issued' = issued /\ buffer' = buffer /\ vanished' = vanished /\ stored' = stored
    BY <1>1, <1>10
  <2>11. 1..issued' = ToSet(buffer') \cup Batches' \cup stored' \cup lost' \cup vanished'
    BY <2>1, <2>10, <1>5 DEF Recorder, Accounted
  <2>12. /\ (ToSet(buffer) \cup Batches') \cap (stored \cup lost' \cup vanished) = {}
         /\ stored \cap lost' = {} /\ lost' \cap vanished = {}
    <3>1. batch \cap ToSet(buffer) = {}
      BY DEF Recorder, Accounted, BatchesApart
    <3> QED
      BY <2>1, <3>1, <1>5, <1>8 DEF Recorder, Accounted
  <2>13. stored' \cap vanished' = {}
    BY <2>10 DEF Recorder, Accounted
  <2>14. Accounted'
    BY <2>9, <2>10, <2>11, <2>12, <2>13, <1>6 DEF Accounted
  <2> QED
    BY <2>2, <2>14 DEF Recorder
<1> QED
  BY <1>9, <1>10 DEF Store

\* Stop cancels the flushes that are under way and flushes the buffer.
LEMMA StopKeepsRecorder ==
    ASSUME Recorder, Stop
    PROVE  Recorder'
<1>1. /\ vanished' = vanished \cup Batches
      /\ buffer' = <<>>
      /\ writing' = [t \in Tasks |-> IF t = "tick" THEN buffer ELSE <<>>]
      /\ UNCHANGED <<issued, stored, lost, failures>>
  BY DEF Stop
<1>2. Batches \subseteq Event
  BY Elements DEF Batches, Recorder, RecorderTypes
<1>3. RecorderTypes'
  BY <1>1, <1>2, Emptied DEF Recorder, RecorderTypes
<1>4. /\ "tick" \in Tasks /\ writing'["tick"] = buffer
      /\ \A u \in Tasks : u # "tick" => writing'[u] = <<>>
  BY <1>1 DEF Tasks
<1>5. ToSet(<<>>) = {}
  BY Emptied
<1>6. Batches' = ToSet(buffer) /\ ToSet(buffer') = {}
  BY <1>1, <1>4, <1>5 DEF Batches
<1>7. BatchesApart'
  BY <1>4, <1>5, <1>6 DEF BatchesApart
<1>8. ToSet(buffer) \cap Batches = {}
  BY DEF Recorder, Accounted, BatchesApart, Batches
<1>9. Accounted'
  BY <1>1, <1>6, <1>7, <1>8 DEF Recorder, Accounted
<1> QED
  BY <1>3, <1>9 DEF Recorder

\* A crash takes the buffer with it, and the batches.
LEMMA CrashKeepsRecorder ==
    ASSUME Recorder, Crash
    PROVE  Recorder'
<1>1. /\ vanished' = vanished \cup Batches \cup ToSet(buffer)
      /\ buffer' = <<>>
      /\ writing' = [t \in Tasks |-> <<>>]
      /\ failures' = 0
      /\ UNCHANGED <<issued, stored, lost>>
  BY DEF Crash
<1>2. Batches \cup ToSet(buffer) \subseteq Event
  BY Elements DEF Batches, Recorder, RecorderTypes
<1>3. RecorderTypes'
  BY <1>1, <1>2, Emptied DEF Recorder, RecorderTypes
<1>4. /\ ToSet(<<>>) = {}
      /\ \A u \in Tasks : writing'[u] = <<>>
  BY <1>1, Emptied
<1>5. Batches' = {} /\ ToSet(buffer') = {}
  BY <1>1, <1>4 DEF Batches
<1>6. BatchesApart'
  BY <1>4, <1>5 DEF BatchesApart
<1>7. Cardinality(lost) \in Nat
  BY FailuresBounded, FS_CardinalityType
<1>8. Accounted'
  BY <1>1, <1>5, <1>6, <1>7 DEF Recorder, Accounted
<1> QED
  BY <1>3, <1>8 DEF Recorder

\* No other step touches the recorder.
LEMMA RecorderKept ==
    ASSUME Recorder, [Next]_vars
    PROVE  Recorder'
<1>1. ASSUME UNCHANGED <<recorderVars, issued>> PROVE Recorder'
  BY <1>1 DEF Recorder, RecorderTypes, Accounted, BatchesApart, Batches, recorderVars
<1>2. CASE UNCHANGED vars
  BY <1>1, <1>2 DEF vars
<1>3. ASSUME NEW t \in Tasks, Publish(t) PROVE Recorder'
  BY <1>3, PublishKeepsRecorder
<1>4. ASSUME NEW t \in Tasks, Store(t) PROVE Recorder'
  BY <1>4, StoreKeepsRecorder
<1>5. ASSUME NEW t \in Tasks, Send(t) \/ Sent(t) \/ Take(t) \/ Call(t) \/ Return(t)
      PROVE  Recorder'
  BY <1>1, <1>5 DEF Send, Sent, Take, Call, Return
<1>6. CASE FlushIfDue
  BY <1>6, FlushIfDueKeepsRecorder
<1>7. CASE Read \/ CaughtUp \/ TakeFetched \/ Drain \/ DrainReturns \/ DrainTimesOut \/ Start
  BY <1>1, <1>7 DEF Read, CaughtUp, TakeFetched, Drain, DrainReturns, DrainTimesOut, Start
<1>8. CASE Stop
  BY <1>8, StopKeepsRecorder
<1>9. CASE Crash
  BY <1>9, CrashKeepsRecorder
<1> QED
  BY <1>2, <1>3, <1>4, <1>5, <1>6, <1>7, <1>8, <1>9 DEF Next

---------------------------------------------------------------------------
(* Publication *)

\* The invariant of the publishers and the log.
Publisher ==
    /\ publishing \in [Tasks -> Full \cup {None}]
    /\ log \in Seq(Event) /\ IsInjective(log)
    /\ issued \in 0..MaxEvents
    /\ Publications

\* An event that is issued is nobody's, and not in the log.
LEMMA PublishKeepsPublisher ==
    ASSUME Publisher, NEW t \in Tasks, Publish(t)
    PROVE  Publisher'
<1> DEFINE r == [event |-> issued + 1, stage |-> "record"]
<1>1. /\ issued < MaxEvents /\ issued' = issued + 1
      /\ publishing' = [publishing EXCEPT ![t] = r]
      /\ log' = log
  BY DEF Publish, streamVars
<1>2. issued \in Nat /\ issued' \in 0..MaxEvents /\ issued + 1 \in Event
  BY <1>1, BusAssumption DEF Publisher, Event
<1>3. r \in Full
  BY <1>2 DEF Full
<1>4. publishing' \in [Tasks -> Full \cup {None}]
  BY <1>1, <1>3 DEF Publisher
<1>5. /\ publishing'[t] = r /\ r.event = issued + 1 /\ r.stage = "record"
      /\ \A u \in Tasks : u # t => publishing'[u] = publishing[u]
  BY <1>1 DEF Publisher
<1>6. \A u \in Tasks : publishing[u] # None => publishing[u].event < issued + 1
  <2> SUFFICES ASSUME NEW u \in Tasks, publishing[u] # None
               PROVE  publishing[u].event < issued + 1
    OBVIOUS
  <2>1. publishing[u] \in Full /\ publishing[u].event <= issued
    BY DEF Publisher, Publications
  <2>2. publishing[u].event \in Nat
    BY <2>1 DEF Full, Event
  <2> QED
    BY <2>1, <2>2, <1>2
<1>7. issued + 1 \notin ToSet(log) /\ ToSet(log) \subseteq 1..(issued + 1)
  BY <1>2 DEF Publisher, Publications
<1>8. Publications'
  <2>1. ASSUME NEW u \in Tasks, publishing'[u] # None
        PROVE  /\ publishing'[u].event <= issued + 1
               /\ publishing'[u].stage = "record" <=> publishing'[u].event \notin ToSet(log)
               /\ \A w \in Tasks \ {u} :
                     publishing'[w] # None => publishing'[w].event # publishing'[u].event
    <3>1. CASE u = t
      <4>1. \A w \in Tasks \ {u} :
               publishing'[w] # None => publishing'[w].event < issued + 1
        BY <1>5, <1>6, <3>1
      <4>2. publishing'[u].event = issued + 1 /\ publishing'[u].stage = "record"
        BY <1>5, <3>1
      <4>3. \A w \in Tasks \ {u} :
               publishing'[w] # None => publishing'[w].event # issued + 1
        BY <4>1, <1>2
      <4> QED
        BY <4>2, <4>3, <1>2, <1>7
    <3>2. CASE u # t
      <4>1. publishing'[u] = publishing[u] /\ publishing[u] \in Full
        BY <1>5, <2>1, <3>2 DEF Publisher
      <4>2. publishing[u].event \in Nat /\ publishing[u].event < issued + 1
        BY <4>1, <1>6, <2>1 DEF Full, Event
      <4>3. publishing[u].event # issued + 1
        BY <4>2, <1>2
      <4>4. publishing[u].event <= issued + 1
        BY <4>2, <1>2
      <4> QED
        BY <4>1, <4>3, <4>4, <1>5, <2>1 DEF Publisher, Publications
    <3> QED
      BY <3>1, <3>2
  <2> QED
    BY <2>1, <1>1, <1>7 DEF Publications
<1> QED
  BY <1>1, <1>2, <1>4, <1>8 DEF Publisher

\* What is sent is new to the log.
LEMMA SendAppends ==
    ASSUME Publisher, NEW t \in Tasks, Send(t)
    PROVE  /\ publishing[t] \in Full
           /\ publishing[t].event \in Event \ ToSet(log)
           /\ publishing[t].event \in 1..issued
           /\ log' = Append(log, publishing[t].event)
           /\ queue' = Append(queue, publishing[t].event)
<1>1. publishing[t] # None /\ publishing[t].stage = "record"
  BY DEF Send
<1>2. publishing[t] \in Full
  BY <1>1 DEF Publisher
<1>3. publishing[t].event \in Event /\ publishing[t].event <= issued
  BY <1>1, <1>2 DEF Full, Publisher, Publications
<1> QED
  BY <1>1, <1>2, <1>3 DEF Send, Readable, Publisher, Publications, Event

\* A publication that is sent, or has returned, leaves the others alone.
LEMMA SendKeepsPublisher ==
    ASSUME Publisher, NEW t \in Tasks, Send(t)
    PROVE  Publisher'
<1> DEFINE e == publishing[t].event
           r == [publishing[t] EXCEPT !.stage = "sent"]
<1>1. /\ publishing[t] \in Full /\ publishing[t] # None
      /\ e \in Event \ ToSet(log) /\ e \in 1..issued /\ log' = Append(log, e)
      /\ issued' = issued
  BY SendAppends DEF Send
<1>2. /\ log' \in Seq(Event) /\ IsInjective(log') /\ ToSet(log') = ToSet(log) \cup {e}
  BY <1>1, Appended DEF Publisher
<1>3. publishing' = [publishing EXCEPT ![t] = IF transport = "memory" THEN None ELSE r]
  BY DEF Send
<1>4. r \in Full /\ r.event = e /\ r.stage = "sent"
  BY <1>1 DEF Full
<1>5. publishing' \in [Tasks -> Full \cup {None}]
  BY <1>3, <1>4 DEF Publisher
<1>6. /\ publishing'[t] \in {None, r}
      /\ \A u \in Tasks : u # t => publishing'[u] = publishing[u]
  BY <1>3 DEF Publisher
<1>7. \A u \in Tasks \ {t} : publishing[u] # None => publishing[u].event # e
  BY <1>1 DEF Publisher, Publications
<1>8. ASSUME NEW u \in Tasks, publishing'[u] # None
      PROVE  /\ publishing'[u].event <= issued
             /\ publishing'[u].stage = "record" <=> publishing'[u].event \notin ToSet(log')
             /\ \A w \in Tasks \ {u} :
                   publishing'[w] # None => publishing'[w].event # publishing'[u].event
  <2>1. CASE u = t
    <3>1. publishing'[u].event = e /\ publishing'[u].stage = "sent"
      BY <1>4, <1>6, <1>8, <2>1
    <3>2. e <= issued
      BY <1>1 DEF Publisher
    <3> QED
      BY <3>1, <3>2, <1>2, <1>6, <1>7, <2>1
  <2>2. CASE u # t
    <3>1. publishing'[u] = publishing[u] /\ publishing[u].event # e
      BY <1>6, <1>7, <1>8, <2>2
    <3>2. \A w \in Tasks \ {u} :
             publishing'[w] # None => publishing'[w].event # publishing[u].event
      <4>1. \A w \in Tasks \ {u} :
               publishing[w] # None => publishing[w].event # publishing[u].event
        BY <3>1, <1>8 DEF Publisher, Publications
      <4>2. publishing'[t] # None => publishing'[t].event # publishing[u].event
        BY <3>1, <1>4, <1>6
      <4> QED
        BY <4>1, <4>2, <1>6
    <3> QED
      BY <3>1, <3>2, <1>2, <1>8 DEF Publisher, Publications
  <2> QED
    BY <2>1, <2>2
<1>9. Publications'
  BY <1>1, <1>2, <1>8 DEF Publisher, Publications
<1> QED
  BY <1>1, <1>2, <1>5, <1>9 DEF Publisher

\* No other step publishes.
LEMMA PublisherKept ==
    ASSUME Publisher, [Next]_vars
    PROVE  Publisher'
<1>1. ASSUME UNCHANGED <<publishing, log, issued>> PROVE Publisher'
  BY <1>1 DEF Publisher, Publications
<1>2. CASE UNCHANGED vars
  BY <1>1, <1>2 DEF vars, streamVars
<1>3. ASSUME NEW t \in Tasks, Publish(t) PROVE Publisher'
  BY <1>3, PublishKeepsPublisher
<1>4. ASSUME NEW t \in Tasks, Send(t) PROVE Publisher'
  BY <1>4, SendKeepsPublisher
<1>5. ASSUME NEW t \in Tasks, Store(t) \/ Take(t) \/ Call(t) \/ Return(t)
      PROVE  Publisher'
  BY <1>1, <1>5 DEF Store, Take, Call, Return, streamVars
<1>6. CASE FlushIfDue \/ Read \/ CaughtUp \/ TakeFetched \/ Drain \/ DrainReturns
           \/ DrainTimesOut \/ Start
  BY <1>1, <1>6 DEF FlushIfDue, Read, CaughtUp, TakeFetched, Drain, DrainReturns,
                    DrainTimesOut, Start, streamVars
<1>7. ASSUME UNCHANGED <<log, issued>>,
             publishing' \in [Tasks -> Full \cup {None}],
             \A t \in Tasks : publishing'[t] \in {publishing[t], None}
      PROVE  Publisher'
  BY <1>7 DEF Publisher, Publications
<1>8. ASSUME NEW t \in Tasks, Sent(t) PROVE Publisher'
  <2>1. publishing' = [publishing EXCEPT ![t] = None] /\ UNCHANGED <<log, issued>>
    BY <1>8 DEF Sent, streamVars
  <2> QED
    BY <2>1, <1>7 DEF Publisher
<1>9. CASE Stop \/ Crash
  <2>1. publishing' = [t \in Tasks |-> None] /\ UNCHANGED <<log, issued>>
    BY <1>9 DEF Stop, Crash, Cancelled
  <2> QED
    BY <2>1, <1>7
<1> QED
  BY <1>2, <1>3, <1>4, <1>5, <1>6, <1>8, <1>9 DEF Next

---------------------------------------------------------------------------
(* Reading *)

\* The invariant of the log and of how far it is read.
Reader ==
    /\ log \in Seq(Event) /\ IsInjective(log)
    /\ queue \in Seq(Event) /\ fetched \in Seq(Event)
    /\ Reading

\* The log is in three parts, which have nothing in common.
LEMMA ThreeParts ==
    ASSUME Reader
    PROVE  /\ IsInjective(queue) /\ IsInjective(fetched)
           /\ ToSet(log) = Behind \cup ToSet(fetched) \cup ToSet(queue)
           /\ ToSet(fetched) \cap ToSet(queue) = {}
           /\ Behind \cap (ToSet(fetched) \cup ToSet(queue)) = {}
<1> DEFINE k == Len(log)
           f == Len(fetched)
           n == Len(queue)
<1>1. /\ DOMAIN log = 1..k /\ DOMAIN fetched = 1..f /\ DOMAIN queue = 1..n
      /\ k \in Nat /\ f \in Nat /\ n \in Nat
  BY DEF Reader
<1>2. Taken \in Nat /\ k = Taken + f + n
  BY <1>1 DEF Reader, Reading, Taken
<1>3. \A i, j \in 1..k : log[i] = log[j] => i = j
  BY <1>1 DEF Reader, IsInjective
<1>4. \A i \in 1..f : fetched[i] = log[Taken + i] /\ Taken + i \in 1..k
  BY <1>1, <1>2 DEF Reader, Reading
<1>5. \A i \in 1..n : queue[i] = log[Taken + f + i] /\ Taken + f + i \in 1..k
  BY <1>1, <1>2 DEF Reader, Reading
<1>6. \A i \in 1..Taken : i \in 1..k
  BY <1>1, <1>2
<1> HIDE DEF k, f, n
<1>7. IsInjective(queue)
  <2> SUFFICES ASSUME NEW a \in 1..n, NEW b \in 1..n, queue[a] = queue[b] PROVE a = b
    BY <1>1 DEF IsInjective
  <2>1. Taken + f + a = Taken + f + b
    BY <1>3, <1>5
  <2> QED
    BY <2>1, <1>1, <1>2
<1>8. IsInjective(fetched)
  <2> SUFFICES ASSUME NEW a \in 1..f, NEW b \in 1..f, fetched[a] = fetched[b] PROVE a = b
    BY <1>1 DEF IsInjective
  <2>1. Taken + a = Taken + b
    BY <1>3, <1>4
  <2> QED
    BY <2>1, <1>1, <1>2
<1>9. ToSet(log) = Behind \cup ToSet(fetched) \cup ToSet(queue)
  <2>1. Behind \cup ToSet(fetched) \cup ToSet(queue) \subseteq ToSet(log)
    BY <1>1, <1>4, <1>5, <1>6 DEF ToSet, Behind
  <2>2. ASSUME NEW i \in 1..k
        PROVE  log[i] \in Behind \cup ToSet(fetched) \cup ToSet(queue)
    <3>1. CASE i <= Taken
      BY <3>1, <1>1, <1>2 DEF Behind
    <3>2. CASE i > Taken /\ i <= Taken + f
      <4>1. i - Taken \in 1..f /\ Taken + (i - Taken) = i
        BY <3>2, <1>1, <1>2
      <4> QED
        BY <4>1, <1>1, <1>4 DEF ToSet
    <3>3. CASE i > Taken + f
      <4>1. i - Taken - f \in 1..n /\ Taken + f + (i - Taken - f) = i
        BY <3>3, <1>1, <1>2
      <4> QED
        BY <4>1, <1>1, <1>5 DEF ToSet
    <3> QED
      BY <3>1, <3>2, <3>3, <1>1, <1>2
  <2> QED
    BY <2>1, <2>2, <1>1 DEF ToSet
<1>10. ToSet(fetched) \cap ToSet(queue) = {}
  <2> SUFFICES ASSUME NEW a \in 1..f, NEW b \in 1..n, fetched[a] = queue[b] PROVE FALSE
    BY <1>1 DEF ToSet
  <2>1. Taken + a = Taken + f + b
    BY <1>3, <1>4, <1>5
  <2> QED
    BY <2>1, <1>1, <1>2
<1>11. Behind \cap (ToSet(fetched) \cup ToSet(queue)) = {}
  <2>1. ASSUME NEW i \in 1..Taken, NEW a \in 1..f PROVE log[i] # fetched[a]
    <3>1. i # Taken + a
      BY <1>1, <1>2
    <3> QED
      BY <3>1, <1>3, <1>4, <1>6
  <2>2. ASSUME NEW i \in 1..Taken, NEW b \in 1..n PROVE log[i] # queue[b]
    <3>1. i # Taken + f + b
      BY <1>1, <1>2
    <3> QED
      BY <3>1, <1>3, <1>5, <1>6
  <2> QED
    BY <2>1, <2>2, <1>1 DEF ToSet, Behind
<1> QED
  BY <1>7, <1>8, <1>9, <1>10, <1>11

\* The first element of a sequence is taken from its front.
LEMMA FirstTaken ==
    ASSUME NEW S, NEW q \in Seq(S), q # <<>>
    PROVE  /\ RemoveAt(q, 1) \in Seq(S)
           /\ Len(RemoveAt(q, 1)) = Len(q) - 1 /\ Len(q) >= 1
           /\ \A i \in 1..(Len(q) - 1) : RemoveAt(q, 1)[i] = q[i + 1]
           /\ q[1] \in S
<1>1. Len(q) \in Nat /\ Len(q) >= 1 /\ q[1] \in S
  OBVIOUS
<1>2. SubSeq(q, 1, 1 - 1) = <<>>
  OBVIOUS
<1>3. SubSeq(q, 1 + 1, Len(q)) = Tail(q)
  BY <1>1
<1>4. RemoveAt(q, 1) = Tail(q)
  BY <1>2, <1>3 DEF RemoveAt
<1> QED
  BY <1>1, <1>4

\* What is sent is added at the end, behind nothing that was read.
LEMMA SendKeepsReader ==
    ASSUME Reader, NEW e \in Event \ ToSet(log),
           log' = Append(log, e), queue' = Append(queue, e), UNCHANGED fetched
    PROVE  Reader' /\ Taken' = Taken /\ Behind' = Behind
<1>1. /\ log' \in Seq(Event) /\ IsInjective(log')
      /\ queue' \in Seq(Event) /\ fetched' \in Seq(Event)
  BY Appended DEF Reader
<1>2. /\ Len(log') = Len(log) + 1 /\ Len(queue') = Len(queue) + 1 /\ fetched' = fetched
      /\ Len(log) \in Nat /\ Len(queue) \in Nat /\ Len(fetched) \in Nat
  BY DEF Reader
<1>3. Taken \in Nat /\ Len(log) = Taken + Len(fetched) + Len(queue)
  BY <1>2 DEF Reader, Reading, Taken
<1>4. Taken' = Taken
  BY <1>2 DEF Taken
<1>5. \A i \in 1..Len(log) : log'[i] = log[i]
  BY DEF Reader
<1>6. /\ \A i \in 1..Len(queue) : queue'[i] = queue[i]
      /\ queue'[Len(queue) + 1] = e /\ log'[Len(log) + 1] = e
  BY DEF Reader
<1>7. Behind' = Behind
  <2>1. \A i \in 1..Taken : log'[i] = log[i]
    BY <1>2, <1>3, <1>5
  <2> QED
    BY <2>1, <1>4 DEF Behind
<1>8. \A i \in 1..Len(fetched) : fetched[i] = log'[Taken + i]
  <2>1. \A i \in 1..Len(fetched) : Taken + i \in 1..Len(log)
    BY <1>2, <1>3
  <2> QED
    BY <2>1, <1>5 DEF Reader, Reading
<1>9. \A i \in 1..Len(queue') : queue'[i] = log'[Taken + Len(fetched) + i]
  <2>1. \A i \in 1..Len(queue) : Taken + Len(fetched) + i \in 1..Len(log)
    BY <1>2, <1>3
  <2>2. \A i \in 1..Len(queue) : queue'[i] = log'[Taken + Len(fetched) + i]
    BY <2>1, <1>5, <1>6 DEF Reader, Reading
  <2>3. Taken + Len(fetched) + (Len(queue) + 1) = Len(log) + 1
    BY <1>2, <1>3
  <2>4. queue'[Len(queue) + 1] = log'[Taken + Len(fetched) + (Len(queue) + 1)]
    BY <2>3, <1>6
  <2>5. \A i \in 1..Len(queue') : i \in 1..Len(queue) \/ i = Len(queue) + 1
    BY <1>2
  <2> QED
    BY <2>2, <2>4, <2>5
<1>10. Reading'
  BY <1>2, <1>3, <1>4, <1>8, <1>9 DEF Reading
<1> QED
  BY <1>1, <1>4, <1>7, <1>10 DEF Reader

\* A read of the stream moves the boundary between the two unread parts.
LEMMA ReadKeepsReader ==
    ASSUME Reader, fetched = <<>>, NEW n \in 0..Len(queue),
           fetched' = SubSeq(queue, 1, n), queue' = SubSeq(queue, n + 1, Len(queue)),
           UNCHANGED log
    PROVE  Reader' /\ Taken' = Taken /\ Behind' = Behind
<1>1. Len(queue) \in Nat /\ queue \in Seq(Event) /\ n \in Nat /\ Len(fetched) = 0
  BY DEF Reader
<1>2. /\ fetched' \in Seq(Event) /\ Len(fetched') = n
      /\ \A i \in 1..n : fetched'[i] = queue[i]
  BY <1>1
<1>3. \A i \in (n + 1)..Len(queue) : queue[i] \in Event
  BY <1>1
<1>4. /\ queue' \in Seq(Event) /\ Len(queue') = Len(queue) - n
      /\ \A i \in 1..(Len(queue) - n) : queue'[i] = queue[n + i]
  BY <1>1, <1>3
<1>5. Taken' = Taken /\ Len(log) \in Nat
  <2>1. Len(log) \in Nat /\ Len(log)' = Len(log)
    BY DEF Reader
  <2>2. Len(fetched)' = n /\ Len(queue)' = Len(queue) - n
    BY <1>2, <1>4
  <2>3. Len(log) - n - (Len(queue) - n) = Len(log) - 0 - Len(queue)
    BY <2>1, <1>1
  <2> QED
    BY <2>1, <2>2, <2>3, <1>1 DEF Taken
<1>6. Taken \in Nat /\ \A i \in 1..Len(queue) : queue[i] = log[Taken + i]
  BY <1>1, <1>5 DEF Reader, Reading
<1>7. \A i \in 1..n : fetched'[i] = log[Taken + i]
  BY <1>1, <1>2, <1>6
<1>8. \A i \in 1..(Len(queue) - n) : queue'[i] = log[Taken + n + i]
  <2> SUFFICES ASSUME NEW i \in 1..(Len(queue) - n) PROVE queue'[i] = log[Taken + n + i]
    OBVIOUS
  <2>1. n + i \in 1..Len(queue) /\ Taken + (n + i) = Taken + n + i
    BY <1>1, <1>6
  <2> QED
    BY <2>1, <1>4, <1>6
<1>9. Reading'
  BY <1>2, <1>4, <1>5, <1>6, <1>7, <1>8 DEF Reading
<1>10. Behind' = Behind
  BY <1>5 DEF Behind
<1> QED
  BY <1>2, <1>4, <1>5, <1>9, <1>10 DEF Reader

\* Either dispatcher takes the first of what is unread.
LEMMA TakeKeepsReader ==
    ASSUME Reader, UNCHANGED log,
           \/ /\ fetched = <<>> /\ queue # <<>> /\ UNCHANGED fetched
              /\ queue' = RemoveAt(queue, 1)
           \/ /\ fetched # <<>> /\ fetched' = RemoveAt(fetched, 1) /\ UNCHANGED queue
    PROVE  /\ Reader' /\ Taken' = Taken + 1
           /\ Taken' \in DOMAIN log
           /\ Behind' = Behind \cup {log[Taken']}
           /\ log[Taken'] \in Event \ Behind
           /\ log[Taken'] = IF fetched = <<>> THEN queue[1] ELSE fetched[1]
<1>1. /\ Len(log) \in Nat /\ Len(queue) \in Nat /\ Len(fetched) \in Nat
      /\ DOMAIN log = 1..Len(log)
  BY DEF Reader
<1>2. Taken \in Nat /\ Len(log) = Taken + Len(fetched) + Len(queue)
  BY <1>1 DEF Reader, Reading, Taken
<1>3. /\ Reader' /\ Taken' = Taken + 1 /\ Len(log) >= Taken + 1
      /\ log[Taken + 1] = IF fetched = <<>> THEN queue[1] ELSE fetched[1]
  <2>1. CASE /\ fetched = <<>> /\ queue # <<>> /\ UNCHANGED fetched
             /\ queue' = RemoveAt(queue, 1)
    <3>1. /\ queue' \in Seq(Event) /\ Len(queue') = Len(queue) - 1 /\ Len(queue) >= 1
          /\ \A i \in 1..(Len(queue) - 1) : queue'[i] = queue[i + 1]
      BY <2>1, FirstTaken DEF Reader
    <3>2. Taken' = Taken + 1 /\ Len(fetched) = 0
      <4>1. /\ Len(log)' = Len(log) /\ Len(queue)' = Len(queue) - 1
            /\ Len(fetched)' = Len(fetched) /\ Len(fetched) = 0
        BY <2>1, <3>1
      <4> QED
        BY <4>1, <1>1 DEF Taken
    <3>3. \A i \in 1..Len(queue) : queue[i] = log[Taken + i]
      BY <3>2, <1>2 DEF Reader, Reading
    <3>4. \A i \in 1..(Len(queue) - 1) : queue'[i] = log[Taken + 1 + i]
      <4> SUFFICES ASSUME NEW i \in 1..(Len(queue) - 1)
                   PROVE  queue'[i] = log[Taken + 1 + i]
        OBVIOUS
      <4>1. i + 1 \in 1..Len(queue) /\ Taken + (i + 1) = Taken + 1 + i
        BY <1>1, <1>2
      <4> QED
        BY <4>1, <3>1, <3>3
    <3>5. Reading'
      BY <2>1, <3>1, <3>2, <3>4, <1>2 DEF Reading
    <3>6. Reader'
      BY <2>1, <3>1, <3>5 DEF Reader
    <3>7. Len(log) >= Taken + 1 /\ 1 \in 1..Len(queue)
      BY <3>1, <3>2, <1>1, <1>2
    <3> QED
      BY <2>1, <3>2, <3>3, <3>6, <3>7
  <2>2. CASE fetched # <<>> /\ fetched' = RemoveAt(fetched, 1) /\ UNCHANGED queue
    <3>1. /\ fetched' \in Seq(Event) /\ Len(fetched') = Len(fetched) - 1
          /\ Len(fetched) >= 1
          /\ \A i \in 1..(Len(fetched) - 1) : fetched'[i] = fetched[i + 1]
      BY <2>2, FirstTaken DEF Reader
    <3>2. Taken' = Taken + 1
      <4>1. /\ Len(log)' = Len(log) /\ Len(queue)' = Len(queue)
            /\ Len(fetched)' = Len(fetched) - 1
        BY <2>2, <3>1
      <4> QED
        BY <4>1, <1>1 DEF Taken
    <3>3. /\ \A i \in 1..Len(fetched) : fetched[i] = log[Taken + i]
          /\ \A i \in 1..Len(queue) : queue[i] = log[Taken + Len(fetched) + i]
      BY DEF Reader, Reading
    <3>4. \A i \in 1..(Len(fetched) - 1) : fetched'[i] = log[Taken + 1 + i]
      <4> SUFFICES ASSUME NEW i \in 1..(Len(fetched) - 1)
                   PROVE  fetched'[i] = log[Taken + 1 + i]
        OBVIOUS
      <4>1. i + 1 \in 1..Len(fetched) /\ Taken + (i + 1) = Taken + 1 + i
        BY <1>1, <1>2
      <4> QED
        BY <4>1, <3>1, <3>3
    <3>5. Taken + 1 + (Len(fetched) - 1) = Taken + Len(fetched)
      BY <1>1, <1>2
    <3>6. Reading'
      <4>1. /\ queue' = queue /\ log' = log /\ Taken' + Len(fetched') = Taken + Len(fetched)
            /\ Taken' \in Nat
        <5>1. queue' = queue /\ log' = log
          BY <2>2
        <5>2. Taken \in Nat /\ Len(fetched) \in Nat
          BY <1>1, <1>2
        <5>3. Taken' \in Nat
          BY <5>2, <3>2
        <5>4. Taken' + Len(fetched') = Taken + Len(fetched)
          BY <3>1, <3>2, <3>5
        <5> QED
          BY <5>1, <5>3, <5>4
      <4>2. \A i \in 1..Len(queue') : queue'[i] = log'[Taken' + Len(fetched') + i]
        BY <4>1, <3>3
      <4>3. \A i \in 1..Len(fetched') : fetched'[i] = log'[Taken' + i]
        BY <4>1, <3>1, <3>2, <3>4
      <4> QED
        BY <4>1, <4>2, <4>3 DEF Reading
    <3>7. Reader'
      BY <2>2, <3>1, <3>6 DEF Reader
    <3>8. Len(log) >= Taken + 1 /\ 1 \in 1..Len(fetched)
      BY <3>1, <1>1, <1>2
    <3> QED
      BY <2>2, <3>2, <3>3, <3>7, <3>8
  <2> QED
    BY <2>1, <2>2
<1>4. Taken' \in DOMAIN log
  BY <1>1, <1>2, <1>3
<1>5. Behind' = Behind \cup {log[Taken']}
  <2>1. 1..Taken' = 1..Taken \cup {Taken'}
    BY <1>2, <1>3
  <2>2. Behind' = {log[i] : i \in 1..Taken'}
    BY DEF Behind
  <2> QED
    BY <2>1, <2>2 DEF Behind
<1>6. log[Taken'] \in Event
  BY <1>4 DEF Reader
<1>7. log[Taken'] \notin Behind
  <2>1. \A i \in 1..Taken : i \in DOMAIN log /\ i # Taken'
    BY <1>1, <1>2, <1>3
  <2> QED
    BY <2>1, <1>4 DEF Behind, Reader, IsInjective
<1> QED
  BY <1>3, <1>4, <1>5, <1>6, <1>7

\* What was fetched and is dropped counts as taken.
LEMMA DropKeepsReader ==
    ASSUME Reader, fetched' = <<>>, UNCHANGED <<log, queue>>
    PROVE  Reader' /\ Behind' = Behind \cup ToSet(fetched)
<1>1. /\ Len(log) \in Nat /\ Len(queue) \in Nat /\ Len(fetched) \in Nat
      /\ DOMAIN fetched = 1..Len(fetched)
  BY DEF Reader
<1>2. Taken \in Nat /\ Len(log) = Taken + Len(fetched) + Len(queue)
  BY <1>1 DEF Reader, Reading, Taken
<1>3. Taken' = Taken + Len(fetched) /\ Len(fetched') = 0 /\ fetched' \in Seq(Event)
  BY <1>1 DEF Taken
<1>4. Reading'
  BY <1>1, <1>2, <1>3 DEF Reader, Reading
<1>5. Behind' = Behind \cup ToSet(fetched)
  <2>1. Behind' = {log[i] : i \in 1..(Taken + Len(fetched))}
    BY <1>3 DEF Behind
  <2>2. \A i \in 1..Len(fetched) :
           fetched[i] = log[Taken + i] /\ Taken + i \in 1..(Taken + Len(fetched))
    BY <1>1, <1>2 DEF Reader, Reading
  <2>3. Behind \cup ToSet(fetched) \subseteq Behind'
    <3>1. \A i \in 1..Taken : i \in 1..(Taken + Len(fetched))
      BY <1>1, <1>2
    <3> QED
      BY <2>1, <2>2, <3>1, <1>1 DEF Behind, ToSet
  <2>4. ASSUME NEW i \in 1..(Taken + Len(fetched))
        PROVE  log[i] \in Behind \cup ToSet(fetched)
    <3>1. CASE i <= Taken
      BY <3>1, <1>1, <1>2 DEF Behind
    <3>2. CASE i > Taken
      <4>1. i - Taken \in 1..Len(fetched) /\ Taken + (i - Taken) = i
        BY <3>2, <1>1, <1>2
      <4> QED
        BY <4>1, <2>2, <1>1 DEF ToSet
    <3> QED
      BY <3>1, <3>2, <1>1, <1>2
  <2> QED
    BY <2>1, <2>3, <2>4
<1> QED
  BY <1>3, <1>4, <1>5 DEF Reader

\* The places of the log: each event has one.
LEMMA Places ==
    ASSUME Reader
    PROVE  /\ \A e \in ToSet(log) : PlaceOf(e) \in DOMAIN log /\ log[PlaceOf(e)] = e
           /\ \A i \in DOMAIN log : PlaceOf(log[i]) = i
           /\ DOMAIN log = 1..Len(log) /\ Len(log) \in Nat
<1>1. DOMAIN log = 1..Len(log) /\ Len(log) \in Nat
  BY DEF Reader
<1>2. ASSUME NEW e \in ToSet(log)
      PROVE  PlaceOf(e) \in DOMAIN log /\ log[PlaceOf(e)] = e
  <2>1. \E i \in DOMAIN log : log[i] = e
    BY DEF ToSet
  <2> QED
    BY <2>1 DEF PlaceOf
<1>3. ASSUME NEW i \in DOMAIN log PROVE PlaceOf(log[i]) = i
  <2>1. log[i] \in ToSet(log)
    BY DEF ToSet
  <2> QED
    BY <2>1, <1>2 DEF Reader, IsInjective
<1> QED
  BY <1>1, <1>2, <1>3

---------------------------------------------------------------------------
(* Dispatch *)

\* The invariant of the dispatchers and of what the subscriptions have had.
Dispatcher ==
    /\ job \in [Tasks -> Jobs \cup {None}]
    /\ seen \in [Subs -> Seq(Event)]
    /\ skipped \subseteq Event
    /\ Dispatching
    /\ InLogOrder

\* A step that takes nothing, and dispatches nothing.
LEMMA StillDispatching ==
    ASSUME Reader, Dispatcher, UNCHANGED <<job, seen, skipped, transport, suspends>>,
           Taken' = Taken, Behind' = Behind, \A i \in 1..Taken : log'[i] = log[i]
    PROVE  Dispatcher'
<1>1. UNCHANGED InHand /\ \A t \in Tasks : NextSub(t)' = NextSub(t)
  BY DEF InHand, NextSub
<1>2. Dispatching'
  BY <1>1 DEF Dispatcher, Dispatching
<1>3. ASSUME NEW t \in Tasks, job[t] # None PROVE Taken \in 1..Taken
  <2>1. Behind # {} /\ Taken \in Nat
    BY <1>3 DEF Dispatcher, Dispatching, Reader, Reading
  <2> QED
    BY <2>1 DEF Behind
<1>4. \A t \in Tasks : job[t] # None => log'[Taken] = log[Taken]
  BY <1>3
<1>5. InLogOrder'
  BY <1>4 DEF Dispatcher, InLogOrder
<1> QED
  BY <1>2, <1>5 DEF Dispatcher

\* Where the order is kept, a task that may take an event finds no other at a
\* dispatcher.
LEMMA NobodyElse ==
    ASSUME OneAtWork, transport \in {"memory", "redis"}, suspends \in BOOLEAN,
           NEW t \in Tasks, MayRun(t), transport = "redis" => t = "bus",
           transport = "redis" \/ ~suspends, NEW u \in Tasks, u # t
    PROVE  job[u] = None
<1>1. CASE transport = "redis"
  BY <1>1 DEF OneAtWork, Tasks
<1>2. CASE ~suspends
  BY <1>2 DEF MayRun, Busy, Waits
<1> QED
  BY <1>1, <1>2

\* An event that is taken is behind now, and no subscription has had it.
LEMMA TakeKeepsDispatcher ==
    ASSUME Reader, Dispatcher, OneAtWork,
           transport \in {"memory", "redis"}, suspends \in BOOLEAN,
           NEW t \in Tasks, MayRun(t), transport = "redis" => t = "bus",
           job[t] = None, NEW e, Begin(t, e),
           e \in Event \ Behind, e = log[Taken'], Taken' = Taken + 1,
           Behind' = Behind \cup {e},
           UNCHANGED <<log, seen, skipped, transport, suspends>>
    PROVE  Dispatcher'
<1> DEFINE r == [event |-> e, left |-> Subscribers, inside |-> FALSE]
<1>1. job' = [job EXCEPT ![t] = r]
  BY DEF Begin
<1>2. r \in Jobs
  BY BusAssumption DEF Jobs
<1>3. job' \in [Tasks -> Jobs \cup {None}]
  BY <1>1, <1>2 DEF Dispatcher
<1>4. /\ job'[t] = r /\ r # None /\ r.event = e
      /\ \A u \in Tasks : u # t => job'[u] = job[u]
  BY <1>1, <1>2, NoneIsNothing DEF Dispatcher
<1>5. NextSub(t)' = 1 /\ \A u \in Tasks : u # t => NextSub(u)' = NextSub(u)
  <2>1. NextSub(t)' = Subscribers - r.left + 1
    BY <1>4 DEF NextSub
  <2> QED
    BY <2>1, <1>4, BusAssumption DEF NextSub
<1> HIDE DEF r
<1>6. InHand' = InHand \cup {e}
  <2>1. \A u \in Tasks : job'[u] # None <=> (job[u] # None \/ u = t)
    BY <1>4
  <2> QED
    BY <2>1, <1>4 DEF InHand
<1>7. \A u \in Tasks : job[u] # None => job[u].event \in Behind
  BY DEF Dispatcher, Dispatching
<1>8. \A s \in Subs : e \notin ToSet(seen[s]) /\ ~ (s < 1)
  BY DEF Dispatcher, Dispatching, Subs
<1>9. ASSUME NEW u \in Tasks, job'[u] # None
      PROVE  /\ job'[u].event \in Behind'
             /\ \A w \in Tasks \ {u} : job'[w] # None => job'[w].event # job'[u].event
             /\ \A s \in Subs : job'[u].event \in ToSet(seen[s]) <=> s < NextSub(u)'
  <2>1. CASE u = t
    BY <2>1, <1>4, <1>5, <1>7, <1>8
  <2>2. CASE u # t
    <3>1. job'[u] = job[u] /\ job[u] # None /\ job[u].event # e
      BY <2>2, <1>4, <1>7, <1>9
    <3>2. \A w \in Tasks \ {u} : job'[w] # None => job'[w].event # job[u].event
      <4>1. \A w \in Tasks \ {u} : job[w] # None => job[w].event # job[u].event
        BY <3>1 DEF Dispatcher, Dispatching
      <4> QED
        BY <4>1, <3>1, <1>4
    <3>3. \A s \in Subs : job[u].event \in ToSet(seen[s]) <=> s < NextSub(u)
      BY <3>1 DEF Dispatcher, Dispatching
    <3> QED
      BY <3>1, <3>2, <3>3, <2>2, <1>5, <1>7
  <2> QED
    BY <2>1, <2>2
<1>10. Dispatching'
  BY <1>6, <1>9 DEF Dispatcher, Dispatching
<1>11. ASSUME transport = "redis" \/ ~suspends
       PROVE  /\ \A u \in Tasks : job'[u] # None => job'[u].event = log[Taken']
              /\ \A s \in Subs : \A i, j \in DOMAIN seen[s] : \A p, q \in 1..Taken' :
                    i < j /\ log[p] = seen[s][i] /\ log[q] = seen[s][j] => p < q
  <2>1. \A u \in Tasks : u # t => job[u] = None
    BY <1>11, NobodyElse
  <2>2. ASSUME NEW s \in Subs, NEW i \in DOMAIN seen[s], NEW p \in 1..Taken',
               log[p] = seen[s][i]
        PROVE  p \in 1..Taken
    <3>1. seen[s][i] # log[Taken']
      BY <1>8 DEF ToSet
    <3> QED
      BY <3>1, <2>2 DEF Reader, Reading
  <2>3. \A u \in Tasks : job'[u] # None => job'[u].event = log[Taken']
    BY <2>1, <1>4
  <2> QED
    BY <2>2, <2>3, <1>11 DEF Dispatcher, InLogOrder
<1>12. InLogOrder'
  BY <1>11 DEF InLogOrder
<1> QED
  BY <1>3, <1>10, <1>12 DEF Dispatcher

\* The next subscription is called with the event in hand, and no other is.
LEMMA CallKeepsDispatcher ==
    ASSUME Reader, Dispatcher, NEW t \in Tasks, Call(t)
    PROVE  Dispatcher'
<1> DEFINE e == job[t].event
           k == NextSub(t)
           r == [job[t] EXCEPT !.left = @ - 1, !.inside = TRUE]
<1>1. /\ job[t] # None /\ job[t].left > 0
      /\ seen' = [seen EXCEPT ![k] = Append(@, e)]
      /\ job' = [job EXCEPT ![t].left = @ - 1, ![t].inside = TRUE]
      /\ UNCHANGED <<log, queue, fetched, skipped, transport, suspends>>
  BY DEF Call, streamVars, modeVars
<1>2. job[t] \in Jobs
  BY <1>1 DEF Dispatcher
<1>3. e \in Event /\ job[t].left \in 1..Subscribers /\ Subscribers \in Nat
  BY <1>1, <1>2, BusAssumption DEF Jobs
<1>4. k \in Subs
  BY <1>3 DEF NextSub, Subs
<1>5. r \in Jobs /\ r.event = e /\ r.left = job[t].left - 1 /\ r # None
  <2>1. job[t].left - 1 \in 0..Subscribers
    BY <1>3
  <2> QED
    BY <1>2, <2>1, NoneIsNothing DEF Jobs
<1>6. job' = [job EXCEPT ![t] = r]
  BY <1>1 DEF Dispatcher
<1>7. job' \in [Tasks -> Jobs \cup {None}]
  BY <1>5, <1>6 DEF Dispatcher
<1>8. /\ job'[t] = r
      /\ \A u \in Tasks : u # t => job'[u] = job[u]
  BY <1>6 DEF Dispatcher
<1>9. NextSub(t)' = k + 1 /\ \A u \in Tasks : u # t => NextSub(u)' = NextSub(u)
  <2>1. NextSub(t)' = Subscribers - r.left + 1
    BY <1>8 DEF NextSub
  <2>2. k = Subscribers - job[t].left + 1
    BY DEF NextSub
  <2> QED
    BY <2>1, <2>2, <1>3, <1>5, <1>8 DEF NextSub
<1> HIDE DEF r
<1>10. InHand' = InHand
  <2>1. \A u \in Tasks : job'[u] # None <=> job[u] # None
    BY <1>1, <1>5, <1>8
  <2>2. \A u \in Tasks : job'[u] # None => job'[u].event = job[u].event
    BY <1>5, <1>8
  <2> QED
    BY <2>1, <2>2 DEF InHand
<1>11. Behind' = Behind /\ Taken' = Taken
  BY <1>1 DEF Behind, Taken
<1>12. e \in Behind /\ \A s \in Subs : e \in ToSet(seen[s]) <=> s < k
  BY <1>1 DEF Dispatcher, Dispatching
<1>13. e \notin ToSet(seen[k]) /\ k \in Nat
  BY <1>4, <1>12 DEF Subs
<1>14. /\ seen[k] \in Seq(Event) /\ IsInjective(seen[k])
  BY <1>4 DEF Dispatcher, Dispatching
<1>15. /\ seen'[k] = Append(seen[k], e)
       /\ \A s \in Subs : s # k => seen'[s] = seen[s]
  BY <1>1, <1>4 DEF Dispatcher
<1> HIDE DEF k, e
<1>16. /\ seen'[k] \in Seq(Event) /\ IsInjective(seen'[k])
       /\ ToSet(seen'[k]) = ToSet(seen[k]) \cup {e}
  BY <1>3, <1>13, <1>14, <1>15, Appended
<1>17. seen' \in [Subs -> Seq(Event)]
  <2>1. seen' = [seen EXCEPT ![k] = Append(seen[k], e)]
    BY <1>1 DEF k, e
  <2> QED
    BY <2>1, <1>15, <1>16 DEF Dispatcher
<1>18. ASSUME NEW u \in Tasks, job'[u] # None
       PROVE  /\ job'[u].event \in Behind
              /\ \A w \in Tasks \ {u} : job'[w] # None => job'[w].event # job'[u].event
              /\ \A s \in Subs : job'[u].event \in ToSet(seen'[s]) <=> s < NextSub(u)'
  <2>1. \A w \in Tasks : job'[w] # None => job[w] # None /\ job'[w].event = job[w].event
    BY <1>1, <1>5, <1>8 DEF e
  <2>2. /\ job'[u].event \in Behind
        /\ \A w \in Tasks \ {u} : job'[w] # None => job'[w].event # job'[u].event
    BY <2>1, <1>18 DEF Dispatcher, Dispatching
  <2>3. CASE u = t
    <3>1. job'[u].event = e
      BY <2>3, <1>5, <1>8
    <3>2. \A s \in Subs : e \in ToSet(seen'[s]) <=> s < k + 1
      <4>1. \A s \in Subs : s \in Nat /\ (s < k + 1 <=> s < k \/ s = k)
        BY <1>13 DEF Subs
      <4>2. \A s \in Subs : s # k => (e \in ToSet(seen'[s]) <=> s < k)
        BY <1>12, <1>15
      <4> QED
        BY <4>1, <4>2, <1>16
    <3> QED
      BY <2>2, <2>3, <3>1, <3>2, <1>9
  <2>4. CASE u # t
    <3>1. job'[u].event # e
      BY <2>1, <2>4, <1>1, <1>18 DEF Dispatcher, Dispatching, e
    <3>2. \A s \in Subs : job[u].event \in ToSet(seen[s]) <=> s < NextSub(u)
      BY <2>1, <1>18 DEF Dispatcher, Dispatching
    <3> QED
      BY <2>1, <2>2, <2>4, <3>1, <3>2, <1>9, <1>15, <1>16, <1>18
  <2> QED
    BY <2>3, <2>4
<1>19. ASSUME NEW s \in Subs
       PROVE  /\ IsInjective(seen'[s])
              /\ ToSet(seen'[s]) \subseteq Behind
              /\ Behind \subseteq ToSet(seen'[s]) \cup InHand \cup skipped
  <2>1. /\ IsInjective(seen[s]) /\ ToSet(seen[s]) \subseteq Behind
        /\ Behind \subseteq ToSet(seen[s]) \cup InHand \cup skipped
    BY DEF Dispatcher, Dispatching
  <2>2. CASE s = k
    BY <2>1, <2>2, <1>12, <1>16
  <2>3. CASE s # k
    BY <2>1, <2>3, <1>15
  <2> QED
    BY <2>2, <2>3
<1>20. Dispatching'
  BY <1>1, <1>10, <1>11, <1>18, <1>19 DEF Dispatching
<1>21. ASSUME transport = "redis" \/ ~suspends,
              NEW s \in Subs, NEW i \in DOMAIN seen'[s], NEW j \in DOMAIN seen'[s],
              NEW p \in 1..Taken, NEW q \in 1..Taken,
              i < j, log[p] = seen'[s][i], log[q] = seen'[s][j]
       PROVE  p < q
  <2>1. CASE s # k \/ (s = k /\ j \in DOMAIN seen[k])
    <3>1. i \in DOMAIN seen[s] /\ j \in DOMAIN seen[s]
      BY <2>1, <1>14, <1>15, <1>21
    <3>2. seen'[s][i] = seen[s][i] /\ seen'[s][j] = seen[s][j]
      <4>1. \A m \in DOMAIN seen[k] : seen'[k][m] = seen[k][m]
        BY <1>3, <1>14, <1>15
      <4> QED
        BY <4>1, <3>1, <1>15
    <3> QED
      BY <3>1, <3>2, <1>21 DEF Dispatcher, InLogOrder
  <2>2. CASE s = k /\ j \notin DOMAIN seen[k]
    <3>1. j = Len(seen[k]) + 1 /\ i \in DOMAIN seen[k]
      BY <2>2, <1>3, <1>14, <1>15, <1>21
    <3>2. seen'[s][j] = e /\ seen'[s][i] = seen[k][i]
      BY <2>2, <3>1, <1>3, <1>14, <1>15
    <3>3. seen[k][i] # e
      BY <3>1, <1>13 DEF ToSet
    <3>4. e = log[Taken]
      BY <1>1, <1>21 DEF Dispatcher, InLogOrder, e
    <3>5. p # Taken
      BY <3>2, <3>3, <3>4, <1>21
    <3>6. Taken \in 1..Taken /\ Taken \in DOMAIN log /\ q \in DOMAIN log
      BY Places, <1>21 DEF Reader, Reading, Taken
    <3>7. q = Taken
      BY <3>2, <3>4, <3>6, <1>21 DEF Reader, IsInjective
    <3> QED
      BY <3>5, <3>7, <1>21 DEF Reader, Reading
  <2> QED
    BY <2>1, <2>2
<1>22. \A u \in Tasks : job'[u] # None => job[u] # None /\ job'[u].event = job[u].event
  BY <1>1, <1>5, <1>8 DEF e
<1>23. InLogOrder'
  BY <1>1, <1>11, <1>21, <1>22 DEF Dispatcher, InLogOrder
<1> QED
  BY <1>1, <1>7, <1>17, <1>20, <1>23 DEF Dispatcher

\* The last handler that returns leaves an event that everyone has had.
LEMMA ReturnKeepsDispatcher ==
    ASSUME Reader, Dispatcher, NEW t \in Tasks, Return(t)
    PROVE  Dispatcher'
<1> DEFINE e == job[t].event
           r == [job[t] EXCEPT !.inside = FALSE]
<1>1. /\ job[t] # None
      /\ job' = [job EXCEPT ![t] = IF job[t].left = 0 THEN None ELSE r]
      /\ UNCHANGED <<log, queue, fetched, seen, skipped, transport, suspends>>
  BY DEF Return, streamVars, modeVars
<1>2. job[t] \in Jobs
  BY <1>1 DEF Dispatcher
<1>3. r \in Jobs /\ r.event = e /\ r.left = job[t].left
  BY <1>2 DEF Jobs
<1>4. job' \in [Tasks -> Jobs \cup {None}]
  BY <1>1, <1>3 DEF Dispatcher
<1>5. \A u \in Tasks : job'[u] # None =>
         /\ job[u] # None /\ job'[u].event = job[u].event
         /\ job'[u].left = job[u].left
  BY <1>1, <1>3 DEF Dispatcher
<1>6. \A u \in Tasks : u # t => job'[u] = job[u]
  BY <1>1 DEF Dispatcher
<1>7. \A u \in Tasks : job'[u] # None => NextSub(u)' = NextSub(u)
  BY <1>5 DEF NextSub
<1>8. Behind' = Behind /\ Taken' = Taken
  BY <1>1 DEF Behind, Taken
<1>9. \A s \in Subs : Behind \subseteq ToSet(seen[s]) \cup InHand' \cup skipped
  <2>1. CASE job[t].left = 0
    <3>1. NextSub(t) = Subscribers + 1
      BY <2>1, BusAssumption DEF NextSub
    <3>2. \A s \in Subs : e \in ToSet(seen[s])
      BY <3>1, <1>1, BusAssumption DEF Dispatcher, Dispatching, Subs
    <3>3. InHand \subseteq InHand' \cup {e}
      BY <1>6 DEF InHand
    <3> QED
      BY <3>2, <3>3 DEF Dispatcher, Dispatching
  <2>2. CASE job[t].left # 0
    <3>1. job'[t] = r /\ r # None
      BY <2>2, <1>1, <1>3, NoneIsNothing DEF Dispatcher
    <3>2. InHand \subseteq InHand'
      BY <3>1, <1>3, <1>6 DEF InHand
    <3> QED
      BY <3>2 DEF Dispatcher, Dispatching
  <2> QED
    BY <2>1, <2>2
<1>10. Dispatching'
  BY <1>1, <1>5, <1>7, <1>8, <1>9 DEF Dispatcher, Dispatching
<1>11. InLogOrder'
  BY <1>1, <1>5, <1>8 DEF Dispatcher, InLogOrder
<1> QED
  BY <1>1, <1>4, <1>10, <1>11 DEF Dispatcher

\* What the cancelled tasks had in hand or had fetched is given up.
LEMMA CancelKeepsDispatcher ==
    ASSUME Reader, Dispatcher, NEW more \in SUBSET Event,
           job' = [t \in Tasks |-> None], fetched' = <<>>,
           skipped' = skipped \cup AtHand \cup more,
           UNCHANGED <<log, queue, seen, transport, suspends>>
    PROVE  Dispatcher'
<1>1. \A t \in Tasks : job'[t] = None
  OBVIOUS
<1>2. InHand' = {}
  BY <1>1 DEF InHand
<1>3. AtHand = ToSet(fetched) \cup InHand
  BY DEF AtHand, InHand
<1>4. Behind' = Behind \cup ToSet(fetched)
  BY DropKeepsReader
<1>5. AtHand \subseteq Event
  <2>1. InHand \subseteq Event
    BY DEF InHand, Dispatcher, Jobs
  <2> QED
    BY <2>1, <1>3, Elements DEF Reader
<1>6. Dispatching'
  BY <1>1, <1>2, <1>3, <1>4 DEF Dispatcher, Dispatching
<1>7. InLogOrder'
  <2>1. ASSUME NEW s \in Subs, NEW i \in DOMAIN seen[s], NEW p \in 1..Taken',
               log[p] = seen[s][i]
        PROVE  p \in 1..Taken
    <3>1. seen[s][i] \in Behind
      BY DEF Dispatcher, Dispatching, ToSet
    <3>2. PICK m \in 1..Taken : log[m] = seen[s][i]
      BY <3>1 DEF Behind
    <3>3. Reader'
      BY DropKeepsReader
    <3>4. p \in DOMAIN log
      <4>1. Taken' \in Nat /\ Taken' <= Len(log)
        BY <3>3 DEF Reader, Reading, Taken
      <4> QED
        BY <4>1, <2>1, Places
    <3>5. m \in DOMAIN log
      <4>1. Taken \in Nat /\ Taken <= Len(log)
        BY DEF Reader, Reading, Taken
      <4> QED
        BY <4>1, Places
    <3> QED
      BY <3>2, <3>4, <3>5, <2>1 DEF Reader, IsInjective
  <2> QED
    BY <2>1, <1>1 DEF Dispatcher, InLogOrder
<1> QED
  BY <1>1, <1>5, <1>6, <1>7 DEF Dispatcher

---------------------------------------------------------------------------
(* The bus *)

ModeTypes ==
    /\ transport \in {"memory", "redis"}
    /\ {suspends, started, grouped, emptyRead, crashed} \subseteq BOOLEAN

Ids == published_id \in 0..Len(log) /\ dispatched_id \in 0..Len(log)

\* The parts of the invariant, each with the types it depends on.
LEMMA PartsOfSound ==
    Sound <=> /\ Recorder /\ Publisher /\ Reader /\ Dispatcher
              /\ ModeTypes /\ Ids /\ Draining /\ OneAtWork
<1>1. ASSUME Sound
      PROVE  /\ Recorder /\ Publisher /\ Reader /\ Dispatcher
             /\ ModeTypes /\ Ids /\ Draining /\ OneAtWork
  <2>1. /\ log \in Seq(Event) /\ IsInjective(log)
        /\ queue \in Seq(Event) /\ fetched \in Seq(Event)
        /\ buffer \in Seq(Event) /\ IsInjective(buffer)
    BY <1>1 DEF Sound, TypeOK
  <2>2. Reader
    BY <1>1, <2>1 DEF Sound, Reader
  <2>3. Publisher
    BY <1>1, <2>1 DEF Sound, TypeOK, Shapes, Publisher
  <2>4. Recorder
    <3>1. failures \in Nat /\ issued \in 0..MaxEvents
      BY <1>1, BusAssumption DEF Sound, TypeOK
    <3>2. stored \cup lost \cup vanished \subseteq Event
      BY <1>1 DEF Sound, TypeOK
    <3>3. writing \in [Tasks -> Seq(Event)] /\ Accounted
      BY <1>1 DEF Sound, Shapes
    <3> QED
      BY <2>1, <3>1, <3>2, <3>3 DEF Recorder, RecorderTypes
  <2>5. Dispatcher
    <3>1. skipped \subseteq Event
      BY <1>1 DEF Sound, TypeOK
    <3> QED
      BY <1>1, <3>1 DEF Sound, Shapes, Dispatcher
  <2>6. ModeTypes /\ Ids
    BY <1>1 DEF Sound, TypeOK, ModeTypes, Ids
  <2> QED
    BY <1>1, <2>2, <2>3, <2>4, <2>5, <2>6 DEF Sound
<1>2. ASSUME Recorder, Publisher, Reader, Dispatcher, ModeTypes, Ids, Draining, OneAtWork
      PROVE  Sound
  <2>1. Shapes
    BY <1>2 DEF Recorder, RecorderTypes, Publisher, Dispatcher, Shapes
  <2>2. \A q \in {log, queue, fetched, buffer} : q \in Seq(Event) /\ IsInjective(q)
    BY <1>2, ThreeParts DEF Recorder, RecorderTypes, Reader
  <2>3. failures \in 0..MaxEvents
    BY <1>2, FailuresBounded
  <2>4. draining \subseteq Event
    BY <1>2, Elements DEF Draining, Reader
  <2>5. draining \cup stored \cup lost \cup skipped \cup vanished \subseteq Event
    BY <1>2, <2>4 DEF Recorder, RecorderTypes, Dispatcher
  <2>6. /\ issued \in 0..MaxEvents
        /\ \A t \in Tasks :
              /\ publishing[t] = None \/ publishing[t] \in Full
              /\ job[t] = None \/ job[t] \in Jobs
              /\ writing[t] \in Seq(Event)
    BY <1>2, <2>1 DEF Recorder, RecorderTypes, Shapes
  <2>7. TypeOK
    BY <1>2, <2>2, <2>3, <2>5, <2>6 DEF TypeOK, ModeTypes, Ids
  <2> QED
    BY <1>2, <2>1, <2>7 DEF Sound, Recorder, Publisher, Reader, Dispatcher
<1> QED
  BY <1>1, <1>2

LEMMA InitSound == Init => Sound
<1> SUFFICES ASSUME Init PROVE Sound
  OBVIOUS
<1>1. /\ <<>> \in Seq(Event) /\ ToSet(<<>>) = {} /\ IsInjective(<<>>) /\ Len(<<>>) = 0
  BY Emptied
<1>2. /\ \A t \in Tasks : publishing[t] = None /\ job[t] = None /\ writing[t] = <<>>
      /\ \A s \in Subs : seen[s] = <<>>
  BY DEF Init
<1>3. Batches = {} /\ 1..0 = {} /\ Taken = 0
  <2>1. Batches = {}
    BY <1>1, <1>2 DEF Batches
  <2>2. log = <<>> /\ fetched = <<>> /\ queue = <<>>
    BY DEF Init
  <2>3. Taken = 0
    <3>1. Len(log) = 0 /\ Len(fetched) = 0 /\ Len(queue) = 0
      BY <2>2, <1>1
    <3>2. Taken = 0 - 0 - 0
      BY <3>1 DEF Taken
    <3> QED
      BY <3>2
  <2> QED
    BY <2>1, <2>3
<1>4. Behind = {}
  BY <1>3 DEF Behind
<1>5. Recorder
  <2>1. RecorderTypes
    BY <1>1, BusAssumption DEF Init, RecorderTypes
  <2>2. Cardinality({}) = 0
    BY FS_EmptySet
  <2>3. BatchesApart
    BY <1>1, <1>2 DEF BatchesApart
  <2>4. Accounted
    BY <1>1, <1>3, <2>2, <2>3 DEF Init, Accounted
  <2> QED
    BY <2>1, <2>4 DEF Recorder
<1>6. Publisher
  BY <1>1, <1>2, BusAssumption DEF Init, Publisher, Publications
<1>7. Reader
  BY <1>1, <1>3 DEF Init, Reader, Reading
<1>8. Dispatcher
  <2>1. InHand = {}
    BY <1>2 DEF InHand
  <2>2. Dispatching
    BY <2>1, <1>1, <1>2, <1>4 DEF Dispatching
  <2>3. \A s \in Subs : DOMAIN seen[s] = {}
    BY <1>2
  <2>4. InLogOrder
    BY <2>3, <1>2 DEF InLogOrder
  <2> QED
    BY <2>2, <2>4, <1>1 DEF Init, Dispatcher
<1>9. ModeTypes /\ Ids /\ Draining
  <2>1. log = <<>> /\ published_id = 0 /\ dispatched_id = 0 /\ draining = {}
    BY DEF Init
  <2>2. Ids
    BY <2>1, <1>1 DEF Ids
  <2>3. ModeTypes
    BY DEF Init, ModeTypes
  <2> QED
    BY <2>1, <2>2, <2>3 DEF Draining
<1>10. OneAtWork
  <2>1. \A t \in Tasks : ~Busy(t)
    BY <1>2 DEF Init, Busy
  <2> QED
    BY <2>1, <1>2 DEF Init, OneAtWork, Tasks
<1> QED
  BY <1>5, <1>6, <1>7, <1>8, <1>9, <1>10, PartsOfSound

\* Reading and dispatching, of every step.
LEMMA DeliveryKept ==
    ASSUME Publisher, Reader, Dispatcher, ModeTypes, OneAtWork, [Next]_vars
    PROVE  Reader' /\ Dispatcher'
<1>1. ASSUME UNCHANGED <<log, queue, fetched, job, seen, skipped, transport, suspends>>
      PROVE  Reader' /\ Dispatcher'
  <2>1. Reader' /\ Taken' = Taken /\ Behind' = Behind
    BY <1>1 DEF Reader, Reading, Taken, Behind
  <2> QED
    BY <1>1, <2>1, StillDispatching
<1>2. CASE UNCHANGED vars
  BY <1>1, <1>2 DEF vars, streamVars, dispatchVars, modeVars
<1>3. ASSUME NEW t \in Tasks, Publish(t) \/ Store(t) \/ Sent(t)
      PROVE  Reader' /\ Dispatcher'
  BY <1>1, <1>3 DEF Publish, Store, Sent, streamVars, dispatchVars, modeVars
<1>4. CASE FlushIfDue \/ CaughtUp \/ Drain \/ DrainReturns \/ DrainTimesOut \/ Start
  BY <1>1, <1>4 DEF FlushIfDue, CaughtUp, Drain, DrainReturns, DrainTimesOut, Start,
                    streamVars, dispatchVars, modeVars
<1>5. ASSUME NEW t \in Tasks, Send(t) PROVE Reader' /\ Dispatcher'
  <2>1. /\ publishing[t].event \in Event \ ToSet(log)
        /\ log' = Append(log, publishing[t].event)
        /\ queue' = Append(queue, publishing[t].event)
    BY <1>5, SendAppends
  <2>2. UNCHANGED <<fetched, job, seen, skipped, transport, suspends>>
    BY <1>5 DEF Send, dispatchVars, modeVars
  <2>3. Reader' /\ Taken' = Taken /\ Behind' = Behind
    BY <2>1, <2>2, SendKeepsReader
  <2>4. \A i \in 1..Taken : log'[i] = log[i]
    <3>1. Taken <= Len(log) /\ Taken \in Nat
      BY DEF Reader, Reading, Taken
    <3> QED
      BY <2>1, <3>1, Places DEF Reader
  <2> QED
    BY <2>2, <2>3, <2>4, StillDispatching
<1>6. CASE Read
  <2>1. PICK n \in 0..Len(queue) :
           fetched' = SubSeq(queue, 1, n) /\ queue' = SubSeq(queue, n + 1, Len(queue))
    <3> DEFINE n == IF Len(queue) < Batch THEN Len(queue) ELSE Batch
    <3>1. n \in 0..Len(queue)
      BY BusAssumption DEF Reader
    <3> QED
      BY <1>6, <3>1 DEF Read
  <2>2. fetched = <<>> /\ UNCHANGED <<log, job, seen, skipped, transport, suspends>>
    BY <1>6 DEF Read, dispatchVars, modeVars
  <2>3. Reader' /\ Taken' = Taken /\ Behind' = Behind
    BY <2>1, <2>2, ReadKeepsReader
  <2> QED
    BY <2>2, <2>3, StillDispatching
<1>7. ASSUME NEW t \in Tasks, Take(t) PROVE Reader' /\ Dispatcher'
  <2>1. /\ transport = "memory" /\ MayRun(t) /\ job[t] = None /\ queue # <<>>
        /\ Begin(t, queue[1]) /\ queue' = RemoveAt(queue, 1)
        /\ UNCHANGED <<log, fetched, seen, skipped, transport, suspends>>
    BY <1>7 DEF Take, Foremost, modeVars
  <2>2. fetched = <<>>
    BY <2>1 DEF OneAtWork
  <2>3. /\ Reader' /\ Taken' = Taken + 1 /\ Behind' = Behind \cup {queue[1]}
        /\ queue[1] = log[Taken'] /\ queue[1] \in Event \ Behind
    BY <2>1, <2>2, TakeKeepsReader
  <2>4. transport \in {"memory", "redis"} /\ suspends \in BOOLEAN
    BY DEF ModeTypes
  <2> QED
    BY <2>1, <2>3, <2>4, TakeKeepsDispatcher
<1>8. CASE TakeFetched
  <2>1. /\ MayRun("bus") /\ job["bus"] = None /\ fetched # <<>>
        /\ Begin("bus", fetched[1]) /\ fetched' = RemoveAt(fetched, 1)
        /\ UNCHANGED <<log, queue, seen, skipped, transport, suspends>>
    BY <1>8 DEF TakeFetched, Foremost, modeVars
  <2>2. /\ Reader' /\ Taken' = Taken + 1 /\ Behind' = Behind \cup {fetched[1]}
        /\ fetched[1] = log[Taken'] /\ fetched[1] \in Event \ Behind
    BY <2>1, TakeKeepsReader
  <2>3. transport \in {"memory", "redis"} /\ suspends \in BOOLEAN /\ "bus" \in Tasks
    BY DEF ModeTypes, Tasks
  <2> QED
    BY <2>1, <2>2, <2>3, TakeKeepsDispatcher
<1>9. ASSUME NEW t \in Tasks, Call(t) \/ Return(t) PROVE Reader' /\ Dispatcher'
  <2>1. UNCHANGED <<log, queue, fetched>>
    BY <1>9 DEF Call, Return, streamVars
  <2>2. Reader'
    BY <2>1 DEF Reader, Reading, Taken
  <2> QED
    BY <2>2, <1>9, CallKeepsDispatcher, ReturnKeepsDispatcher
<1>10. CASE Stop \/ Crash
  <2>1. /\ job' = [t \in Tasks |-> None] /\ fetched' = <<>>
        /\ UNCHANGED <<log, queue, seen, transport, suspends>>
    BY <1>10 DEF Stop, Crash, Cancelled
  <2>2. PICK more \in SUBSET Event : skipped' = skipped \cup AtHand \cup more
    <3>1. ToSet(queue) \subseteq Event
      BY Elements DEF Reader
    <3>2. CASE Stop
      <4>1. skipped' = skipped \cup AtHand
                         \cup IF transport = "memory" THEN ToSet(queue) ELSE {}
        BY <3>2 DEF Stop
      <4> QED
        BY <3>1, <4>1
    <3>3. CASE Crash
      <4>1. skipped' = skipped \cup AtHand \cup {}
        BY <3>3 DEF Crash
      <4> QED
        BY <4>1
    <3> QED
      BY <3>2, <3>3, <1>10
  <2>3. Reader'
    BY <2>1, DropKeepsReader
  <2> QED
    BY <2>1, <2>2, <2>3, CancelKeepsDispatcher
<1> QED
  BY <1>2, <1>3, <1>4, <1>5, <1>6, <1>7, <1>8, <1>9, <1>10 DEF Next

\* The ids are of places in the log.
LEMMA IdsKept ==
    ASSUME Publisher, Reader, Dispatcher, Ids, [Next]_vars
    PROVE  Ids'
<1>1. ASSUME UNCHANGED <<log, published_id, dispatched_id>> PROVE Ids'
  BY <1>1 DEF Ids
<1>2. CASE UNCHANGED vars
  BY <1>1, <1>2 DEF vars, streamVars, idVars
<1>3. ASSUME NEW t \in Tasks, Publish(t) \/ Store(t) \/ Take(t) \/ Call(t) PROVE Ids'
  BY <1>1, <1>3 DEF Publish, Store, Take, Call, streamVars, idVars
<1>4. CASE FlushIfDue \/ Read \/ TakeFetched \/ Drain \/ DrainReturns \/ DrainTimesOut
           \/ Start \/ Stop
  BY <1>1, <1>4 DEF FlushIfDue, Read, TakeFetched, Drain, DrainReturns, DrainTimesOut,
                    Start, Stop, streamVars, idVars
<1>5. ASSUME NEW t \in Tasks, Send(t) PROVE Ids'
  <2>1. /\ publishing[t].event \in Event
        /\ log' = Append(log, publishing[t].event)
        /\ UNCHANGED <<published_id, dispatched_id>>
    BY <1>5, SendAppends DEF Send, idVars
  <2>2. Len(log') = Len(log) + 1 /\ Len(log) \in Nat
    BY <2>1 DEF Reader
  <2> QED
    BY <2>1, <2>2 DEF Ids
<1>6. ASSUME NEW t \in Tasks, Sent(t) PROVE Ids'
  <2>1. publishing[t].event \in ToSet(log)
    BY <1>6 DEF Sent, Publisher, Publications
  <2>2. PlaceOf(publishing[t].event) \in 1..Len(log)
    BY <2>1, Places
  <2>3. published_id' \in 0..Len(log)
    BY <2>2, <1>6 DEF Sent, IdOf
  <2> QED
    BY <2>3, <1>6 DEF Sent, Ids, streamVars
<1>7. ASSUME NEW t \in Tasks, Return(t) PROVE Ids'
  <2>1. job[t].event \in ToSet(log)
    BY <1>7, ThreeParts DEF Return, Dispatcher, Dispatching
  <2>2. PlaceOf(job[t].event) \in 1..Len(log)
    BY <2>1, Places
  <2>3. dispatched_id' \in 0..Len(log)
    BY <2>2, <1>7 DEF Return, Ids
  <2> QED
    BY <2>3, <1>7 DEF Return, Ids, streamVars
<1>8. CASE CaughtUp
  BY <1>8 DEF CaughtUp, Ids
<1>9. CASE Crash
  <2>1. published_id' = 0 /\ dispatched_id' = 0 /\ log' = log /\ Len(log) \in Nat
    BY <1>9 DEF Crash, Reader
  <2> QED
    BY <2>1 DEF Ids
<1> QED
  BY <1>2, <1>3, <1>4, <1>5, <1>6, <1>7, <1>8, <1>9 DEF Next

\* What a drain waits for is in the log, and not given up while it waits.
LEMMA DrainingKept ==
    ASSUME Publisher, Draining, [Next]_vars
    PROVE  Draining'
<1>1. ASSUME UNCHANGED <<log, draining, skipped>> PROVE Draining'
  BY <1>1 DEF Draining
<1>2. CASE UNCHANGED vars
  BY <1>1, <1>2 DEF vars, streamVars, dispatchVars
<1>3. ASSUME NEW t \in Tasks,
             Publish(t) \/ Store(t) \/ Sent(t) \/ Take(t) \/ Call(t) \/ Return(t)
      PROVE  Draining'
  BY <1>1, <1>3 DEF Publish, Store, Sent, Take, Call, Return, streamVars, dispatchVars
<1>4. CASE FlushIfDue \/ Read \/ CaughtUp \/ TakeFetched \/ Start
  BY <1>1, <1>4 DEF FlushIfDue, Read, CaughtUp, TakeFetched, Start, streamVars,
                    dispatchVars
<1>5. ASSUME NEW t \in Tasks, Send(t) PROVE Draining'
  <2>1. publishing[t].event \in Event /\ log' = Append(log, publishing[t].event)
    BY <1>5, SendAppends
  <2>2. ToSet(log') = ToSet(log) \cup {publishing[t].event}
    BY <2>1, Appended DEF Publisher
  <2> QED
    BY <2>2, <1>5 DEF Send, dispatchVars, Draining
<1>6. CASE Drain
  BY <1>6 DEF Drain, Published, Draining, streamVars
<1>7. CASE DrainReturns \/ DrainTimesOut \/ Stop \/ Crash
  BY <1>7 DEF DrainReturns, DrainTimesOut, Stop, Crash, Cancelled, Draining
<1> QED
  BY <1>2, <1>3, <1>4, <1>5, <1>6, <1>7 DEF Next

\* Where nothing suspends, the task that runs is the only one that is busy.
LEMMA OneTaskBusy ==
    ASSUME ~suspends, NEW t \in Tasks, MayRun(t),
           \A u \in Tasks : u # t =>
               /\ publishing'[u] = publishing[u] /\ job'[u] = job[u]
               /\ writing'[u] = writing[u],
           t # "tick" => draining' = draining
    PROVE  \A u, w \in Tasks : Busy(u)' /\ Busy(w)' => u = w
<1>1. ASSUME NEW u \in Tasks, u # t PROVE ~Busy(u)'
  <2>1. ~Busy(u)
    BY <1>1 DEF MayRun, Waits
  <2> QED
    BY <2>1, <1>1 DEF Busy
<1> QED
  BY <1>1

\* Which tasks dispatch, and that they do not overlap where nothing suspends.
LEMMA OneAtWorkKept ==
    ASSUME Recorder, Publisher, Dispatcher, ModeTypes, OneAtWork, [Next]_vars
    PROVE  OneAtWork'
<1> DEFINE Alone == ~suspends => \A u, w \in Tasks : Busy(u) /\ Busy(w) => u = w
           Ones == /\ transport = "memory" => fetched = <<>> /\ ~emptyRead
                   /\ transport = "redis" => suspends /\ job["tick"] = None
                   /\ job["other"] = None
<1>1. OneAtWork <=> Alone /\ Ones
  BY DEF OneAtWork
<1>2. OneAtWork' <=> Alone' /\ Ones'
  BY DEF OneAtWork
<1>3. /\ publishing \in [Tasks -> Full \cup {None}]
      /\ job \in [Tasks -> Jobs \cup {None}]
      /\ writing \in [Tasks -> Seq(Event)]
  BY DEF Publisher, Dispatcher, Recorder, RecorderTypes
<1>4. /\ "tick" \in Tasks /\ "other" \in Tasks /\ "bus" \in Tasks
      /\ \A t \in Tasks : t \in {"tick", "other", "bus"}
  BY DEF Tasks
<1>5. CASE UNCHANGED vars
  BY <1>1, <1>2, <1>5 DEF vars, recorderVars, streamVars, dispatchVars, modeVars, Busy
<1>6. ASSUME NEW t \in Tasks, Publish(t) \/ Store(t) PROVE OneAtWork'
  <2>1. /\ MayRun(t) /\ UNCHANGED <<transport, suspends, fetched, emptyRead, job, draining>>
    BY <1>6 DEF Publish, Store, streamVars, dispatchVars, modeVars
  <2>2. \A u \in Tasks : u # t =>
           publishing'[u] = publishing[u] /\ writing'[u] = writing[u]
    BY <1>3, <1>6 DEF Publish, Store, Flushed
  <2>3. Alone'
    BY <2>1, <2>2, OneTaskBusy
  <2> QED
    BY <2>1, <2>3, <1>1, <1>2
<1>7. ASSUME NEW t \in Tasks, Send(t) \/ Sent(t) PROVE OneAtWork'
  <2>1. /\ MayRun(t)
        /\ UNCHANGED <<transport, suspends, fetched, emptyRead, job, draining, writing>>
    BY <1>7 DEF Send, Sent, streamVars, dispatchVars, modeVars, recorderVars
  <2>2. \A u \in Tasks : u # t => publishing'[u] = publishing[u]
    BY <1>3, <1>7 DEF Send, Sent
  <2>3. Alone'
    BY <2>1, <2>2, OneTaskBusy
  <2> QED
    BY <2>1, <2>3, <1>1, <1>2
<1>8. ASSUME NEW t \in Tasks, Take(t) PROVE OneAtWork'
  <2>1. /\ MayRun(t) /\ transport = "memory" /\ t # "other"
        /\ UNCHANGED <<transport, suspends, fetched, emptyRead, publishing, draining, writing>>
    BY <1>8 DEF Take, modeVars, recorderVars
  <2>2. \A u \in Tasks : u # t => job'[u] = job[u]
    BY <1>3, <1>8 DEF Take, Begin
  <2>3. Alone'
    BY <2>1, <2>2, OneTaskBusy
  <2> QED
    BY <2>1, <2>2, <2>3, <1>1, <1>2, <1>4
<1>9. CASE TakeFetched
  <2>1. /\ MayRun("bus") /\ fetched # <<>>
        /\ UNCHANGED <<transport, suspends, emptyRead, publishing, draining, writing>>
    BY <1>9 DEF TakeFetched, modeVars, recorderVars
  <2>2. \A u \in Tasks : u # "bus" => job'[u] = job[u]
    BY <1>3, <1>4, <1>9 DEF TakeFetched, Begin
  <2>3. Alone'
    BY <2>1, <2>2, <1>4, OneTaskBusy
  <2>4. transport # "memory"
    BY <2>1, <1>1
  <2>5. Ones'
    BY <2>1, <2>2, <2>4, <1>1, <1>4
  <2> QED
    BY <2>3, <2>5, <1>2
<1>10. ASSUME NEW t \in Tasks, Call(t) \/ Return(t) PROVE OneAtWork'
  <2>1. /\ MayRun(t) /\ job[t] # None
        /\ UNCHANGED <<transport, suspends, fetched, emptyRead, publishing, draining, writing>>
    BY <1>10 DEF Call, Return, modeVars, streamVars, recorderVars
  <2>2. \A u \in Tasks : u # t => job'[u] = job[u]
    BY <1>3, <1>10 DEF Call, Return
  <2>3. Alone'
    BY <2>1, <2>2, OneTaskBusy
  <2>4. Ones'
    BY <2>1, <2>2, <1>1, <1>4
  <2> QED
    BY <2>3, <2>4, <1>2
<1>11. CASE FlushIfDue \/ Drain \/ DrainReturns \/ DrainTimesOut
  <2>1. /\ MayRun("tick")
        /\ UNCHANGED <<transport, suspends, fetched, emptyRead, publishing, job>>
    BY <1>11 DEF FlushIfDue, Drain, DrainReturns, DrainTimesOut, modeVars, streamVars,
                 dispatchVars
  <2>2. \A u \in Tasks : u # "tick" => writing'[u] = writing[u]
    BY <1>3, <1>4, <1>11 DEF FlushIfDue, Flushed, Drain, DrainReturns, DrainTimesOut,
                             recorderVars
  <2>3. Alone'
    BY <2>1, <2>2, <1>4, OneTaskBusy
  <2> QED
    BY <2>1, <2>3, <1>1, <1>2
<1>12. CASE Read \/ CaughtUp
  <2>1. UNCHANGED <<transport, suspends, publishing, job, draining, writing>>
    BY <1>12 DEF Read, CaughtUp, modeVars, dispatchVars, recorderVars
  <2>2. Alone'
    BY <2>1, <1>1 DEF Busy
  <2>3. transport # "memory"
    BY <1>12, <1>1 DEF Read, CaughtUp
  <2>4. Ones'
    BY <2>1, <2>3, <1>1
  <2> QED
    BY <2>2, <2>4, <1>2
<1>13. CASE Start
  <2>1. UNCHANGED <<transport, suspends, fetched, emptyRead, publishing, job, draining, writing>>
    BY <1>13 DEF Start, dispatchVars, recorderVars
  <2> QED
    BY <2>1, <1>1, <1>2 DEF Busy
<1>14. CASE Stop \/ Crash
  <2>1. /\ UNCHANGED <<transport, suspends>> /\ fetched' = <<>> /\ ~emptyRead'
        /\ draining' = {}
        /\ publishing' = [t \in Tasks |-> None] /\ job' = [t \in Tasks |-> None]
    BY <1>14 DEF Stop, Crash, Cancelled
  <2>2. \A t \in Tasks : t # "tick" => writing'[t] = <<>>
    BY <1>14 DEF Stop, Crash
  <2>3. \A t \in Tasks : Busy(t)' => t = "tick"
    BY <2>1, <2>2 DEF Busy
  <2>4. Ones'
    BY <2>1, <1>1, <1>4
  <2> QED
    BY <2>3, <2>4, <1>2
<1> QED
  BY <1>5, <1>6, <1>7, <1>8, <1>9, <1>10, <1>11, <1>12, <1>13, <1>14 DEF Next

LEMMA ModesKept ==
    ASSUME ModeTypes, [Next]_vars
    PROVE  ModeTypes'
<1>1. ASSUME NEW t \in Tasks,
             Publish(t) \/ Store(t) \/ Send(t) \/ Sent(t) \/ Take(t) \/ Call(t) \/ Return(t)
      PROVE  ModeTypes'
  BY <1>1 DEF Publish, Store, Send, Sent, Take, Call, Return, ModeTypes, modeVars,
              streamVars
<1>2. CASE FlushIfDue \/ Read \/ CaughtUp \/ TakeFetched \/ Drain \/ DrainReturns
           \/ DrainTimesOut
  <2>1. UNCHANGED <<transport, suspends, started, grouped, crashed>>
    BY <1>2 DEF FlushIfDue, Read, CaughtUp, TakeFetched, Drain, DrainReturns,
                DrainTimesOut, modeVars, streamVars
  <2>2. emptyRead' \in BOOLEAN
    BY <1>2 DEF FlushIfDue, Read, CaughtUp, TakeFetched, Drain, DrainReturns,
                DrainTimesOut, ModeTypes, streamVars
  <2> QED
    BY <2>1, <2>2 DEF ModeTypes
<1>3. CASE Start \/ Stop \/ Crash
  BY <1>3 DEF Start, Stop, Crash, Cancelled, ModeTypes
<1>4. CASE UNCHANGED vars
  BY <1>4 DEF vars, modeVars, streamVars, ModeTypes
<1> QED
  BY <1>1, <1>2, <1>3, <1>4 DEF Next

\* The invariant from which the others follow.
THEOREM AlwaysSound == Spec => []Sound
<1>1. Sound /\ [Next]_vars => Sound'
  <2> SUFFICES ASSUME Sound, [Next]_vars PROVE Sound'
    OBVIOUS
  <2>1. /\ Recorder /\ Publisher /\ Reader /\ Dispatcher
        /\ ModeTypes /\ Ids /\ Draining /\ OneAtWork
    BY PartsOfSound
  <2>2. Recorder' /\ Publisher'
    BY <2>1, RecorderKept, PublisherKept
  <2>3. Reader' /\ Dispatcher'
    BY <2>1, DeliveryKept
  <2>4. Ids' /\ Draining'
    BY <2>1, IdsKept, DrainingKept
  <2>5. OneAtWork' /\ ModeTypes'
    BY <2>1, OneAtWorkKept, ModesKept
  <2>6. (Recorder /\ Publisher /\ Reader /\ Dispatcher
          /\ ModeTypes /\ Ids /\ Draining /\ OneAtWork => Sound)'
    BY PartsOfSound, PTL
  <2> QED
    BY <2>2, <2>3, <2>4, <2>5, <2>6
<1> QED
  BY InitSound, <1>1, PTL DEF Spec

---------------------------------------------------------------------------
(* Theorems *)

\* The tasks, the stream and the recorder keep their types, and no event is
\* twice in the log, in the queue or in the buffer.
THEOREM TypesCorrect == Spec => []TypeOK
<1>1. Sound => TypeOK
  BY DEF Sound
<1> QED
  BY <1>1, AlwaysSound, PTL

\* Subscriptions are called in the order of the log wherever one task
\* dispatches at a time.
THEOREM OrderKept == Spec => []DeliveredInOrder
<1>1. Sound => DeliveredInOrder
  <2> SUFFICES ASSUME Sound, transport = "redis" \/ ~suspends,
                      NEW s \in Subs, NEW i \in DOMAIN seen[s], NEW j \in DOMAIN seen[s],
                      i < j
               PROVE  PlaceOf(seen[s][i]) < PlaceOf(seen[s][j])
    BY DEF DeliveredInOrder
  <2>1. Reader /\ Dispatcher
    BY PartsOfSound
  <2>2. seen[s][i] \in Behind /\ seen[s][j] \in Behind
    BY <2>1 DEF Dispatcher, Dispatching, ToSet
  <2>3. PICK p \in 1..Taken : seen[s][i] = log[p]
    BY <2>2 DEF Behind
  <2>4. PICK q \in 1..Taken : seen[s][j] = log[q]
    BY <2>2 DEF Behind
  <2>5. p < q
    BY <2>1, <2>3, <2>4 DEF Dispatcher, InLogOrder
  <2>6. p \in DOMAIN log /\ q \in DOMAIN log
    <3>1. Taken \in Nat /\ Taken <= Len(log)
      BY <2>1 DEF Reader, Reading, Taken
    <3> QED
      BY <2>1, <3>1, Places
  <2>7. PlaceOf(seen[s][i]) = p /\ PlaceOf(seen[s][j]) = q
    BY <2>1, <2>3, <2>4, <2>6, Places
  <2> QED
    BY <2>5, <2>7
<1> QED
  BY <1>1, AlwaysSound, PTL

\* An element of a sequence without repetition is at one place of it.
LEMMA OnePlace ==
    ASSUME NEW S, NEW q \in Seq(S), IsInjective(q), NEW e
    PROVE  Cardinality({i \in DOMAIN q : q[i] = e}) = IF e \in ToSet(q) THEN 1 ELSE 0
<1>1. CASE e \in ToSet(q)
  <2>1. PICK i \in DOMAIN q : q[i] = e
    BY <1>1 DEF ToSet
  <2>2. {j \in DOMAIN q : q[j] = e} = {i}
    BY <2>1 DEF IsInjective
  <2> QED
    BY <2>2, <1>1, FS_Singleton
<1>2. CASE e \notin ToSet(q)
  <2>1. {j \in DOMAIN q : q[j] = e} = {}
    BY <1>2 DEF ToSet
  <2> QED
    BY <2>1, <1>2, FS_EmptySet
<1> QED
  BY <1>1, <1>2

\* Each event of the log is delivered to each subscription at most once, and
\* is not passed over.
THEOREM NoneSkipped == Spec => []NothingSkipped
<1>1. Sound => NothingSkipped
  <2> SUFFICES ASSUME Sound PROVE NothingSkipped
    OBVIOUS
  <2>1. TypeOK /\ Reader /\ Dispatcher
    BY PartsOfSound DEF Sound
  <2>2. ASSUME NEW e \in ToSet(log), NEW s \in Subs
        PROVE  LET times == Cardinality({i \in DOMAIN seen[s] : seen[s][i] = e})
                   coming == \/ e \in ToSet(queue) \cup ToSet(fetched)
                             \/ \E t \in Tasks : job[t] # None /\ job[t].event = e
                                                    /\ NextSub(t) <= s
               IN  /\ times + (IF coming THEN 1 ELSE 0) <= 1
                   /\ times = 1 \/ coming \/ e \in skipped
    <3> DEFINE had == e \in ToSet(seen[s])
               unread == e \in ToSet(queue) \cup ToSet(fetched)
               inHand == \E t \in Tasks : job[t] # None /\ job[t].event = e
                                             /\ NextSub(t) <= s
    <3>1. Cardinality({i \in DOMAIN seen[s] : seen[s][i] = e}) = IF had THEN 1 ELSE 0
      <4>1. seen[s] \in Seq(Event) /\ IsInjective(seen[s])
        BY <2>1 DEF Dispatcher, Dispatching
      <4> QED
        BY <4>1, OnePlace
    <3>2. had => ~unread
      <4>1. Behind \cap (ToSet(fetched) \cup ToSet(queue)) = {}
        BY <2>1, ThreeParts
      <4> QED
        BY <4>1, <2>1 DEF Dispatcher, Dispatching
    <3>3. \A t \in Tasks : job[t] # None => NextSub(t) \in Nat
      <4> SUFFICES ASSUME NEW t \in Tasks, job[t] # None PROVE NextSub(t) \in Nat
        OBVIOUS
      <4>1. job[t].left \in 0..Subscribers
        BY <2>1 DEF Dispatcher, Jobs
      <4> QED
        BY <4>1, BusAssumption DEF NextSub
    <3>4. had => ~inHand
      <4> SUFFICES ASSUME had, NEW t \in Tasks, job[t] # None, job[t].event = e,
                          NextSub(t) <= s
                   PROVE  FALSE
        OBVIOUS
      <4>1. s < NextSub(t)
        BY <2>1 DEF Dispatcher, Dispatching
      <4> QED
        BY <4>1, <3>3 DEF Subs
    <3>5. had \/ unread \/ inHand \/ e \in skipped
      <4>1. CASE e \in Behind
        <5>1. had \/ e \in InHand \/ e \in skipped
          BY <4>1, <2>1 DEF Dispatcher, Dispatching
        <5>2. ASSUME e \in InHand, ~had PROVE inHand
          <6>1. PICK t \in Tasks : job[t] # None /\ job[t].event = e
            BY <5>2 DEF InHand
          <6>2. ~ (s < NextSub(t)) /\ NextSub(t) \in Nat
            BY <6>1, <5>2, <2>1, <3>3 DEF Dispatcher, Dispatching
          <6> QED
            BY <6>1, <6>2 DEF Subs
        <5> QED
          BY <5>1, <5>2
      <4>2. CASE e \notin Behind
        BY <4>2, <2>1, ThreeParts
      <4> QED
        BY <4>1, <4>2
    <3> HIDE DEF had
    <3>6. CASE had
      BY <3>1, <3>2, <3>4, <3>6
    <3>7. CASE ~had
      BY <3>1, <3>5, <3>7
    <3> QED
      BY <3>6, <3>7
  <2> QED
    BY <2>1, <2>2 DEF NothingSkipped
<1> QED
  BY <1>1, AlwaysSound, PTL

\* Every event issued is in exactly one of the recorder's places, and was
\* there before any subscription had it.
THEOREM TrailComplete == Spec => []AuditTrail
<1>1. Sound => AuditTrail
  <2> SUFFICES ASSUME Sound PROVE AuditTrail
    OBVIOUS
  <2>1. Recorder /\ Publisher /\ Reader /\ Dispatcher
    BY PartsOfSound
  <2>2. \A s \in Subs : ToSet(seen[s]) \subseteq 1..issued
    <3>1. Behind \subseteq ToSet(log)
      BY <2>1, ThreeParts
    <3> QED
      BY <3>1, <2>1 DEF Dispatcher, Dispatching, Publisher, Publications
  <2>3. ToSet(buffer) \cap Batches = {}
    BY <2>1 DEF Recorder, Accounted, BatchesApart, Batches
  <2>4. ASSUME NEW e \in 1..issued
        PROVE  Cardinality({place \in {"buffer", "batch", "stored", "lost", "vanished"} :
                   CASE place = "buffer" -> e \in ToSet(buffer)
                     [] place = "batch" -> e \in Batches
                     [] place = "stored" -> e \in stored
                     [] place = "lost" -> e \in lost
                     [] OTHER -> e \in vanished}) = 1
    <3> DEFINE In(place) == CASE place = "buffer" -> e \in ToSet(buffer)
                              [] place = "batch" -> e \in Batches
                              [] place = "stored" -> e \in stored
                              [] place = "lost" -> e \in lost
                              [] OTHER -> e \in vanished
               P == {"buffer", "batch", "stored", "lost", "vanished"}
    <3>1. /\ In("buffer") <=> e \in ToSet(buffer)
          /\ In("batch") <=> e \in Batches
          /\ In("stored") <=> e \in stored
          /\ In("lost") <=> e \in lost
          /\ In("vanished") <=> e \in vanished
      OBVIOUS
    <3> HIDE DEF In
    <3>2. \E p \in P : In(p) /\ \A q \in P : In(q) => q = p
      <4>1. e \in ToSet(buffer) \cup Batches \cup stored \cup lost \cup vanished
        BY <2>1 DEF Recorder, Accounted
      <4>2. CASE e \in ToSet(buffer)
        BY <4>2, <2>1, <2>3, <3>1 DEF Recorder, Accounted
      <4>3. CASE e \in Batches
        BY <4>3, <2>1, <2>3, <3>1 DEF Recorder, Accounted
      <4>4. CASE e \in stored
        BY <4>4, <2>1, <3>1 DEF Recorder, Accounted
      <4>5. CASE e \in lost
        BY <4>5, <2>1, <3>1 DEF Recorder, Accounted
      <4>6. CASE e \in vanished
        BY <4>6, <2>1, <3>1 DEF Recorder, Accounted
      <4> QED
        BY <4>1, <4>2, <4>3, <4>4, <4>5, <4>6
    <3>3. PICK p \in P : {place \in P : In(place)} = {p}
      BY <3>2
    <3>4. Cardinality({place \in P : In(place)}) = 1
      BY <3>3, FS_Singleton
    <3> QED
      BY <3>4 DEF In
  <2> QED
    BY <2>2, <2>4 DEF AuditTrail
<1> QED
  BY <1>1, AlwaysSound, PTL

\* In memory, over a store that does not suspend, a drain returns when every
\* subscription has had every event there was, and no handler runs.
THEOREM InlineDrains == Spec => InlineDrainCompletes
<1>1. Sound /\ [Next]_vars =>
         [(DrainReturns /\ transport = "memory" /\ ~suspends) =>
             \A e \in draining : HandledByAll(e)]_vars
  <2> SUFFICES ASSUME Sound, DrainReturns, transport = "memory", ~suspends,
                      NEW e \in draining
               PROVE  HandledByAll(e)
    OBVIOUS
  <2>1. Reader /\ Dispatcher /\ Draining /\ OneAtWork
    BY PartsOfSound
  <2>2. /\ MayRun("tick") /\ draining # {} /\ job["tick"] = None /\ queue = <<>>
    BY DEF DrainReturns, QueueDone
  <2>3. \A t \in Tasks : job[t] = None
    BY <2>2 DEF MayRun, Busy, Waits
  <2>4. ToSet(queue) = {} /\ ToSet(fetched) = {}
    BY <2>1, <2>2, Emptied DEF OneAtWork
  <2>5. e \in Behind /\ e \notin skipped
    BY <2>1, <2>4, ThreeParts DEF Draining
  <2>6. InHand = {}
    BY <2>3 DEF InHand
  <2>7. \A s \in Subs : e \in ToSet(seen[s])
    BY <2>1, <2>5, <2>6 DEF Dispatcher, Dispatching
  <2> QED
    BY <2>3, <2>7 DEF HandledByAll
<1> QED
  BY <1>1, AlwaysSound, PTL DEF Spec, InlineDrainCompletes
=============================================================================
