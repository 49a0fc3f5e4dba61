------------------------- MODULE MarketFeed_proofs -------------------------
(***************************************************************************)
(* Theorems about MarketFeed, for any venues, symbols, adapters and bounds.*)
(*                                                                         *)
(* That only a snapshot revives a book says something about the message    *)
(* that a venue is connected again: it must not find a book that is        *)
(* synchronised.  It does not, because of the order in which a session     *)
(* sends things (SessionOrder), and the bus keeps that order.              *)
(*                                                                         *)
(* That a usable book is recent needs what every message on the bus is     *)
(* worth (Sound): as recent as its age says, or a repeat of the last that  *)
(* is heard of that book before it; and the next change after the last     *)
(* that is heard, where the feed has no numbers.                           *)
(***************************************************************************)
EXTENDS MarketFeed, TLAPS

BookType == {"BOOK_SNAPSHOT", "BOOK_DELTA"}

Lost(m, v) == m.type = "VENUE_DISCONNECTED" /\ m.venue = v
Back(m, v) == m.type = "VENUE_CONNECTED" /\ m.venue = v
SentBy(m, v) == m.type \in BookType /\ m.pair[1] = v

\* Once TIDAL has handled the first i events on the bus, v is connected, and
\* some connect came after any disconnect among them.
Restored(v, i) ==
    /\ \A j \in 1..i : Lost(queue[j], v) => \E k \in (j + 1)..i : Back(queue[k], v)
    /\ connected[v] \/ \E k \in 1..i : Back(queue[k], v)

\* What a venue sends of its books lies in a session that TIDAL will know of
\* by then, and no book of a venue that is not connected is synchronised.
SessionOrder ==
    \A v \in Venues :
        /\ \A i \in 1..Len(queue) : SentBy(queue[i], v) => Restored(v, i)
        /\ link[v] # "down" => Restored(v, Len(queue))
        /\ ~connected[v] => \A p \in Pairs : p[1] = v => ~book[p].synced

Ordered == TypeOK /\ SessionOrder

---------------------------------------------------------------------------
(* Types *)

\* The type of an event tells a message about a book from one about a venue.
LEMMA EventKinds ==
    ASSUME NEW m \in Message \cup Status
    PROVE  /\ m.type \in BookType => m \in Message
           /\ m.type \notin BookType => m \in Status
  BY DEF Message, Status, BookType

\* Ageing stays within the ages that are told apart.
LEMMA OlderType ==
    ASSUME NEW a \in Age
    PROVE  Older(a) \in Age
  BY FeedAssumption DEF Age, Older

\* What the adapters publish are events.
LEMMA EventTypes ==
    /\ \A p \in Pairs, n \in 0..MaxChanges :
          Snapshot(p, n) \in Message /\ Delta(p, n) \in Message
    /\ \A v \in Venues, kind \in {"VENUE_CONNECTED", "VENUE_DISCONNECTED"} :
          StatusOf(kind, v) \in Status
  BY FeedAssumption DEF Snapshot, Delta, StatusOf, Message, Status, Age

\* Publishing keeps the bus within its bound.
LEMMA PublishType ==
    ASSUME TypeOK, NEW m \in Message \cup Status, Publish(m)
    PROVE  queue' \in Seq(Message \cup Status) /\ Len(queue') <= MaxQueue
  BY FeedAssumption DEF TypeOK, Publish, CanPublish

\* A change keeps the record of changes well typed, and may be delivered.
LEMMA ChangeType ==
    ASSUME TypeOK, NEW p \in Pairs, Change(p)
    PROVE  /\ changes' \in [Pairs -> 0..MaxChanges]
           /\ made' \in [Pairs -> [1..MaxChanges -> Age]]
           /\ changes[p] + 1 \in 0..MaxChanges
<1>1. changes[p] + 1 \in 1..MaxChanges
  BY FeedAssumption DEF TypeOK, Change
<1>2. changes' \in [Pairs -> 0..MaxChanges]
  BY <1>1 DEF TypeOK, Change
<1>3. [made[p] EXCEPT ![changes[p] + 1] = 0] \in [1..MaxChanges -> Age]
  BY <1>1, FeedAssumption DEF TypeOK, Age
<1>4. made' = [made EXCEPT ![p] = [made[p] EXCEPT ![changes[p] + 1] = 0]]
  BY DEF TypeOK, Change
<1>5. made' \in [Pairs -> [1..MaxChanges -> Age]]
  BY <1>3, <1>4 DEF TypeOK
<1> QED
  BY <1>1, <1>2, <1>5

\* Handling a message leaves every book a book.
LEMMA ApplyTypes ==
    ASSUME NEW b \in Book, NEW m \in Message, NEW removes \in BOOLEAN, FeedAssumption
    PROVE  ApplySnapshot(b, m) \in Book /\ ApplyDelta(b, m, removes) \in Book
<1>0. 0 \in 0..MaxChanges /\ m.change \in 0..MaxChanges /\ m.age \in Age
  BY FeedAssumption DEF Message
<1>1. ApplySnapshot(b, m) \in Book
  BY <1>0 DEF ApplySnapshot, Book, None
<1>2. [b EXCEPT !.synced = FALSE] \in Book
  BY DEF Book
<1>3. Apply(b, m, removes) \in Book
  BY <1>0 DEF Apply, Book
<1> QED
  BY <1>1, <1>2, <1>3 DEF ApplyDelta

\* The first state is well typed.
LEMMA InitType == Init => TypeOK
<1> SUFFICES ASSUME Init PROVE TypeOK
  OBVIOUS
<1>1. NewBook \in Book
  BY FeedAssumption DEF NewBook, Book, Age, None
<1> QED
  BY <1>1, FeedAssumption DEF Init, TypeOK, Age, None, Pairs

\* The steps of the venues and of their feeds keep the types.
LEMMA VenueType ==
    ASSUME TypeOK, VenueStep
    PROVE  TypeOK'
<1> PICK p \in Pairs :
        \/ DeliverDelta(p) \/ MissChange(p) \/ SkipChange(p) \/ DeliverSnapshot(p)
        \/ AnswerSubscription(p) \/ Repeat(p)
  BY DEF VenueStep
<1> USE DEF feedVars, sessionVars, venueVars, tidalVars
<1>a. changes[p] \in 0..MaxChanges /\ sent[p] \in 0..MaxChanges
  BY DEF TypeOK
<1>1. CASE DeliverDelta(p)
  <2>1. Change(p) /\ Publish(Delta(p, changes[p] + 1))
    BY <1>1 DEF DeliverDelta, Deliver
  <2>2. Delta(p, changes[p] + 1) \in Message /\ changes[p] + 1 \in 0..MaxChanges
    BY <2>1, ChangeType, EventTypes
  <2>3. sent' \in [Pairs -> 0..MaxChanges]
    BY <1>1, <2>2 DEF DeliverDelta, Deliver, Delta, TypeOK
  <2> QED
    BY <1>1, <2>1, <2>2, <2>3, ChangeType, PublishType DEF DeliverDelta, TypeOK
<1>2. CASE MissChange(p)
  BY <1>2, ChangeType DEF MissChange, TypeOK
<1>3. CASE SkipChange(p)
  BY <1>3, ChangeType DEF SkipChange, TypeOK
<1>4. CASE DeliverSnapshot(p)
  <2>1. CASE changes[p] < MaxChanges
    <3>1. Change(p) /\ Deliver(p, Snapshot(p, changes[p] + 1))
      BY <1>4, <2>1 DEF DeliverSnapshot
    <3>2. Snapshot(p, changes[p] + 1) \in Message /\ changes[p] + 1 \in 0..MaxChanges
      BY <3>1, ChangeType, EventTypes
    <3>3. sent' \in [Pairs -> 0..MaxChanges]
      BY <3>1, <3>2 DEF Deliver, Snapshot, TypeOK
    <3>4. Publish(Snapshot(p, changes[p] + 1))
      BY <3>1 DEF Deliver
    <3> QED
      BY <1>4, <3>1, <3>2, <3>3, <3>4, ChangeType, PublishType
         DEF DeliverSnapshot, TypeOK
  <2>2. CASE ~(changes[p] < MaxChanges)
    <3>1. Deliver(p, Snapshot(p, changes[p])) /\ UNCHANGED venueVars
      BY <1>4, <2>2 DEF DeliverSnapshot
    <3>2. Snapshot(p, changes[p]) \in Message
      BY <1>a, EventTypes
    <3>3. sent' \in [Pairs -> 0..MaxChanges] /\ Publish(Snapshot(p, changes[p]))
      BY <3>1, <1>a DEF Deliver, Snapshot, TypeOK
    <3> QED
      BY <1>4, <3>1, <3>2, <3>3, PublishType DEF DeliverSnapshot, TypeOK
  <2> QED
    BY <2>1, <2>2
<1>5. CASE AnswerSubscription(p)
  <2>1. Snapshot(p, changes[p]) \in Message
    BY <1>a, EventTypes
  <2>2. sent' \in [Pairs -> 0..MaxChanges] /\ Publish(Snapshot(p, changes[p]))
    BY <1>5, <1>a DEF AnswerSubscription, Deliver, Snapshot, TypeOK
  <2> QED
    BY <1>5, <2>1, <2>2, PublishType DEF AnswerSubscription, TypeOK
<1>6. CASE Repeat(p)
  <2>1. Delta(p, sent[p]) \in Message
    BY <1>a, EventTypes
  <2> QED
    BY <1>6, <2>1, PublishType DEF Repeat, TypeOK
<1> QED
  BY <1>1, <1>2, <1>3, <1>4, <1>5, <1>6

\* Sessions that begin, end and go silent keep the types.
LEMMA AdapterType ==
    ASSUME TypeOK, AdapterStep
    PROVE  TypeOK'
<1> PICK v \in Venues : Connect(v) \/ EndSession(v) \/ FallSilent(v) \/ Resume(v)
  BY DEF AdapterStep
<1> USE DEF feedVars, sessionVars, venueVars, tidalVars
<1>1. CASE Connect(v)
  <2>1. DueAfterConnect(v) \subseteq Pairs
    BY DEF DueAfterConnect, TypeOK, Pairs
  <2> QED
    BY <1>1, <2>1, EventTypes, PublishType DEF Connect, TypeOK
<1>2. CASE EndSession(v)
  BY <1>2, EventTypes, PublishType DEF EndSession, TypeOK
<1>3. CASE FallSilent(v)
  BY <1>3 DEF FallSilent, TypeOK
<1>4. CASE Resume(v)
  BY <1>4 DEF Resume, TypeOK
<1> QED
  BY <1>1, <1>2, <1>3, <1>4

\* What TIDAL makes of an event keeps the types.
LEMMA HandleType ==
    ASSUME TypeOK, Handle
    PROVE  TypeOK'
<1> DEFINE m == Head(queue)
<1> USE DEF feedVars, sessionVars, venueVars, tidalVars
<1>1. m \in Message \cup Status /\ Len(queue) >= 1
  BY DEF Handle, TypeOK
<1>2. queue' \in Seq(Message \cup Status) /\ Len(queue') <= MaxQueue
  BY FeedAssumption DEF Handle, TypeOK
<1>3. book' \in [Pairs -> Book] /\ connected' \in [Venues -> BOOLEAN]
  <2>1. CASE HandleSnapshot
    <3>1. m \in Message
      BY <1>1, <2>1, EventKinds DEF HandleSnapshot, BookType
    <3>2. m.pair \in Pairs /\ book[m.pair] \in Book
      BY <3>1 DEF Message, TypeOK
    <3>3. ApplySnapshot(book[m.pair], m) \in Book
      BY <3>1, <3>2, ApplyTypes, FeedAssumption
    <3> QED
      BY <2>1, <3>2, <3>3 DEF HandleSnapshot, TypeOK
  <2>2. CASE HandleDelta
    <3>1. m \in Message
      BY <1>1, <2>2, EventKinds DEF HandleDelta, BookType
    <3>2. m.pair \in Pairs /\ book[m.pair] \in Book
      BY <3>1 DEF Message, TypeOK
    <3>3. \A removes \in BOOLEAN : ApplyDelta(book[m.pair], m, removes) \in Book
      BY <3>1, <3>2, ApplyTypes, FeedAssumption
    <3> QED
      BY <2>2, <3>2, <3>3 DEF HandleDelta, TypeOK
  <2>3. CASE HandleConnected
    BY <2>3 DEF HandleConnected, TypeOK
  <2>4. CASE HandleDisconnected
    <3>1. \A p \in Pairs : [book[p] EXCEPT !.synced = FALSE] \in Book /\ book[p] \in Book
      BY DEF TypeOK, Book
    <3>2. Invalidated(m.venue) \in [Pairs -> Book]
      BY <3>1 DEF Invalidated
    <3> QED
      BY <2>4, <3>2 DEF HandleDisconnected, TypeOK
  <2> QED
    BY <2>1, <2>2, <2>3, <2>4 DEF Handle
<1> QED
  BY <1>2, <1>3 DEF Handle, TypeOK

\* A tick only makes things older.
LEMMA TickType ==
    ASSUME TypeOK, Tick
    PROVE  TypeOK'
<1> USE DEF feedVars
<1>1. made' \in [Pairs -> [1..MaxChanges -> Age]]
  BY OlderType DEF Tick, TypeOK
<1>2. book' \in [Pairs -> Book]
  BY OlderType DEF Tick, TypeOK, Book
<1>3. queue' \in Seq(Message \cup Status) /\ Len(queue') = Len(queue)
  <2>1. ASSUME NEW i \in 1..Len(queue)
        PROVE  (IF queue[i].type \in {"BOOK_SNAPSHOT", "BOOK_DELTA"}
                THEN [queue[i] EXCEPT !.age = Older(@)] ELSE queue[i])
                   \in Message \cup Status
    <3>1. queue[i] \in Message \cup Status
      BY DEF TypeOK
    <3>2. CASE queue[i].type \in {"BOOK_SNAPSHOT", "BOOK_DELTA"}
      <4>1. queue[i] \in Message
        BY <3>1, <3>2, EventKinds DEF BookType
      <4>2. [queue[i] EXCEPT !.age = Older(@)] \in Message
        BY <4>1, OlderType DEF Message
      <4> QED
        BY <3>2, <4>2
    <3> QED
      BY <3>1, <3>2
  <2>2. Len(queue) \in Nat
    BY DEF TypeOK
  <2> QED
    BY <2>1, <2>2 DEF Tick
<1> QED
  BY <1>1, <1>2, <1>3 DEF Tick, TypeOK

\* Every step keeps the types.
LEMMA StepType == TypeOK /\ [Next]_vars => TypeOK'
<1> SUFFICES ASSUME TypeOK, [Next]_vars PROVE TypeOK'
  OBVIOUS
<1>1. CASE UNCHANGED vars
  BY <1>1 DEF vars, TypeOK
<1> QED
  BY <1>1, VenueType, AdapterType, HandleType, TickType DEF Next

\* The variables of the feed and of TIDAL's books keep their types.
THEOREM TypeCorrect == Spec => []TypeOK
  BY InitType, StepType, PTL DEF Spec

---------------------------------------------------------------------------
(* The order of a session *)

\* Publishing an event keeps the order, if the session has begun that sends it
\* and no session goes on after a disconnect.
LEMMA PublishOrdered ==
    ASSUME Ordered, NEW m \in Message \cup Status, Publish(m),
           UNCHANGED <<connected, book>>,
           \A v \in Venues :
               /\ SentBy(m, v) => link[v] # "down"
               /\ link'[v] # "down" => Back(m, v) \/ (link[v] # "down" /\ ~Lost(m, v))
    PROVE  SessionOrder'
<1> SUFFICES ASSUME NEW v \in Venues
             PROVE  /\ \A i \in 1..Len(queue') : SentBy(queue'[i], v) => Restored(v, i)'
                    /\ link'[v] # "down" => Restored(v, Len(queue))'
                    /\ ~connected'[v] => \A p \in Pairs : p[1] = v => ~book'[p].synced
  BY DEF SessionOrder
<1> PICK n \in Nat : n = Len(queue)
  BY DEF Ordered, TypeOK
<1>1. /\ queue' = Append(queue, m) /\ Len(queue') = n + 1
      /\ \A i \in 1..n : queue'[i] = queue[i]
      /\ queue'[n + 1] = m
  BY DEF Ordered, TypeOK, Publish
<1>2. \A i \in 0..n : Restored(v, i) => Restored(v, i)'
  BY <1>1 DEF Restored
<1>3. /\ \A i \in 1..n : SentBy(queue[i], v) => Restored(v, i)
      /\ link[v] # "down" => Restored(v, n)
      /\ ~connected[v] => \A p \in Pairs : p[1] = v => ~book[p].synced
  BY DEF Ordered, SessionOrder
<1>4. ASSUME link[v] # "down", ~Lost(m, v) PROVE Restored(v, n + 1)'
  <2>1. Restored(v, n)'
    BY <1>1, <1>2, <1>3, <1>4
  <2> QED
    BY <1>1, <1>4, <2>1 DEF Restored
<1>5. ASSUME Back(m, v) PROVE Restored(v, n + 1)'
  <2>1. ~Lost(m, v)
    BY <1>5 DEF Back, Lost
  <2> QED
    BY <1>1, <1>5, <2>1 DEF Restored
<1>6. SentBy(m, v) => link[v] # "down" /\ ~Lost(m, v)
  BY DEF SentBy, Lost, BookType
<1>7. Restored(v, n + 1)' <=> Restored(v, Len(queue))'
  BY <1>1
<1>8. ASSUME NEW i \in 1..Len(queue'), SentBy(queue'[i], v) PROVE Restored(v, i)'
  <2>1. CASE i \in 1..n
    BY <1>1, <1>2, <1>3, <1>8, <2>1
  <2>2. CASE i = n + 1
    BY <1>1, <1>4, <1>6, <1>8, <2>2
  <2> QED
    BY <1>1, <2>1, <2>2
<1> QED
  BY <1>3, <1>4, <1>5, <1>7, <1>8

\* A step that neither publishes nor handles an event, begins no session and
\* synchronises no book keeps the order.
LEMMA QuietOrdered ==
    ASSUME Ordered, UNCHANGED connected,
           Len(queue') = Len(queue),
           \A i \in 1..Len(queue), v \in Venues :
               /\ SentBy(queue'[i], v) <=> SentBy(queue[i], v)
               /\ Lost(queue'[i], v) <=> Lost(queue[i], v)
               /\ Back(queue'[i], v) <=> Back(queue[i], v),
           \A v \in Venues : link'[v] # "down" => link[v] # "down",
           \A p \in Pairs : book'[p].synced <=> book[p].synced
    PROVE  SessionOrder'
<1>1. ASSUME NEW v \in Venues, NEW i \in 0..Len(queue), Restored(v, i)
      PROVE  Restored(v, i)'
  <2>1. Len(queue) \in Nat
    BY DEF Ordered, TypeOK
  <2>2. \A j \in 1..i : j \in 1..Len(queue)
    BY <2>1
  <2>3. \A j \in 1..i : \A k \in (j + 1)..i : k \in 1..Len(queue)
    BY <2>1
  <2> QED
    BY <1>1, <2>2, <2>3 DEF Restored
<1>2. Len(queue) \in Nat
  BY DEF Ordered, TypeOK
<1> QED
  BY <1>1, <1>2 DEF Ordered, SessionOrder

\* Once the first event has been handled, what was restored still is.
LEMMA TailRestored ==
    ASSUME TypeOK, queue # <<>>, queue' = Tail(queue), NEW v \in Venues,
           NEW i \in 1..Len(queue), Restored(v, i),
           connected'[v] <=> \/ Back(Head(queue), v)
                             \/ connected[v] /\ ~Lost(Head(queue), v)
    PROVE  Restored(v, i - 1)'
<1>1. /\ Len(queue) \in Nat \ {0} /\ Len(queue') = Len(queue) - 1
      /\ Head(queue) = queue[1]
      /\ \A j \in 1..(Len(queue) - 1) : queue'[j] = queue[j + 1]
  BY DEF TypeOK
<1>2. ASSUME NEW j \in 1..(i - 1), Lost(queue'[j], v)
      PROVE  \E k \in (j + 1)..(i - 1) : Back(queue'[k], v)
  <2>1. Lost(queue[j + 1], v) /\ j + 1 \in 1..i
    BY <1>1, <1>2
  <2>2. PICK k \in (j + 2)..i : Back(queue[k], v)
    BY <2>1 DEF Restored
  <2>3. k - 1 \in (j + 1)..(i - 1) /\ queue'[k - 1] = queue[k]
    BY <1>1, <2>2
  <2> QED
    BY <2>2, <2>3
<1>3. connected'[v] \/ \E k \in 1..(i - 1) : Back(queue'[k], v)
  <2> SUFFICES ASSUME ~connected'[v] PROVE \E k \in 1..(i - 1) : Back(queue'[k], v)
    OBVIOUS
  <2>1. PICK k \in 1..i : k > 1 /\ Back(queue[k], v)
    <3>1. CASE Lost(queue[1], v)
      BY <1>1, <3>1 DEF Restored
    <3>2. CASE ~Lost(queue[1], v)
      BY <1>1, <3>2 DEF Restored
    <3> QED
      BY <3>1, <3>2
  <2>2. k - 1 \in 1..(i - 1) /\ queue'[k - 1] = queue[k]
    BY <1>1, <2>1
  <2> QED
    BY <2>1, <2>2
<1> QED
  BY <1>2, <1>3 DEF Restored

\* A delta synchronises no book.
LEMMA DeltaSyncsNothing ==
    ASSUME NEW b \in Book, NEW m, NEW removes, ApplyDelta(b, m, removes).synced
    PROVE  b.synced
  BY DEF ApplyDelta, Apply, Book

\* What handling an event does to the connection of a venue.
LEMMA HandleConnection ==
    ASSUME TypeOK, Handle, NEW v \in Venues
    PROVE  connected'[v] <=> \/ Back(Head(queue), v)
                             \/ connected[v] /\ ~Lost(Head(queue), v)
<1>1. CASE HandleSnapshot
  BY <1>1 DEF HandleSnapshot, Back, Lost
<1>2. CASE HandleDelta
  BY <1>2 DEF HandleDelta, Back, Lost
<1>3. CASE HandleConnected
  BY <1>3 DEF HandleConnected, TypeOK, Back, Lost
<1>4. CASE HandleDisconnected
  BY <1>4 DEF HandleDisconnected, TypeOK, Back, Lost
<1> QED
  BY <1>1, <1>2, <1>3, <1>4 DEF Handle

\* A book that is synchronised by an event is the one the snapshot is of, and
\* a disconnect leaves none of its venue.
LEMMA HandleSyncs ==
    ASSUME TypeOK, Handle, NEW p \in Pairs, book'[p].synced
    PROVE  /\ ~Lost(Head(queue), p[1])
           /\ book[p].synced \/ (Head(queue).type = "BOOK_SNAPSHOT" /\ Head(queue).pair = p)
<1> DEFINE m == Head(queue)
<1>0. m \in Message \cup Status
  BY DEF Handle, TypeOK
<1>1. CASE HandleSnapshot
  <2>1. m.type = "BOOK_SNAPSHOT" /\ book' = [book EXCEPT ![m.pair] = ApplySnapshot(@, m)]
    BY <1>1 DEF HandleSnapshot
  <2> QED
    BY <2>1 DEF TypeOK, Lost
<1>2. CASE HandleDelta
  <2>1. m.type = "BOOK_DELTA" /\ \E removes \in BOOLEAN :
            book' = [book EXCEPT ![m.pair] = ApplyDelta(@, m, removes)]
    BY <1>2 DEF HandleDelta
  <2>2. book[p] \in Book
    BY DEF TypeOK
  <2> QED
    BY <2>1, <2>2, DeltaSyncsNothing DEF TypeOK, Lost
<1>3. CASE HandleConnected
  BY <1>3 DEF HandleConnected, Lost
<1>4. CASE HandleDisconnected
  <2>1. book' = Invalidated(m.venue)
    BY <1>4 DEF HandleDisconnected
  <2>2. p[1] # m.venue
    BY <2>1 DEF Invalidated, TypeOK, Book
  <2> QED
    BY <2>1, <2>2 DEF Invalidated, Lost
<1> QED
  BY <1>1, <1>2, <1>3, <1>4 DEF Handle

\* Handling an event keeps the order.
LEMMA HandleOrdered ==
    ASSUME Ordered, Handle
    PROVE  SessionOrder'
<1> SUFFICES ASSUME NEW v \in Venues
             PROVE  /\ \A i \in 1..Len(queue') : SentBy(queue'[i], v) => Restored(v, i)'
                    /\ link'[v] # "down" => Restored(v, Len(queue))'
                    /\ ~connected'[v] => \A p \in Pairs : p[1] = v => ~book'[p].synced
  BY DEF SessionOrder
<1>0. TypeOK /\ queue # <<>> /\ queue' = Tail(queue) /\ UNCHANGED link
  BY DEF Ordered, Handle, feedVars
<1>1. /\ Len(queue) \in Nat \ {0} /\ Len(queue') = Len(queue) - 1
      /\ Head(queue) = queue[1]
      /\ \A j \in 1..(Len(queue) - 1) : queue'[j] = queue[j + 1]
  BY <1>0 DEF TypeOK
<1>2. /\ \A i \in 1..Len(queue) : SentBy(queue[i], v) => Restored(v, i)
      /\ link[v] # "down" => Restored(v, Len(queue))
      /\ ~connected[v] => \A p \in Pairs : p[1] = v => ~book[p].synced
  BY DEF Ordered, SessionOrder
<1>3. \A i \in 1..Len(queue) : Restored(v, i) => Restored(v, i - 1)'
  BY <1>0, HandleConnection, TailRestored
<1>4. ASSUME NEW i \in 1..Len(queue'), SentBy(queue'[i], v) PROVE Restored(v, i)'
  <2>1. i + 1 \in 1..Len(queue) /\ SentBy(queue[i + 1], v)
    BY <1>1, <1>4
  <2>2. Restored(v, (i + 1) - 1)'
    BY <1>2, <1>3, <2>1
  <2>3. (i + 1) - 1 = i
    OBVIOUS
  <2> QED
    BY <2>2, <2>3
<1>5. ASSUME link'[v] # "down" PROVE Restored(v, Len(queue))'
  <2>1. Restored(v, Len(queue))
    BY <1>0, <1>2, <1>5
  <2>2. ASSUME NEW i \in 1..Len(queue), i = Len(queue) PROVE Restored(v, Len(queue))'
    <3>1. Restored(v, i - 1)'
      BY <1>3, <2>1, <2>2
    <3>2. i - 1 = Len(queue')
      BY <1>1, <2>2
    <3> QED
      BY <3>1, <3>2
  <2> QED
    BY <1>1, <2>2
<1>6. ASSUME ~connected'[v], NEW p \in Pairs, p[1] = v, book'[p].synced PROVE FALSE
  <2>1. ~Lost(Head(queue), v) /\ ~Back(Head(queue), v) /\ ~connected[v]
    BY <1>0, <1>6, HandleSyncs, HandleConnection
  <2>2. Head(queue).type = "BOOK_SNAPSHOT" /\ Head(queue).pair = p
    BY <1>0, <1>2, <1>6, <2>1, HandleSyncs
  <2>3. SentBy(queue[1], v) /\ 1 \in 1..Len(queue)
    BY <1>1, <1>6, <2>2 DEF SentBy, BookType
  <2>4. Restored(v, 1)
    BY <1>2, <2>3
  <2>5. Back(queue[1], v)
    BY <2>1, <2>4 DEF Restored
  <2> QED
    BY <1>1, <2>1, <2>5
<1> QED
  BY <1>4, <1>5, <1>6

\* The steps of the venues keep the order: they are silent, or in a session.
LEMMA VenueOrdered ==
    ASSUME Ordered, VenueStep
    PROVE  SessionOrder'
<1> PICK p \in Pairs :
        \/ DeliverDelta(p) \/ MissChange(p) \/ SkipChange(p) \/ DeliverSnapshot(p)
        \/ AnswerSubscription(p) \/ Repeat(p)
  BY DEF VenueStep
<1> USE DEF feedVars, sessionVars, venueVars, tidalVars
<1>1. /\ changes[p] \in 0..MaxChanges /\ sent[p] \in 0..MaxChanges
      /\ Change(p) => changes[p] + 1 \in 0..MaxChanges
  BY ChangeType DEF Ordered, TypeOK
<1>2. ASSUME NEW n \in 0..MaxChanges,
             Publish(Snapshot(p, n)) \/ Publish(Delta(p, n)),
             link[p[1]] = "up", link' = link, UNCHANGED tidalVars
      PROVE  SessionOrder'
  <2> PICK m \in {Snapshot(p, n), Delta(p, n)} : Publish(m)
    BY <1>2
  <2>1. m \in Message /\ m.type \in BookType /\ m.pair = p
    <3>1. Snapshot(p, n) \in Message /\ Delta(p, n) \in Message
      BY EventTypes
    <3>2. CASE m = Snapshot(p, n)
      BY <3>1, <3>2 DEF Snapshot, BookType
    <3>3. CASE m = Delta(p, n)
      BY <3>1, <3>3 DEF Delta, BookType
    <3> QED
      BY <3>2, <3>3
  <2>2. \A v \in Venues : (SentBy(m, v) => v = p[1]) /\ ~Lost(m, v)
    BY <2>1 DEF SentBy, Lost, BookType
  <2>3. UNCHANGED <<connected, book>>
    BY <1>2
  <2> QED
    BY <1>2, <2>1, <2>2, <2>3, PublishOrdered
<1>3. CASE DeliverDelta(p)
  BY <1>1, <1>2, <1>3 DEF DeliverDelta, Deliver
<1>4. CASE MissChange(p)
  BY <1>4, QuietOrdered DEF MissChange
<1>5. CASE SkipChange(p)
  BY <1>5, QuietOrdered DEF SkipChange
<1>6. CASE DeliverSnapshot(p)
  <2>1. CASE changes[p] < MaxChanges
    BY <1>1, <1>2, <1>6, <2>1 DEF DeliverSnapshot, Deliver
  <2>2. CASE ~(changes[p] < MaxChanges)
    BY <1>1, <1>2, <1>6, <2>2 DEF DeliverSnapshot, Deliver
  <2> QED
    BY <2>1, <2>2
<1>7. CASE AnswerSubscription(p)
  BY <1>1, <1>2, <1>7 DEF AnswerSubscription, Deliver
<1>8. CASE Repeat(p)
  BY <1>1, <1>2, <1>8 DEF Repeat
<1> QED
  BY <1>3, <1>4, <1>5, <1>6, <1>7, <1>8

\* Sessions begin with a connect and end with a disconnect.
LEMMA AdapterOrdered ==
    ASSUME Ordered, AdapterStep
    PROVE  SessionOrder'
<1> PICK v \in Venues : Connect(v) \/ EndSession(v) \/ FallSilent(v) \/ Resume(v)
  BY DEF AdapterStep
<1> USE DEF feedVars, sessionVars, venueVars, tidalVars
<1>0. link \in [Venues -> {"down", "up", "silent"}]
  BY DEF Ordered, TypeOK
<1>1. CASE Connect(v)
  <2> DEFINE m == StatusOf("VENUE_CONNECTED", v)
  <2>1. /\ m \in Status /\ Back(m, v)
        /\ \A w \in Venues : ~SentBy(m, w) /\ ~Lost(m, w)
    BY EventTypes DEF StatusOf, Back, SentBy, Lost, BookType
  <2>2. /\ Publish(m) /\ UNCHANGED <<connected, book>>
        /\ link' = [link EXCEPT ![v] = "up"]
    BY <1>1 DEF Connect
  <2> HIDE DEF m
  <2>3. \A w \in Venues : link'[w] # "down" => Back(m, w) \/ (link[w] # "down" /\ ~Lost(m, w))
    BY <1>0, <2>1, <2>2
  <2> QED
    BY <2>1, <2>2, <2>3, PublishOrdered
<1>2. CASE EndSession(v)
  <2> DEFINE m == StatusOf("VENUE_DISCONNECTED", v)
  <2>1. m \in Status /\ \A w \in Venues : ~SentBy(m, w) /\ (Lost(m, w) => w = v)
    BY EventTypes DEF StatusOf, SentBy, Lost, BookType
  <2>2. /\ Publish(m) /\ UNCHANGED <<connected, book>>
        /\ link' = [link EXCEPT ![v] = "down"]
    BY <1>2 DEF EndSession
  <2> HIDE DEF m
  <2>3. \A w \in Venues : link'[w] # "down" => link[w] # "down" /\ ~Lost(m, w)
    BY <1>0, <2>1, <2>2
  <2> QED
    BY <2>1, <2>2, <2>3, PublishOrdered
<1>3. CASE FallSilent(v)
  BY <1>0, <1>3, QuietOrdered DEF FallSilent
<1>4. CASE Resume(v)
  BY <1>0, <1>4, QuietOrdered DEF Resume
<1> QED
  BY <1>1, <1>2, <1>3, <1>4

\* A tick changes neither the order of events nor what they are.
LEMMA TickOrdered ==
    ASSUME Ordered, Tick
    PROVE  SessionOrder'
<1>1. UNCHANGED <<connected, link>>
  BY DEF Tick, feedVars
<1>2. \A p \in Pairs : book'[p].synced <=> book[p].synced
  BY DEF Tick, Ordered, TypeOK, Book
<1>3. Len(queue) \in Nat /\ Len(queue') = Len(queue)
  BY DEF Tick, Ordered, TypeOK
<1>4. ASSUME NEW i \in 1..Len(queue), NEW v \in Venues
      PROVE  /\ SentBy(queue'[i], v) <=> SentBy(queue[i], v)
             /\ Lost(queue'[i], v) <=> Lost(queue[i], v)
             /\ Back(queue'[i], v) <=> Back(queue[i], v)
  <2>1. queue[i] \in Message \cup Status
    BY DEF Ordered, TypeOK
  <2>2. CASE queue[i].type \in BookType
    <3>1. queue[i] \in Message /\ queue'[i] = [queue[i] EXCEPT !.age = Older(@)]
      BY <2>1, <2>2, EventKinds DEF Tick, BookType
    <3> QED
      BY <2>2, <3>1 DEF Message, SentBy, Lost, Back, BookType
  <2>3. CASE queue[i].type \notin BookType
    BY <2>3 DEF Tick, BookType
  <2> QED
    BY <2>2, <2>3
<1> QED
  BY <1>1, <1>2, <1>3, <1>4, QuietOrdered

\* Nothing is on the bus at first.
LEMMA InitOrdered == Init => Ordered
<1> SUFFICES ASSUME Init, NEW v \in Venues
             PROVE  /\ \A i \in 1..Len(queue) : SentBy(queue[i], v) => Restored(v, i)
                    /\ link[v] # "down" => Restored(v, Len(queue))
                    /\ ~connected[v] => \A p \in Pairs : p[1] = v => ~book[p].synced
  BY InitType DEF Ordered, SessionOrder
<1>1. Len(queue) = 0 /\ link[v] = "down" /\ connected[v]
  BY DEF Init
<1> QED
  BY <1>1

\* Every step keeps the order of the sessions.
LEMMA StepOrdered == Ordered /\ [Next]_vars => Ordered'
<1> SUFFICES ASSUME Ordered, [Next]_vars PROVE SessionOrder'
  BY StepType DEF Ordered
<1>1. CASE UNCHANGED vars
  BY <1>1 DEF vars, Ordered, SessionOrder, Restored
<1> QED
  BY <1>1, VenueOrdered, AdapterOrdered, HandleOrdered, TickOrdered DEF Next

\* What a venue sends of its books reaches TIDAL behind the connect of its
\* session, and no book of a venue that is not connected is synchronised.
THEOREM SessionsInOrder == Spec => []SessionOrder
<1>1. Ordered => SessionOrder
  BY DEF Ordered
<1> QED
  BY <1>1, InitOrdered, StepOrdered, PTL DEF Spec

---------------------------------------------------------------------------
(* Only a snapshot revives a book *)

\* One step of OnlySnapshotsRevive.
Revived ==
    \A p \in Pairs :
        ~Trusted(p) /\ Trusted(p)' =>
            /\ Head(queue).type = "BOOK_SNAPSHOT"
            /\ Head(queue).pair = p

\* The step of OnlySnapshotsRevive: only handling an event can make a book
\* trusted, and connects find no book synchronised.
LEMMA StepRevives == Ordered /\ [Next]_vars => Revived
<1> SUFFICES ASSUME Ordered, [Next]_vars, NEW p \in Pairs, ~Trusted(p), Trusted(p)'
             PROVE  Head(queue).type = "BOOK_SNAPSHOT" /\ Head(queue).pair = p
  BY DEF Revived
<1> USE DEF feedVars, sessionVars, venueVars, tidalVars
<1>0. TypeOK /\ p[1] \in Venues
  BY DEF Ordered, Pairs
<1>1. CASE UNCHANGED vars
  BY <1>1 DEF vars, Trusted
<1>2. CASE VenueStep
  <2>1. UNCHANGED tidalVars
    BY <1>2 DEF VenueStep, DeliverDelta, MissChange, SkipChange, DeliverSnapshot,
                AnswerSubscription, Repeat
  <2> QED
    BY <2>1 DEF Trusted
<1>3. CASE AdapterStep
  <2>1. UNCHANGED tidalVars
    BY <1>3 DEF AdapterStep, Connect, EndSession, FallSilent, Resume
  <2> QED
    BY <2>1 DEF Trusted
<1>4. CASE Handle
  <2>1. /\ ~Lost(Head(queue), p[1])
        /\ book[p].synced \/ (Head(queue).type = "BOOK_SNAPSHOT" /\ Head(queue).pair = p)
    BY <1>0, <1>4, HandleSyncs DEF Trusted
  <2>2. ~connected[p[1]] => ~book[p].synced
    BY <1>0 DEF Ordered, SessionOrder
  <2> QED
    BY <2>1, <2>2 DEF Trusted
<1>5. CASE Tick
  BY <1>0, <1>5 DEF Tick, Trusted, TypeOK, Book
<1> QED
  BY <1>1, <1>2, <1>3, <1>4, <1>5 DEF Next

\* A book that a gap or a disconnect took out comes back by a snapshot of that
\* book and by nothing else (on_event, apply_snapshot, apply_delta).
THEOREM SnapshotsRevive == Spec => OnlySnapshotsRevive
<1>1. Ordered /\ [Next]_vars => [Revived]_vars
  BY StepRevives
<1> QED
  BY <1>1, InitOrdered, StepOrdered, PTL DEF Spec, OnlySnapshotsRevive, Revived
---------------------------------------------------------------------------
(* A usable book is recent *)

OfPair(m, p) == m.type \in BookType /\ m.pair = p

\* The book of p has got to change c, if it is synchronised: exactly there when
\* the feed has no numbers, at least there when repeats can be told.
At(p, c) ==
    book[p].synced =>
        IF Numbered(p[1]) THEN book[p].levels >= c ELSE book[p].levels = c

\* The last that TIDAL hears of p from the first i events on the bus is change
\* c; with none of p among them, it was so before.
Heard(p, i, c) ==
    \/ \E j \in 1..i : /\ OfPair(queue[j], p) /\ queue[j].change = c
                       /\ \A k \in (j + 1)..i : ~OfPair(queue[k], p)
    \/ (\A k \in 1..i : ~OfPair(queue[k], p)) /\ At(p, c)

\* The first change of p after number n, if there is one, is no older than a.
SuccessorWithin(p, n, a) == n < changes[p] => made[p][n + 1] <= a

\* The levels of a synchronised book are those of one the venue had, and its top
\* unless the feed is deep; it is as recent as its age says, and carries the
\* number of its last change where the feed has numbers.
SoundBook(p) ==
    book[p].synced =>
        /\ book[p].exact /\ (book[p].whole \/ Deep(p[1]))
        /\ book[p].levels <= changes[p]
        /\ SuccessorWithin(p, book[p].levels, book[p].age)
        /\ IF Numbered(p[1])
           THEN book[p].sequence = book[p].levels /\ book[p].levels # 0
           ELSE book[p].sequence = None

\* A message is as recent as its age says, or repeats the one before it; a
\* delta without a number follows the one before it.
SoundMessage(p, i) ==
    OfPair(queue[i], p) =>
        /\ queue[i].change <= changes[p]
        /\ Numbered(p[1]) \/ queue[i].type = "BOOK_DELTA" => queue[i].change # 0
        /\ \/ SuccessorWithin(p, queue[i].change, queue[i].age)
           \/ /\ queue[i].type = "BOOK_DELTA" /\ Numbered(p[1])
              /\ Heard(p, i - 1, queue[i].change)
        /\ queue[i].type = "BOOK_DELTA" /\ ~Numbered(p[1])
               => Heard(p, i - 1, queue[i].change - 1)

\* The last message of a feed is the last that TIDAL will hear; when the feed
\* has no numbers, it leaves out no change while its session is up.
SoundFeed(p) ==
    /\ sent[p] <= changes[p]
    /\ Numbered(p[1]) /\ sent[p] # None => Heard(p, Len(queue), sent[p])
    /\ ~Numbered(p[1]) /\ link[p[1]] = "up" /\ p \notin due
           => Heard(p, Len(queue), changes[p])

Sound == \A p \in Pairs :
    /\ SoundBook(p) /\ SoundFeed(p)
    /\ \A i \in 1..Len(queue) : SoundMessage(p, i)

\* Only the coinbase feed owes anyone a snapshot.
OnlyAsked == \A p \in due : ~Numbered(p[1])

Trustworthy == TypeOK /\ OnlyAsked /\ Sound

\* Ageing keeps the order of ages.
LEMMA OlderMonotone ==
    ASSUME NEW a \in Age, NEW b \in Age, a <= b
    PROVE  Older(a) <= Older(b)
  BY FeedAssumption DEF Age, Older

\* What was heard is still heard when an event is published, and a message of
\* p is then the last that is heard of p.
LEMMA PublishHeard ==
    ASSUME TypeOK, NEW m \in Message \cup Status, Publish(m),
           UNCHANGED <<book, adapter>>, NEW p \in Pairs, NEW n \in Nat, n = Len(queue)
    PROVE  /\ \A c : \A i \in 0..n : Heard(p, i, c) => Heard(p, i, c)'
           /\ OfPair(m, p) => Heard(p, n + 1, m.change)'
           /\ \A c : ~OfPair(m, p) /\ Heard(p, n, c) => Heard(p, n + 1, c)'
<1>1. /\ Len(queue') = n + 1
      /\ \A i \in 1..n : queue'[i] = queue[i]
      /\ queue'[n + 1] = m
  BY DEF TypeOK, Publish
<1>2. \A c : At(p, c)' <=> At(p, c)
  BY DEF At, Numbered
<1>3. ASSUME NEW c, NEW i \in 0..n, Heard(p, i, c) PROVE Heard(p, i, c)'
  BY <1>1, <1>2, <1>3 DEF Heard
<1>4. ASSUME OfPair(m, p) PROVE Heard(p, n + 1, m.change)'
  <2>1. n + 1 \in 1..(n + 1) /\ \A k \in (n + 1 + 1)..(n + 1) : FALSE
    OBVIOUS
  <2> QED
    BY <1>1, <1>4, <2>1 DEF Heard
<1>5. ASSUME NEW c, ~OfPair(m, p), Heard(p, n, c) PROVE Heard(p, n + 1, c)'
  BY <1>1, <1>2, <1>5 DEF Heard
<1> QED
  BY <1>3, <1>4, <1>5

\* A message on the bus has a number and an age.
LEMMA OfPairType ==
    ASSUME TypeOK, NEW p \in Pairs, NEW i \in 1..Len(queue), OfPair(queue[i], p)
    PROVE  queue[i].change \in Nat /\ queue[i].age \in Age
<1>1. queue[i] \in Message
  BY EventKinds DEF TypeOK, OfPair
<1> QED
  BY <1>1, FeedAssumption DEF Message

\* What a delivery or a repetition adds keeps everything sound, if the message is
\* of a session that is up and is sound itself.
LEMMA PublishSound ==
    ASSUME Trustworthy, TypeOK', NEW m \in Message \cup Status, Publish(m),
           UNCHANGED <<book, adapter>>,
           \A p \in Pairs : SoundBook(p)' /\ changes[p] <= changes'[p],
           \A p \in Pairs, n \in Nat, a \in Age :
               n <= changes[p] /\ SuccessorWithin(p, n, a) => SuccessorWithin(p, n, a)',
           \A p \in Pairs : OfPair(m, p) =>
               /\ m.change <= changes'[p]
               /\ Numbered(p[1]) \/ m.type = "BOOK_DELTA" => m.change # 0
               /\ \/ SuccessorWithin(p, m.change, m.age)'
                  \/ /\ m.type = "BOOK_DELTA" /\ Numbered(p[1])
                     /\ Heard(p, Len(queue), m.change)
               /\ m.type = "BOOK_DELTA" /\ ~Numbered(p[1])
                      => Heard(p, Len(queue), m.change - 1),
           \A p \in Pairs :
               /\ sent'[p] <= changes'[p]
               /\ OfPair(m, p) =>
                      /\ sent'[p] = m.change
                      /\ ~Numbered(p[1]) => m.change = changes'[p]
               /\ ~OfPair(m, p) =>
                      /\ sent'[p] = sent[p]
                      /\ ~Numbered(p[1]) /\ link'[p[1]] = "up" /\ p \notin due' =>
                             /\ link[p[1]] = "up" /\ p \notin due
                             /\ changes'[p] = changes[p]
    PROVE  Sound'
<1> PICK n \in Nat : n = Len(queue)
  BY DEF Trustworthy, TypeOK
<1>0. TypeOK
  BY DEF Trustworthy
<1>1. /\ Len(queue') = n + 1
      /\ \A i \in 1..n : queue'[i] = queue[i]
      /\ queue'[n + 1] = m
  BY <1>0 DEF TypeOK, Publish
<1>2. \A p \in Pairs : Numbered(p[1])' <=> Numbered(p[1])
  BY DEF Numbered
<1>3. ASSUME NEW p \in Pairs, NEW i \in 1..Len(queue') PROVE SoundMessage(p, i)'
  <2>1. CASE i \in 1..n
    <3>1. SoundMessage(p, i) /\ i - 1 \in 0..n
      BY <2>1 DEF Trustworthy, Sound
    <3>2. \A c : Heard(p, i - 1, c) => Heard(p, i - 1, c)'
      BY <1>0, <3>1, PublishHeard
    <3>3. changes[p] \in Nat /\ changes'[p] \in Nat /\ changes[p] <= changes'[p]
      BY DEF Trustworthy, TypeOK
    <3>4. SUFFICES ASSUME OfPair(queue[i], p)
                   PROVE  SoundMessage(p, i)'
      BY <1>1, <2>1 DEF SoundMessage
    <3>5. queue[i].change \in Nat /\ queue[i].age \in Age /\ queue[i].change <= changes[p]
      BY <1>0, <2>1, <3>1, <3>4, OfPairType DEF SoundMessage
    <3>6. PICK n0 \in Nat, a0 \in Age : n0 = queue[i].change /\ a0 = queue[i].age
      BY <3>5
    <3>7. SuccessorWithin(p, n0, a0) => SuccessorWithin(p, n0, a0)'
      BY <3>5, <3>6
    <3>8. n0 <= changes'[p]
      BY <3>3, <3>5, <3>6
    <3> QED
      BY <1>1, <1>2, <2>1, <3>1, <3>2, <3>4, <3>6, <3>7, <3>8 DEF SoundMessage
  <2>2. CASE i = n + 1
    <3>1. \A c : Heard(p, n, c) => Heard(p, n, c)'
      BY <1>0, PublishHeard
    <3>2. i - 1 = n /\ queue'[i] = m
      BY <1>1, <2>2
    <3> QED
      BY <1>2, <3>1, <3>2 DEF SoundMessage
  <2> QED
    BY <1>1, <2>1, <2>2
<1>4. ASSUME NEW p \in Pairs PROVE SoundFeed(p)'
  <2>1. /\ OfPair(m, p) => Heard(p, n + 1, m.change)'
        /\ \A c : ~OfPair(m, p) /\ Heard(p, n, c) => Heard(p, n + 1, c)'
    BY <1>0, PublishHeard
  <2>2. SoundFeed(p)
    BY DEF Trustworthy, Sound
  <2>3. CASE OfPair(m, p)
    BY <1>1, <1>2, <2>1, <2>3 DEF SoundFeed
  <2>4. CASE ~OfPair(m, p)
    BY <1>1, <1>2, <2>1, <2>2, <2>4 DEF SoundFeed
  <2> QED
    BY <2>3, <2>4
<1> QED
  BY <1>3, <1>4 DEF Sound

\* A step that neither publishes nor handles an event keeps everything sound, if
\* the record of changes it leaves does.
LEMMA QuietSound ==
    ASSUME Trustworthy, TypeOK', UNCHANGED <<adapter, sent>>,
           \A p \in Pairs : SoundBook(p)' /\ (\A c : At(p, c)' <=> At(p, c)),
           Len(queue') = Len(queue),
           \A p \in Pairs, i \in 1..Len(queue) :
               /\ OfPair(queue'[i], p) <=> OfPair(queue[i], p)
               /\ queue'[i].type = queue[i].type
               /\ OfPair(queue[i], p) =>
                   /\ queue'[i].change = queue[i].change
                   /\ SuccessorWithin(p, queue[i].change, queue[i].age) =>
                          SuccessorWithin(p, queue[i].change, queue[i].age)',
           \A p \in Pairs :
               /\ changes[p] <= changes'[p]
               /\ ~Numbered(p[1]) /\ link'[p[1]] = "up" /\ p \notin due' =>
                      /\ link[p[1]] = "up" /\ p \notin due
                      /\ changes'[p] = changes[p]
    PROVE  Sound'
<1> PICK n \in Nat : n = Len(queue)
  BY DEF Trustworthy, TypeOK
<1>1. \A p \in Pairs : Numbered(p[1])' <=> Numbered(p[1])
  BY DEF Numbered
<1>2. ASSUME NEW p \in Pairs, NEW c, NEW i \in 0..n, Heard(p, i, c) PROVE Heard(p, i, c)'
  <2>1. \A k \in 1..i : k \in 1..n
    OBVIOUS
  <2>2. \A j \in 1..i : \A k \in (j + 1)..i : k \in 1..i
    OBVIOUS
  <2> QED
    BY <1>2, <2>1, <2>2 DEF Heard
<1>3. ASSUME NEW p \in Pairs, NEW i \in 1..Len(queue') PROVE SoundMessage(p, i)'
  <2>1. SoundMessage(p, i) /\ i \in 1..n /\ i - 1 \in 0..n
    BY <1>3 DEF Trustworthy, Sound
  <2>2. \A c : Heard(p, i - 1, c) => Heard(p, i - 1, c)'
    BY <1>2, <2>1
  <2>3. /\ changes[p] \in Nat /\ changes'[p] \in Nat
        /\ OfPair(queue[i], p) => queue[i].change \in Nat
    <3>1. queue[i] \in Message \cup Status
      BY <2>1 DEF Trustworthy, TypeOK
    <3> QED
      BY <3>1, EventKinds DEF Trustworthy, TypeOK, OfPair, Message
  <2> QED
    BY <1>1, <2>1, <2>2, <2>3 DEF SoundMessage
<1>4. ASSUME NEW p \in Pairs PROVE SoundFeed(p)'
  <2>1. SoundFeed(p) /\ n \in 0..n
    BY DEF Trustworthy, Sound
  <2>2. sent[p] \in Nat /\ changes[p] \in Nat /\ changes'[p] \in Nat
    BY DEF Trustworthy, TypeOK
  <2> QED
    BY <1>1, <1>2, <2>1, <2>2 DEF SoundFeed
<1> QED
  BY <1>3, <1>4 DEF Sound

\* A change of a book leaves every other book sound, and this one: what it lacks
\* now is no older than what it lacked, or brand-new.
LEMMA ChangeSound ==
    ASSUME Trustworthy, NEW p \in Pairs, Change(p), UNCHANGED <<book, adapter>>
    PROVE  /\ changes'[p] = changes[p] + 1
           /\ \A q \in Pairs :
                  /\ changes[q] <= changes'[q]
                  /\ q # p => changes'[q] = changes[q]
                  /\ SoundBook(q)'
           /\ \A q \in Pairs, n \in Nat, a \in Age :
                  n <= changes[q] /\ SuccessorWithin(q, n, a) => SuccessorWithin(q, n, a)'
<1>1. /\ changes' = [changes EXCEPT ![p] = @ + 1]
      /\ made' = [made EXCEPT ![p][changes[p] + 1] = 0]
      /\ changes[p] + 1 \in 1..MaxChanges
  BY FeedAssumption DEF Change, Trustworthy, TypeOK
<1>2. /\ changes \in [Pairs -> 0..MaxChanges]
      /\ made \in [Pairs -> [1..MaxChanges -> Age]]
      /\ book \in [Pairs -> Book]
  BY DEF Trustworthy, TypeOK
<1>3. ASSUME NEW q \in Pairs PROVE changes[q] <= changes'[q] /\ (q # p => changes'[q] = changes[q])
  BY <1>1, <1>2
<1>4. ASSUME NEW q \in Pairs, NEW n \in Nat, NEW a \in Age,
             n <= changes[q], SuccessorWithin(q, n, a)
      PROVE  SuccessorWithin(q, n, a)'
  <2>1. CASE q # p
    BY <1>1, <1>2, <1>4, <2>1 DEF SuccessorWithin
  <2>2. CASE q = p /\ n = changes[p]
    <3>1. made'[p] = [made[p] EXCEPT ![changes[p] + 1] = 0]
      BY <1>1, <1>2
    <3>2. made[p] \in [1..MaxChanges -> Age]
      BY <1>2
    <3>3. made'[p][changes[p] + 1] = 0
      BY <1>1, <3>1, <3>2
    <3>4. 0 <= a
      BY FeedAssumption DEF Age
    <3> QED
      BY <2>2, <3>3, <3>4 DEF SuccessorWithin
  <2>3. CASE q = p /\ n < changes[p]
    <3>1. n + 1 \in 1..MaxChanges /\ n + 1 # changes[p] + 1
      BY <1>1, <1>2, <2>3, FeedAssumption
    <3>2. made'[p][n + 1] = made[p][n + 1]
      BY <1>1, <1>2, <3>1
    <3> QED
      BY <1>4, <2>3, <3>2 DEF SuccessorWithin
  <2> QED
    BY <1>2, <1>4, <2>1, <2>2, <2>3
<1>5. ASSUME NEW q \in Pairs PROVE SoundBook(q)'
  <2>1. SoundBook(q) /\ book[q].levels \in Nat /\ book[q].age \in Age
    BY <1>2 DEF Trustworthy, Sound, Book
  <2>2. book[q].levels <= changes[q] /\ SuccessorWithin(q, book[q].levels, book[q].age)
            => book[q].levels <= changes'[q]
               /\ SuccessorWithin(q, book[q].levels, book[q].age)'
    BY <1>2, <1>3, <1>1, <1>4, <2>1
  <2> QED
    BY <2>1, <2>2 DEF SoundBook, Numbered, Deep
<1> QED
  BY <1>1, <1>2, <1>3, <1>4, <1>5

\* A snapshot is asked for by a new session of that feed only.
LEMMA AskedStep ==
    ASSUME TypeOK, OnlyAsked, [Next]_vars
    PROVE  OnlyAsked'
<1> USE DEF feedVars, sessionVars, venueVars, tidalVars, OnlyAsked, Numbered
<1>1. CASE UNCHANGED vars
  BY <1>1 DEF vars
<1>2. CASE VenueStep
  <2>1. adapter' = adapter /\ due' \subseteq due
    BY <1>2 DEF VenueStep, DeliverDelta, MissChange, SkipChange, DeliverSnapshot,
                AnswerSubscription, Repeat, Deliver
  <2> QED
    BY <2>1
<1>3. CASE AdapterStep
  <2> PICK v \in Venues : Connect(v) \/ EndSession(v) \/ FallSilent(v) \/ Resume(v)
    BY <1>3 DEF AdapterStep
  <2>1. adapter' = adapter /\ due' \subseteq DueAfterConnect(v)
    BY DEF Connect, EndSession, FallSilent, Resume, DueAfterConnect
  <2>2. \A p \in DueAfterConnect(v) : ~Numbered(p[1])
    BY DEF DueAfterConnect
  <2> QED
    BY <2>1, <2>2
<1>4. CASE Handle \/ Tick
  BY <1>4 DEF Handle, Tick
<1> QED
  BY <1>1, <1>2, <1>3, <1>4 DEF Next

\* A message of p that is delivered with the change it is about keeps everything
\* sound; a repetition too.
LEMMA VenueSound ==
    ASSUME Trustworthy, VenueStep
    PROVE  Sound'
<1> PICK p \in Pairs :
        \/ DeliverDelta(p) \/ MissChange(p) \/ SkipChange(p) \/ DeliverSnapshot(p)
        \/ AnswerSubscription(p) \/ Repeat(p)
  BY DEF VenueStep
<1> USE DEF feedVars, sessionVars, venueVars, tidalVars
<1>0. /\ TypeOK /\ TypeOK'
      /\ sent \in [Pairs -> 0..MaxChanges] /\ changes \in [Pairs -> 0..MaxChanges]
      /\ \A q \in Pairs : SoundBook(q) /\ SoundFeed(q)
  BY VenueType DEF Trustworthy, TypeOK, Sound
<1>1. UNCHANGED <<book, adapter>>
  BY DEF DeliverDelta, MissChange, SkipChange, DeliverSnapshot, AnswerSubscription, Repeat
<1>3. (Change(p) \/ UNCHANGED venueVars) =>
          /\ \A q \in Pairs :
                /\ SoundBook(q)' /\ changes[q] <= changes'[q]
                /\ q # p => changes'[q] = changes[q]
          /\ \A q \in Pairs, n \in Nat, a \in Age :
                n <= changes[q] /\ SuccessorWithin(q, n, a) => SuccessorWithin(q, n, a)'
  <2>1. CASE Change(p)
    BY <1>1, <2>1, ChangeSound
  <2>2. CASE UNCHANGED venueVars
    BY <1>0, <1>1, <2>2, FeedAssumption DEF SoundBook, SuccessorWithin, Numbered, Deep
  <2> QED
    BY <2>1, <2>2
<1>4. ASSUME NEW n \in 0..MaxChanges, NEW m \in {Snapshot(p, n), Delta(p, n)},
             Deliver(p, m), Change(p) \/ UNCHANGED venueVars, n = changes'[p],
             UNCHANGED link, \A q \in Pairs : q # p /\ q \notin due' => q \notin due,
             m.type = "BOOK_DELTA" => Change(p) /\ link[p[1]] = "up" /\ p \notin due,
             m.type = "BOOK_SNAPSHOT" => (Numbered(p[1]) => n # 0)
      PROVE  Sound'
  <2>1. /\ m \in Message /\ m.type \in BookType /\ m.pair = p /\ m.change = n
        /\ Publish(m) /\ sent' = [sent EXCEPT ![p] = n]
    <3>1. Snapshot(p, n) \in Message /\ Delta(p, n) \in Message
      BY EventTypes
    <3>2. CASE m = Snapshot(p, n)
      BY <1>4, <3>1, <3>2 DEF Snapshot, BookType, Deliver
    <3>3. CASE m = Delta(p, n)
      BY <1>4, <3>1, <3>3 DEF Delta, BookType, Deliver
    <3> QED
      BY <3>2, <3>3
  <2>2. \A q \in Pairs : OfPair(m, q) <=> q = p
    BY <2>1 DEF OfPair
  <2>3. SuccessorWithin(p, m.change, m.age)'
    BY <1>4, <2>1 DEF SuccessorWithin
  <2>4. m.type = "BOOK_DELTA" => n = changes[p] + 1 /\ n # 0
    BY <1>0, <1>1, <1>4, ChangeSound
  <2>5. m.type = "BOOK_DELTA" /\ ~Numbered(p[1]) => Heard(p, Len(queue), m.change - 1)
    BY <1>0, <1>4, <2>1, <2>4 DEF SoundFeed
  <2>6. Numbered(p[1]) \/ m.type = "BOOK_DELTA" => m.change # 0
    BY <1>4, <2>1, <2>4 DEF BookType
  <2>7. \A q \in Pairs :
            /\ sent'[q] <= changes'[q]
            /\ q = p => sent'[q] = m.change /\ m.change = changes'[q]
            /\ q # p => sent'[q] = sent[q] /\ changes'[q] = changes[q]
    BY <1>0, <1>3, <1>4, <2>1 DEF SoundFeed
  <2>8. \A q \in Pairs : q # p /\ link'[q[1]] = "up" /\ q \notin due' =>
            link[q[1]] = "up" /\ q \notin due
    BY <1>4
  <2>9. m.change <= changes'[p]
    BY <1>4, <2>1
  <2>10. /\ \A q \in Pairs : SoundBook(q)' /\ changes[q] <= changes'[q]
         /\ \A q \in Pairs, k \in Nat, a \in Age :
               k <= changes[q] /\ SuccessorWithin(q, k, a) => SuccessorWithin(q, k, a)'
    BY <1>3, <1>4
  <2>11. \A q \in Pairs : OfPair(m, q) =>
            /\ m.change <= changes'[q]
            /\ Numbered(q[1]) \/ m.type = "BOOK_DELTA" => m.change # 0
            /\ SuccessorWithin(q, m.change, m.age)'
            /\ m.type = "BOOK_DELTA" /\ ~Numbered(q[1]) => Heard(q, Len(queue), m.change - 1)
    BY <2>2, <2>3, <2>5, <2>6, <2>9
  <2>12. \A q \in Pairs :
            /\ sent'[q] <= changes'[q]
            /\ OfPair(m, q) =>
                  /\ sent'[q] = m.change
                  /\ ~Numbered(q[1]) => m.change = changes'[q]
            /\ ~OfPair(m, q) =>
                  /\ sent'[q] = sent[q]
                  /\ ~Numbered(q[1]) /\ link'[q[1]] = "up" /\ q \notin due' =>
                        /\ link[q[1]] = "up" /\ q \notin due
                        /\ changes'[q] = changes[q]
    BY <2>2, <2>7, <2>8
  <2> QED
    BY <1>0, <1>1, <2>1, <2>10, <2>11, <2>12, PublishSound
<1>5. CASE DeliverDelta(p)
  BY <1>0, <1>1, <1>4, <1>5, ChangeSound, ChangeType DEF DeliverDelta, Delta
<1>6. CASE MissChange(p) \/ SkipChange(p)
  <2>1. /\ Change(p) /\ UNCHANGED <<link, due, sent, queue>>
        /\ link[p[1]] # "up" \/ Numbered(p[1])
    BY <1>6 DEF MissChange, SkipChange, Websocket, Numbered
  <2>2. \A q \in Pairs : \A c : At(q, c)' <=> At(q, c)
    BY <1>1 DEF At, Numbered
  <2>3. ASSUME NEW q \in Pairs, NEW i \in 1..Len(queue), OfPair(queue[i], q),
               SuccessorWithin(q, queue[i].change, queue[i].age)
        PROVE  SuccessorWithin(q, queue[i].change, queue[i].age)'
    <3>1. /\ queue[i].change \in Nat /\ queue[i].age \in Age
          /\ queue[i].change <= changes[q]
      BY <1>0, <2>3, OfPairType DEF Trustworthy, Sound, SoundMessage
    <3>2. PICK n \in Nat, a \in Age : n = queue[i].change /\ a = queue[i].age
      BY <3>1
    <3>3. SuccessorWithin(q, n, a)'
      BY <1>3, <2>1, <2>3, <3>1, <3>2
    <3> QED
      BY <2>1, <3>2, <3>3
  <2> QED
    BY <1>0, <1>1, <1>3, <2>1, <2>2, <2>3, QuietSound
<1>7. CASE DeliverSnapshot(p)
  <2>1. Numbered(p[1]) /\ UNCHANGED <<link, due>>
    BY <1>7 DEF DeliverSnapshot, Websocket, Numbered
  <2>2. CASE changes[p] < MaxChanges
    <3>1. Change(p) /\ Deliver(p, Snapshot(p, changes[p] + 1))
      BY <1>7, <2>2 DEF DeliverSnapshot
    <3>2. changes'[p] = changes[p] + 1 /\ changes[p] + 1 \in 0..MaxChanges
          /\ changes[p] + 1 # 0
      BY <1>0, <1>1, <3>1, ChangeSound, ChangeType
    <3> QED
      BY <1>4, <2>1, <3>1, <3>2 DEF Snapshot
  <2>3. CASE ~(changes[p] < MaxChanges)
    <3>1. Deliver(p, Snapshot(p, changes[p])) /\ UNCHANGED venueVars
      BY <1>7, <2>3 DEF DeliverSnapshot
    <3>2. changes[p] \in 0..MaxChanges /\ changes[p] # 0
      BY <1>0, <2>3, FeedAssumption
    <3> QED
      BY <1>4, <2>1, <3>1, <3>2 DEF Snapshot
  <2> QED
    BY <2>2, <2>3
<1>8. CASE AnswerSubscription(p)
  <2>1. ~Numbered(p[1])
    BY <1>8 DEF AnswerSubscription, Trustworthy, OnlyAsked
  <2> QED
    BY <1>0, <1>4, <1>8, <2>1 DEF AnswerSubscription, Snapshot, Numbered
<1>9. CASE Repeat(p)
  <2> DEFINE m == Delta(p, sent[p])
  <2>1. /\ m \in Message /\ m.type = "BOOK_DELTA" /\ m.pair = p /\ m.change = sent[p]
        /\ Publish(m) /\ Numbered(p[1]) /\ sent[p] # 0
        /\ UNCHANGED <<sent, due, link, venueVars>>
    BY <1>0, <1>9, EventTypes DEF Repeat, Delta, None
  <2> HIDE DEF m
  <2>2. \A q \in Pairs : OfPair(m, q) <=> q = p
    BY <2>1 DEF OfPair, BookType
  <2>3. Heard(p, Len(queue), m.change) /\ sent[p] <= changes[p]
    BY <1>0, <2>1 DEF SoundFeed, None
  <2>4. \A q \in Pairs : sent[q] <= changes[q]
    BY <1>0 DEF SoundFeed
  <2> QED
    BY <1>0, <1>1, <1>3, <2>1, <2>2, <2>3, <2>4, PublishSound
<1> QED
  BY <1>5, <1>6, <1>7, <1>8, <1>9

\* Sessions that begin, end and go silent leave books and messages as they are.
LEMMA AdapterSound ==
    ASSUME Trustworthy, AdapterStep
    PROVE  Sound'
<1> PICK v \in Venues : Connect(v) \/ EndSession(v) \/ FallSilent(v) \/ Resume(v)
  BY DEF AdapterStep
<1> USE DEF feedVars, sessionVars, venueVars, tidalVars
<1>0. /\ TypeOK /\ TypeOK' /\ link \in [Venues -> {"down", "up", "silent"}]
      /\ \A q \in Pairs : SoundBook(q) /\ SoundFeed(q) /\ q[1] \in Venues
  BY AdapterType DEF Trustworthy, TypeOK, Sound, Pairs
<1>1. UNCHANGED <<book, adapter, sent, changes, made>>
  BY DEF Connect, EndSession, FallSilent, Resume
<1>2. /\ \A q \in Pairs : SoundBook(q)' /\ changes[q] <= changes'[q]
      /\ \A q \in Pairs : \A c : At(q, c)' <=> At(q, c)
      /\ \A q \in Pairs, n \in Nat, a \in Age :
            n <= changes[q] /\ SuccessorWithin(q, n, a) => SuccessorWithin(q, n, a)'
      /\ \A q \in Pairs : sent'[q] <= changes'[q]
  BY <1>0, <1>1, FeedAssumption
     DEF TypeOK, SoundBook, SoundFeed, SuccessorWithin, Numbered, At, Deep
<1>3. ASSUME NEW m \in Status, Publish(m), m.type \notin BookType,
             \A q \in Pairs : ~Numbered(q[1]) /\ link'[q[1]] = "up" /\ q \notin due' =>
                 link[q[1]] = "up" /\ q \notin due
      PROVE  Sound'
  <2>1. \A q \in Pairs : ~OfPair(m, q)
    BY <1>3 DEF OfPair
  <2> QED
    BY <1>0, <1>1, <1>2, <1>3, <2>1, PublishSound
<1>4. CASE Connect(v)
  <2>1. StatusOf("VENUE_CONNECTED", v) \in Status
        /\ StatusOf("VENUE_CONNECTED", v).type \notin BookType
    BY EventTypes DEF StatusOf, BookType
  <2>2. \A q \in Pairs : ~Numbered(q[1]) /\ link'[q[1]] = "up" /\ q \notin due' =>
            link[q[1]] = "up" /\ q \notin due
    <3> SUFFICES ASSUME NEW q \in Pairs, ~Numbered(q[1]), link'[q[1]] = "up", q \notin due'
                 PROVE  link[q[1]] = "up" /\ q \notin due
      OBVIOUS
    <3>1. due' = DueAfterConnect(v) /\ link' = [link EXCEPT ![v] = "up"]
      BY <1>4 DEF Connect
    <3>2. q[1] # v
      <4> SUFFICES ASSUME q[1] = v PROVE FALSE
        OBVIOUS
      <4>1. q \in {v} \X Symbols /\ adapter[v] = "coinbase_public"
        BY DEF Pairs, Numbered
      <4> QED
        BY <3>1, <4>1 DEF DueAfterConnect
    <3> QED
      BY <1>0, <3>1, <3>2 DEF DueAfterConnect
  <2> QED
    BY <1>3, <1>4, <2>1, <2>2 DEF Connect
<1>5. CASE EndSession(v)
  <2>1. StatusOf("VENUE_DISCONNECTED", v) \in Status
        /\ StatusOf("VENUE_DISCONNECTED", v).type \notin BookType
    BY EventTypes DEF StatusOf, BookType
  <2>2. \A q \in Pairs : link'[q[1]] = "up" /\ q \notin due' =>
            link[q[1]] = "up" /\ q \notin due
    <3> SUFFICES ASSUME NEW q \in Pairs, link'[q[1]] = "up", q \notin due'
                 PROVE  link[q[1]] = "up" /\ q \notin due
      OBVIOUS
    <3>1. due' = due \ ({v} \X Symbols) /\ link' = [link EXCEPT ![v] = "down"]
      BY <1>5 DEF EndSession
    <3>2. q[1] # v
      BY <1>0, <3>1
    <3>3. q \notin {v} \X Symbols
      BY <3>2
    <3> QED
      BY <1>0, <3>1, <3>2, <3>3
  <2> QED
    BY <1>3, <1>5, <2>1, <2>2 DEF EndSession
<1>6. CASE FallSilent(v) \/ Resume(v)
  <2>1. UNCHANGED <<queue, due>>
    BY <1>6 DEF FallSilent, Resume
  <2>2. \A q \in Pairs : ~Numbered(q[1]) /\ link'[q[1]] = "up" => link[q[1]] = "up"
    BY <1>0, <1>6 DEF FallSilent, Resume, Websocket, Numbered
  <2>3. \A q \in Pairs, i \in 1..Len(queue) :
            SuccessorWithin(q, queue[i].change, queue[i].age) =>
                SuccessorWithin(q, queue[i].change, queue[i].age)'
    BY <1>1, <2>1 DEF SuccessorWithin
  <2> QED
    BY <1>0, <1>1, <1>2, <2>1, <2>2, <2>3, QuietSound
<1> QED
  BY <1>4, <1>5, <1>6

\* What a message of p does to its book: it is sound, and it has got to the
\* change the message is about.
LEMMA ApplySound ==
    ASSUME Trustworthy, Handle, NEW p \in Pairs, OfPair(Head(queue), p),
           NEW c, c = Head(queue).change
    PROVE  SoundBook(p)' /\ At(p, c)'
<1> DEFINE m == Head(queue)
           b == book[p]
<1>0. /\ m \in Message /\ m.pair = p /\ b \in Book
      /\ changes[p] \in Nat /\ m.change = c /\ c \in 0..MaxChanges /\ m.age \in Age
      /\ SoundBook(p) /\ UNCHANGED <<adapter, changes, made>>
  <2>1. m \in Message \cup Status
    BY DEF Handle, Trustworthy, TypeOK
  <2>2. m \in Message
    BY <2>1, EventKinds DEF OfPair
  <2> QED
    BY <2>2 DEF OfPair, Trustworthy, TypeOK, Sound, Handle, feedVars, venueVars, Message
<1>1. /\ c <= changes[p]
      /\ Numbered(p[1]) \/ m.type = "BOOK_DELTA" => c # 0
      /\ \/ SuccessorWithin(p, c, m.age)
         \/ m.type = "BOOK_DELTA" /\ Numbered(p[1]) /\ At(p, c)
      /\ m.type = "BOOK_DELTA" /\ ~Numbered(p[1]) => At(p, c - 1)
  <2>1. 1 \in 1..Len(queue) /\ queue[1] = m
    BY DEF Handle, Trustworthy, TypeOK
  <2>2. SoundMessage(p, 1)
    BY <2>1 DEF Trustworthy, Sound
  <2>3. \A d : Heard(p, 1 - 1, d) => At(p, d)
    BY DEF Heard
  <2> QED
    BY <2>1, <2>2, <2>3 DEF SoundMessage
<1>2. CASE HandleSnapshot
  <2>1. m.type = "BOOK_SNAPSHOT" /\ book'[p] = ApplySnapshot(b, m)
    BY <1>0, <1>2 DEF HandleSnapshot, Trustworthy, TypeOK
  <2>2. /\ book'[p].synced /\ book'[p].exact /\ book'[p].whole
        /\ book'[p].levels = c /\ book'[p].age = m.age
        /\ book'[p].sequence = IF Numbered(p[1]) THEN c ELSE None
    BY <1>0, <2>1 DEF ApplySnapshot
  <2>3. SuccessorWithin(p, c, m.age)
    BY <1>1, <2>1
    <2> QED
    BY <1>0, <1>1, <2>2, <2>3 DEF SoundBook, At, SuccessorWithin, Numbered, Deep, None
<1>3. CASE HandleDelta
  <2>1. PICK removes \in BOOLEAN :
            m.type = "BOOK_DELTA" /\ book'[p] = ApplyDelta(b, m, removes)
    BY <1>0, <1>3 DEF HandleDelta, Trustworthy, TypeOK
  <2>2. CASE ~b.synced
    BY <1>0, <2>1, <2>2 DEF ApplyDelta, SoundBook, At
  <2>3. CASE b.synced /\ AlreadyApplied(b, m)
    <3>1. book'[p] = b
      BY <2>1, <2>3 DEF ApplyDelta
    <3>2. Numbered(p[1]) /\ b.levels >= c
      BY <1>0, <2>3 DEF AlreadyApplied, Comparable, SoundBook, Book
    <3> QED
      BY <1>0, <3>1, <3>2 DEF SoundBook, At, SuccessorWithin, Numbered, Deep
  <2>4. CASE b.synced /\ ~AlreadyApplied(b, m) /\ Gap(b, m)
    <3>1. ~book'[p].synced
      BY <1>0, <2>1, <2>4 DEF ApplyDelta, Book
    <3> QED
      BY <3>1 DEF SoundBook, At
  <2>5. CASE b.synced /\ ~AlreadyApplied(b, m) /\ ~Gap(b, m)
    <3>1. book'[p] = Apply(b, m, removes)
      BY <2>1, <2>5 DEF ApplyDelta
    <3>2. /\ book'[p].levels = c /\ book'[p].age = m.age
          /\ book'[p].exact = (b.exact /\ b.levels = c - 1)
          /\ book'[p].whole = (b.whole /\ ~(removes /\ Deep(m.pair[1])))
          /\ book'[p].sequence = IF Numbered(p[1]) THEN c ELSE b.sequence
      BY <1>0, <3>1 DEF Apply, Book
    <3>3. b.levels = c - 1
      <4>1. CASE Numbered(p[1])
        <5>1. Comparable(b, m) /\ b.sequence = b.levels
          BY <1>0, <2>5, <4>1 DEF Comparable, SoundBook, None
        <5>2. Chained(m.pair[1])
          BY <1>0, <4>1 DEF Chained, Numbered
        <5> QED
          BY <2>5, <5>1, <5>2 DEF Gap
      <4>2. CASE ~Numbered(p[1])
        BY <1>1, <2>1, <2>5, <4>2 DEF At
      <4> QED
        BY <4>1, <4>2
    <3>4. SuccessorWithin(p, c, m.age)
      <4>1. ~(Numbered(p[1]) /\ At(p, c))
        BY <1>0, <2>5, <3>3 DEF At, Book
      <4> QED
        BY <1>1, <4>1
    <3>5. b.exact /\ (~Numbered(p[1]) => b.sequence = None)
      BY <1>0, <2>5 DEF SoundBook
    <3>6. c # 0 /\ c <= changes[p]
      BY <1>1, <2>1
    <3>7. SuccessorWithin(p, book'[p].levels, book'[p].age)
      BY <3>2, <3>4
    <3>8. Numbered(p[1])' <=> Numbered(p[1])
      BY <1>0 DEF Numbered
    <3>9. book'[p].exact /\ (book'[p].whole \/ Deep(p[1])) /\ (Deep(p[1])' <=> Deep(p[1]))
      <4>1. b.whole \/ Deep(p[1])
        BY <1>0, <2>5 DEF SoundBook
      <4> QED
        BY <1>0, <3>2, <3>3, <3>5, <4>1 DEF Deep
    <3>10. /\ book'[p].levels = c
           /\ book'[p].sequence = IF Numbered(p[1]) THEN c ELSE None
      BY <3>2, <3>5
    <3> HIDE DEF m, b
    <3> QED
      BY <1>0, <3>6, <3>7, <3>8, <3>9, <3>10 DEF SoundBook, At, SuccessorWithin
  <2> QED
    BY <2>2, <2>3, <2>4, <2>5
<1> QED
  BY <1>2, <1>3 DEF Handle, HandleConnected, HandleDisconnected, OfPair, BookType

\* Any other event leaves the book of p alone or takes it out.
LEMMA OtherSound ==
    ASSUME Trustworthy, Handle, NEW p \in Pairs, ~OfPair(Head(queue), p)
    PROVE  SoundBook(p)' /\ \A c : At(p, c) => At(p, c)'
<1>0. /\ SoundBook(p) /\ UNCHANGED <<adapter, changes, made>>
      /\ book \in [Pairs -> Book] /\ book[p] \in Book
  BY DEF Trustworthy, TypeOK, Sound, Handle, feedVars, venueVars
<1>1. book'[p] = book[p] \/ ~book'[p].synced
  <2>1. CASE HandleSnapshot
    BY <1>0, <2>1 DEF HandleSnapshot, OfPair, BookType
  <2>2. CASE HandleDelta
    BY <1>0, <2>2 DEF HandleDelta, OfPair, BookType
  <2>3. CASE HandleConnected
    BY <2>3 DEF HandleConnected
  <2>4. CASE HandleDisconnected
    <3>1. book' = Invalidated(Head(queue).venue)
      BY <2>4 DEF HandleDisconnected
    <3> QED
      BY <1>0, <3>1 DEF Invalidated, Book
  <2> QED
    BY <2>1, <2>2, <2>3, <2>4 DEF Handle
<1> QED
  BY <1>0, <1>1 DEF SoundBook, At, SuccessorWithin, Numbered, Deep

\* Handling an event keeps everything sound: what was heard with it is heard.
LEMMA HandleSound ==
    ASSUME Trustworthy, Handle
    PROVE  Sound'
<1>0. /\ TypeOK /\ UNCHANGED <<adapter, link, due, sent, changes, made>>
      /\ Len(queue) \in Nat \ {0} /\ Len(queue') = Len(queue) - 1
      /\ Head(queue) = queue[1]
      /\ \A j \in 1..(Len(queue) - 1) : queue'[j] = queue[j + 1]
  BY DEF Trustworthy, TypeOK, Handle, feedVars, venueVars
<1>1. ASSUME NEW p \in Pairs, NEW c, NEW i \in 1..Len(queue), Heard(p, i, c)
      PROVE  Heard(p, i - 1, c)'
  <2>1. CASE \A k \in 1..i : ~OfPair(queue[k], p)
    <3>1. At(p, c) /\ ~OfPair(Head(queue), p)
      BY <1>0, <1>1, <2>1 DEF Heard
    <3>2. At(p, c)'
      BY <3>1, OtherSound
    <3>3. \A k \in 1..(i - 1) : ~OfPair(queue'[k], p)
      BY <1>0, <2>1
    <3> QED
      BY <3>2, <3>3 DEF Heard
  <2>2. CASE ~ \A k \in 1..i : ~OfPair(queue[k], p)
    <3> PICK j \in 1..i : /\ OfPair(queue[j], p) /\ queue[j].change = c
                          /\ \A k \in (j + 1)..i : ~OfPair(queue[k], p)
      BY <1>1, <2>2 DEF Heard
    <3>1. ASSUME NEW k \in j..(i - 1) PROVE ~OfPair(queue'[k], p)
      <4>1. k + 1 \in (j + 1)..i /\ k \in 1..(Len(queue) - 1)
        BY <1>0
      <4> QED
        BY <1>0, <4>1
    <3>2. CASE j = 1
      <4>1. At(p, c)'
        BY <1>0, <3>2, ApplySound
      <4>2. \A k \in 1..(i - 1) : ~OfPair(queue'[k], p)
        BY <3>1, <3>2
      <4> QED
        BY <4>1, <4>2 DEF Heard
    <3>3. CASE j # 1
      <4>1. j - 1 \in 1..(i - 1) /\ queue'[j - 1] = queue[j]
        BY <1>0, <3>3
      <4>2. \A k \in ((j - 1) + 1)..(i - 1) : ~OfPair(queue'[k], p)
        BY <3>1
      <4> QED
        BY <4>1, <4>2 DEF Heard
    <3> QED
      BY <3>2, <3>3
  <2> QED
    BY <2>1, <2>2
<1>2. \A p \in Pairs : Numbered(p[1])' <=> Numbered(p[1])
  BY <1>0 DEF Numbered
<1>3. ASSUME NEW p \in Pairs, NEW i \in 1..Len(queue') PROVE SoundMessage(p, i)'
  <2>1. SoundMessage(p, i + 1) /\ queue'[i] = queue[i + 1] /\ i \in 1..Len(queue)
        /\ (i + 1) - 1 = i
    BY <1>0 DEF Trustworthy, Sound
  <2>2. \A c : Heard(p, i, c) => Heard(p, i - 1, c)'
    BY <1>1, <2>1
  <2> QED
    BY <1>0, <1>2, <2>1, <2>2 DEF SoundMessage, SuccessorWithin
<1>4. ASSUME NEW p \in Pairs PROVE SoundFeed(p)'
  <2>1. SoundFeed(p)
    BY DEF Trustworthy, Sound
  <2>2. ASSUME NEW c, Heard(p, Len(queue), c) PROVE Heard(p, Len(queue), c)'
    <3> PICK n \in 1..Len(queue) : n = Len(queue)
      BY <1>0
    <3>1. Heard(p, n - 1, c)'
      BY <1>1, <2>2
    <3>2. Len(queue') = n - 1
      BY <1>0
    <3> QED
      BY <3>1, <3>2
  <2> QED
    BY <1>0, <1>2, <2>1, <2>2 DEF SoundFeed
<1>5. \A p \in Pairs : SoundBook(p)'
  BY ApplySound, OtherSound
<1> QED
  BY <1>3, <1>4, <1>5 DEF Sound

\* A tick ages the change that is missing with the book that misses it.
LEMMA TickSound ==
    ASSUME Trustworthy, Tick
    PROVE  Sound'
<1>0. /\ TypeOK /\ TypeOK' /\ UNCHANGED <<adapter, link, due, sent, changes>>
      /\ changes \in [Pairs -> 0..MaxChanges]
      /\ made \in [Pairs -> [1..MaxChanges -> Age]]
      /\ book \in [Pairs -> Book]
      /\ Len(queue) \in Nat /\ Len(queue') = Len(queue)
  BY TickType DEF Trustworthy, TypeOK, Tick, feedVars
<1>1. ASSUME NEW p \in Pairs, NEW n \in Nat, NEW a \in Age, SuccessorWithin(p, n, a)
      PROVE  n < changes'[p] => made'[p][n + 1] <= Older(a)
  <2> SUFFICES ASSUME n < changes[p] PROVE made'[p][n + 1] <= Older(a)
    BY <1>0
  <2>1. n + 1 \in 1..MaxChanges /\ n + 1 <= changes[p]
    BY <1>0, FeedAssumption
  <2>2. made'[p][n + 1] = Older(made[p][n + 1])
    BY <1>0, <2>1 DEF Tick
  <2>3. made[p][n + 1] \in Age /\ made[p][n + 1] <= a
    BY <1>0, <1>1, <2>1 DEF SuccessorWithin
  <2> QED
    BY <2>2, <2>3, OlderMonotone
<1>2. ASSUME NEW p \in Pairs PROVE SoundBook(p)' /\ \A c : At(p, c)' <=> At(p, c)
  <2>1. book'[p] = [book[p] EXCEPT !.age = Older(@)] /\ book[p] \in Book
    BY <1>0 DEF Tick
  <2>2. /\ book'[p].synced = book[p].synced /\ book'[p].levels = book[p].levels
        /\ book'[p].exact = book[p].exact /\ book'[p].whole = book[p].whole
        /\ book'[p].sequence = book[p].sequence
        /\ book'[p].age = Older(book[p].age)
    BY <2>1 DEF Book
  <2>3. SoundBook(p) /\ book[p].levels \in Nat /\ book[p].age \in Age
    BY <2>1, FeedAssumption DEF Trustworthy, Sound, Book
  <2>4. SuccessorWithin(p, book[p].levels, book[p].age) =>
            SuccessorWithin(p, book[p].levels, book[p].age)'
    BY <1>1, <2>2, <2>3 DEF SuccessorWithin
  <2> QED
    BY <1>0, <2>2, <2>3, <2>4 DEF SoundBook, At, Numbered, Deep
<1>3. ASSUME NEW p \in Pairs, NEW i \in 1..Len(queue)
      PROVE  /\ OfPair(queue'[i], p) <=> OfPair(queue[i], p)
             /\ queue'[i].type = queue[i].type
             /\ OfPair(queue[i], p) =>
                 /\ queue'[i].change = queue[i].change
                 /\ SuccessorWithin(p, queue[i].change, queue[i].age) =>
                        SuccessorWithin(p, queue[i].change, queue[i].age)'
  <2>1. queue[i] \in Message \cup Status
    BY <1>0 DEF TypeOK
  <2>2. CASE queue[i].type \in BookType
    <3>1. queue[i] \in Message /\ queue'[i] = [queue[i] EXCEPT !.age = Older(@)]
      BY <2>1, <2>2, EventKinds DEF Tick, BookType
    <3>2. /\ queue'[i].type = queue[i].type /\ queue'[i].pair = queue[i].pair
          /\ queue'[i].change = queue[i].change /\ queue'[i].age = Older(queue[i].age)
          /\ queue[i].change \in Nat /\ queue[i].age \in Age
      BY <3>1, FeedAssumption DEF Message
    <3>3. SuccessorWithin(p, queue[i].change, queue[i].age) =>
              SuccessorWithin(p, queue[i].change, queue[i].age)'
      BY <1>1, <3>2 DEF SuccessorWithin
    <3> QED
      BY <3>2, <3>3 DEF OfPair
  <2>3. CASE queue[i].type \notin BookType
    BY <2>3 DEF Tick, BookType, OfPair
  <2> QED
    BY <2>2, <2>3
<1>4. \A p \in Pairs : changes[p] <= changes'[p]
  BY <1>0, FeedAssumption
<1> QED
  BY <1>0, <1>2, <1>3, <1>4, QuietSound

\* At first no book is synchronised and nothing is sent.
LEMMA InitSound == Init => Trustworthy
<1> SUFFICES ASSUME Init PROVE OnlyAsked /\ Sound
  BY InitType DEF Trustworthy
<1>1. OnlyAsked
  BY DEF Init, OnlyAsked
<1>2. ASSUME NEW p \in Pairs
      PROVE  /\ ~book[p].synced /\ sent[p] = 0 /\ changes[p] = 0
             /\ link[p[1]] = "down" /\ Len(queue) = 0
  BY DEF Init, NewBook, None, Pairs
<1>3. ASSUME NEW p \in Pairs, NEW i \in 1..Len(queue) PROVE FALSE
  BY <1>2
<1> QED
  BY <1>1, <1>2, <1>3 DEF Sound, SoundBook, SoundFeed, None

\* Every step keeps everything sound.
LEMMA StepSound == Trustworthy /\ [Next]_vars => Trustworthy'
<1> SUFFICES ASSUME Trustworthy, [Next]_vars PROVE Sound'
  BY StepType, AskedStep DEF Trustworthy
<1>1. CASE UNCHANGED vars
  BY <1>1 DEF vars, Trustworthy, Sound, SoundBook, SoundFeed, SoundMessage, Heard, At,
              SuccessorWithin, Numbered, Deep
<1> QED
  BY <1>1, VenueSound, AdapterSound, HandleSound, TickSound DEF Next

\* The levels of a book that TIDAL calls usable are those of one the venue had,
\* and its top where the feed shows no more levels than are kept; no change it
\* lacks is older than the limit: gaps, repeats, lost sessions, silent feeds, a
\* backlog on the bus and the cut to max_depth included (apply_snapshot,
\* apply_delta, _trim, _quality).
THEOREM UsableIsRecent == Spec => []UsableBookIsRecent
<1>1. Trustworthy => UsableBookIsRecent
  <2> SUFFICES ASSUME Trustworthy, NEW p \in Pairs, Usable(p)
               PROVE  /\ book[p].exact /\ (book[p].whole \/ Deep(p[1]))
                      /\ book[p].levels < changes[p] =>
                             made[p][book[p].levels + 1] <= DataAge
    BY DEF Trustworthy, UsableBookIsRecent
  <2>1. book[p].synced /\ ~(book[p].age > DataAge)
    BY DEF Usable, Quality
  <2>2. /\ book[p].exact /\ (book[p].whole \/ Deep(p[1]))
        /\ SuccessorWithin(p, book[p].levels, book[p].age)
    BY <2>1 DEF Trustworthy, Sound, SoundBook
  <2>3. book[p].age \in Age /\ book[p].levels \in 0..MaxChanges
        /\ changes[p] \in 0..MaxChanges
    BY DEF Trustworthy, TypeOK, Book
  <2>4. book[p].levels < changes[p] => made[p][book[p].levels + 1] \in Age
    <3> SUFFICES ASSUME book[p].levels < changes[p]
                 PROVE  made[p][book[p].levels + 1] \in Age
      OBVIOUS
    <3>1. book[p].levels + 1 \in 1..MaxChanges
      BY <2>3, FeedAssumption
    <3> QED
      BY <3>1 DEF Trustworthy, TypeOK
  <2> QED
    BY <2>1, <2>2, <2>3, <2>4, FeedAssumption DEF SuccessorWithin, Age
<1> QED
  BY <1>1, InitSound, StepSound, PTL DEF Spec
=============================================================================
