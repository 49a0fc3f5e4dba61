----------------------------- MODULE MarketFeed -----------------------------
(***************************************************************************)
(* Market data: from the venue, through its adapter and the event bus,     *)
(* into the local order book TIDAL keeps (venues/, agents/tidal/).         *)
(*                                                                         *)
(* A venue's book for a symbol is named by the number of changes made to   *)
(* it, and so is the content of a message: a snapshot is the book after    *)
(* change n, a delta is change n.  What TIDAL sees of that number depends  *)
(* on the adapter: the simulated and the binance feed number their         *)
(* messages and name the predecessor of a delta, the coinbase feed does    *)
(* neither.  Prices and sizes are left out, and a venue's own book is      *)
(* two-sided and not crossed.  TIDAL keeps max_depth levels a side: of a   *)
(* deeper book the rest is cut, and whether a delta removes one of the     *)
(* levels that are left is known when it is applied.  Trade prints only    *)
(* feed statistics and are left out.                                       *)
(*                                                                         *)
(* The clock counts in ticks; ages are kept instead of times and stop at   *)
(* the first value that is too old.                                        *)
(***************************************************************************)
EXTENDS Naturals, Sequences

CONSTANTS Venues, Symbols,
          Adapters,    \* the adapters a venue may be configured with
          DeepFeeds,   \* those that show more levels than book_depth_levels
          DataAge,     \* RiskLimits.max_data_age_ms
          MaxChanges,  \* bound: changes of a venue's book
          MaxQueue     \* bound: events on the bus that TIDAL has not handled

ADAPTERS == {"simulated", "binance_public", "coinbase_public"}

ASSUME FeedAssumption ==
    /\ Adapters \subseteq ADAPTERS /\ DeepFeeds \subseteq Adapters
    /\ DataAge \in Nat /\ MaxChanges \in Nat \ {0} /\ MaxQueue \in Nat \ {0}

VARIABLES
    adapter,    \* the adapter each venue is configured with
    link,       \* the adapter's session: "down", "up", or "silent"
    due,        \* the snapshots a new subscription still has to deliver
    sent,       \* the latest change each feed delivered, 0 for none
    changes,    \* the changes each venue made to each book
    made,       \* the age of each of them
    queue,      \* the bus: events published and not yet handled by TIDAL
    connected,  \* Tidal.connected; a venue without an entry counts as connected
    book        \* Tidal.books

feedVars == <<adapter, link, due, sent>>
sessionVars == <<adapter, link, due>>
venueVars == <<changes, made>>
tidalVars == <<connected, book>>
vars == <<adapter, link, due, sent, changes, made, queue, connected, book>>

Pairs == Venues \X Symbols
Age == 0..(DataAge + 1)
None == 0   \* no sequence number; the first change is number 1

Websocket(v) == adapter[v] # "simulated"
Numbered(v) == adapter[v] # "coinbase_public"
Chained(v) == adapter[v] # "coinbase_public"
Deep(v) == adapter[v] \in DeepFeeds

\* LocalOrderBook: levels is the number of the venue's book whose levels it has.
\* It is exact if none of them is out of date, which takes a change it missed,
\* and whole if they are the top of that book, with no level cut off before
\* that would have moved up since.
Book == [synced : BOOLEAN, sequence : 0..MaxChanges, levels : 0..MaxChanges,
         exact : BOOLEAN, whole : BOOLEAN, age : Age]

NewBook == [synced |-> FALSE, sequence |-> None, levels |-> 0,
            exact |-> FALSE, whole |-> FALSE, age |-> DataAge + 1]

\* OrderBookSnapshot, BookDelta and VenueStatus, as events on the bus.
Message == [type : {"BOOK_SNAPSHOT", "BOOK_DELTA"}, pair : Pairs,
            change : 0..MaxChanges, age : Age]
Status == [type : {"VENUE_CONNECTED", "VENUE_DISCONNECTED"}, venue : Venues]

Snapshot(p, n) == [type |-> "BOOK_SNAPSHOT", pair |-> p, change |-> n, age |-> 0]
Delta(p, n) == [type |-> "BOOK_DELTA", pair |-> p, change |-> n, age |-> 0]
StatusOf(kind, v) == [type |-> kind, venue |-> v]

---------------------------------------------------------------------------
(* The venue and its adapter *)

CanPublish == Len(queue) < MaxQueue
Publish(m) == CanPublish /\ queue' = Append(queue, m)

\* The feed delivers a message about change n of a book.
Deliver(p, m) ==
    /\ Publish(m)
    /\ sent' = [sent EXCEPT ![p] = m.change]

\* The venue changes its book; the change is number changes[p] + 1.
Change(p) ==
    /\ changes[p] < MaxChanges
    /\ changes' = [changes EXCEPT ![p] = @ + 1]
    /\ made' = [made EXCEPT ![p][changes[p] + 1] = 0]

\* The adapter delivers the change as a delta.  A subscription delivers its
\* snapshot first.
DeliverDelta(p) ==
    /\ link[p[1]] = "up" /\ p \notin due
    /\ Change(p)
    /\ Deliver(p, Delta(p, changes[p] + 1))
    /\ UNCHANGED <<sessionVars, tidalVars>>

\* Nobody hears of the change: there is no session, or nothing comes through
\* it.
MissChange(p) ==
    /\ link[p[1]] # "up"
    /\ Change(p)
    /\ UNCHANGED <<feedVars, queue, tidalVars>>

\* The generator counts a step that leaves the book as it was, and delivers
\* nothing.
SkipChange(p) ==
    /\ ~Websocket(p[1]) /\ link[p[1]] = "up"
    /\ Change(p)
    /\ UNCHANGED <<feedVars, queue, tidalVars>>

\* Every so many steps the generator delivers the whole book instead.  At
\* the bound of changes the book stays and its snapshots go on.
DeliverSnapshot(p) ==
    /\ ~Websocket(p[1]) /\ link[p[1]] = "up"
    /\ IF changes[p] < MaxChanges
       THEN Change(p) /\ Deliver(p, Snapshot(p, changes[p] + 1))
       ELSE Deliver(p, Snapshot(p, changes[p])) /\ UNCHANGED venueVars
    /\ UNCHANGED <<sessionVars, tidalVars>>

\* The coinbase feed answers a subscription with the whole book.
AnswerSubscription(p) ==
    /\ p \in due /\ link[p[1]] = "up"
    /\ due' = due \ {p}
    /\ Deliver(p, Snapshot(p, changes[p]))
    /\ UNCHANGED <<adapter, link, venueVars, tidalVars>>

\* A numbered feed delivers its latest change again, with its number.
Repeat(p) ==
    /\ link[p[1]] = "up" /\ Numbered(p[1])
    /\ sent[p] # None
    /\ Publish(Delta(p, sent[p]))
    /\ UNCHANGED <<feedVars, venueVars, tidalVars>>

\* Mutant: the subscriptions are not sent again on a new session.
DueAfterConnect_none(v) == due

DueAfterConnect(v) ==
    due \cup (IF adapter[v] = "coinbase_public" THEN {v} \X Symbols ELSE {})

\* A session begins: subscribe, then report it.
Connect(v) ==
    /\ link[v] = "down"
    /\ link' = [link EXCEPT ![v] = "up"]
    /\ due' = DueAfterConnect(v)
    /\ Publish(StatusOf("VENUE_CONNECTED", v))
    /\ UNCHANGED <<adapter, sent, venueVars, tidalVars>>

\* A session ends, or an attempt to begin one fails: the adapter reports it
\* and tries again after its backoff.
EndSession(v) ==
    /\ link[v] = "down" => Websocket(v)
    /\ link' = [link EXCEPT ![v] = "down"]
    /\ due' = due \ ({v} \X Symbols)
    /\ Publish(StatusOf("VENUE_DISCONNECTED", v))
    /\ UNCHANGED <<adapter, sent, venueVars, tidalVars>>

\* The feed goes silent without a word.
FallSilent(v) ==
    /\ link[v] = "up"
    /\ link' = [link EXCEPT ![v] = "silent"]
    /\ UNCHANGED <<adapter, due, sent, venueVars, queue, tidalVars>>

\* A simulated feed can go on where it is; a websocket that was silent for
\* stale_after_s is given up, which is EndSession.
Resume(v) ==
    /\ link[v] = "silent" /\ ~Websocket(v)
    /\ link' = [link EXCEPT ![v] = "up"]
    /\ UNCHANGED <<adapter, due, sent, venueVars, queue, tidalVars>>

---------------------------------------------------------------------------
(* TIDAL *)

\* LocalOrderBook.apply_snapshot: _trim leaves the top of the snapshot.
ApplySnapshot(b, m) ==
    [synced |-> TRUE, exact |-> TRUE, whole |-> TRUE, levels |-> m.change, age |-> m.age,
     sequence |-> IF Numbered(m.pair[1]) THEN m.change ELSE None]

\* The update is numbered and so is the book.
Comparable(b, m) == Numbered(m.pair[1]) /\ b.sequence # None

\* A duplicate, or an update that arrives late.
AlreadyApplied(b, m) == Comparable(b, m) /\ m.change <= b.sequence

\* The update follows one the book has not seen.
Gap(b, m) ==
    Comparable(b, m) /\ Chained(m.pair[1]) /\ m.change - 1 # b.sequence

\* The levels of the delta are set whatever they were, or removed; in the place
\* of one that is removed belongs one that _trim had cut off.
Apply(b, m, removes) ==
    [b EXCEPT !.levels = m.change,
              !.exact = @ /\ b.levels = m.change - 1,
              !.whole = @ /\ ~(removes /\ Deep(m.pair[1])),
              !.sequence = IF Numbered(m.pair[1]) THEN m.change ELSE @,
              !.age = m.age]

\* LocalOrderBook.apply_delta, the error it raises handled by on_delta.
ApplyDelta(b, m, removes) ==
    IF ~b.synced \/ AlreadyApplied(b, m) THEN b
    ELSE IF Gap(b, m) THEN [b EXCEPT !.synced = FALSE]
    ELSE Apply(b, m, removes)

HandleSnapshot ==
    LET m == Head(queue)
    IN /\ m.type = "BOOK_SNAPSHOT"
       /\ book' = [book EXCEPT ![m.pair] = ApplySnapshot(@, m)]
       /\ UNCHANGED connected

HandleDelta ==
    LET m == Head(queue)
    IN /\ m.type = "BOOK_DELTA"
       /\ \E removes \in BOOLEAN :
             book' = [book EXCEPT ![m.pair] = ApplyDelta(@, m, removes)]
       /\ UNCHANGED connected

HandleConnected ==
    LET m == Head(queue)
    IN /\ m.type = "VENUE_CONNECTED"
       /\ connected' = [connected EXCEPT ![m.venue] = TRUE]
       /\ UNCHANGED book

\* Mutant: a disconnect leaves the books of the venue as they are.
Invalidated_kept(v) == book

\* LocalOrderBook.invalidate, for every book on the venue.
Invalidated(v) ==
    [p \in Pairs |-> IF p[1] = v THEN [book[p] EXCEPT !.synced = FALSE]
                                 ELSE book[p]]

HandleDisconnected ==
    LET m == Head(queue)
    IN /\ m.type = "VENUE_DISCONNECTED"
       /\ connected' = [connected EXCEPT ![m.venue] = FALSE]
       /\ book' = Invalidated(m.venue)

\* Tidal.on_event, for the next event on the bus.
Handle ==
    /\ queue # <<>>
    /\ queue' = Tail(queue)
    /\ \/ HandleSnapshot
       \/ HandleDelta
       \/ HandleConnected
       \/ HandleDisconnected
    /\ UNCHANGED <<feedVars, venueVars>>

\* Mutant: the age of the book is not looked at.
Quality_ageless(p) ==
    IF ~book[p].synced \/ ~connected[p[1]] THEN "UNAVAILABLE" ELSE "FRESH"

\* Tidal._quality; a STALE book is as unusable as a DEGRADED one.
Quality(p) ==
    IF ~book[p].synced \/ ~connected[p[1]] THEN "UNAVAILABLE"
    ELSE IF book[p].age > DataAge THEN "DEGRADED"
    ELSE "FRESH"

Usable(p) == Quality(p) = "FRESH"

---------------------------------------------------------------------------
(* The clock, and the specification *)

Older(a) == IF a > DataAge THEN a ELSE a + 1

Tick ==
    /\ made' = [p \in Pairs |-> [n \in 1..MaxChanges |->
                    IF n <= changes[p] THEN Older(made[p][n]) ELSE made[p][n]]]
    /\ book' = [p \in Pairs |-> [book[p] EXCEPT !.age = Older(@)]]
    /\ queue' = [i \in 1..Len(queue) |->
                    IF queue[i].type \in {"BOOK_SNAPSHOT", "BOOK_DELTA"}
                    THEN [queue[i] EXCEPT !.age = Older(@)]
                    ELSE queue[i]]
    /\ UNCHANGED <<feedVars, changes, connected>>

Init ==
    /\ adapter \in [Venues -> Adapters]
    /\ link = [v \in Venues |-> "down"]
    /\ due = {}
    /\ sent = [p \in Pairs |-> None]
    /\ changes = [p \in Pairs |-> 0]
    /\ made = [p \in Pairs |-> [n \in 1..MaxChanges |-> 0]]
    /\ queue = <<>>
    /\ connected = [v \in Venues |-> TRUE]
    /\ book = [p \in Pairs |-> NewBook]

VenueStep ==
    \E p \in Pairs :
        \/ DeliverDelta(p)
        \/ MissChange(p)
        \/ SkipChange(p)
        \/ DeliverSnapshot(p)
        \/ AnswerSubscription(p)
        \/ Repeat(p)

AdapterStep ==
    \E v \in Venues : Connect(v) \/ EndSession(v) \/ FallSilent(v) \/ Resume(v)

Next == VenueStep \/ AdapterStep \/ Handle \/ Tick

Spec == Init /\ [][Next]_vars

\* TIDAL handles what is published, and a feed that is up delivers its
\* snapshots: the generator counts its steps, the venue answers a
\* subscription.  Strong fairness because the bound on the queue can disable
\* them for a while.
Fairness ==
    /\ WF_vars(Handle)
    /\ \A p \in Pairs : /\ SF_vars(DeliverSnapshot(p))
                        /\ SF_vars(AnswerSubscription(p))

FairSpec == Spec /\ Fairness

---------------------------------------------------------------------------
(* Properties *)

\* The types of the variables of the feed and of the books TIDAL keeps.
TypeOK ==
    /\ adapter \in [Venues -> Adapters]
    /\ link \in [Venues -> {"down", "up", "silent"}]
    /\ due \subseteq Pairs
    /\ sent \in [Pairs -> 0..MaxChanges]
    /\ changes \in [Pairs -> 0..MaxChanges]
    /\ made \in [Pairs -> [1..MaxChanges -> Age]]
    /\ queue \in Seq(Message \cup Status) /\ Len(queue) <= MaxQueue
    /\ connected \in [Venues -> BOOLEAN]
    /\ book \in [Pairs -> Book]

\* The levels of a book TIDAL calls usable are levels of a book the venue
\* really had, and the first change it lacks is no older than max_data_age_ms:
\* neither a gap, nor a repeat, nor a lost session, nor a silent feed, nor a
\* backlog on the bus makes prices look current that are not (apply_delta,
\* _quality).  They are the top of that book, unless the feed shows more levels
\* than TIDAL keeps: once one of those goes, there may be a hole (_trim).
UsableBookIsRecent ==
    /\ TypeOK
    /\ \A p \in Pairs :
          Usable(p) =>
              /\ book[p].exact /\ (book[p].whole \/ Deep(p[1]))
              /\ book[p].levels < changes[p] =>
                     made[p][book[p].levels + 1] <= DataAge

Trusted(p) == book[p].synced /\ connected[p[1]]

\* Once a gap or a disconnect took a book out of the usable set, only a whole
\* snapshot of that book brings it back: not the next delta, not the message
\* that the venue is connected again (BookDelta, on_event).
OnlySnapshotsRevive ==
    [][ \A p \in Pairs :
            ~Trusted(p) /\ Trusted(p)' =>
                /\ Head(queue).type = "BOOK_SNAPSHOT"
                /\ Head(queue).pair = p ]_vars

\* A book that is out of the usable set while its feed is up gets its
\* snapshot and becomes synchronised, unless the feed fails again.
GapIsResynced ==
    \A p \in Pairs :
        (~book[p].synced /\ link[p[1]] = "up") ~>
            (book[p].synced \/ link[p[1]] # "up")
=============================================================================
