------------------------ MODULE TradingFloor_proofs ------------------------
(***************************************************************************)
(* Theorems about TradingFloor, for any symbols, venues, slots, number of  *)
(* exit attempts and triggers, and for either bus.                         *)
(*                                                                         *)
(* Whatever the loop does, a step does one of twelve things to the records *)
(* (StepShapes): most leave them alone, and the others mark them, move one *)
(* of them on or end it.  The parts of the invariant that speak of the     *)
(* records are shown against these.  Those that speak of the loop and the  *)
(* marks are shown against what a step does to the loop (LoopShapes), and  *)
(* what the bus in the process shows of the orders against what it does to *)
(* the mirror (MirrorShapes).                                              *)
(***************************************************************************)
EXTENDS TradingFloor, TLAPS

NoneWorks(r) == \A v \in Venues : order[r][v] = "none"

\* What is open is marked, and a mark is a record of its symbol.
MarksAgree ==
    /\ \A s \in Symbols : active[s] # None => SymbolOf(active[s]) = s
    /\ \A r \in Records : IsOpen(r) => Marked(r)

\* A mark that is not an open record's, and why it is there.
MarksEnd ==
    \A s \in Symbols :
        \/ active[s] = None \/ IsOpen(active[s])
        \/ active[s] = current \/ (phase = "seek" /\ active[s] \in todo)
        \/ failures > 0

\* What is still to be added is marked and not open.
Announced == phase = "seek" => \A r \in todo : ~IsOpen(r) /\ Marked(r)

\* The loop is done with the record it works on, and works on none early on.
AtWork ==
    /\ phase \in {"idle", "settle", "protect"} => current = None
    /\ current \notin todo

\* Only a record that is executing or exiting has live orders, and not while
\* it is at hand: its next orders are about to be sent.
OrdersInPlay ==
    DrainsComplete =>
        /\ strays = {}
        /\ \A r \in Records : state[r] \notin {"EXECUTING", "EXITING"} \/ current = r
                              => NoneWorks(r)

\* The bus in the process misses no live order.
MirrorTells ==
    DrainsComplete =>
        \A r \in Records, v \in Venues :
            /\ mirror[r][v] # "absent"
            /\ IsLive(r, v) => mirror[r][v] = "live"

\* An exit at hand is not one too many.
OnlyExitsCount ==
    \A r \in Records :
        /\ attempts[r] > 0 => state[r] = "EXITING"
        /\ Exiting(r) => MayRetry(r)

\* An entry owns its position once it traded: until then it may be closed as
\* one that never had any.
Owns(r, leg) ==
    /\ SymbolOf(r) = leg[1] /\ state[r] \in Manageable
    /\ state[r] = "EXECUTING" => filled[r] # {}
EveryLegOwned ==
    DrainsComplete => \A leg \in held \ released : \E r \in Records : Owns(r, leg)

FlattensPositions == phase = "flatten" => todo \subseteq InStates(Flattenable)

\* The one late entry there may be is the last: RUNE authorizes nothing after a
\* halt, and nothing is at hand that it authorized before.
HaltCloses ==
    /\ ~Halted => late = 0
    /\ late > 0 => late = 1 /\ \A r \in Records :
                                  current = r => state[r] \notin {"AUTHORIZED", "EXECUTING"}

Sane ==
    /\ TypeOK /\ MarksAgree /\ MarksEnd /\ Announced /\ AtWork
    /\ OrdersInPlay /\ MirrorTells /\ OnlyExitsCount /\ EveryLegOwned
    /\ FlattensPositions /\ HaltCloses

---------------------------------------------------------------------------
(* The shapes of a step *)

Untouched == UNCHANGED <<held, released, late>>

\* No order becomes live.
NothingRevives ==
    /\ order' \in [Records -> [Venues -> OrderState]]
    /\ \A r \in Records, v \in Venues : order[r][v] = "none" => order'[r][v] = "none"

\* The records stay as they are.
LeavesRecords ==
    /\ UNCHANGED <<state, filled, attempts, active, strays>> /\ Untouched
    /\ NothingRevives
    /\ current' \in {current, None}

\* A record comes to hand to retry its exit.
Returns(r) ==
    /\ state[r] = "EXITING" /\ MayRetry(r) /\ current = None /\ current' = r
    /\ DrainsComplete => NoneWorks(r)
    /\ UNCHANGED recordVars /\ UNCHANGED active /\ Untouched

\* A record goes from one stage to the next, and stays at hand or not.
Decision ==
    {<<"OPPORTUNITY_DETECTED", "AGENTS_EVALUATING">>,
     <<"AGENTS_EVALUATING", "CONSENSUS_REACHED">>,
     <<"CONSENSUS_REACHED", "RISK_CHECK">>, <<"RISK_CHECK", "AUTHORIZED">>,
     <<"AUTHORIZED", "EXECUTING">>, <<"HEDGING", "EXITING">>,
     <<"RECONCILING", "EXITING">>, <<"MONITORING", "EXITING">>}
Stage ==
    {<<"EXECUTING", "HEDGING">>, <<"HEDGING", "RECONCILING">>, <<"RECONCILING", "MONITORING">>}

Advances(r, to) ==
    /\ \/ <<state[r], to>> \in Decision /\ current' = r
       \/ <<state[r], to>> \in Stage /\ current' = None
    /\ current \in {None, r}
    /\ to = "AUTHORIZED" => ~Halted
    /\ to = "EXECUTING" => current = r
    /\ state[r] = "EXECUTING" => (DrainsComplete => NoneWorks(r))
    /\ state' = [state EXCEPT ![r] = to]
    /\ NothingRevives
    /\ UNCHANGED <<filled, attempts, active, strays>> /\ Untouched

\* A record without a position is rejected or closed.
Drops(r, to) ==
    /\ \/ /\ to = "REJECTED"
          /\ state[r] \in {"AGENTS_EVALUATING", "CONSENSUS_REACHED", "RISK_CHECK", "AUTHORIZED"}
       \/ /\ to = "CLOSED" /\ state[r] = "EXECUTING"
          /\ DrainsComplete => filled[r] = {} /\ NoneWorks(r)
    /\ Finish(r, to) /\ UNCHANGED active /\ Untouched

\* A record is closed, and what is left of its position is given up.
GivesUp(r) ==
    /\ state[r] = "EXITING" /\ (DrainsComplete => NoneWorks(r))
    /\ Finish(r, "CLOSED")
    /\ released' = released \cup Residual(r)
    /\ UNCHANGED <<active, held, late>>

\* An exit is attempted.
TriesExit(r) ==
    /\ Exiting(r) /\ current' = None
    /\ attempts' = [attempts EXCEPT ![r] = @ + 1]
    /\ order' \in [Records -> [Venues -> OrderState]]
    /\ \A q \in Records \ {r} : order'[q] = order[q]
    /\ strays' \subseteq Records \X Venues /\ (DrainsComplete => strays' = {})
    /\ UNCHANGED <<state, filled, active>> /\ Untouched

\* An entry is sent.
Sends(r) ==
    /\ Deciding(r, "EXECUTING") /\ current' = None
    /\ order' \in [Records -> [Venues -> OrderState]]
    /\ \A q \in Records \ {r} : order'[q] = order[q]
    /\ strays' \subseteq Records \X Venues /\ (DrainsComplete => strays' = {})
    /\ CountLate
    /\ UNCHANGED <<state, filled, attempts, active, held, released>>

Straying(r, v) == StrayTrades(r, v) \/ StraysEnd(r, v)

\* The states that are spelled by the actions are states of the table.
LEMMA StateNames ==
    /\ Finished \subseteq StrategyState /\ Manageable \subseteq StrategyState
    /\ Finished \cap Manageable = {}
    /\ \A step \in Stage \cup Decision : step[1] \in StrategyState /\ step[2] \in StrategyState
  BY DEF Finished, Manageable, Flattenable, StrategyState, Stage, Decision

\* A record is a symbol and a slot.
LEMMA RecordShape ==
    ASSUME NEW r \in Records
    PROVE  SymbolOf(r) \in Symbols /\ r # None
  BY DEF Records, SymbolOf, None

\* A bus that completes its drains does not fail.
LEMMA NoFailures ==
    ASSUME TypeOK, DrainsComplete
    PROVE  failures = 0 /\ ~(failures < MaxFailures)
  BY FloorAssumption DEF TypeOK

\* A record none of whose orders is live loses none when it drops its plan.
LEMMA NothingStrays ==
    ASSUME NEW r \in Records
    PROVE  /\ NoneWorks(r) => Strayed(r) = strays
           /\ strays \subseteq Records \X Venues => Strayed(r) \subseteq Records \X Venues
  BY DEF NoneWorks, Strayed, IsLive

\* Cancelling makes no order live.
LEMMA CancelMakesNothingLive ==
    ASSUME TypeOK, NEW venuesOf, CancelSome(venuesOf)
    PROVE  NothingRevives
<1>1. PICK chosen \in SUBSET {rv \in Records \X Venues : order[rv[1]][rv[2]] = "working"
                                                     /\ rv[2] \in venuesOf[rv[1]]} :
        order' = [r \in Records |-> [v \in Venues |->
                    IF <<r, v>> \in chosen THEN "cancelling" ELSE order[r][v]]]
  BY DEF CancelSome
<1>2. order' \in [Records -> [Venues -> OrderState]]
  BY <1>1 DEF TypeOK, OrderState
<1>3. ASSUME NEW r \in Records, NEW v \in Venues, order[r][v] = "none"
      PROVE  order'[r][v] = "none"
  BY <1>1, <1>3
<1> QED
  BY <1>2, <1>3 DEF NothingRevives

\* Orders that stay as they are.
LEMMA SameOrders ==
    ASSUME TypeOK, order' = order
    PROVE  NothingRevives
  BY DEF TypeOK, NothingRevives

\* Orders that are sent replace those of one record.
LEMMA SentOrders ==
    ASSUME TypeOK, NEW r \in Records, NEW venues, Execute(r, venues), DrainsComplete => NoneWorks(r),
           DrainsComplete => strays = {}
    PROVE  /\ order' \in [Records -> [Venues -> OrderState]]
           /\ \A q \in Records \ {r} : order'[q] = order[q]
           /\ strays' \subseteq Records \X Venues /\ (DrainsComplete => strays' = {})
  BY NothingStrays DEF Execute, TypeOK, OrderState

\* A submission that is broken off leaves the orders of the record alone.
LEMMA BrokenOff ==
    ASSUME TypeOK, NEW r \in Records, NEW venues \in SUBSET Venues, ExecuteFails(r, venues)
    PROVE  /\ order' \in [Records -> [Venues -> OrderState]]
           /\ \A q \in Records \ {r} : order'[q] = order[q]
           /\ strays' \subseteq Records \X Venues /\ (DrainsComplete => strays' = {})
           /\ UNCHANGED <<state, filled, active, held, released>> /\ current' = None
<1>1. ~DrainsComplete
  BY NoFailures DEF ExecuteFails, TickFails
<1> QED
  BY <1>1 DEF ExecuteFails, TickFails, TypeOK, bookVars

\* An exit is given up, or attempted.
LEMMA ExitShapes ==
    ASSUME Sane, NEW r \in Records, SubmitExit(r) \/ SubmitExitFails(r)
    PROVE  GivesUp(r) \/ TriesExit(r)
<1> USE DEF Sane
<1>0. state[r] = "EXITING" /\ current = r /\ (DrainsComplete => strays = {} /\ NoneWorks(r))
  BY DEF SubmitExit, SubmitExitFails, Exiting, OrdersInPlay
<1>1. CASE SubmitExit(r)
  <2>1. PICK quoted \in SUBSET Residual(r) :
          \/ /\ quoted = {}
             /\ Finish(r, "CLOSED")
             /\ released' = released \cup Residual(r)
          \/ /\ quoted # {}
             /\ \/ /\ attempts' = [attempts EXCEPT ![r] = AttemptsUnplanned(r)]
                   /\ UNCHANGED <<order, mirror, strays>>
                \/ /\ attempts' = [attempts EXCEPT ![r] = @ + 1]
                   /\ Execute(r, {leg[2] : leg \in quoted})
             /\ current' = None
             /\ UNCHANGED <<state, filled, released>>
    BY <1>1 DEF SubmitExit
  <2>2. UNCHANGED <<active, held, late>>
    BY <1>1 DEF SubmitExit
  <2>3. CASE quoted = {}
    BY <1>0, <2>1, <2>2, <2>3 DEF GivesUp
  <2>4. CASE quoted # {} /\ UNCHANGED <<order, mirror, strays>>
                         /\ attempts' = [attempts EXCEPT ![r] = AttemptsUnplanned(r)]
    BY <1>0, <2>1, <2>2, <2>4 DEF TriesExit, Exiting, AttemptsUnplanned, Untouched, TypeOK
  <2>5. CASE quoted # {} /\ Execute(r, {leg[2] : leg \in quoted})
                         /\ attempts' = [attempts EXCEPT ![r] = @ + 1]
    BY <1>0, <2>1, <2>2, <2>5, SentOrders DEF TriesExit, Exiting, Untouched
  <2> QED
    BY <2>1, <2>3, <2>4, <2>5
<1>2. CASE SubmitExitFails(r)
  <2>1. {leg[2] : leg \in Residual(r)} \in SUBSET Venues
    BY DEF Residual, Legs
  <2>2. ExecuteFails(r, {leg[2] : leg \in Residual(r)})
    BY <1>2 DEF SubmitExitFails
  <2> QED
    BY <1>0, <1>2, <2>1, <2>2, BrokenOff DEF SubmitExitFails, TriesExit, Exiting, Untouched
<1> QED
  BY <1>1, <1>2

\* An entry is sent, or part of it.
LEMMA EntryShapes ==
    ASSUME Sane, NEW r \in Records, SendEntry(r) \/ SendEntryFails(r)
    PROVE  Sends(r)
<1> USE DEF Sane
<1>1. Deciding(r, "EXECUTING") /\ CountLate /\ (DrainsComplete => strays = {} /\ NoneWorks(r))
  BY DEF SendEntry, SendEntryFails, Deciding, OrdersInPlay
<1>2. CASE SendEntry(r)
  BY <1>1, <1>2, SentOrders DEF SendEntry, Sends
<1>3. CASE SendEntryFails(r)
  BY <1>1, <1>3, BrokenOff DEF SendEntryFails, Sends
<1> QED
  BY <1>2, <1>3

\* No action does anything else to the records.
LEMMA StepShapes ==
    ASSUME Sane, [Next]_vars
    PROVE  \/ LeavesRecords \/ Detect
           \/ \E r \in Records :
                 \/ \E to \in StrategyState : Advances(r, to) \/ Drops(r, to)
                 \/ Returns(r) \/ GivesUp(r) \/ TriesExit(r) \/ Sends(r)
                 \/ AddOpportunity(r) \/ Release(r)
                 \/ \E v \in Venues : OrderTrades(r, v) \/ Straying(r, v)
<1> USE DEF Sane
<1>1. CASE Engage \/ Tick \/ PollFails \/ Settled \/ PublishFails \/ NothingToCancel
           \/ Flattened \/ BeginManage \/ EndTick \/ UNCHANGED vars
  <2>1. order' = order
    BY <1>1 DEF Engage, Tick, PollFails, Settled, PublishFails, NothingToCancel, Flattened,
         BeginManage, EndTick, recordVars, vars
  <2> QED
    BY <1>1, <2>1, SameOrders DEF LeavesRecords, Untouched, Engage, Tick, PollFails, Settled,
         PublishFails, TickFails, NothingToCancel, AfterCancel, Flattened, BeginManage,
         EndTick, recordVars, bookVars, loopVars, vars
<1>2. CASE CancelAll \/ CancelAllFails
  BY <1>2, CancelMakesNothingLive
     DEF LeavesRecords, Untouched, CancelAll, CancelAllFails, AfterCancel, TickFails, bookVars
<1>3. ASSUME NEW r \in Records,
             Defer(r) \/ AwaitOrders(r) \/ KeepPosition(r) \/ AwaitExit(r)
      PROVE  LeavesRecords
  <2>1. order' = order
    BY <1>3 DEF Defer, AwaitOrders, KeepPosition, AwaitExit, recordVars
  <2> QED
    BY <1>3, <2>1, SameOrders DEF LeavesRecords, Untouched, Defer, AwaitOrders, KeepPosition,
         AwaitExit, recordVars, bookVars, manageOthers
<1>4. ASSUME NEW r \in Records, CancelPlan(r) \/ CancelPlanFails(r) \/ LeavePositionFails(r)
      PROVE  LeavesRecords
  BY <1>4, CancelMakesNothingLive
     DEF LeavesRecords, Untouched, CancelPlan, CancelPlanFails, LeavePositionFails, TickFails,
         bookVars, manageOthers
<1>5. ASSUME NEW r \in Records, NEW v \in Venues, OrderEnds(r, v) \/ Deliver(r, v)
      PROVE  LeavesRecords
  <2>1. CASE OrderEnds(r, v)
    <3>1. order' = [order EXCEPT ![r] = [order[r] EXCEPT ![v] = "none"]]
      BY <2>1 DEF OrderEnds
    <3>2. NothingRevives
      BY <3>1 DEF TypeOK, OrderState, NothingRevives
    <3> QED
      BY <2>1, <3>2 DEF LeavesRecords, Untouched, OrderEnds, bookVars, loopVars
  <2>2. CASE Deliver(r, v)
    BY <2>2, SameOrders DEF LeavesRecords, Untouched, Deliver, recordVars, loopVars
  <2> QED
    BY <1>5, <2>1, <2>2
<1>6. ASSUME NEW r \in Records, AskAgents(r) \/ Settling(r) \/ FlattenRecord(r) \/ LeavePosition(r)
      PROVE  \E to \in StrategyState : Advances(r, to)
  <2>1. CASE AskAgents(r)
    BY <2>1, SameOrders DEF AskAgents, Deciding, Advances, Untouched, Decision, StrategyState,
         decisionOthers, loopVars
  <2>2. CASE Settling(r)
    BY <2>2, SameOrders DEF Settling, Managing, Visiting, Move, Advances, Untouched, Stage,
         StrategyState, manageOthers
  <2>3. CASE FlattenRecord(r)
    <3>1. state[r] \in Flattenable
      BY <2>3 DEF FlattenRecord, Visiting, FlattensPositions, InStates
    <3> QED
      BY <2>3, <3>1, SameOrders DEF FlattenRecord, Visiting, Move, Flattenable, Advances,
           Untouched, Decision, StrategyState
  <2>4. CASE LeavePosition(r)
    BY <2>4, CancelMakesNothingLive DEF LeavePosition, Managing, Visiting, Advances, Untouched,
         Decision, StrategyState, manageOthers
  <2> QED
    BY <1>6, <2>1, <2>2, <2>3, <2>4
<1>7. ASSUME NEW r \in Records, Decide(r) \/ SizeIntent(r) \/ RiskCheck(r) \/ PlanEntry(r)
      PROVE  \E to \in StrategyState : Advances(r, to) \/ Drops(r, to)
  <2>1. CASE Decide(r)
    BY <2>1, SameOrders DEF Decide, Evaluating, Visiting, Move, Advances, Drops, Untouched,
         Decision, StrategyState
  <2>2. CASE SizeIntent(r)
    BY <2>2, SameOrders DEF SizeIntent, Deciding, Move, Advances, Drops, Untouched, Decision,
         StrategyState, decisionOthers, loopVars
  <2>3. CASE RiskCheck(r)
    BY <2>3, SameOrders DEF RiskCheck, Deciding, Move, Authorizable, TradingAllowed, Halted,
         Advances, Drops, Untouched, Decision, StrategyState, decisionOthers, loopVars
  <2>4. CASE PlanEntry(r)
    BY <2>4, SameOrders DEF PlanEntry, Deciding, Move, Advances, Drops, Untouched, Decision,
         StrategyState, decisionOthers, loopVars
  <2> QED
    BY <1>7, <2>1, <2>2, <2>3, <2>4
<1>8. ASSUME NEW r \in Records, ~SomeLookLive(r), DrainsComplete
      PROVE  NoneWorks(r)
  BY <1>8 DEF SomeLookLive, LooksLive, IsLive, NoneWorks, MirrorTells
<1>9. ASSUME NEW r \in Records, AdvanceExecution(r)
      PROVE  \E to \in StrategyState : Advances(r, to) \/ Drops(r, to)
  <2>1. DrainsComplete /\ ~HasTraded(r) => filled[r] = {}
    BY DEF HasTraded, MirrorTells, TypeOK
  <2>2. ~SomeLookLive(r) /\ state[r] = "EXECUTING" /\ current = None
    BY <1>9 DEF AdvanceExecution, Managing, Visiting
  <2>3. CASE HasTraded(r)
    <3>1. Move(r, "HEDGING") /\ UNCHANGED current /\ UNCHANGED manageOthers
      BY <1>9, <2>3 DEF AdvanceExecution
    <3> QED
      BY <1>8, <2>2, <3>1, SameOrders DEF Move, Advances, Untouched, Stage, StrategyState,
           manageOthers
  <2>4. CASE ~HasTraded(r)
    <3>1. Finish(r, "CLOSED") /\ UNCHANGED manageOthers
      BY <1>9, <2>4 DEF AdvanceExecution
    <3> QED
      BY <1>8, <2>1, <2>2, <2>4, <3>1 DEF Drops, Untouched, StrategyState, manageOthers
  <2> QED
    BY <2>3, <2>4
<1>10. ASSUME NEW r \in Records, RetryExit(r)
       PROVE  Returns(r)
  BY <1>8, <1>10 DEF RetryExit, Returns, Managing, Visiting, Untouched, manageOthers
<1>11. ASSUME NEW r \in Records, CloseExit(r)
       PROVE  GivesUp(r)
  BY <1>8, <1>11 DEF CloseExit, GivesUp
<1> QED
  BY <1>1, <1>2, <1>3, <1>4, <1>5, <1>6, <1>7, <1>9, <1>10, <1>11, ExitShapes, EntryShapes
     DEF Next, Loop, Straying
---------------------------------------------------------------------------
(* What each shape preserves *)

OneLate ==
    late > 0 => late = 1 /\ \A r \in Records :
                               current = r => state[r] \notin {"AUTHORIZED", "EXECUTING"}

\* The records and the books: every conjunct that the shapes can disturb.
RecordsSane ==
    /\ state \in [Records -> StrategyState]
    /\ order \in [Records -> [Venues -> OrderState]]
    /\ filled \in [Records -> SUBSET Venues]
    /\ attempts \in [Records -> 0..MaxAttempts]
    /\ active \in [Symbols -> Records \cup {None}]
    /\ strays \subseteq Records \X Venues
    /\ held \subseteq Symbols \X Venues /\ released \subseteq held /\ late \in Nat
    /\ current \in Records \cup {None}
    /\ MarksAgree /\ OrdersInPlay /\ OnlyExitsCount /\ EveryLegOwned /\ OneLate

\* A step that leaves the records alone.
LEMMA LeavingSane ==
    ASSUME Sane, LeavesRecords
    PROVE  RecordsSane'
<1> USE DEF LeavesRecords, Untouched, Sane
<1>0. \A r \in Records : current' = r => current = r
  BY RecordShape
<1>1. MarksAgree'
  BY DEF MarksAgree, IsOpen, Marked
<1>2. OrdersInPlay' /\ OnlyExitsCount'
  BY <1>0 DEF OrdersInPlay, NoneWorks, NothingRevives, OnlyExitsCount, Exiting, MayRetry
<1>3. EveryLegOwned'
  BY DEF EveryLegOwned, Owns
<1>4. OneLate'
  BY <1>0 DEF OneLate, HaltCloses
<1> QED
  BY <1>1, <1>2, <1>3, <1>4 DEF RecordsSane, TypeOK, NothingRevives

\* A record whose exit is to be tried again.
LEMMA ReturningSane ==
    ASSUME Sane, NEW r \in Records, Returns(r)
    PROVE  RecordsSane'
<1> USE DEF Returns, Untouched, Sane, recordVars
<1>1. MarksAgree'
  BY DEF MarksAgree, IsOpen, Marked
<1>2. OrdersInPlay' /\ OnlyExitsCount'
  BY DEF OrdersInPlay, NoneWorks, OnlyExitsCount, Exiting, MayRetry
<1>3. EveryLegOwned' /\ OneLate'
  BY DEF EveryLegOwned, Owns, OneLate, HaltCloses
<1> QED
  BY <1>1, <1>2, <1>3 DEF RecordsSane, TypeOK

\* A record that goes to the next stage.
LEMMA AdvancingSane ==
    ASSUME Sane, NEW r \in Records, NEW to \in StrategyState, Advances(r, to)
    PROVE  RecordsSane'
<1> USE DEF Sane
<1>1. /\ state' = [state EXCEPT ![r] = to] /\ NothingRevives
      /\ UNCHANGED <<filled, attempts, active, strays>> /\ Untouched
      /\ current \in {None, r} /\ current' \in {None, r}
  BY DEF Advances
<1>2. /\ state \in [Records -> StrategyState] /\ state' \in [Records -> StrategyState]
      /\ current' \in Records \cup {None}
  BY <1>1 DEF TypeOK
<1>3. MarksAgree'
  <2>1. \A q \in Records : IsOpen(q)' <=> IsOpen(q)
    BY <1>1, <1>2 DEF IsOpen, Finished, Advances, Stage, Decision
  <2> QED
    BY <1>1, <2>1 DEF MarksAgree, Marked, TypeOK
<1>4. OrdersInPlay'
  <2>1. DrainsComplete => NoneWorks(r)
    <3>1. state[r] \in {"EXECUTING"} \/ state[r] \notin {"EXECUTING", "EXITING"}
      BY DEF Advances, Stage, Decision
    <3> QED
      BY <3>1 DEF Advances, OrdersInPlay
  <2>2. ASSUME DrainsComplete, NEW q \in Records, q # r,
               (state[q] \notin {"EXECUTING", "EXITING"} \/ current = q)'
        PROVE  NoneWorks(q)
    BY <1>1, <1>2, <2>2, RecordShape DEF OrdersInPlay
  <2>3. \A q \in Records : NoneWorks(q) => NoneWorks(q)'
    BY <1>1 DEF NoneWorks, NothingRevives
  <2> QED
    BY <1>1, <2>1, <2>2, <2>3 DEF OrdersInPlay
<1>5. OnlyExitsCount'
  <2>1. attempts[r] = 0
    BY DEF OnlyExitsCount, Advances, Stage, Decision, TypeOK
  <2>2. ASSUME NEW q \in Records
        PROVE  (attempts[q] > 0 => state[q] = "EXITING")' /\ (Exiting(q) => MayRetry(q))'
    <3>1. CASE q = r
      BY <1>1, <2>1, <3>1, FloorAssumption DEF Exiting, MayRetry
    <3>2. CASE q # r
      <4>1. attempts'[q] = attempts[q] /\ state'[q] = state[q] /\ current' # q
        BY <1>1, <1>2, <3>2, RecordShape
      <4> QED
        BY <4>1 DEF OnlyExitsCount, Exiting
    <3> QED
      BY <3>1, <3>2
  <2> QED
    BY <2>2 DEF OnlyExitsCount
<1>6. EveryLegOwned'
  <2>1. \A q \in Records, leg \in held : Owns(q, leg) => Owns(q, leg)'
    BY <1>1, <1>2 DEF Owns, Manageable, Flattenable, Advances, Stage, Decision
  <2> QED
    BY <1>1, <2>1 DEF EveryLegOwned, Untouched
<1>7. OneLate'
  <2>1. late > 0 => late = 1 /\ Halted
    BY DEF HaltCloses, TypeOK
  <2>2. late > 0 => to # "AUTHORIZED" /\ to # "EXECUTING"
    BY <2>1 DEF HaltCloses, Advances, Stage, Decision
  <2> QED
    BY <1>1, <1>2, <2>1, <2>2, RecordShape DEF OneLate, Untouched
<1> QED
  BY <1>1, <1>2, <1>3, <1>4, <1>5, <1>6, <1>7 DEF RecordsSane, TypeOK, NothingRevives, Untouched

\* What finishing a record does to the marks and to its orders.
LEMMA FinishSane ==
    ASSUME Sane, NEW r \in Records, NEW to \in {"CLOSED", "REJECTED"},
           DrainsComplete => NoneWorks(r), Finish(r, to), active' = active, late' = late
    PROVE  /\ state' \in [Records -> StrategyState]
           /\ order' \in [Records -> [Venues -> OrderState]]
           /\ filled' \in [Records -> SUBSET Venues]
           /\ attempts' \in [Records -> 0..MaxAttempts]
           /\ strays' \subseteq Records \X Venues /\ current' = r
           /\ \A q \in Records \ {r} : state'[q] = state[q] /\ filled'[q] = filled[q]
           /\ MarksAgree' /\ OrdersInPlay' /\ OnlyExitsCount' /\ OneLate'
<1> USE DEF Sane
<1>1. /\ state' = [state EXCEPT ![r] = to]
      /\ order' = [order EXCEPT ![r] = NoneLive]
      /\ filled' = [filled EXCEPT ![r] = {}]
      /\ attempts' = [attempts EXCEPT ![r] = 0]
      /\ strays' = Strayed(r) /\ current' = r
  BY DEF Finish
<1>2. /\ state' \in [Records -> StrategyState] /\ filled' \in [Records -> SUBSET Venues]
      /\ order' \in [Records -> [Venues -> OrderState]]
      /\ attempts' \in [Records -> 0..MaxAttempts]
      /\ strays' \subseteq Records \X Venues
  <2>1. state' \in [Records -> StrategyState] /\ filled' \in [Records -> SUBSET Venues]
    BY <1>1 DEF TypeOK, StrategyState
  <2>2. order' \in [Records -> [Venues -> OrderState]]
    BY <1>1 DEF TypeOK, NoneLive, OrderState
  <2>3. attempts' \in [Records -> 0..MaxAttempts]
    BY <1>1, FloorAssumption DEF TypeOK
  <2>4. strays' \subseteq Records \X Venues
    BY <1>1, NothingStrays DEF TypeOK
  <2> QED
    BY <2>1, <2>2, <2>3, <2>4
<1>3. \A q \in Records \ {r} : state'[q] = state[q] /\ filled'[q] = filled[q]
  BY <1>1 DEF TypeOK
<1>4. MarksAgree'
  <2>1. \A q \in Records : IsOpen(q)' => IsOpen(q)
    BY <1>1 DEF IsOpen, Finished, TypeOK
  <2> QED
    BY <2>1 DEF MarksAgree, Marked
<1>5. OrdersInPlay'
  <2>1. NoneWorks(r)'
    BY <1>1 DEF NoneWorks, NoneLive, TypeOK
  <2>2. \A q \in Records \ {r} : NoneWorks(q) => NoneWorks(q)'
    BY <1>1 DEF NoneWorks, TypeOK
  <2>3. DrainsComplete => strays' = {}
    BY <1>1, NothingStrays DEF OrdersInPlay
  <2> QED
    BY <1>1, <1>3, <2>1, <2>2, <2>3 DEF OrdersInPlay
<1>6. OnlyExitsCount'
  <2>1. attempts'[r] = 0 /\ state'[r] # "EXITING"
    BY <1>1 DEF TypeOK
  <2>2. \A q \in Records \ {r} : attempts'[q] = attempts[q] /\ current' # q
    BY <1>1 DEF TypeOK
  <2> QED
    BY <1>3, <2>1, <2>2 DEF OnlyExitsCount, Exiting
<1>7. OneLate'
  BY <1>1, <1>2 DEF OneLate, HaltCloses, TypeOK
<1> QED
  BY <1>1, <1>2, <1>3, <1>4, <1>5, <1>6, <1>7

\* A record that is dropped owned nothing.
LEMMA DroppingSane ==
    ASSUME Sane, NEW r \in Records, NEW to \in StrategyState, Drops(r, to)
    PROVE  RecordsSane'
<1> USE DEF Sane
<1>1. /\ DrainsComplete => NoneWorks(r)
      /\ Finish(r, to) /\ to \in {"CLOSED", "REJECTED"} /\ active' = active /\ Untouched
      /\ late' = late
  BY DEF Drops, OrdersInPlay, Untouched
<1>2. EveryLegOwned'
  <2>1. ASSUME DrainsComplete, NEW q \in Records, NEW leg \in held, Owns(q, leg)
        PROVE  Owns(q, leg)'
    <3>1. q # r
      BY <2>1 DEF Drops, Owns, Manageable, Flattenable
    <3>2. state'[q] = state[q] /\ filled'[q] = filled[q]
      BY <1>1, <3>1, FinishSane
    <3> QED
      BY <2>1, <3>2 DEF Owns
  <2> QED
    BY <1>1, <2>1 DEF EveryLegOwned, Untouched
<1> QED
  BY <1>1, <1>2, FinishSane DEF RecordsSane, TypeOK, Untouched

\* A record that is closed gives up what is left of its position.
LEMMA GivingUpSane ==
    ASSUME Sane, NEW r \in Records, GivesUp(r)
    PROVE  RecordsSane'
<1> USE DEF Sane
<1>1. /\ DrainsComplete => NoneWorks(r)
      /\ Finish(r, "CLOSED") /\ active' = active /\ held' = held /\ late' = late
      /\ released' = released \cup Residual(r)
  BY DEF GivesUp
<1>2. released' \subseteq held'
  BY <1>1 DEF TypeOK, Residual
<1>3. EveryLegOwned'
  <2>1. ASSUME NEW q \in Records, NEW leg \in held' \ released', Owns(q, leg)
        PROVE  Owns(q, leg)'
    <3>1. leg[1] \in Symbols /\ leg[2] \in Venues /\ leg = <<leg[1], leg[2]>>
      BY <1>1 DEF TypeOK
    <3>2. q # r
      BY <1>1, <2>1, <3>1 DEF Owns, Residual, Legs
    <3>3. state'[q] = state[q] /\ filled'[q] = filled[q]
      BY <1>1, <3>2, FinishSane
    <3> QED
      BY <2>1, <3>3 DEF Owns
  <2>2. held' \ released' \subseteq held \ released
    BY <1>1
  <2> QED
    BY <2>1, <2>2 DEF EveryLegOwned
<1> QED
  BY <1>1, <1>2, <1>3, FinishSane DEF RecordsSane, TypeOK

\* Orders that are sent for a record leave the others' as they were.
LEMMA OthersQuiet ==
    ASSUME Sane, NEW r \in Records, current' = None, state' = state,
           \A q \in Records \ {r} : order'[q] = order[q],
           state[r] \in {"EXECUTING", "EXITING"}, DrainsComplete => strays' = {}
    PROVE  OrdersInPlay'
  BY RecordShape DEF Sane, OrdersInPlay, NoneWorks

\* An exit that is attempted keeps the record the owner of its position.
LEMMA TryingSane ==
    ASSUME Sane, NEW r \in Records, TriesExit(r)
    PROVE  RecordsSane'
<1> USE DEF Sane
<1>1. /\ state[r] = "EXITING" /\ current = r /\ current' = None
      /\ attempts' = [attempts EXCEPT ![r] = @ + 1]
      /\ order' \in [Records -> [Venues -> OrderState]]
      /\ \A q \in Records \ {r} : order'[q] = order[q]
      /\ strays' \subseteq Records \X Venues /\ (DrainsComplete => strays' = {})
      /\ UNCHANGED <<state, filled, active>> /\ Untouched
  BY DEF TriesExit, Exiting
<1>2. attempts' \in [Records -> 0..MaxAttempts]
  <2>1. attempts[r] + 1 \in 0..MaxAttempts
    BY <1>1, FloorAssumption DEF TypeOK, OnlyExitsCount, Exiting, MayRetry
  <2> QED
    BY <1>1, <2>1 DEF TypeOK
<1>3. MarksAgree'
  BY <1>1 DEF MarksAgree, IsOpen, Marked
<1>4. OrdersInPlay'
  BY <1>1, OthersQuiet
<1>5. OnlyExitsCount'
  BY <1>1, RecordShape DEF OnlyExitsCount, Exiting, TypeOK
<1>6. EveryLegOwned' /\ OneLate'
  BY <1>1, RecordShape DEF EveryLegOwned, Owns, Untouched, OneLate, HaltCloses
<1> QED
  BY <1>1, <1>2, <1>3, <1>4, <1>5, <1>6 DEF RecordsSane, TypeOK, Untouched

\* An entry that is sent was the only one authorized.
LEMMA SendingSane ==
    ASSUME Sane, NEW r \in Records, Sends(r)
    PROVE  RecordsSane' /\ (~Halted => late' = 0)
<1> USE DEF Sane
<1>1. /\ state[r] = "EXECUTING" /\ current = r /\ current' = None
      /\ order' \in [Records -> [Venues -> OrderState]]
      /\ \A q \in Records \ {r} : order'[q] = order[q]
      /\ strays' \subseteq Records \X Venues /\ (DrainsComplete => strays' = {})
      /\ UNCHANGED <<state, filled, attempts, active, held, released>>
  BY DEF Sends, Deciding
<1>2. MarksAgree'
  BY <1>1 DEF MarksAgree, IsOpen, Marked
<1>3. OrdersInPlay'
  BY <1>1, OthersQuiet
<1>4. OnlyExitsCount' /\ EveryLegOwned'
  BY <1>1, RecordShape DEF OnlyExitsCount, Exiting, EveryLegOwned, Owns
<1>5. late = 0
  BY <1>1 DEF HaltCloses, TypeOK
<1>6. late' \in {0, 1} /\ (~Halted => late' = 0)
  BY <1>5 DEF Sends, CountLate
<1>7. OneLate'
  BY <1>1, <1>6, RecordShape DEF OneLate
<1> QED
  BY <1>1, <1>2, <1>3, <1>4, <1>6, <1>7 DEF RecordsSane, TypeOK

\* An order that trades belongs to a record that owns the leg, or nets it out.
LEMMA TradingSane ==
    ASSUME Sane, NEW r \in Records, NEW v \in Venues, OrderTrades(r, v)
    PROVE  RecordsSane'
<1> USE DEF Sane
<1> DEFINE leg == <<SymbolOf(r), v>>
<1>1. PICK st \in {"working", "none"} :
        /\ order' = [order EXCEPT ![r] = [order[r] EXCEPT ![v] = st]]
        /\ \/ /\ held' = held \cup {leg}
              /\ released' = (IF IsExit(r) THEN released ELSE released \ {leg})
           \/ held' = held \ {leg} /\ released' = released \ {leg}
  BY DEF OrderTrades
<1>2. /\ UNCHANGED <<state, attempts, active, strays, late, current>>
      /\ filled' = [filled EXCEPT ![r] = IF IsExit(r) THEN @ ELSE @ \cup {v}]
      /\ order[r][v] # "none"
  BY DEF OrderTrades, IsLive, loopVars
<1>3. DrainsComplete => state[r] \in {"EXECUTING", "EXITING"} /\ current # r
  BY <1>2 DEF OrdersInPlay, NoneWorks
<1>4. /\ order' \in [Records -> [Venues -> OrderState]]
      /\ filled' \in [Records -> SUBSET Venues]
      /\ held' \subseteq Symbols \X Venues /\ released' \subseteq held'
  <2>1. order' \in [Records -> [Venues -> OrderState]]
    BY <1>1 DEF TypeOK, OrderState
  <2>2. filled' \in [Records -> SUBSET Venues]
    BY <1>2 DEF TypeOK
  <2>3. leg \in Symbols \X Venues
    BY RecordShape
  <2>4. held' \subseteq Symbols \X Venues /\ released' \subseteq held'
    BY <1>1, <2>3 DEF TypeOK
  <2> QED
    BY <2>1, <2>2, <2>4
<1>5. MarksAgree' /\ OneLate'
  BY <1>2 DEF MarksAgree, IsOpen, Marked, OneLate, HaltCloses
<1>6. OrdersInPlay'
  <2>1. \A q \in Records \ {r} : order'[q] = order[q]
    BY <1>1 DEF TypeOK
  <2> QED
    BY <1>2, <1>3, <2>1 DEF OrdersInPlay, NoneWorks
<1>7. OnlyExitsCount'
  BY <1>2 DEF OnlyExitsCount, Exiting, MayRetry
<1>8. EveryLegOwned'
  <2>1. \A q \in Records : filled[q] \subseteq filled'[q]
    BY <1>2 DEF TypeOK
  <2>2. \A q \in Records, other \in held : Owns(q, other) => Owns(q, other)'
    BY <1>2, <2>1 DEF Owns
  <2>3. DrainsComplete =>
          \/ held' \ released' \subseteq held \ released
          \/ held' \ released' \subseteq (held \ released) \cup {leg} /\ Owns(r, leg)'
    <3>1. CASE IsExit(r)
      BY <1>1, <1>2, <1>3, <3>1 DEF Owns, Manageable, IsExit, OnlyExitsCount
    <3>2. CASE ~IsExit(r)
      BY <1>1, <1>2, <1>3, <3>2 DEF Owns, Manageable, TypeOK
    <3> QED
      BY <3>1, <3>2
  <2> QED
    BY <2>2, <2>3 DEF EveryLegOwned
<1> QED
  BY <1>2, <1>4, <1>5, <1>6, <1>7, <1>8 DEF RecordsSane, TypeOK

\* The bus in the process has no strays to trade.
LEMMA StrayingSane ==
    ASSUME Sane, NEW r \in Records, NEW v \in Venues, Straying(r, v)
    PROVE  RecordsSane' /\ late' = late
<1> USE DEF Sane
<1>1. ~DrainsComplete
  BY DEF Straying, StrayTrades, StraysEnd, OrdersInPlay
<1>2. UNCHANGED <<state, order, filled, attempts, active, late, current>>
  BY DEF Straying, StrayTrades, StraysEnd, recordVars, loopVars
<1>3. /\ strays' \subseteq Records \X Venues
      /\ held' \subseteq Symbols \X Venues /\ released' \subseteq held'
  <2>1. <<SymbolOf(r), v>> \in Symbols \X Venues
    BY RecordShape
  <2> QED
    BY <2>1 DEF Straying, StrayTrades, StraysEnd, recordVars, bookVars, TypeOK
<1>4. MarksAgree' /\ OneLate' /\ OnlyExitsCount'
  BY <1>2 DEF MarksAgree, IsOpen, Marked, OneLate, HaltCloses, OnlyExitsCount, Exiting, MayRetry
<1>5. OrdersInPlay' /\ EveryLegOwned'
  BY <1>1 DEF OrdersInPlay, EveryLegOwned
<1> QED
  BY <1>2, <1>3, <1>4, <1>5 DEF RecordsSane, TypeOK

\* What is added was marked before.
LEMMA AddingSane ==
    ASSUME Sane, NEW r \in Records, AddOpportunity(r)
    PROVE  RecordsSane' /\ late' = late
<1> USE DEF Sane
<1>1. /\ state' = [state EXCEPT ![r] = "OPPORTUNITY_DETECTED"] /\ current' = r
      /\ UNCHANGED <<order, filled, attempts, active, strays, held, released, late>>
      /\ ~IsOpen(r) /\ Marked(r) /\ current = None
  BY DEF AddOpportunity, Visiting, Move, Announced
<1>2. state' \in [Records -> StrategyState] /\ state[r] \in Finished
  BY <1>1 DEF TypeOK, StrategyState, IsOpen
<1>3. MarksAgree'
  <2>1. \A q \in Records : IsOpen(q)' => IsOpen(q) \/ q = r
    BY <1>1 DEF IsOpen, TypeOK
  <2> QED
    BY <1>1, <2>1 DEF MarksAgree, Marked
<1>4. OrdersInPlay' /\ OnlyExitsCount'
  BY <1>1, <1>2 DEF OrdersInPlay, NoneWorks, Finished, OnlyExitsCount, Exiting, TypeOK
<1>5. EveryLegOwned'
  <2>1. \A q \in Records, leg \in held : Owns(q, leg) => Owns(q, leg)'
    BY <1>1, <1>2 DEF Owns, Manageable, Flattenable, Finished
  <2> QED
    BY <1>1, <2>1 DEF EveryLegOwned
<1>6. OneLate'
  BY <1>1, <1>2 DEF OneLate, HaltCloses
<1> QED
  BY <1>1, <1>2, <1>3, <1>4, <1>5, <1>6 DEF RecordsSane, TypeOK

\* A finished record's mark is taken away, and no open one's.
LEMMA ReleasingSane ==
    ASSUME Sane, NEW r \in Records, Release(r)
    PROVE  RecordsSane' /\ late' = late
<1> USE DEF Sane
<1>1. /\ UNCHANGED <<state, order, filled, attempts, strays, held, released, late>>
      /\ current' = None /\ ~IsOpen(r) /\ active' = Released(r)
  BY DEF Release, recordVars, bookVars, IsOpen
<1>2. active' \in [Symbols -> Records \cup {None}]
  BY <1>1 DEF Released, TypeOK
<1>3. MarksAgree'
  <2>1. \A s \in Symbols : active'[s] # active[s] => active'[s] = None /\ active[s] = r
    BY <1>1, RecordShape DEF Released, TypeOK
  <2>2. ASSUME NEW q \in Records, IsOpen(q)
        PROVE  Marked(q)'
    BY <1>1, <2>1, <2>2, RecordShape DEF MarksAgree, Marked
  <2> QED
    BY <1>1, <2>1, <2>2 DEF MarksAgree, IsOpen
<1>4. OrdersInPlay' /\ OnlyExitsCount' /\ EveryLegOwned' /\ OneLate'
  BY <1>1, RecordShape DEF OrdersInPlay, NoneWorks, OnlyExitsCount, Exiting, EveryLegOwned,
       Owns, OneLate, HaltCloses
<1> QED
  BY <1>1, <1>2, <1>3, <1>4 DEF RecordsSane, TypeOK

\* A place is free where detection needs one.
LEMMA FreshIsFree ==
    ASSUME NEW s \in Symbols, FreeSlots(s) # {}
    PROVE  Fresh(s) \in Records /\ SymbolOf(Fresh(s)) = s /\ ~IsOpen(Fresh(s))
<1>1. Fresh(s) \in FreeSlots(s)
  BY DEF Fresh
<1> QED
  BY <1>1 DEF FreeSlots, Records, SymbolOf

\* What is detected is marked, on symbols that had nothing open.
LEMMA DetectingSane ==
    ASSUME Sane, Detect
    PROVE  /\ RecordsSane' /\ late' = late /\ state' = state
           /\ todo' \subseteq Records /\ \A r \in todo' : ~IsOpen(r) /\ Marked(r)'
           /\ \A s \in Symbols : active'[s] = active[s] \/ active'[s] \in todo'
<1> USE DEF Sane
<1>1. PICK found \in SUBSET Detectable :
        /\ active' = [s \in Symbols |-> IF s \in found THEN Fresh(s) ELSE active[s]]
        /\ todo' = {Fresh(s) : s \in found}
  BY DEF Detect
<1>2. UNCHANGED <<state, order, filled, attempts, strays, held, released, late, current>>
  BY DEF Detect, recordVars, bookVars
<1>3. \A s \in found : /\ s \in Symbols /\ active[s] = None
                       /\ Fresh(s) \in Records /\ SymbolOf(Fresh(s)) = s /\ ~IsOpen(Fresh(s))
  BY FreshIsFree DEF Detectable
<1>4. todo' \subseteq Records /\ active' \in [Symbols -> Records \cup {None}]
  BY <1>1, <1>3 DEF TypeOK
<1>5. MarksAgree'
  <2>1. \A s \in Symbols : active'[s] # None => SymbolOf(active'[s]) = s
    BY <1>1, <1>3 DEF MarksAgree
  <2>2. ASSUME NEW r \in Records, IsOpen(r)
        PROVE  Marked(r)'
    <3>1. active[SymbolOf(r)] = r /\ r # None /\ SymbolOf(r) \in Symbols
      BY <2>2, RecordShape DEF MarksAgree, Marked
    <3> QED
      BY <1>1, <1>3, <3>1 DEF Marked
  <2> QED
    BY <1>2, <2>1, <2>2 DEF MarksAgree, IsOpen
<1>6. OrdersInPlay' /\ OnlyExitsCount' /\ EveryLegOwned' /\ OneLate'
  BY <1>2 DEF OrdersInPlay, NoneWorks, OnlyExitsCount, Exiting, MayRetry, EveryLegOwned, Owns,
       OneLate, HaltCloses
<1>7. \A r \in todo' : ~IsOpen(r) /\ Marked(r)'
  BY <1>1, <1>3 DEF Marked
<1>8. \A s \in Symbols : active'[s] = active[s] \/ active'[s] \in todo'
  BY <1>1
<1> QED
  BY <1>2, <1>4, <1>5, <1>6, <1>7, <1>8 DEF RecordsSane, TypeOK

---------------------------------------------------------------------------
(* The loop, the switch and the mirror *)

\* What the loop and the switch have: every conjunct that is not RecordsSane's.
LoopSane ==
    /\ phase \in Phases /\ todo \subseteq Records /\ failures \in 0..MaxFailures
    /\ in_force \subseteq KillAction /\ executor_disabled \in BOOLEAN
    /\ MarksEnd /\ Announced /\ AtWork /\ FlattensPositions

Early == {"idle", "settle", "protect"}

\* A step of the API, of the bus or of the venue: the loop stays where it is.
Stays == UNCHANGED <<state, active, loopVars>>

\* The tick is abandoned, and there is nothing at hand unless a publication failed.
Breaks ==
    /\ UNCHANGED <<state, active>>
    /\ \E reason : TickFails(reason) /\ (reason => phase # "seek" /\ current = None)

\* The loop comes to its next part, with nothing at hand.
Enters ==
    /\ UNCHANGED <<state, active, current, failures>>
    /\ current = None /\ (phase = "seek" => todo = {})
    /\ phase' \in Phases \ {"seek"} /\ todo' \subseteq Records
    /\ phase' = "flatten" => todo' \subseteq InStates(Flattenable)

\* The loop works on r, and is done with it or keeps it at hand.
Handles(r) ==
    /\ UNCHANGED <<phase, failures, active>> /\ phase \notin Early
    /\ current \in {None, r} /\ current' \in {None, r}
    /\ todo' \in {todo, todo \ {r}} /\ r \notin todo'
    /\ \E to : /\ state' = [state EXCEPT ![r] = to]
               /\ to \notin Finished \/ current' = r

\* No action does anything else to the loop.
LEMMA LoopShapes ==
    ASSUME Sane, [Next]_vars
    PROVE  Stays \/ Breaks \/ Enters \/ Detect \/ \E r \in Records : Handles(r) \/ Release(r)
<1> USE DEF Sane
<1>0. state \in [Records -> StrategyState]
  BY DEF TypeOK
<1>1. CASE Engage \/ UNCHANGED vars
  BY <1>1 DEF Engage, Stays, recordVars, vars, loopVars
<1>2. ASSUME NEW r \in Records, NEW v \in Venues,
             \/ Deliver(r, v) \/ OrderTrades(r, v) \/ OrderEnds(r, v)
             \/ StrayTrades(r, v) \/ StraysEnd(r, v)
      PROVE  Stays
  BY <1>2 DEF Deliver, OrderTrades, OrderEnds, StrayTrades, StraysEnd, Stays, recordVars
<1>3. CASE PollFails \/ PublishFails \/ CancelAllFails
  <2>1. CASE PollFails
    BY <2>1 DEF PollFails, AtWork, Breaks, recordVars
  <2>2. CASE PublishFails
    BY <2>2 DEF PublishFails, Breaks, recordVars
  <2>3. CASE CancelAllFails
    BY <2>3 DEF CancelAllFails, AtWork, Breaks
  <2> QED
    BY <1>3, <2>1, <2>2, <2>3
<1>4. ASSUME NEW r \in Records,
             SubmitExitFails(r) \/ SendEntryFails(r) \/ CancelPlanFails(r) \/ LeavePositionFails(r)
      PROVE  Breaks
  <2>1. CASE SubmitExitFails(r) \/ SendEntryFails(r)
    BY <2>1 DEF SubmitExitFails, SendEntryFails, ExecuteFails, Breaks
  <2>2. CASE CancelPlanFails(r)
    BY <2>2 DEF CancelPlanFails, Visiting, Breaks
  <2>3. CASE LeavePositionFails(r)
    BY <2>3 DEF LeavePositionFails, Visiting, Breaks
  <2> QED
    BY <1>4, <2>1, <2>2, <2>3
<1>5. CASE Tick \/ Settled \/ Flattened \/ BeginManage \/ EndTick
  <2>1. InStates({"AGENTS_EVALUATING"}) \subseteq Records /\ InStates(Manageable) \subseteq Records
    BY DEF InStates
  <2> QED
    BY <1>5, <2>1 DEF Tick, Settled, Flattened, BeginManage, EndTick, Enters, AtWork, Phases,
         TypeOK, recordVars
<1>6. CASE CancelAll \/ NothingToCancel
  <2>1. InStates({"AGENTS_EVALUATING"}) \subseteq Records /\ InStates(Flattenable) \subseteq Records
    BY DEF InStates
  <2> QED
    BY <1>6, <2>1 DEF CancelAll, NothingToCancel, AfterCancel, Enters, AtWork, Phases, recordVars
<1>7. ASSUME NEW r \in Records,
             \/ Defer(r) \/ AwaitOrders(r) \/ CancelPlan(r) \/ KeepPosition(r)
             \/ AwaitExit(r) \/ RetryExit(r) \/ SendEntry(r)
      PROVE  Handles(r)
  <2>1. state' = [state EXCEPT ![r] = state[r]]
    BY <1>0, <1>7 DEF Defer, AwaitOrders, CancelPlan, KeepPosition, AwaitExit, RetryExit,
         SendEntry, recordVars
  <2>2. state[r] \notin Finished
    BY <1>7 DEF Defer, Evaluating, AwaitOrders, CancelPlan, KeepPosition, AwaitExit, RetryExit,
         SendEntry, Deciding, Finished
  <2> QED
    BY <1>7, <2>1, <2>2, RecordShape
       DEF Defer, Evaluating, AwaitOrders, CancelPlan, KeepPosition, AwaitExit, RetryExit,
           SendEntry, Deciding, Managing, Visiting, manageOthers, AtWork, Handles, Early
<1>8. ASSUME NEW r \in Records,
             FlattenRecord(r) \/ AddOpportunity(r) \/ Settling(r) \/ LeavePosition(r)
      PROVE  Handles(r)
  BY <1>8 DEF FlattenRecord, AddOpportunity, Settling, LeavePosition, Move, Managing, Visiting,
       manageOthers, Handles, Early, Finished
<1>9. ASSUME NEW r \in Records,
             AskAgents(r) \/ SizeIntent(r) \/ RiskCheck(r) \/ PlanEntry(r)
      PROVE  Handles(r)
  BY <1>9, RecordShape DEF AskAgents, SizeIntent, RiskCheck, PlanEntry, Deciding, Move, Finish,
       decisionOthers, loopVars, AtWork, Handles, Early, Finished
<1>10. ASSUME NEW r \in Records, Decide(r)
       PROVE  Handles(r)
  BY <1>10, RecordShape DEF Decide, Evaluating, Visiting, Move, Finish, AtWork, Handles, Early,
       Finished
<1>11. ASSUME NEW r \in Records, AdvanceExecution(r) \/ CloseExit(r)
       PROVE  Handles(r)
  BY <1>11 DEF AdvanceExecution, CloseExit, Managing, Visiting, Move, Finish, manageOthers,
       Handles, Early, Finished
<1>12. ASSUME NEW r \in Records, SubmitExit(r)
       PROVE  Handles(r)
  <2>1. \/ Finish(r, "CLOSED")
        \/ state' = [state EXCEPT ![r] = state[r]] /\ state[r] \notin Finished /\ current' = None
    BY <1>0, <1>12 DEF SubmitExit, Exiting, Finished
  <2> QED
    BY <1>12, <2>1, RecordShape DEF SubmitExit, Exiting, Finish, AtWork, Handles, Early
<1> QED
  BY <1>1, <1>2, <1>3, <1>4, <1>5, <1>6, <1>7, <1>8, <1>9, <1>10, <1>11, <1>12 DEF Next, Loop

\* Who is marked, and why: the conjuncts of LoopSane that a step of any part of
\* the loop can disturb.
LEMMA LoopStep ==
    ASSUME Sane, [Next]_vars
    PROVE  /\ phase' \in Phases /\ todo' \subseteq Records /\ failures' \in 0..MaxFailures
           /\ MarksEnd' /\ Announced' /\ AtWork' /\ FlattensPositions'
<1> USE DEF Sane
<1>0. /\ failures \in 0..MaxFailures /\ MaxFailures \in Nat /\ None \notin Records
      /\ todo \subseteq Records /\ phase \in Phases
      /\ state \in [Records -> StrategyState]
      /\ active \in [Symbols -> Records \cup {None}]
  BY RecordShape, FloorAssumption DEF TypeOK
<1>1. CASE Stays
  BY <1>0, <1>1 DEF Stays, loopVars, MarksEnd, Announced, Marked, AtWork, FlattensPositions,
       InStates, IsOpen
<1>2. CASE Breaks
  <2>1. PICK reason : TickFails(reason) /\ (reason => phase # "seek" /\ current = None)
    BY <1>2 DEF Breaks
  <2>2. failures' \in 0..MaxFailures
        /\ (failures' = 0 => failures = 0 /\ phase # "seek" /\ current = None)
    BY <1>0, <2>1 DEF TickFails
  <2>3. MarksEnd'
    BY <1>0, <1>2, <2>2 DEF Breaks, MarksEnd, IsOpen
  <2> QED
    BY <1>0, <2>1, <2>2, <2>3 DEF TickFails, Phases, Announced, AtWork, FlattensPositions
<1>3. CASE Enters
  <2>1. MarksEnd'
    BY <1>3 DEF Enters, MarksEnd, IsOpen
  <2>2. AtWork' /\ Announced'
    BY <1>0, <1>3 DEF Enters, AtWork, Announced
  <2>3. FlattensPositions'
    BY <1>3 DEF Enters, FlattensPositions, InStates
  <2> QED
    BY <1>0, <1>3, <2>1, <2>2, <2>3 DEF Enters
<1>4. CASE Detect
  <2>1. phase' = "seek" /\ current' = None /\ current = None /\ phase = "manage"
        /\ failures' = failures /\ state' = state
    BY <1>4, DetectingSane DEF Detect
  <2>2. todo' \subseteq Records /\ \A r \in todo' : ~IsOpen(r) /\ Marked(r)'
    BY <1>4, DetectingSane
  <2>3. \A s \in Symbols : active'[s] = active[s] \/ active'[s] \in todo'
    BY <1>4, DetectingSane
  <2>4. MarksEnd'
    BY <2>1, <2>3 DEF MarksEnd, IsOpen
  <2> QED
    BY <1>0, <2>1, <2>2, <2>4 DEF Phases, Announced, AtWork, FlattensPositions, IsOpen
<1>5. ASSUME NEW r \in Records, Handles(r)
      PROVE  /\ phase' \in Phases /\ todo' \subseteq Records /\ failures' \in 0..MaxFailures
             /\ MarksEnd' /\ Announced' /\ AtWork' /\ FlattensPositions'
  <2>1. PICK to : /\ state' = [state EXCEPT ![r] = to]
                  /\ to \notin Finished \/ current' = r
    BY <1>5 DEF Handles
  <2>2. /\ UNCHANGED <<phase, failures, active>> /\ phase \notin Early
        /\ current \in {None, r} /\ current' \in {None, r}
        /\ todo' \subseteq todo /\ todo \subseteq todo' \cup {r} /\ r \notin todo'
    BY <1>5 DEF Handles
  <2>3. \A q \in Records \ {r} : state'[q] = state[q]
    BY <1>0, <2>1
  <2>4. IsOpen(r)' \/ current' = r
    BY <1>0, <2>1 DEF IsOpen
  <2>5. MarksEnd'
    BY <1>0, <2>2, <2>3, <2>4 DEF MarksEnd, IsOpen
  <2>6. Announced' /\ AtWork'
    BY <1>0, <2>2, <2>3 DEF Announced, Marked, IsOpen, AtWork, Early
  <2>7. FlattensPositions'
    BY <1>0, <2>2, <2>3 DEF FlattensPositions, InStates
  <2> QED
    BY <1>0, <2>2, <2>5, <2>6, <2>7
<1>6. ASSUME NEW r \in Records, Release(r)
      PROVE  /\ phase' \in Phases /\ todo' \subseteq Records /\ failures' \in 0..MaxFailures
             /\ MarksEnd' /\ Announced' /\ AtWork' /\ FlattensPositions'
  <2>1. /\ UNCHANGED <<phase, todo, failures, state>>
        /\ current = r /\ current' = None /\ active' = Released(r)
    BY <1>6 DEF Release, recordVars
  <2>2. /\ \A s \in Symbols : active'[s] = None \/ (active'[s] = active[s] /\ active[s] # r)
        /\ \A q \in Records \ {r} : Marked(q) => Marked(q)'
    <3>1. \A s \in Symbols : active[s] = r => s = SymbolOf(r)
      BY <1>0 DEF MarksAgree
    <3> QED
      BY <1>0, <2>1, <3>1, RecordShape DEF Released, Marked
  <2>3. MarksEnd'
    BY <2>1, <2>2 DEF MarksEnd, IsOpen
  <2>4. Announced'
    BY <1>0, <2>1, <2>2 DEF Announced, AtWork, IsOpen
  <2> QED
    BY <1>0, <2>1, <2>3, <2>4 DEF AtWork, FlattensPositions, InStates
<1> QED
  BY <1>1, <1>2, <1>3, <1>4, <1>5, <1>6, LoopShapes

\* The API and the acknowledgements keep a halt in force.
LEMMA SwitchStep ==
    ASSUME Sane, [Next]_vars
    PROVE  in_force' \subseteq KillAction /\ executor_disabled' \in BOOLEAN /\ (Halted => Halted')
<1> USE DEF Sane, TypeOK
<1>1. CASE Engage
  <2>1. PICK actions \in ActionSets : in_force' = in_force \cup actions
    BY <1>1 DEF Engage
  <2> QED
    BY <1>1, <2>1, FloorAssumption DEF Engage, Halted
<1>2. CASE CancelAll \/ NothingToCancel \/ Flattened
  <2>1. in_force' \in {in_force, in_force \ {CANCEL}, in_force \ {FLATTEN}}
    BY <1>2 DEF CancelAll, NothingToCancel, Flattened
  <2>2. executor_disabled' \in BOOLEAN
    BY <1>2 DEF CancelAll, NothingToCancel, Flattened, AfterCancel
  <2> QED
    BY <2>1, <2>2 DEF Halted, HALT, CANCEL, FLATTEN
<1>3. CASE UNCHANGED switchVars
  BY <1>3 DEF switchVars, Halted
<1> QED
  <2>1. ASSUME NEW r \in Records,
               \/ Release(r) \/ SubmitExit(r) \/ SubmitExitFails(r) \/ FlattenRecord(r)
               \/ AddOpportunity(r) \/ AskAgents(r) \/ Defer(r) \/ Decide(r)
               \/ SizeIntent(r) \/ RiskCheck(r) \/ PlanEntry(r)
               \/ SendEntry(r) \/ SendEntryFails(r)
        PROVE  UNCHANGED switchVars
    BY <2>1 DEF Release, SubmitExit, SubmitExitFails, FlattenRecord, AddOpportunity, AskAgents,
         Defer, Decide, SizeIntent, RiskCheck, PlanEntry, SendEntry, SendEntryFails,
         ExecuteFails, decisionOthers
  <2>2. ASSUME NEW r \in Records,
               \/ AwaitOrders(r) \/ CancelPlan(r) \/ CancelPlanFails(r) \/ AdvanceExecution(r)
               \/ Settling(r) \/ KeepPosition(r) \/ LeavePosition(r) \/ LeavePositionFails(r)
               \/ AwaitExit(r) \/ RetryExit(r) \/ CloseExit(r)
        PROVE  UNCHANGED switchVars
    BY <2>2 DEF AwaitOrders, CancelPlan, CancelPlanFails, AdvanceExecution, Settling,
         KeepPosition, LeavePosition, LeavePositionFails, AwaitExit, RetryExit, CloseExit,
         manageOthers
  <2>3. ASSUME NEW r \in Records, NEW v \in Venues,
               \/ Deliver(r, v) \/ OrderTrades(r, v) \/ OrderEnds(r, v)
               \/ StrayTrades(r, v) \/ StraysEnd(r, v)
        PROVE  UNCHANGED switchVars
    BY <2>3 DEF Deliver, OrderTrades, OrderEnds, StrayTrades, StraysEnd
  <2>4. ASSUME Tick \/ PollFails \/ Settled \/ PublishFails \/ CancelAllFails
        PROVE  UNCHANGED switchVars
    BY <2>4 DEF Tick, PollFails, Settled, PublishFails, CancelAllFails
  <2>5. ASSUME BeginManage \/ Detect \/ EndTick \/ UNCHANGED vars
        PROVE  UNCHANGED switchVars
    BY <2>5 DEF BeginManage, Detect, EndTick, vars, switchVars
  <2> QED
    BY <1>1, <1>2, <1>3, <2>1, <2>2, <2>3, <2>4, <2>5 DEF Next, Loop

\* How the mirror and the orders move together.
Mirrors ==
    /\ mirror' \in {mirror, Drained}
    /\ NothingRevives

\* No action does anything else to the mirror of the bus in the process.
LEMMA MirrorShapes ==
    ASSUME Sane, [Next]_vars
    PROVE  \/ Mirrors
           \/ \E r \in Records : \/ Finish(r, "CLOSED") \/ Finish(r, "REJECTED")
                                 \/ \E venues : Execute(r, venues)
           \/ ~DrainsComplete /\ order' = order /\ mirror' \in [Records -> [Venues -> Mirrored]]
<1> USE DEF Sane
<1>0. mirror \in [Records -> [Venues -> Mirrored]]
  BY DEF TypeOK
<1>1. CASE Engage \/ Tick \/ PollFails \/ Settled \/ PublishFails \/ NothingToCancel
           \/ Flattened \/ BeginManage \/ EndTick \/ Detect \/ UNCHANGED vars
  <2>1. order' = order /\ mirror' \in {mirror, Drained}
    BY <1>1 DEF Engage, Tick, PollFails, Settled, PublishFails, NothingToCancel, Flattened,
         BeginManage, EndTick, Detect, recordVars, bookVars, vars
  <2> QED
    BY <2>1, SameOrders DEF Mirrors
<1>2. CASE CancelAll \/ CancelAllFails
  BY <1>2, CancelMakesNothingLive DEF Mirrors, CancelAll, CancelAllFails, bookVars
<1>3. ASSUME NEW r \in Records, CancelPlan(r) \/ CancelPlanFails(r)
                                \/ LeavePosition(r) \/ LeavePositionFails(r)
      PROVE  Mirrors
  BY <1>3, CancelMakesNothingLive
     DEF Mirrors, CancelPlan, CancelPlanFails, LeavePosition, LeavePositionFails, bookVars
<1>4. ASSUME NEW r \in Records,
             \/ Release(r) \/ FlattenRecord(r) \/ AddOpportunity(r) \/ AskAgents(r) \/ Defer(r)
             \/ AwaitOrders(r) \/ Settling(r) \/ KeepPosition(r) \/ AwaitExit(r) \/ RetryExit(r)
      PROVE  Mirrors
  <2>1. order' = order /\ mirror' \in {mirror, Drained}
    BY <1>4 DEF Release, FlattenRecord, AddOpportunity, AskAgents, Defer, AwaitOrders, Settling,
         KeepPosition, AwaitExit, RetryExit, Move, recordVars, bookVars
  <2> QED
    BY <2>1, SameOrders DEF Mirrors
<1>5. ASSUME NEW r \in Records,
             \/ Decide(r) \/ SizeIntent(r) \/ RiskCheck(r) \/ PlanEntry(r)
             \/ AdvanceExecution(r) \/ CloseExit(r)
      PROVE  Mirrors \/ Finish(r, "CLOSED") \/ Finish(r, "REJECTED")
  <2>1. \/ Finish(r, "CLOSED") \/ Finish(r, "REJECTED")
        \/ order' = order /\ mirror' = mirror
    BY <1>5 DEF Decide, SizeIntent, RiskCheck, PlanEntry, AdvanceExecution, CloseExit, Move
  <2> QED
    BY <2>1, SameOrders DEF Mirrors
<1>6. ASSUME NEW r \in Records, SubmitExit(r)
      PROVE  Mirrors \/ Finish(r, "CLOSED") \/ \E venues : Execute(r, venues)
  <2>1. \/ Finish(r, "CLOSED") \/ (\E venues : Execute(r, venues))
        \/ order' = order /\ mirror' = mirror
    BY <1>6 DEF SubmitExit
  <2> QED
    BY <2>1, SameOrders DEF Mirrors
<1>7. ASSUME NEW r \in Records, SendEntry(r)
      PROVE  \E venues : Execute(r, venues)
  BY <1>7 DEF SendEntry
<1>8. ASSUME NEW r \in Records, SubmitExitFails(r) \/ SendEntryFails(r)
      PROVE  Mirrors
  <2>1. order' = order /\ mirror' = mirror
    BY <1>8 DEF SubmitExitFails, SendEntryFails, ExecuteFails, bookVars
  <2> QED
    BY <2>1, SameOrders DEF Mirrors
<1>9. ASSUME NEW r \in Records, NEW v \in Venues, Deliver(r, v)
      PROVE  ~DrainsComplete /\ order' = order /\ mirror' \in [Records -> [Venues -> Mirrored]]
  <2>1. PICK news \in {"live", "finished"} :
          mirror' = [mirror EXCEPT ![r] = [mirror[r] EXCEPT ![v] = news]]
    BY <1>9 DEF Deliver
  <2>2. ~DrainsComplete /\ order' = order
    BY <1>9 DEF Deliver, recordVars
  <2> QED
    BY <1>0, <2>1, <2>2 DEF Mirrored
<1>10. ASSUME NEW r \in Records, NEW v \in Venues,
              OrderTrades(r, v) \/ OrderEnds(r, v) \/ StrayTrades(r, v) \/ StraysEnd(r, v)
       PROVE  Mirrors
  <2>1. mirror' = mirror
    BY <1>10 DEF OrderTrades, OrderEnds, StrayTrades, StraysEnd, bookVars
  <2>2. CASE OrderTrades(r, v) \/ OrderEnds(r, v)
    <3>1. PICK st \in {"working", "none"} :
            order' = [order EXCEPT ![r] = [order[r] EXCEPT ![v] = st]]
      BY <2>2 DEF OrderTrades, OrderEnds
    <3>2. order[r][v] # "none"
      BY <2>2 DEF OrderTrades, OrderEnds, IsLive
    <3> QED
      BY <2>1, <3>1, <3>2 DEF Mirrors, NothingRevives, TypeOK, OrderState
  <2>3. CASE StrayTrades(r, v) \/ StraysEnd(r, v)
    BY <2>1, <2>3, SameOrders DEF StrayTrades, StraysEnd, recordVars, Mirrors
  <2> QED
    BY <1>10, <2>2, <2>3
<1> QED
  BY <1>1, <1>2, <1>3, <1>4, <1>5, <1>6, <1>7, <1>8, <1>9, <1>10 DEF Next, Loop

\* The bus in the process shows every order that is live.
LEMMA MirrorStep ==
    ASSUME Sane, [Next]_vars
    PROVE  mirror' \in [Records -> [Venues -> Mirrored]] /\ MirrorTells'
<1> USE DEF Sane
<1>0. mirror \in [Records -> [Venues -> Mirrored]] /\ order \in [Records -> [Venues -> OrderState]]
  BY DEF TypeOK
<1>1. CASE Mirrors
  <2>1. CASE mirror' = mirror
    BY <1>0, <1>1, <2>1 DEF Mirrors, MirrorTells, NothingRevives, IsLive
  <2>2. CASE DrainsComplete /\ mirror' = UpToDate(order)
    <3>1. \A r \in Records, v \in Venues :
            mirror'[r][v] = IF order[r][v] = "none" THEN "finished" ELSE "live"
      BY <2>2 DEF UpToDate
    <3>2. mirror' \in [Records -> [Venues -> Mirrored]]
      BY <2>2 DEF UpToDate, Mirrored
    <3> QED
      BY <1>1, <3>1, <3>2 DEF Mirrors, NothingRevives, MirrorTells, IsLive
  <2> QED
    BY <1>1, <2>1, <2>2 DEF Mirrors, Drained
<1>2. ASSUME NEW r \in Records, NEW to, Finish(r, to)
      PROVE  mirror' \in [Records -> [Venues -> Mirrored]] /\ MirrorTells'
  <2>1. mirror' = [mirror EXCEPT ![r] = NoneMirrored] /\ order' = [order EXCEPT ![r] = NoneLive]
    BY <1>2 DEF Finish
  <2>2. mirror' \in [Records -> [Venues -> Mirrored]]
    BY <1>0, <2>1 DEF NoneMirrored, Mirrored
  <2>3. ASSUME DrainsComplete, NEW q \in Records, NEW v \in Venues
        PROVE  mirror'[q][v] # "absent" /\ (order'[q][v] # "none" => mirror'[q][v] = "live")
    BY <1>0, <2>1, <2>3 DEF NoneMirrored, NoneLive, MirrorTells, IsLive
  <2> QED
    BY <2>2, <2>3 DEF MirrorTells, IsLive
<1>3. ASSUME NEW r \in Records, NEW venues, Execute(r, venues)
      PROVE  mirror' \in [Records -> [Venues -> Mirrored]] /\ MirrorTells'
  <2>1. CASE DrainsComplete
    <3>1. mirror' = UpToDate(order')
      BY <1>3, <2>1 DEF Execute
    <3> QED
      BY <3>1 DEF UpToDate, Mirrored, MirrorTells, IsLive
  <2>2. CASE ~DrainsComplete
    <3>1. mirror' = [mirror EXCEPT ![r] = [v \in Venues |->
                          IF order'[r][v] = "none" THEN "finished" ELSE "absent"]]
      BY <1>3, <2>2 DEF Execute
    <3> QED
      BY <1>0, <2>2, <3>1 DEF Mirrored, MirrorTells
  <2> QED
    BY <2>1, <2>2
<1>4. CASE ~DrainsComplete /\ order' = order /\ mirror' \in [Records -> [Venues -> Mirrored]]
  BY <1>4 DEF MirrorTells
<1> QED
  BY <1>1, <1>2, <1>3, <1>4, MirrorShapes

---------------------------------------------------------------------------
(* The theorems *)

\* Every step keeps the invariant.
LEMMA StepSane ==
    ASSUME Sane, [Next]_vars
    PROVE  Sane'
<1>1. /\ phase' \in Phases /\ todo' \subseteq Records /\ failures' \in 0..MaxFailures
      /\ MarksEnd' /\ Announced' /\ AtWork' /\ FlattensPositions'
  BY LoopStep
<1>2. mirror' \in [Records -> [Venues -> Mirrored]] /\ MirrorTells'
  BY MirrorStep
<1>3. in_force' \subseteq KillAction /\ executor_disabled' \in BOOLEAN /\ (Halted => Halted')
  BY SwitchStep
<1>4. RecordsSane' /\ (~Halted => late' = 0)
  <2>1. late' = late => (~Halted => late' = 0)
    BY DEF Sane, HaltCloses
  <2>2. CASE LeavesRecords
    BY <2>1, <2>2, LeavingSane DEF LeavesRecords, Untouched
  <2>3. CASE Detect
    BY <2>1, <2>3, DetectingSane
  <2>4. ASSUME NEW r \in Records, NEW to \in StrategyState, Advances(r, to) \/ Drops(r, to)
        PROVE  RecordsSane' /\ (~Halted => late' = 0)
    BY <2>1, <2>4, AdvancingSane, DroppingSane DEF Advances, Drops, Untouched
  <2>5. ASSUME NEW r \in Records, Returns(r) \/ GivesUp(r) \/ TriesExit(r)
        PROVE  RecordsSane' /\ (~Halted => late' = 0)
    <3>1. late' = late
      BY <2>5 DEF Returns, GivesUp, TriesExit, Untouched
    <3> QED
      BY <2>1, <2>5, <3>1, ReturningSane, GivingUpSane, TryingSane
  <2>6. ASSUME NEW r \in Records, Sends(r)
        PROVE  RecordsSane' /\ (~Halted => late' = 0)
    BY <2>6, SendingSane
  <2>7. ASSUME NEW r \in Records, AddOpportunity(r) \/ Release(r)
        PROVE  RecordsSane' /\ (~Halted => late' = 0)
    BY <2>1, <2>7, AddingSane, ReleasingSane
  <2>8. ASSUME NEW r \in Records, NEW v \in Venues, OrderTrades(r, v) \/ Straying(r, v)
        PROVE  RecordsSane' /\ (~Halted => late' = 0)
    BY <2>1, <2>8, TradingSane, StrayingSane DEF OrderTrades
  <2> QED
    BY <2>2, <2>3, <2>4, <2>5, <2>6, <2>7, <2>8, StepShapes
<1>5. TypeOK'
  BY <1>1, <1>2, <1>3, <1>4 DEF RecordsSane, TypeOK
<1>6. HaltCloses'
  BY <1>3, <1>4 DEF RecordsSane, OneLate, HaltCloses
<1> QED
  BY <1>1, <1>2, <1>4, <1>5, <1>6 DEF RecordsSane, Sane

\* The floor starts with nothing open.
LEMMA InitSane == Init => Sane
<1> SUFFICES ASSUME Init
             PROVE  Sane
  OBVIOUS
<1> USE DEF Init
<1>1. TypeOK
  <2>1. attempts \in [Records -> 0..MaxAttempts] /\ failures \in 0..MaxFailures
    BY FloorAssumption
  <2>2. order \in [Records -> [Venues -> OrderState]]
        /\ mirror \in [Records -> [Venues -> Mirrored]]
    BY DEF NoneLive, OrderState, NoneMirrored, Mirrored
  <2> QED
    BY <2>1, <2>2 DEF TypeOK, StrategyState, Phases
<1>2. MarksAgree /\ MarksEnd /\ Announced /\ AtWork
  BY DEF MarksAgree, IsOpen, Finished, MarksEnd, Announced, AtWork
<1>3. OrdersInPlay /\ OnlyExitsCount
  BY DEF OrdersInPlay, NoneWorks, NoneLive, OnlyExitsCount, Exiting
<1>4. MirrorTells
  BY DEF MirrorTells, NoneMirrored, IsLive, NoneLive
<1>5. EveryLegOwned /\ FlattensPositions /\ HaltCloses
  BY DEF EveryLegOwned, FlattensPositions, HaltCloses
<1> QED
  BY <1>1, <1>2, <1>3, <1>4, <1>5 DEF Sane

\* The inductive invariant holds of every behaviour of the floor, over either
\* bus, whichever publications fail.
THEOREM AlwaysSane == Spec => []Sane
  BY InitSane, StepSane, PTL DEF Spec

\* Every variable keeps its type, and no exit is attempted more often than
\* max_exit_attempts.
THEOREM TypeCorrect == Spec => []TypeOK
<1>1. Sane => TypeOK
  BY DEF Sane
<1> QED
  BY <1>1, AlwaysSane, PTL

\* Between any two awaits of the tick every open record is its symbol's mark, and
\* a mark that is no open record's is one that is being added or released, or a
\* publication has failed.
THEOREM ActiveAgrees == Spec => []ActiveIsTheOpenRecord
<1>1. Sane => ActiveIsTheOpenRecord
  BY DEF Sane, MarksAgree, MarksEnd, OpenRecords, ActiveIsTheOpenRecord
<1> QED
  BY <1>1, AlwaysSane, PTL

\* Over the bus in the process no record replaces or forgets a plan with an order
\* that can still trade, though it knows its orders from the mirror alone.
THEOREM NothingStray == Spec => []NoOrderStrays
<1>1. Sane => NoOrderStrays
  BY DEF Sane, OrdersInPlay, NoOrderStrays
<1> QED
  BY <1>1, AlwaysSane, PTL

\* Over the bus in the process a position that no record gave up is that of an
\* open record that manages it.
THEOREM EveryPositionOwned == Spec => []PositionsAreOwned
<1>1. Sane => PositionsAreOwned
  BY DEF Sane, EveryLegOwned, Owns, PositionsAreOwned, InStates
<1> QED
  BY <1>1, AlwaysSane, PTL

\* However many opportunities are on their way when a halt comes, one entry at
\* most is sent after it, whole or in part.
THEOREM OneLateEntry == Spec => []AtMostOneEntryAfterHalt
<1>1. Sane => AtMostOneEntryAfterHalt
  BY DEF Sane, TypeOK, HaltCloses, AtMostOneEntryAfterHalt
<1> QED
  BY <1>1, AlwaysSane, PTL

\* What the table says of the transitions the floor asks for.
LEMMA TableFacts ==
    /\ \A step \in Stage \cup Decision : step[2] \in STRATEGY_TRANSITIONS[step[1]]
    /\ \A s \in {"AGENTS_EVALUATING", "CONSENSUS_REACHED", "RISK_CHECK", "AUTHORIZED"} :
          "REJECTED" \in STRATEGY_TRANSITIONS[s]
    /\ "CLOSED" \in STRATEGY_TRANSITIONS["EXITING"]
    /\ "CLOSED" \in STRATEGY_TRANSITIONS["EXECUTING"]
  BY DEF STRATEGY_TRANSITIONS, StrategyState, Stage, Decision

\* A step asks for a transition of the table, of one record.
LEMMA StepLegal ==
    ASSUME Sane, [Next]_vars, NEW r \in Records
    PROVE  \/ state'[r] = state[r]
           \/ ~IsOpen(r) /\ state'[r] = "OPPORTUNITY_DETECTED"
           \/ state'[r] \in STRATEGY_TRANSITIONS[state[r]]
<1> USE TableFacts DEF Sane
<1>1. CASE LeavesRecords \/ Detect
  BY <1>1, DetectingSane DEF LeavesRecords
<1>2. ASSUME NEW q \in Records, NEW to \in StrategyState, Advances(q, to)
      PROVE  state'[r] = state[r] \/ state'[r] \in STRATEGY_TRANSITIONS[state[r]]
  <2>1. state' = [state EXCEPT ![q] = to] /\ <<state[q], to>> \in Stage \cup Decision
    BY <1>2 DEF Advances
  <2>2. to \in STRATEGY_TRANSITIONS[state[q]]
    BY <2>1
  <2> QED
    BY <2>1, <2>2 DEF TypeOK
<1>3. ASSUME NEW q \in Records, NEW to \in StrategyState, Drops(q, to)
      PROVE  state'[r] = state[r] \/ state'[r] \in STRATEGY_TRANSITIONS[state[r]]
  <2>1. to \in STRATEGY_TRANSITIONS[state[q]] /\ state' = [state EXCEPT ![q] = to]
    BY <1>3 DEF Drops, Finish
  <2> QED
    BY <2>1 DEF TypeOK
<1>4. ASSUME NEW q \in Records, GivesUp(q)
      PROVE  state'[r] = state[r] \/ state'[r] \in STRATEGY_TRANSITIONS[state[r]]
  BY <1>4 DEF GivesUp, Finish, TypeOK
<1>5. ASSUME NEW q \in Records, AddOpportunity(q)
      PROVE  state'[r] = state[r] \/ (~IsOpen(r) /\ state'[r] = "OPPORTUNITY_DETECTED")
  BY <1>5 DEF AddOpportunity, Visiting, Move, Announced, TypeOK
<1>6. ASSUME NEW q \in Records, Returns(q) \/ TriesExit(q) \/ Sends(q) \/ Release(q)
      PROVE  state'[r] = state[r]
  BY <1>6 DEF Returns, TriesExit, Sends, Release, recordVars
<1>7. ASSUME NEW q \in Records, NEW v \in Venues, OrderTrades(q, v) \/ Straying(q, v)
      PROVE  state'[r] = state[r]
  BY <1>7 DEF OrderTrades, Straying, StrayTrades, StraysEnd, recordVars
<1> QED
  BY <1>1, <1>2, <1>3, <1>4, <1>5, <1>6, <1>7, StepShapes

\* transition never raises: whatever stage flatten, an exit or a deadline finds
\* a record in, and wherever a failed tick left it, the table has what they ask for.
THEOREM TransitionsLegal == Spec => TransitionsAreLegal
<1>1. Sane /\ [Next]_vars =>
        [\A r \in Records :
            \/ state'[r] = state[r]
            \/ ~IsOpen(r) /\ state'[r] = "OPPORTUNITY_DETECTED"
            \/ state'[r] \in STRATEGY_TRANSITIONS[state[r]]]_vars
  BY StepLegal
<1> QED
  BY <1>1, AlwaysSane, PTL DEF Spec, TransitionsAreLegal
=============================================================================
