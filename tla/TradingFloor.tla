---------------------------- MODULE TradingFloor ----------------------------
(***************************************************************************)
(* The orchestrator (apps/orchestrator/orchestrator.py): one task that     *)
(* ticks, and in a tick settles orders, carries out the kill switch's      *)
(* actions, manages the open opportunities and seeks new ones.  The API    *)
(* engages the kill switch wherever the task awaits.                       *)
(*                                                                         *)
(* An opportunity has a leg on each of two venues and one plan at a time:  *)
(* its entry, then its exits.  Of an order the floor sees what             *)
(* OrderContract promises, and whether a cancel is pending, because        *)
(* cancelling it again raises; of time, only that deadlines and expiries   *)
(* come at any moment; of agents, gates and prices, only their outcome.    *)
(* A position is a leg that is not flat.                                   *)
(*                                                                         *)
(* What the floor does with its orders it decides from SystemState.orders, *)
(* a mirror fed by the bus.  The bus in the process brings it up to date   *)
(* at every drain and does not fail to publish.  Over Redis a drain may    *)
(* return before the events are handled (EventBus!DrainCompletes), and the *)
(* publication of any event may raise, which abandons the tick.            *)
(*                                                                         *)
(* Left out: hedge orders (the positions are those of the opportunities'   *)
(* own orders), warm-up, the reset of the kill switch, which nothing in    *)
(* the tree calls, a failure to report a failed tick, which ends           *)
(* run_forever, and an update of an order that is lost with its            *)
(* publication.                                                            *)
(***************************************************************************)
EXTENDS Naturals, FiniteSets

CONSTANTS
    Symbols,        \* settings.symbols
    Venues,         \* the venues every opportunity has its legs on
    Slots,          \* bound: opportunities of one symbol at a time
    MaxAttempts,    \* max_exit_attempts
    DrainsComplete, \* the bus in the process, not Redis
    MaxFailures,    \* bound: publications that fail
    ActionSets      \* what the triggers that may fire put in force

\* An opportunity record; the place of a finished one is used again.
Records == Symbols \X (1..Slots)
SymbolOf(r) == r[1]

None == <<>>

HALT == "HALT_NEW_TRADES"
CANCEL == "CANCEL_ALL"
FLATTEN == "FLATTEN"
DISABLE == "DISABLE_EXECUTION"
KillAction == {HALT, CANCEL, FLATTEN, DISABLE}

\* Every value of TRIGGER_ACTIONS halts trading.
ASSUME FloorAssumption ==
    /\ IsFiniteSet(Symbols) /\ IsFiniteSet(Venues)
    /\ Slots \in Nat \ {0} /\ MaxAttempts \in Nat \ {0}
    /\ DrainsComplete \in BOOLEAN /\ MaxFailures \in Nat
    /\ DrainsComplete => MaxFailures = 0
    /\ \A actions \in ActionSets : HALT \in actions /\ actions \subseteq KillAction

StrategyState ==
    {"IDLE", "OPPORTUNITY_DETECTED", "AGENTS_EVALUATING", "CONSENSUS_REACHED",
     "RISK_CHECK", "AUTHORIZED", "EXECUTING", "HEDGING", "RECONCILING",
     "MONITORING", "EXITING", "CLOSED", "REJECTED"}

\* Mutant: a position that is being settled cannot be exited.
STRATEGY_TRANSITIONS_narrow ==
    [s \in StrategyState |->
        CASE s = "IDLE" -> {"OPPORTUNITY_DETECTED"}
          [] s = "OPPORTUNITY_DETECTED" -> {"AGENTS_EVALUATING", "REJECTED"}
          [] s = "AGENTS_EVALUATING" -> {"CONSENSUS_REACHED", "REJECTED"}
          [] s = "CONSENSUS_REACHED" -> {"RISK_CHECK", "REJECTED"}
          [] s = "RISK_CHECK" -> {"AUTHORIZED", "REJECTED"}
          [] s = "AUTHORIZED" -> {"EXECUTING", "REJECTED"}
          [] s = "EXECUTING" -> {"HEDGING", "CLOSED"}
          [] s = "HEDGING" -> {"RECONCILING"}
          [] s = "RECONCILING" -> {"MONITORING"}
          [] s = "MONITORING" -> {"EXITING", "CLOSED"}
          [] s = "EXITING" -> {"CLOSED"}
          [] OTHER -> {}]

\* The transitions Orchestrator.transition accepts.
STRATEGY_TRANSITIONS ==
    [s \in StrategyState |->
        CASE s = "IDLE" -> {"OPPORTUNITY_DETECTED"}
          [] s = "OPPORTUNITY_DETECTED" -> {"AGENTS_EVALUATING", "REJECTED"}
          [] s = "AGENTS_EVALUATING" -> {"CONSENSUS_REACHED", "REJECTED"}
          [] s = "CONSENSUS_REACHED" -> {"RISK_CHECK", "REJECTED"}
          [] s = "RISK_CHECK" -> {"AUTHORIZED", "REJECTED"}
          [] s = "AUTHORIZED" -> {"EXECUTING", "REJECTED"}
          [] s = "EXECUTING" -> {"HEDGING", "RECONCILING", "EXITING", "CLOSED"}
          [] s = "HEDGING" -> {"RECONCILING", "EXITING"}
          [] s = "RECONCILING" -> {"MONITORING", "EXITING"}
          [] s = "MONITORING" -> {"EXITING", "CLOSED"}
          [] s = "EXITING" -> {"RECONCILING", "CLOSED"}
          [] OTHER -> {}]

\* What the floor can tell of the order of a plan at a venue: one that is
\* finished, lost or was never sent is "none".
OrderState == {"none", "working", "cancelling"}
NoneLive == [v \in Venues |-> "none"]

\* What the mirror says of it; "finished" is also one that was never sent.
Mirrored == {"absent", "live", "finished"}
NoneMirrored == [v \in Venues |-> "finished"]

VARIABLES
    state,              \* OpportunityRecord.state
    order,              \* the orders OpportunityRecord.order_ids names
    mirror,             \* what SystemState.orders says of them
    filled,             \* the venues on which the entry has traded
    attempts,           \* OpportunityRecord.exit_attempts
    active,             \* CrossVenueDetector.active
    held,               \* the positions that are not flat, <<symbol, venue>>
    in_force,           \* KillSwitchState
    executor_disabled,  \* PaperExecutor.execution_disabled
    phase,              \* where the tick is
    todo,               \* the records its loop has yet to visit
    current,            \* the record it is working on between two awaits
    released,           \* positions without a record: handed to OKAPI, left
                        \* because their venue had no mid price, or a stray's
    strays,             \* live orders that no open record names
    late,               \* entries sent since the halt came into force
    failures            \* publications that failed

recordVars == <<state, order, filled, attempts, strays>>
bookVars == <<mirror, held, released>>
switchVars == <<in_force, executor_disabled>>
loopVars == <<phase, todo, current, failures>>
vars == <<state, order, mirror, filled, attempts, active, held, in_force,
          executor_disabled, phase, todo, current, released, strays, late, failures>>

---------------------------------------------------------------------------
(* Helpers *)

Legs(r) == {SymbolOf(r)} \X Venues
Residual(r) == held \cap Legs(r)

Finished == {"IDLE", "CLOSED", "REJECTED"}
IsOpen(r) == state[r] \notin Finished
OpenRecords == {r \in Records : IsOpen(r)}
InStates(states) == {r \in Records : state[r] \in states}

IsLive(r, v) == order[r][v] # "none"

\* Mutant: an order whose cancel is pending does not count as live.
LooksLive_early(r, v) == mirror[r][v] = "live" /\ order[r][v] # "cancelling"

\* An order the mirror has not heard of is not live for the floor.
LooksLive(r, v) == mirror[r][v] = "live"

\* The mirror, brought up to date with orders o.
UpToDate(o) == [r \in Records |-> [v \in Venues |->
                    IF o[r][v] = "none" THEN "finished" ELSE "live"]]

\* bus.drain.
Drained == IF DrainsComplete THEN UpToDate(order) ELSE mirror

Halted == HALT \in in_force

\* KillSwitchState.trading_allowed.
TradingAllowed == {HALT, DISABLE} \cap in_force = {}

---------------------------------------------------------------------------
(* Records and plans *)

\* transition, to a state in which the record stays open, up to its publication.
Move(r, target) ==
    /\ state' = [state EXCEPT ![r] = target]
    /\ UNCHANGED <<order, filled, attempts, strays, mirror>>

\* The live orders that nothing tracks once r forgets its plan.
Strayed(r) == strays \cup {<<r, v>> : v \in {v \in Venues : IsLive(r, v)}}

\* transition, to CLOSED or REJECTED, up to its publication: Release follows.
Finish(r, target) ==
    /\ state' = [state EXCEPT ![r] = target]
    /\ order' = [order EXCEPT ![r] = NoneLive]
    /\ mirror' = [mirror EXCEPT ![r] = NoneMirrored]
    /\ filled' = [filled EXCEPT ![r] = {}]
    /\ attempts' = [attempts EXCEPT ![r] = 0]
    /\ strays' = Strayed(r)
    /\ current' = r

\* Mutant: a rejected opportunity is not released.
Released_closed(r) ==
    IF active[SymbolOf(r)] = r /\ state[r] = "CLOSED"
    THEN [active EXCEPT ![SymbolOf(r)] = None] ELSE active

\* CrossVenueDetector.release.
Released(r) ==
    IF active[SymbolOf(r)] = r THEN [active EXCEPT ![SymbolOf(r)] = None] ELSE active

\* transition goes on when it has published that r is finished.
Release(r) ==
    /\ current = r /\ state[r] \in Finished
    /\ active' = Released(r)
    /\ current' = None
    /\ UNCHANGED <<recordVars, bookVars, switchVars, phase, todo, late, failures>>

\* execute: the plan's orders are sent, or rejected while execution is
\* disabled, and become the orders of the record.  Then the bus is drained.
Execute(r, venues) ==
    /\ order' = [order EXCEPT ![r] =
                    [v \in Venues |-> IF v \in venues /\ ~executor_disabled
                                      THEN "working" ELSE "none"]]
    /\ strays' = Strayed(r)
    /\ mirror' = IF DrainsComplete THEN UpToDate(order')
                 ELSE [mirror EXCEPT ![r] = [v \in Venues |->
                          IF order'[r][v] = "none" THEN "finished" ELSE "absent"]]

\* Something raises: the tick is abandoned, for a reason of its own or because a
\* publication failed.
TickFails(reason) ==
    /\ phase' = "idle" /\ todo' = {} /\ current' = None
    /\ \/ reason /\ UNCHANGED failures
       \/ failures < MaxFailures /\ failures' = failures + 1

\* execute is broken off: what was sent by then is live, and the record keeps
\* the orders it had.
ExecuteFails(r, venues) ==
    /\ \E sent \in SUBSET venues :
          strays' = strays \cup (IF executor_disabled THEN {} ELSE {r} \X sent)
    /\ TickFails(FALSE)
    /\ UNCHANGED <<state, order, filled, bookVars, active, switchVars>>

\* Mutant: an attempt that could not be planned is not counted.
AttemptsUnplanned_kept(r) == attempts[r]

AttemptsUnplanned(r) == attempts[r] + 1

Exiting(r) == current = r /\ state[r] = "EXITING"

\* _submit_exit: an exit for the legs that hold a position and have a price.
\* Without any the record is closed; without a plan it is tried again later.
SubmitExit(r) ==
    /\ Exiting(r)
    /\ \E quoted \in SUBSET Residual(r) :
          \/ /\ quoted = {}
             /\ Finish(r, "CLOSED")
             /\ released' = released \cup Residual(r)
          \/ /\ quoted # {}
             /\ \/ /\ attempts' = [attempts EXCEPT ![r] = AttemptsUnplanned(r)]
                   /\ UNCHANGED <<order, mirror, strays>>
                \/ /\ attempts' = [attempts EXCEPT ![r] = @ + 1]
                   /\ Execute(r, {leg[2] : leg \in quoted})
             /\ current' = None
             /\ UNCHANGED <<state, filled, released>>
    /\ UNCHANGED <<active, held, switchVars, phase, todo, late, failures>>

SubmitExitFails(r) ==
    /\ Exiting(r) /\ Residual(r) # {}
    /\ attempts' = [attempts EXCEPT ![r] = @ + 1]
    /\ ExecuteFails(r, {leg[2] : leg \in Residual(r)})
    /\ UNCHANGED late

---------------------------------------------------------------------------
(* The API and the bus *)

\* engage, by the API at any await, or by evaluate in _protect.  A trigger acts
\* once, but several put the same actions in force.
Engage ==
    /\ \E actions \in ActionSets : in_force' = in_force \cup actions
    /\ UNCHANGED <<recordVars, bookVars, active, executor_disabled, loopVars, late>>

\* Redis: the events of an order reach the mirror, whenever that is.
Deliver(r, v) ==
    /\ ~DrainsComplete /\ mirror[r][v] # "finished"
    /\ \E news \in (IF IsLive(r, v) THEN {"live"} ELSE {"live", "finished"}) :
          mirror' = [mirror EXCEPT ![r][v] = news]
    /\ UNCHANGED <<recordVars, active, held, released, switchVars, loopVars, late>>

---------------------------------------------------------------------------
(* _observe and _settle *)

Tick ==
    /\ phase = "idle"
    /\ phase' = "settle"
    /\ mirror' = Drained
    /\ UNCHANGED <<recordVars, active, held, released, switchVars, todo, current,
                   late, failures>>

IsExit(r) == attempts[r] > 0

\* poll: an order trades, and is finished or not.  An entry makes the position
\* its record's own, or nets out one that no record had; an exit has closed its
\* leg or not when it is finished.
OrderTrades(r, v) ==
    /\ phase = "settle" /\ IsLive(r, v)
    /\ LET leg == <<SymbolOf(r), v>> IN
       \E st \in {"working", "none"} :
          /\ order' = [order EXCEPT ![r][v] = st]
          /\ \/ /\ held' = held \cup {leg}
                /\ released' = (IF IsExit(r) THEN released ELSE released \ {leg})
             \/ /\ leg \in released \/ (IsExit(r) /\ st = "none")
                /\ held' = held \ {leg} /\ released' = released \ {leg}
    /\ filled' = [filled EXCEPT ![r] = IF IsExit(r) THEN @ ELSE @ \cup {v}]
    /\ UNCHANGED <<state, attempts, active, strays, mirror, switchVars, loopVars, late>>

\* poll: an order expires, is cancelled, or is lost.
OrderEnds(r, v) ==
    /\ phase = "settle" /\ IsLive(r, v)
    /\ order' = [order EXCEPT ![r][v] = "none"]
    /\ UNCHANGED <<state, filled, attempts, active, strays, bookVars,
                   switchVars, loopVars, late>>

\* poll: the same for orders nothing tracks.
StrayTrades(r, v) ==
    /\ phase = "settle" /\ <<r, v>> \in strays
    /\ LET leg == <<SymbolOf(r), v>> IN
       \/ held' = held \cup {leg} /\ released' = released \cup {leg}
       \/ held' = held \ {leg} /\ released' = released \ {leg}
    /\ UNCHANGED <<recordVars, active, mirror, switchVars, loopVars, late>>

StraysEnd(r, v) ==
    /\ phase = "settle" /\ <<r, v>> \in strays
    /\ strays' = strays \ {<<r, v>>}
    /\ UNCHANGED <<state, order, filled, attempts, active, bookVars, switchVars,
                   loopVars, late>>

\* Some cancel is pending, that of a stray perhaps.
SomeCancelling ==
    \/ \E r \in Records, v \in Venues : order[r][v] = "cancelling"
    \/ strays # {}

\* poll raises: an order whose cancel is pending has outlived its time to live.
PollFails ==
    /\ phase = "settle" /\ TickFails(SomeCancelling)
    /\ UNCHANGED <<recordVars, bookVars, active, switchVars, late>>

\* The orders are settled; the bus is drained if there were fills, and its own
\* task may have dispatched what there was anyway.
Settled ==
    /\ phase = "settle"
    /\ phase' = "protect"
    /\ mirror' \in {mirror, Drained}
    /\ UNCHANGED <<recordVars, active, held, released, switchVars, todo, current,
                   late, failures>>

\* A publication fails in a later part of the tick.  Between detect and the
\* first record there is none.
PublishFails ==
    /\ phase \notin {"idle", "settle"} /\ TickFails(FALSE)
    /\ phase = "seek" /\ current = None => todo = {}
    /\ UNCHANGED <<recordVars, bookVars, active, switchVars, late>>

---------------------------------------------------------------------------
(* _protect *)

Flattenable == {"MONITORING", "RECONCILING", "HEDGING"}
Manageable == {"EXECUTING", "EXITING"} \cup Flattenable

\* Execution is disabled if that is in force, then flatten or the management of
\* the open records begins.  The records a loop will pass over unchanged are no
\* part of what it has to do.
AfterCancel ==
    /\ executor_disabled' = (executor_disabled \/ DISABLE \in in_force)
    /\ IF FLATTEN \in in_force
       THEN phase' = "flatten" /\ todo' = InStates(Flattenable)
       ELSE phase' = "pending" /\ todo' = InStates({"AGENTS_EVALUATING"})
    /\ UNCHANGED <<current, failures>>

\* Some working orders get a cancel: one still in flight to the venue forgets it.
CancelSome(venuesOf) ==
    \E chosen \in SUBSET {rv \in Records \X Venues : order[rv[1]][rv[2]] = "working"
                                                     /\ rv[2] \in venuesOf[rv[1]]} :
        order' = [r \in Records |-> [v \in Venues |->
                    IF <<r, v>> \in chosen THEN "cancelling" ELSE order[r][v]]]

EveryVenue == [r \in Records |-> Venues]

CancelAll ==
    /\ phase = "protect" /\ CANCEL \in in_force
    /\ \A r \in Records, v \in Venues : order[r][v] # "cancelling"
    /\ CancelSome(EveryVenue)
    /\ in_force' = in_force \ {CANCEL}
    /\ AfterCancel
    /\ UNCHANGED <<state, filled, attempts, active, strays, bookVars, late>>

\* cancel_all meets an order whose cancel is pending and raises: the orders
\* before it have their cancel, and the tick is abandoned.
CancelAllFails ==
    /\ phase = "protect" /\ CANCEL \in in_force
    /\ CancelSome(EveryVenue)
    /\ TickFails(SomeCancelling)
    /\ UNCHANGED <<state, filled, attempts, active, strays, bookVars, switchVars, late>>

NothingToCancel ==
    /\ phase = "protect" /\ CANCEL \notin in_force
    /\ AfterCancel
    /\ UNCHANGED <<recordVars, bookVars, active, in_force, late>>

\* The loop comes to r: it is at work on no other record.
Visiting(r) == r \in todo /\ current = None

\* _flatten visits a record that holds a position; SubmitExit follows.
FlattenRecord(r) ==
    /\ phase = "flatten" /\ Visiting(r)
    /\ todo' = todo \ {r} /\ current' = r
    /\ Move(r, "EXITING")
    /\ UNCHANGED <<active, held, released, switchVars, phase, late, failures>>

\* _flatten returned and is acknowledged.
Flattened ==
    /\ phase = "flatten" /\ todo = {} /\ current = None
    /\ in_force' = in_force \ {FLATTEN}
    /\ phase' = "pending" /\ todo' = InStates({"AGENTS_EVALUATING"})
    /\ UNCHANGED <<recordVars, bookVars, active, executor_disabled, current, late, failures>>

---------------------------------------------------------------------------
(* _await_pending_agents and _decide *)

\* _evaluate_or_defer comes to a pending opportunity, or to the one the agents
\* were just asked about.
Evaluating(r) ==
    /\ state[r] = "AGENTS_EVALUATING"
    /\ current = r \/ (phase = "pending" /\ Visiting(r))

\* The agents have not all answered and there is time.
Defer(r) ==
    /\ Evaluating(r)
    /\ todo' = todo \ {r} /\ current' = None
    /\ UNCHANGED <<recordVars, bookVars, active, switchVars, phase, late, failures>>

\* _decide: expired or without consensus, the opportunity is rejected.
Decide(r) ==
    /\ Evaluating(r)
    /\ todo' = todo \ {r} /\ current' = r
    /\ Finish(r, "REJECTED") \/ Move(r, "CONSENSUS_REACHED")
    /\ UNCHANGED <<active, held, released, switchVars, phase, late, failures>>

\* _decide goes on from a state whose publication it awaited.
Deciding(r, from) == current = r /\ state[r] = from

decisionOthers == <<active, held, released, switchVars, loopVars, late>>

\* _build_intent: there is an executable size or not.
SizeIntent(r) ==
    /\ Deciding(r, "CONSENSUS_REACHED")
    /\ Finish(r, "REJECTED") \/ Move(r, "RISK_CHECK")
    /\ UNCHANGED decisionOthers

\* Mutant: RUNE does not look at the kill switch.
Authorizable_blind == TRUE

Authorizable == TradingAllowed

\* _risk_check: RUNE may approve only while trading is allowed.
RiskCheck(r) ==
    /\ Deciding(r, "RISK_CHECK")
    /\ Finish(r, "REJECTED") \/ (Authorizable /\ Move(r, "AUTHORIZED"))
    /\ UNCHANGED decisionOthers

\* build_plan: VESKA has a plan for the entry or not; nothing looks at the kill
\* switch any more.
PlanEntry(r) ==
    /\ Deciding(r, "AUTHORIZED")
    /\ Finish(r, "REJECTED") \/ Move(r, "EXECUTING")
    /\ UNCHANGED decisionOthers

\* The entry is sent.
CountLate == late' = IF Halted THEN late + 1 ELSE late

SendEntry(r) ==
    /\ Deciding(r, "EXECUTING")
    /\ Execute(r, Venues)
    /\ current' = None
    /\ CountLate
    /\ UNCHANGED <<state, filled, attempts, active, held, released, switchVars,
                   phase, todo, failures>>

SendEntryFails(r) ==
    /\ Deciding(r, "EXECUTING")
    /\ ExecuteFails(r, Venues)
    /\ CountLate
    /\ UNCHANGED attempts

---------------------------------------------------------------------------
(* _manage *)

\* The visit to r, in the loop over the open records, is over with this.
Managing(r) == phase = "manage" /\ Visiting(r) /\ todo' = todo \ {r}

manageOthers == <<active, held, released, switchVars, phase, late, failures>>

SomeLookLive(r) == \E v \in Venues : LooksLive(r, v)

OnlyOf(r, venues) == [q \in Records |-> IF q = r THEN venues ELSE {}]

\* _advance_execution: some order looks live, and the deadline has not passed.
AwaitOrders(r) ==
    /\ Managing(r) /\ state[r] = "EXECUTING" /\ SomeLookLive(r)
    /\ UNCHANGED <<recordVars, mirror, current, manageOthers>>

LookingLive(r) == {v \in Venues : LooksLive(r, v)}
CancelPending(r, venues) == \E v \in venues : order[r][v] = "cancelling"

\* Past its deadline the orders that look live are cancelled.
CancelPlan(r) ==
    /\ Managing(r) /\ state[r] = "EXECUTING" /\ SomeLookLive(r)
    /\ ~CancelPending(r, LookingLive(r))
    /\ CancelSome(OnlyOf(r, LookingLive(r)))
    /\ UNCHANGED <<state, filled, attempts, strays, mirror, current, manageOthers>>

\* One of its cancels is pending already: cancel raises, and the tick is over.
CancelPlanFails(r) ==
    /\ phase = "manage" /\ Visiting(r) /\ state[r] = "EXECUTING"
    /\ CancelPending(r, LookingLive(r))
    /\ CancelSome(OnlyOf(r, LookingLive(r)))
    /\ TickFails(TRUE)
    /\ UNCHANGED <<state, filled, attempts, strays, bookVars, active, switchVars, late>>

\* Mutant: an entry of which only one leg traded does not count.
HasTraded_full(r) == filled[r] = Venues

\* Some order the mirror has heard of has traded.
HasTraded(r) == \E v \in filled[r] : mirror[r][v] # "absent"

\* No order looks live: there is a position to manage, or nothing to do.
AdvanceExecution(r) ==
    /\ Managing(r) /\ state[r] = "EXECUTING" /\ ~SomeLookLive(r)
    /\ IF HasTraded(r) THEN Move(r, "HEDGING") /\ UNCHANGED current ELSE Finish(r, "CLOSED")
    /\ UNCHANGED manageOthers

Settling(r) ==
    /\ Managing(r)
    /\ \/ state[r] = "HEDGING" /\ Move(r, "RECONCILING")
       \/ state[r] = "RECONCILING" /\ Move(r, "MONITORING")
    /\ UNCHANGED <<current, manageOthers>>

\* _monitor: the agents, asked again, still agree; asking drains the bus.
KeepPosition(r) ==
    /\ Managing(r) /\ state[r] = "MONITORING"
    /\ mirror' = Drained
    /\ UNCHANGED <<recordVars, current, manageOthers>>

\* _monitor: they do not.  What is still live is cancelled, and SubmitExit follows.
LeavePosition(r) ==
    /\ Managing(r) /\ state[r] = "MONITORING"
    /\ mirror' = Drained
    /\ ~CancelPending(r, Venues)
    /\ CancelSome(OnlyOf(r, Venues))
    /\ state' = [state EXCEPT ![r] = "EXITING"] /\ current' = r
    /\ UNCHANGED <<filled, attempts, strays, manageOthers>>

LeavePositionFails(r) ==
    /\ phase = "manage" /\ Visiting(r) /\ state[r] = "MONITORING"
    /\ mirror' = Drained
    /\ CancelSome(OnlyOf(r, Venues))
    /\ TickFails(CancelPending(r, Venues))
    /\ UNCHANGED <<state, filled, attempts, strays, active, held, released, switchVars, late>>

\* _advance_exit.
AwaitExit(r) ==
    /\ Managing(r) /\ state[r] = "EXITING" /\ SomeLookLive(r)
    /\ UNCHANGED <<recordVars, mirror, current, manageOthers>>

MayRetry(r) == attempts[r] < MaxAttempts

\* An exit that left a position is tried again, a bounded number of times:
\* SubmitExit follows.
RetryExit(r) ==
    /\ Managing(r) /\ state[r] = "EXITING" /\ ~SomeLookLive(r)
    /\ Residual(r) # {} /\ MayRetry(r)
    /\ current' = r
    /\ UNCHANGED <<recordVars, mirror, manageOthers>>

\* The position is closed, or reported as handed to OKAPI.
CloseExit(r) ==
    /\ Managing(r) /\ state[r] = "EXITING" /\ ~SomeLookLive(r)
    /\ Residual(r) = {} \/ ~MayRetry(r)
    /\ released' = released \cup Residual(r)
    /\ Finish(r, "CLOSED")
    /\ UNCHANGED <<active, held, switchVars, phase, late, failures>>

---------------------------------------------------------------------------
(* _seek *)

\* The pending opportunities are handled; the open records are managed.
BeginManage ==
    /\ phase = "pending" /\ todo = {} /\ current = None
    /\ phase' = "manage" /\ todo' = InStates(Manageable)
    /\ UNCHANGED <<recordVars, bookVars, active, switchVars, current, late, failures>>

\* The place the next opportunity of symbol s takes.
FreeSlots(s) == {r \in {s} \X (1..Slots) : ~IsOpen(r)}
Fresh(s) == CHOOSE r \in FreeSlots(s) : TRUE

\* Mutant: detection does not look at the opportunities in flight.
Detectable_all == {s \in Symbols : FreeSlots(s) # {}}

Detectable == {s \in Symbols : active[s] = None /\ FreeSlots(s) # {}}

\* detect marks every symbol it finds an opportunity on, before any is added.
Detect ==
    /\ phase = "manage" /\ todo = {} /\ current = None /\ TradingAllowed
    /\ \E found \in SUBSET Detectable :
          /\ active' = [s \in Symbols |-> IF s \in found THEN Fresh(s) ELSE active[s]]
          /\ todo' = {Fresh(s) : s \in found}
    /\ phase' = "seek"
    /\ UNCHANGED <<recordVars, bookVars, switchVars, current, late, failures>>

\* An opportunity becomes a record and is published.
AddOpportunity(r) ==
    /\ phase = "seek" /\ Visiting(r)
    /\ todo' = todo \ {r} /\ current' = r
    /\ Move(r, "OPPORTUNITY_DETECTED")
    /\ UNCHANGED <<active, held, released, switchVars, phase, late, failures>>

\* The agents have been asked, and the bus is drained: Defer or Decide follows.
AskAgents(r) ==
    /\ Deciding(r, "OPPORTUNITY_DETECTED")
    /\ state' = [state EXCEPT ![r] = "AGENTS_EVALUATING"]
    /\ mirror' = Drained
    /\ UNCHANGED <<order, filled, attempts, strays, decisionOthers>>

\* The tick is over: nothing more to seek, or trading is not allowed.
EndTick ==
    /\ todo = {} /\ current = None
    /\ phase = "seek" \/ (phase = "manage" /\ ~TradingAllowed)
    /\ phase' = "idle"
    /\ UNCHANGED <<recordVars, bookVars, active, switchVars, todo, current, late, failures>>

---------------------------------------------------------------------------
Init ==
    /\ state = [r \in Records |-> "IDLE"]
    /\ order = [r \in Records |-> NoneLive]
    /\ mirror = [r \in Records |-> NoneMirrored]
    /\ filled = [r \in Records |-> {}]
    /\ attempts = [r \in Records |-> 0]
    /\ active = [s \in Symbols |-> None]
    /\ held = {} /\ released = {} /\ strays = {}
    /\ in_force = {} /\ executor_disabled = FALSE
    /\ phase = "idle" /\ todo = {} /\ current = None
    /\ late = 0 /\ failures = 0

\* What the orchestrator's task does next.
Loop ==
    \/ Tick \/ PollFails \/ Settled \/ PublishFails
    \/ CancelAll \/ CancelAllFails \/ NothingToCancel \/ Flattened
    \/ BeginManage \/ Detect \/ EndTick
    \/ \E r \in Records :
          \/ Release(r) \/ SubmitExit(r) \/ SubmitExitFails(r)
          \/ FlattenRecord(r)
          \/ AddOpportunity(r) \/ AskAgents(r) \/ Defer(r) \/ Decide(r)
          \/ SizeIntent(r) \/ RiskCheck(r) \/ PlanEntry(r)
          \/ SendEntry(r) \/ SendEntryFails(r)
          \/ AwaitOrders(r) \/ CancelPlan(r) \/ CancelPlanFails(r) \/ AdvanceExecution(r)
          \/ Settling(r) \/ KeepPosition(r) \/ LeavePosition(r) \/ LeavePositionFails(r)
          \/ AwaitExit(r) \/ RetryExit(r) \/ CloseExit(r)

Next ==
    \/ Engage \/ Loop
    \/ \E r \in Records, v \in Venues :
          \/ Deliver(r, v)
          \/ OrderTrades(r, v) \/ OrderEnds(r, v) \/ StrayTrades(r, v) \/ StraysEnd(r, v)

Spec == Init /\ [][Next]_vars

\* The loop ticks for ever (run_forever catches what a tick raises); an order
\* that keeps being polled concludes (EveryOrderConcludes of PaperExecution); an
\* opportunity that keeps being evaluated is decided, at its expiry at the latest.
Fairness ==
    /\ WF_vars(Loop)
    /\ \A r \in Records : SF_vars(Decide(r))
    /\ \A r \in Records, v \in Venues : SF_vars(OrderEnds(r, v))

FairSpec == Spec /\ Fairness

---------------------------------------------------------------------------
(* Properties *)

Phases == {"idle", "settle", "protect", "flatten", "pending", "manage", "seek"}

\* Every variable has its type, and the retries of an exit are bounded.
TypeOK ==
    /\ state \in [Records -> StrategyState]
    /\ order \in [Records -> [Venues -> OrderState]]
    /\ mirror \in [Records -> [Venues -> Mirrored]]
    /\ filled \in [Records -> SUBSET Venues]
    /\ attempts \in [Records -> 0..MaxAttempts]
    /\ active \in [Symbols -> Records \cup {None}]
    /\ strays \subseteq Records \X Venues
    /\ held \subseteq Symbols \X Venues /\ released \subseteq held
    /\ in_force \subseteq KillAction /\ executor_disabled \in BOOLEAN
    /\ phase \in Phases /\ todo \subseteq Records /\ current \in Records \cup {None}
    /\ late \in Nat /\ failures \in 0..MaxFailures

Marked(r) == active[SymbolOf(r)] = r

\* The detector and the records agree, wherever a tick is and whatever is
\* rejected or raises on the way.  An open record is its symbol's mark, so that
\* no symbol has two opportunities working against each other.  A mark that is
\* no open record's belongs to one still to be added or whose end is being
\* published: unless a publication failed, no symbol stays blocked by it.
ActiveIsTheOpenRecord ==
    /\ \A r \in OpenRecords : Marked(r)
    /\ \A s \in Symbols :
          \/ active[s] = None \/ IsOpen(active[s])
          \/ active[s] = current \/ (phase = "seek" /\ active[s] \in todo)
          \/ failures > 0

\* Over the bus in the process a record never lets go of an order that can
\* still trade: not by replacing its plan and not by finishing, though it sees
\* its orders only in a mirror that lags behind.
NoOrderStrays == DrainsComplete => strays = {}

\* Over the bus in the process a position always has an owner: the record of
\* its symbol that has entered and is not finished, unless a record gave the
\* position up.
PositionsAreOwned ==
    /\ TypeOK
    /\ DrainsComplete =>
          \A leg \in held \ released :
             \E r \in InStates(Manageable) : SymbolOf(r) = leg[1]

\* After a halt at most one more entry is sent, the one RUNE had approved before
\* the halt came: no opportunity waiting for its agents, however many there are,
\* gets through after it.
AtMostOneEntryAfterHalt == late <= 1

\* Every state change the floor asks for is in the table, so that transition
\* never raises: from whatever stage flatten, an exit or a deadline takes a
\* record, and wherever a failed tick has left it.
TransitionsAreLegal ==
    [][\A r \in Records :
          \/ state'[r] = state[r]
          \/ ~IsOpen(r) /\ state'[r] = "OPPORTUNITY_DETECTED"
          \/ state'[r] \in STRATEGY_TRANSITIONS[state[r]] ]_vars

\* No opportunity hangs: one the agents are asked about is decided, an entry
\* ends, and an exit closes its record after a bounded number of attempts,
\* though cancels raise and take the tick with them.
NothingHangs ==
    \A r \in Records :
        /\ state[r] = "AGENTS_EVALUATING" ~> state[r] # "AGENTS_EVALUATING"
        /\ state[r] = "EXECUTING" ~> state[r] # "EXECUTING"
        /\ state[r] = "EXITING" ~> state[r] = "CLOSED"

---------------------------------------------------------------------------
(* What the sources say and the code does not do *)

\* apps/orchestrator/orchestrator.py, _flatten: "unwind every open opportunity
\* immediately".  When it is acknowledged, no open record is left with orders or
\* a position that is not being exited.
FlattenUnwinds ==
    [][(FLATTEN \in in_force /\ FLATTEN \notin in_force') =>
          \A r \in OpenRecords : state[r] \in {"AGENTS_EVALUATING", "EXITING"}]_vars
=============================================================================
