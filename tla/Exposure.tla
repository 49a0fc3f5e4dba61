------------------------------ MODULE Exposure ------------------------------
(***************************************************************************)
(* The exposure the trading loop takes on: entries sized and gated by      *)
(* RUNE, exits, and OKAPI's hedges, over one paper account                 *)
(* (apps/orchestrator, agents/rune, agents/okapi, execution/veska).        *)
(*                                                                         *)
(* A tick polls the venues and measures the portfolio, works the hedges,   *)
(* manages the open records and decides opportunities.  Orders trade in    *)
(* the poll only, so what was measured stays the position until the tick   *)
(* ends; what it does not contain is the orders sent since, by this tick   *)
(* or an earlier one.  Each of these steps may find nothing to do, so they *)
(* may follow each other in any order, over a number of ticks.  Prices are *)
(* constant, so a quantity is a notional and equity never moves; statuses  *)
(* of orders and records between the ones named here are in PaperExecution *)
(* and TradingFloor.  A symbol has at most one open record                 *)
(* (TradingFloor!ActiveIsTheOpenRecord).                                   *)
(***************************************************************************)
EXTENDS RuneGates, FiniteSetsExt, Functions

CONSTANTS Venues, Symbols,
          Ladder,        \* notionals ZEPHR proposes
          Equity,        \* equity of the account
          Tolerance,     \* hedge_tolerance_notional
          MaxAttempts,   \* max_exit_attempts
          MaxEntries     \* bound: entries the run authorises

ASSUME ExposureAssumption ==
    /\ IsFiniteSet(Venues) /\ IsFiniteSet(Symbols)
    /\ Ladder \subseteq Nat \ {0}
    /\ Equity \in Nat /\ Tolerance \in Nat /\ MaxAttempts \in Nat /\ MaxEntries \in Nat

\* RiskLimits: every limit is above zero.
ASSUME LimitsArePositive ==
    {Limits.min_trade_notional, Limits.max_order_notional, Limits.max_position_notional,
     Limits.max_gross_exposure, Limits.max_venue_exposure,
     Limits.max_strategy_exposure} \subseteq Nat \ {0}

\* RiskLimits._limits_are_coherent
ASSUME LimitsAreCoherent ==
    /\ Limits.min_trade_notional <= Limits.max_order_notional
    /\ Limits.max_order_notional <= Limits.max_position_notional
    /\ Limits.max_position_notional <= Limits.max_gross_exposure

VARIABLES
    position,   \* the account: signed quantity held per venue and symbol
    working,    \* quantity still to trade of every order at a venue
    record,     \* the open opportunity of each symbol
    allotted,   \* Orchestrator.working_notional, 0 for no entry
    entries,    \* entries authorised so far
    alone       \* history: the symbols whose hedges are the only orders since
                \* the last of them was sent

vars == <<position, working, record, allotted, entries, alone>>

Sides == {"BUY", "SELL"}
Sign(side) == IF side = "BUY" THEN 1 ELSE -1
Opposite(side) == IF side = "BUY" THEN "SELL" ELSE "BUY"

\* An order is named by its purpose, venue, symbol and side: the code never
\* has two live ones that agree in all four.
Order == [role : {"entry", "exit", "hedge"}, venue : Venues, symbol : Symbols, side : Sides]
OrderOf(role, v, s, side) == [role |-> role, venue |-> v, symbol |-> s, side |-> side]

Live(o) == working[o] > 0
LiveOf(roles, s) == {o \in Order : o.role \in roles /\ o.symbol = s /\ Live(o)}
OpenCount == Cardinality({o \in Order : Live(o)})

\* OpportunityRecord: its legs, what each traded, and the exits tried.
NoRecord == [stage |-> "none", buy |-> None, sell |-> None,
             bought |-> 0, sold |-> 0, attempts |-> 0]

---------------------------------------------------------------------------
(* core/models/portfolio.py, over positions p *)

Sum(f, keys) == FoldFunctionOnSet(+, 0, f, keys)
Delta(p, s) == Sum(p, Venues \X {s})

PortfolioState(p) ==
    LET size == [k \in Venues \X Symbols |-> Abs(p[k])] IN
    [position |-> size,
     venue |-> [v \in Venues |-> Sum(size, {v} \X Symbols)],
     gross |-> Sum(size, Venues \X Symbols),
     net |-> Sum(p, Venues \X Symbols),
     equity |-> Equity, day_loss |-> 0, drawdown |-> 0]


\* Okapi.total_unhedged; a relative-value strategy intends no delta.
TotalUnhedged(p) == Sum([s \in Symbols |-> Abs(Delta(p, s))], Symbols)

---------------------------------------------------------------------------
Init ==
    /\ position = [k \in Venues \X Symbols |-> 0]
    /\ working = [o \in Order |-> 0]
    /\ record = [s \in Symbols |-> NoRecord]
    /\ allotted = [s \in Symbols |-> 0]
    /\ entries = 0
    /\ alone = {}

\* poll: an order trades some of what is left of it ...
Fill(o, q) ==
    /\ q \in 1..working[o]
    /\ working' = [working EXCEPT ![o] = @ - q]
    /\ position' = [position EXCEPT ![<<o.venue, o.symbol>>] = @ + q * Sign(o.side)]
    /\ record' = CASE o.role # "entry" -> record
                   [] o.role = "entry" /\ o.side = "BUY" ->
                        [record EXCEPT ![o.symbol].bought = @ + q]
                   [] OTHER -> [record EXCEPT ![o.symbol].sold = @ + q]
    /\ UNCHANGED <<allotted, entries, alone>>

\* ... or ends with the rest untraded: expired, cancelled, rejected or lost.
End(o) ==
    /\ Live(o)
    /\ working' = [working EXCEPT ![o] = 0]
    /\ UNCHANGED <<position, record, allotted, entries, alone>>

---------------------------------------------------------------------------
(* OKAPI and _hedge *)

\* Mutant: the orders already working for a symbol are not looked at.
HedgeInFlight_ignored(s) == FALSE

\* _hedge_in_flight: working_hedges names the last hedge sent, and the mirror
\* has it, since the bus was drained after it was sent.
HedgeInFlight(s) == LiveOf({"hedge"}, s) # {}

\* build_hedges: long too much, sell; short too much, buy.
HedgeSide(s) == IF Delta(position, s) > 0 THEN "SELL" ELSE "BUY"

HedgeNotional(s) == Least(Abs(Delta(position, s)), Limits.max_order_notional)

\* A hedge for a symbol whose delta is out of tolerance, on a venue that quotes
\* best: any of them here.  A symbol with no usable venue, no mid price or no
\* plan is passed over, and so is every one when execution is disabled.
Hedge(s, v) ==
    LET o == OrderOf("hedge", v, s, HedgeSide(s))
    IN /\ Abs(Delta(position, s)) > Tolerance
       /\ ~HedgeInFlight(s)
       /\ working' = [working EXCEPT ![o] = @ + HedgeNotional(s)]
       /\ alone' = IF LiveOf({"entry", "exit", "hedge"}, s) = {}
                   THEN alone \cup {s} ELSE alone \ {s}
       /\ UNCHANGED <<position, record, allotted, entries>>

---------------------------------------------------------------------------
(* _decide *)

\* Only sizes and exposures are told apart here: whatever else RUNE reads is
\* good, and an intent it turns down for another reason is one not decided.
Intent(s, v, w, notional) ==
    [symbol |-> s, buy |-> v, sell |-> w, notional |-> notional, edge |-> 1, age |-> 0,
     remaining |-> 0, agreement |-> 1]

\* Mutant: the exposure is that of the orders at the venues, not the plans'.
StrategyInUse_unfilled ==
    Sum([s \in Symbols |-> Cardinality(LiveOf({"entry"}, s))], Symbols)

\* sum(self.working_notional.values())
StrategyInUse == Sum(allotted, Symbols)

Context(economical) ==
    [portfolio |-> PortfolioState(position), strategy |-> StrategyInUse,
     open_orders |-> OpenCount, unhedged |-> TotalUnhedged(position),
     economical |-> economical, trading_allowed |-> TRUE,
     health |-> [c \in Required |-> "HEALTHY"], error_rate |-> 0,
     complete |-> TRUE, threshold |-> 1, hedge_available |-> TRUE]

\* _build_intent, _risk_check, build_plan and execute: an authorised entry
\* becomes one order on each leg, sized alike.
Decide(s, v, w, notional, economical) ==
    LET size == Approved(Intent(s, v, w, notional), Context(economical)) IN
    /\ record[s].stage = "none"
    /\ v # w /\ notional <= economical
    /\ entries < MaxEntries
    /\ size > 0
    /\ working' = [working EXCEPT ![OrderOf("entry", v, s, "BUY")] = size,
                                  ![OrderOf("entry", w, s, "SELL")] = size]
    /\ record' = [record EXCEPT ![s] = [NoRecord EXCEPT !.stage = "entering", !.buy = v, !.sell = w]]
    /\ allotted' = [allotted EXCEPT ![s] = size]
    /\ entries' = entries + 1
    /\ alone' = alone \ {s}
    /\ UNCHANGED <<position>>

---------------------------------------------------------------------------
(* _manage *)

\* transition to CLOSED
Closed(s) ==
    /\ record' = [record EXCEPT ![s] = NoRecord]
    /\ allotted' = [allotted EXCEPT ![s] = 0]

\* _residual_legs
Residual(s) == {v \in {record[s].buy, record[s].sell} : position[<<v, s>>] # 0}

\* _submit_exit: one order per leg that holds something, for all it holds,
\* whoever bought it.  A leg with no mid price is left out, and there may be no
\* plan; with no leg at all the record is closed.
Submit(s) ==
    \E legs \in SUBSET Residual(s) :
        IF legs = {}
        THEN /\ Closed(s)
             /\ UNCHANGED <<working, alone>>
        ELSE /\ record' = [record EXCEPT ![s].stage = "exiting", ![s].attempts = @ + 1]
             /\ UNCHANGED allotted
             /\ \/ /\ working' = [o \in Order |->
                          IF /\ o.role = "exit" /\ o.symbol = s /\ o.venue \in legs
                             /\ Sign(o.side) * position[<<o.venue, s>>] < 0
                          THEN Abs(position[<<o.venue, s>>]) ELSE working[o]]
                   /\ alone' = alone \ {s}
                \/ UNCHANGED <<working, alone>>

\* _advance_execution: the entry is over; what did not trade at all is closed.
Entered(s) ==
    /\ record[s].stage = "entering"
    /\ LiveOf({"entry"}, s) = {}
    /\ IF record[s].bought + record[s].sold = 0 THEN Closed(s)
       ELSE record' = [record EXCEPT ![s].stage = "held"] /\ UNCHANGED allotted
    /\ UNCHANGED <<position, working, entries, alone>>

\* _monitor and _flatten: the agents, or the kill switch, ask for the exit.
Exit(s) ==
    /\ record[s].stage = "held"
    /\ Submit(s)
    /\ UNCHANGED <<position, entries>>

MayRetry(s) == Residual(s) # {} /\ record[s].attempts < MaxAttempts

\* _advance_exit: try again with what is left, or give up on it.
AdvanceExit(s) ==
    /\ record[s].stage = "exiting"
    /\ LiveOf({"exit"}, s) = {}
    /\ IF MayRetry(s) THEN Submit(s)
       ELSE Closed(s) /\ UNCHANGED <<working, alone>>
    /\ UNCHANGED <<position, entries>>

---------------------------------------------------------------------------
Poll == \E o \in Order : End(o) \/ \E q \in 1..Limits.max_order_notional : Fill(o, q)

DecideAny == \E s \in Symbols, v, w \in Venues, notional, economical \in Ladder :
                Decide(s, v, w, notional, economical)

Next ==
    \/ Poll
    \/ \E s \in Symbols : \/ \E v \in Venues : Hedge(s, v)
                          \/ Entered(s) \/ Exit(s) \/ AdvanceExit(s)
    \/ DecideAny

Spec == Init /\ [][Next]_vars

---------------------------------------------------------------------------
(* Properties *)

\* The types of the account, of the orders and of the records.
TypeOK ==
    /\ position \in [Venues \X Symbols -> Int]
    /\ working \in [Order -> Nat]
    /\ record \in [Symbols -> [stage : {"none", "entering", "held", "exiting"},
                              buy : Venues \cup {None}, sell : Venues \cup {None},
                              bought : Nat, sold : Nat,
                              attempts : 0..Most(1, MaxAttempts)]]
    /\ allotted \in [Symbols -> Nat]
    /\ entries \in 0..MaxEntries
    /\ alone \subseteq Symbols

\* What an open record has taken on, or may still take on, on its larger leg.
Taken(s) ==
    LET r == record[s]
        left(v, side) == working[OrderOf("entry", v, s, side)]
    IN IF r.stage = "none" THEN 0
       ELSE Most(r.bought + left(r.buy, "BUY"), r.sold + left(r.sell, "SELL"))

\* The entries in flight and the positions of the open records, taken on one
\* leg, stay below what the strategy may carry, however many are decided in one
\* tick from one measurement of the portfolio (working_notional, gate_strategy_exposure).
StrategyWithinLimit ==
    /\ TypeOK
    /\ Sum([s \in Symbols |-> Taken(s)], Symbols) < Limits.max_strategy_exposure

\* RuneCore.evaluate: whatever the state of the account, an intent that can be
\* cut to a size worth trading is not turned down for its size.
EveryIntentFits ==
    \A s \in Symbols, v, w \in Venues, notional, economical \in Ladder :
        v # w => SizingFits(Intent(s, v, w, notional), Context(economical))

\* The hedges of a symbol never add up to more than one order, and a hedge that
\* is the only order of its symbol never trades past the delta it was sent for
\* (_hedge, _hedge_in_flight).  With an entry or an exit in flight it does: the delta it
\* was sized by is then about to change.
HedgesAreBounded ==
    /\ \A s \in Symbols :
          Sum(working, LiveOf({"hedge"}, s)) <= Limits.max_order_notional
    /\ \A s \in alone : \A o \in LiveOf({"hedge"}, s) :
          /\ Sign(o.side) * Delta(position, s) < 0
          /\ working[o] <= Abs(Delta(position, s))
=============================================================================
