----------------------------- MODULE RuneGates ------------------------------
(***************************************************************************)
(* RUNE-CORE: the sizing of an intent and the gates it must pass           *)
(* (agents/rune/core.py, risk/limits/).                                    *)
(*                                                                         *)
(* Everything here is a function of an intent and a context.  Notionals    *)
(* are integers, in units of which the smallest one that matters is 1; a   *)
(* division rounds down, so a size that was cut down fits exactly.  An     *)
(* input that may be missing is None.                                      *)
(***************************************************************************)
EXTENDS Integers, FiniteSets

CONSTANTS Limits,    \* RiskLimits, a record
          Required,  \* REQUIRED_COMPONENTS
          None       \* a missing input

\* An intent has two legs: it buys on one venue and sells on another.
Legs(intent) == {intent.buy, intent.sell}
LegCount == 2

Least(a, b) == IF a <= b THEN a ELSE b
Most(a, b) == IF a <= b THEN b ELSE a
Abs(n) == IF n < 0 THEN -n ELSE n

\* PortfolioState, as RUNE reads it: notional of the position and total
\* exposure, the first per venue and symbol, the second per venue.
PositionOf(intent, leg, ctx) == ctx.portfolio.position[<<leg, intent.symbol>>]
VenueExposure(leg, ctx) == ctx.portfolio.venue[leg]

---------------------------------------------------------------------------
(* risk/limits: one operator per gate *)

Check(ok) == IF ok THEN "PASS" ELSE "FAIL"
Unknown == "UNKNOWN"

MinEdge(intent) == Check(intent.edge >= Limits.min_expected_edge)
OrderNotional(intent) == Check(intent.notional <= Limits.max_order_notional)

DataAge(intent) ==
    IF intent.age = None THEN Unknown ELSE Check(intent.age <= Limits.max_data_age)

Deadline(intent) == Check(intent.remaining >= 0)

PositionNotional(intent, ctx) ==
    Check(\A leg \in Legs(intent) :
             PositionOf(intent, leg, ctx) + intent.notional
                 <= Limits.max_position_notional)

Projected(intent, ctx) == ctx.portfolio.gross + intent.notional * LegCount

GrossExposure(intent, ctx) ==
    Check(Projected(intent, ctx) <= Limits.max_gross_exposure)

\* The two legs offset each other, so the intent adds nothing.
NetExposure(intent, ctx) ==
    Check(Abs(ctx.portfolio.net + intent.notional - intent.notional)
              <= Limits.max_net_exposure)

Leverage(intent, ctx) ==
    Check(/\ ctx.portfolio.equity > 0
          /\ Projected(intent, ctx) <= Limits.max_leverage * ctx.portfolio.equity)

VenueLimit(intent, ctx) ==
    Check(\A leg \in Legs(intent) :
             VenueExposure(leg, ctx) + intent.notional <= Limits.max_venue_exposure)

StrategyExposure(intent, ctx) ==
    Check(ctx.strategy + intent.notional * LegCount <= Limits.max_strategy_exposure)

DailyLoss(ctx) == Check(ctx.portfolio.day_loss < Limits.max_daily_loss)
Drawdown(ctx) == Check(ctx.portfolio.drawdown < Limits.max_drawdown)
Unhedged(ctx) == Check(Abs(ctx.unhedged) <= Limits.max_unhedged_notional)
OpenOrders(ctx) == Check(ctx.open_orders < Limits.max_open_orders)
ErrorRate(ctx) == Check(ctx.error_rate <= Limits.max_error_rate)
KillSwitch(ctx) == Check(ctx.trading_allowed)

\* health is None or the status of every component that has a heartbeat.
SystemHealth(ctx) ==
    IF ctx.health = None THEN Unknown
    ELSE Check(\A c \in Required : c \in DOMAIN ctx.health /\ ctx.health[c] = "HEALTHY")

ExecutionHealth(ctx) ==
    IF ctx.health = None \/ "VESKA" \notin DOMAIN ctx.health THEN Unknown
    ELSE Check(ctx.health["VESKA"] = "HEALTHY")

Consensus(intent, ctx) ==
    Check(ctx.complete /\ intent.agreement >= ctx.threshold)

Liquidity(intent, ctx) ==
    IF ctx.economical = None THEN Unknown
    ELSE Check(ctx.economical >= intent.notional)

HedgeAvailable(ctx) == Check(ctx.hedge_available)

---------------------------------------------------------------------------
(* agents/rune/core.py *)

\* The gates whose outcome a smaller size can change.
SizeGates(intent, ctx) ==
    {<<"LIQUIDITY_SUFFICIENT", Liquidity(intent, ctx)>>,
     <<"MAX_ORDER_NOTIONAL", OrderNotional(intent)>>,
     <<"MAX_POSITION_NOTIONAL", PositionNotional(intent, ctx)>>,
     <<"MAX_GROSS_EXPOSURE", GrossExposure(intent, ctx)>>,
     <<"MAX_VENUE_EXPOSURE", VenueLimit(intent, ctx)>>,
     <<"MAX_STRATEGY_EXPOSURE", StrategyExposure(intent, ctx)>>,
     <<"MAX_LEVERAGE", Leverage(intent, ctx)>>}

OtherGates(intent, ctx) ==
    {<<"KILL_SWITCH_CLEAR", KillSwitch(ctx)>>,
     <<"SYSTEM_HEALTHY", SystemHealth(ctx)>>,
     <<"EXECUTION_HEALTHY", ExecutionHealth(ctx)>>,
     <<"CONSENSUS", Consensus(intent, ctx)>>,
     <<"MARKET_DATA_FRESH", DataAge(intent)>>,
     <<"INTENT_NOT_EXPIRED", Deadline(intent)>>,
     <<"MIN_EXPECTED_EDGE", MinEdge(intent)>>,
     <<"HEDGE_AVAILABLE", HedgeAvailable(ctx)>>,
     <<"MAX_NET_EXPOSURE", NetExposure(intent, ctx)>>,
     <<"MAX_DAILY_LOSS", DailyLoss(ctx)>>,
     <<"MAX_DRAWDOWN", Drawdown(ctx)>>,
     <<"MAX_UNHEDGED_EXPOSURE", Unhedged(ctx)>>,
     <<"MAX_OPEN_ORDERS", OpenOrders(ctx)>>,
     <<"MAX_ERROR_RATE", ErrorRate(ctx)>>}

\* A mandatory gate blocks unless it passes: UNKNOWN blocks as FAIL does.
Blocking(gates) == {g \in gates : g[2] # "PASS"}

\* Mutant: the headroom under a limit on both legs is not shared by them.
Headroom_unshared(intent, ctx) ==
    LET sized == Least(Least(intent.notional, Limits.max_order_notional),
                       Least(Limits.max_gross_exposure - ctx.portfolio.gross,
                             Limits.max_strategy_exposure - ctx.strategy))
        onLeg(leg) == Least(Limits.max_venue_exposure - VenueExposure(leg, ctx),
                            Limits.max_position_notional - PositionOf(intent, leg, ctx))
        fitted == Least(sized, Least(onLeg(intent.buy), onLeg(intent.sell)))
    IN Most(0, IF ctx.economical = None THEN fitted ELSE Least(fitted, ctx.economical))

\* _headroom: the largest notional that fits every limit on sizes.
Headroom(intent, ctx) ==
    LET sized == Least(Least(intent.notional, Limits.max_order_notional),
                       Least((Limits.max_gross_exposure - ctx.portfolio.gross) \div LegCount,
                             (Limits.max_strategy_exposure - ctx.strategy) \div LegCount))
        onLeg(leg) == Least(Limits.max_venue_exposure - VenueExposure(leg, ctx),
                            Limits.max_position_notional - PositionOf(intent, leg, ctx))
        fitted == Least(sized, Least(onLeg(intent.buy), onLeg(intent.sell)))
    IN Most(0, IF ctx.economical = None THEN fitted ELSE Least(fitted, ctx.economical))

Sized(intent, ctx) ==
    [intent EXCEPT !.notional = Least(intent.notional, Headroom(intent, ctx))]

\* evaluate and _gate: the notional RUNE authorises, 0 for a rejection.
Approved(intent, ctx) ==
    LET sized == Sized(intent, ctx)
    IN IF /\ Headroom(intent, ctx) >= Limits.min_trade_notional
          /\ Blocking(SizeGates(sized, ctx) \cup OtherGates(sized, ctx)) = {}
       THEN sized.notional ELSE 0

\* "A size-based gate can only fail if the reduction could not make it pass":
\* an intent whose headroom is worth trading passes every gate on its size.
\* Leverage is not part of the headroom and liquidity may be unknown, so
\* these two are left to their gates.
SizingFits(intent, ctx) ==
    Headroom(intent, ctx) >= Limits.min_trade_notional =>
        {g[1] : g \in Blocking(SizeGates(Sized(intent, ctx), ctx))}
            \subseteq {"MAX_LEVERAGE"} \cup
                      (IF ctx.economical = None THEN {"LIQUIDITY_SUFFICIENT"} ELSE {})
=============================================================================
