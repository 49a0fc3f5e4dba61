----------------------------- MODULE MCExposure -----------------------------
(***************************************************************************)
(* Instances of Exposure for TLC.                                          *)
(***************************************************************************)
EXTENDS Exposure, TLC

\* Two orders of the largest size fill a venue, three the gross limit.
MCLimits ==
    [min_trade_notional |-> 1, max_order_notional |-> 2, max_position_notional |-> 4,
     max_gross_exposure |-> 6, max_net_exposure |-> 2, max_leverage |-> 2,
     max_venue_exposure |-> 4, max_strategy_exposure |-> 4,
     max_unhedged_notional |-> 1, max_open_orders |-> 4,
     min_expected_edge |-> 1, max_data_age |-> 0, max_daily_loss |-> 1,
     max_drawdown |-> 1, max_error_rate |-> 0]

Symmetry == Permutations(Symbols) \cup Permutations(Venues)

MCRequired == {"VESKA"}
=============================================================================
