--------------------------- MODULE MCTradingFloor ---------------------------
(***************************************************************************)
(* TradingFloor for TLC: what its triggers put in force                    *)
(* (risk/kill_switch/__init__.py, TRIGGER_ACTIONS), the symmetry of its    *)
(* symbols and venues, and what bounds a floor over Redis.                 *)
(***************************************************************************)
EXTENDS TradingFloor, TLC

\* Every value of TRIGGER_ACTIONS.
AllTriggers ==
    {{HALT}, {HALT, FLATTEN}, {HALT, CANCEL}, {HALT, CANCEL, DISABLE},
     {HALT, DISABLE}, {HALT, CANCEL, FLATTEN}}

\* MANUAL only.
ManualTrigger == {{HALT, CANCEL, FLATTEN}}

\* The safety of a floor does not depend on which symbol or venue is which.
Symmetry == Permutations(Symbols) \cup Permutations(Venues)

\* At most one symbol has had opportunities.
Alone == \A r1, r2 \in Records : SymbolOf(r1) = SymbolOf(r2) \/ "IDLE" \in {state[r1], state[r2]}

\* Bounds, for symbols that compete: nothing has failed and no position has been
\* given up, and the news of an order comes before anything else happens.
TroubleAlone == Alone \/ (failures = 0 /\ released = {} /\ strays = {})
NewsIsPrompt == Alone' \/ mirror = UpToDate(order) \/ (order' = order /\ mirror' # mirror)
=============================================================================
