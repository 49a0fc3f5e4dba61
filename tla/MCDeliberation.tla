--------------------------- MODULE MCDeliberation ---------------------------
(* Constants of Deliberation for TLC: the default weights.  The unit of     *)
(* time is the validity of an analyst's opinion, so one is fresh at age 0,  *)
(* degraded at 1 and stale at 2.  Over the suspending bus TIDAL is down and *)
(* LUMEN has no provider; the strategy requires the other two.              *)
EXTENDS Deliberation

MCRequired == {"NORO", "ZEPHR"}
MCWeight == [TIDAL |-> 14, NORO |-> 15, ZEPHR |-> 15, LUMEN |-> 5]
MCTtl == [TIDAL |-> 0, NORO |-> 0, ZEPHR |-> 0, LUMEN |-> 1]
MCRunning == [inline |-> Agents, suspending |-> {"NORO", "ZEPHR"}]
MCTidalSignals == {0}
MCNoroSignals == {1}
MCLumenSignals == {-1}
=============================================================================
