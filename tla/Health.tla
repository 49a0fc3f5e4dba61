------------------------------- MODULE Health -------------------------------
(***************************************************************************)
(* Health monitoring: the registry of heartbeats (core/health/), the       *)
(* components that report to it, and the trading loop that judges their    *)
(* health once per tick (apps/orchestrator/orchestrator.py).               *)
(*                                                                         *)
(* Three of the six required components stand for all of them: TIDAL       *)
(* reports when the loop asks it for the market, ZEPHR (and NORO) when the *)
(* bus hands it that market, MARIN (and RUNE and VESKA) when the loop      *)
(* measures.  Only TIDAL's errors are recorded against a required          *)
(* component.  The orchestrator's own health gates nothing and is left     *)
(* out.                                                                    *)
(*                                                                         *)
(* Time passes in units of which a tick and the wait after it take at most *)
(* MaxElapsed; ages are kept instead of times.                             *)
(***************************************************************************)
EXTENDS Naturals, Sequences, FiniteSets

CONSTANTS Pairs,          \* how many venue/symbol pairs have a book
          DegradedAfter, OfflineAfter, ErrorBudget, ErrorWindow, \* HealthPolicy
          Confirmations,  \* of the trigger SYSTEM_HEALTH_FAILURE
          MaxElapsed,     \* bound: what one round of the loop takes
          MaxTroubles     \* bound: changes for the worse or the better

ASSUME HealthAssumption ==
    /\ Pairs \in Nat \ {0, 1}
    /\ DegradedAfter \in Nat /\ OfflineAfter \in Nat
    /\ DegradedAfter < OfflineAfter
    /\ ErrorBudget \in Nat \ {0} /\ ErrorWindow \in Nat
    /\ Confirmations \in Nat \ {0}
    /\ MaxElapsed \in Nat /\ MaxElapsed < DegradedAfter
    /\ MaxTroubles \in Nat

HealthStatus == {"HEALTHY", "DEGRADED", "OFFLINE"}
REQUIRED_COMPONENTS == {"TIDAL", "ZEPHR", "MARIN"}

VARIABLES
    state,     \* HealthRegistry._states: status, and age of the heartbeat
    errors,    \* HealthRegistry._errors: the ages of TIDAL's errors
    health,    \* SystemState.health: the snapshot of this tick
    shared,    \* the components whose record the snapshot shares
    said,      \* history: what each component reported itself last
    feed,      \* how many pairs have a usable book
    market,    \* the MarketState on its way to ZEPHR, None once handled
    mute,      \* whether ZEPHR's handler stays silent
    books,     \* what the next reconciliation will find
    result,    \* Marin.last_result
    pc,        \* where the loop is in its tick
    warmedUp, streak, engaged,
    elapsed,   \* the time this round of the loop has taken so far
    troubles   \* how often the surroundings have changed

registryVars == <<state, errors, said>>
worldVars == <<feed, mute, books, troubles>>
triggerVars == <<streak, engaged>>
healthVars == <<state, errors, health, shared, said, feed, market, mute, books,
          result, pc, warmedUp, streak, engaged, elapsed, troubles>>

None == Pairs + 1   \* no market state

rank == [HEALTHY |-> 0, DEGRADED |-> 1, OFFLINE |-> 2]
Worse(s, t) == IF rank[s] >= rank[t] THEN s ELSE t

---------------------------------------------------------------------------
(* The registry.  No heartbeat at all counts as one of age OfflineAfter. *)

\* Only the newest 2 * ErrorBudget errors can make a difference.
Newest(q) == IF Len(q) > 2 * ErrorBudget THEN Tail(q) ELSE q

\* Mutant: the window is not applied.
Evicted_none(q) == q

\* HealthRegistry._evict_errors takes errors from the old end while they are
\* outside the window.
Evicted(q) ==
    LET old == {i \in DOMAIN q : \A j \in 1..i : q[j] > ErrorWindow}
    IN SubSeq(q, Cardinality(old) + 1, Len(q))

\* HealthRegistry._budget_status
BudgetStatus(q) ==
    IF Len(q) >= 2 * ErrorBudget THEN "OFFLINE"
    ELSE IF Len(q) >= ErrorBudget THEN "DEGRADED"
    ELSE "HEALTHY"

\* Mutant: a heartbeat clears a breach of the budget.
Effective_reported(report, q) == report

Effective(report, q) == Worse(report, BudgetStatus(q))

\* HealthRegistry.heartbeat, for a set of components: a new record, which
\* an earlier snapshot does not share.
Heartbeat(reports) ==
    LET kept == [s \in REQUIRED_COMPONENTS |->
                     IF s \in DOMAIN reports THEN Evicted(errors[s]) ELSE errors[s]]
    IN /\ errors' = kept
       /\ state' = [s \in REQUIRED_COMPONENTS |->
              IF s \in DOMAIN reports
              THEN [status |-> Effective(reports[s], kept[s]), beat |-> 0]
              ELSE state[s]]
       /\ said' = [s \in REQUIRED_COMPONENTS |->
              IF s \in DOMAIN reports THEN reports[s] ELSE said[s]]

\* HealthRegistry.record_error changes the record in place, and with it a
\* snapshot that shares it.
RecordError(s) ==
    LET q == Newest(Evicted(Append(errors[s], 0)))
        status == Worse(state[s].status, BudgetStatus(q))
    IN /\ errors' = [errors EXCEPT ![s] = q]
       /\ state' = [state EXCEPT ![s].status = status]
       /\ health' = IF s \in shared THEN [health EXCEPT ![s] = status] ELSE health

\* HealthRegistry._aged
Aged(s) ==
    IF state[s].beat >= OfflineAfter THEN "OFFLINE"
    ELSE IF state[s].beat >= DegradedAfter THEN Worse(state[s].status, "DEGRADED")
    ELSE state[s].status

\* Mutant: the snapshot copies every record.
Sharable_none == {}

\* _aged hands out the record itself unless age changes its status.
Sharable ==
    {s \in REQUIRED_COMPONENTS :
        state[s].beat < OfflineAfter /\ Aged(s) = state[s].status}

\* HealthRegistry.snapshot
Snapshot ==
    /\ health' = [s \in REQUIRED_COMPONENTS |-> Aged(s)]
    /\ shared' = Sharable

\* Mutant: a degraded component is good enough.
RequiredOk_degraded(h) == \A s \in REQUIRED_COMPONENTS : h[s] # "OFFLINE"

\* SystemHealth.required_ok
RequiredOk(h) == \A s \in REQUIRED_COMPONENTS : h[s] = "HEALTHY"

---------------------------------------------------------------------------
(* What the components report *)

\* Tidal._heartbeat
TidalReport(usable) ==
    IF usable = 0 THEN "OFFLINE"
    ELSE IF usable < Pairs THEN "DEGRADED"
    ELSE "HEALTHY"

\* Zephr._heartbeat
ZephrReport(usable) ==
    IF usable = 0 THEN "OFFLINE"
    ELSE IF usable < 2 THEN "DEGRADED"
    ELSE "HEALTHY"

\* Marin._heartbeat
MarinReport ==
    [none |-> "OFFLINE", critical |-> "OFFLINE", warning |-> "DEGRADED",
     ok |-> "HEALTHY"]

\* ZEPHR handles the market state.
HandleMarket ==
    /\ market # None /\ ~mute
    /\ Heartbeat([ZEPHR |-> ZephrReport(market)])
    /\ shared' = shared \ {"ZEPHR"}
    /\ market' = None
    /\ UNCHANGED <<health, worldVars, result, pc, warmedUp, triggerVars, elapsed>>

---------------------------------------------------------------------------
(* The loop *)

Goto(next) == pc' = next

\* Orchestrator._observe: TIDAL publishes the market and reports.
ObserveMarket ==
    /\ pc = "idle" /\ Goto("drain")
    /\ Heartbeat([TIDAL |-> TidalReport(feed)])
    /\ shared' = shared \ {"TIDAL"}
    /\ market' = feed
    /\ elapsed' = 0
    /\ UNCHANGED <<health, worldVars, result, warmedUp, triggerVars>>

\* drain returns when the bus is empty, or ZEPHR's handler failed.
Drained ==
    /\ pc = "drain" /\ Goto("settle")
    /\ market # None => mute
    /\ market' = None
    /\ UNCHANGED <<registryVars, health, shared, worldVars, result, warmedUp,
                   triggerVars, elapsed>>

\* Orchestrator._measure: MARIN reports, and the tick takes its snapshot.
Measure ==
    /\ pc = "settle"
    /\ Heartbeat([MARIN |-> MarinReport[result]])
    /\ shared' = shared \ {"MARIN"}
    /\ Goto("snapshot")
    /\ UNCHANGED <<health, market, worldVars, result, warmedUp, triggerVars, elapsed>>

TakeSnapshot ==
    /\ pc = "snapshot" /\ Goto(IF warmedUp THEN "protect" ELSE "warmup")
    /\ Snapshot
    /\ UNCHANGED <<registryVars, worldVars, market, result, warmedUp,
                   triggerVars, elapsed>>

\* Marin.run reports what it found.
Reconcile(next) ==
    /\ Goto(next)
    /\ result' = books
    /\ Heartbeat([MARIN |-> MarinReport[books]])
    /\ shared' = shared \ {"MARIN"}

\* The first tick of the warm-up reconciles, and every tick takes a second
\* snapshot, which decides whether the platform is ready.
WarmupReconcile ==
    /\ pc = "warmup" /\ result = "none"
    /\ Reconcile("warmup")
    /\ UNCHANGED <<health, market, worldVars, warmedUp, triggerVars, elapsed>>

Warmup ==
    /\ pc = "warmup" /\ result # "none"
    /\ Snapshot
    /\ warmedUp' = RequiredOk(health')
    /\ Goto(IF warmedUp' THEN "protect" ELSE "idle")
    /\ UNCHANGED <<registryVars, market, worldVars, result, triggerVars, elapsed>>

\* Orchestrator._protect, up to the kill switch; it reconciles every so many
\* ticks.
ProtectReconcile ==
    /\ pc = "protect"
    /\ Reconcile("evaluate")
    /\ UNCHANGED <<health, market, worldVars, warmedUp, triggerVars, elapsed>>

ProtectOnly ==
    /\ pc = "protect" /\ Goto("evaluate")
    /\ UNCHANGED <<registryVars, health, shared, market, worldVars, result,
                   warmedUp, triggerVars, elapsed>>

TriggerConfirmed == streak + 1 >= Confirmations

\* KillSwitch.evaluate, for SYSTEM_HEALTH_FAILURE; the count stops at the
\* confirmations it needs.
EvaluateTrigger ==
    /\ pc = "evaluate" /\ Goto("seek")
    /\ \/ /\ RequiredOk(health) \/ engaged
          /\ streak' = IF RequiredOk(health) THEN 0 ELSE streak
          /\ UNCHANGED engaged
       \/ /\ ~RequiredOk(health) /\ ~engaged
          /\ streak' = IF streak < Confirmations THEN streak + 1 ELSE streak
          /\ engaged' = TriggerConfirmed
    /\ UNCHANGED <<registryVars, health, shared, market, worldVars, result,
                   warmedUp, elapsed>>

\* RUNE's gate for system health lets an entry through.
EntryAllowed == pc = "seek" /\ ~engaged /\ RequiredOk(health)

\* The rest of the tick.
Seek ==
    /\ pc = "seek" /\ Goto("idle")
    /\ UNCHANGED <<registryVars, health, shared, market, worldVars, result,
                   warmedUp, triggerVars, elapsed>>

---------------------------------------------------------------------------
(* The surroundings *)

Trouble == troubles < MaxTroubles /\ troubles' = troubles + 1

tickVars == <<health, shared, market, result, pc, warmedUp, streak, engaged, elapsed>>

\* Books become usable or unusable; see MarketFeed.
FeedChanges ==
    /\ Trouble
    /\ feed' \in (0..Pairs) \ {feed}
    /\ UNCHANGED <<registryVars, mute, books, tickVars>>

MuteChanges ==
    /\ Trouble
    /\ mute' = ~mute
    /\ UNCHANGED <<registryVars, feed, books, tickVars>>

\* The account and the order manager come to differ, or agree again; before
\* the first trade there is nothing to differ about.
BooksChange ==
    /\ warmedUp /\ Trouble
    /\ books' \in {"ok", "warning", "critical"} \ {books}
    /\ UNCHANGED <<registryVars, feed, mute, tickVars>>

\* TIDAL finds a delta it cannot apply.
Desync ==
    /\ Trouble
    /\ RecordError("TIDAL")
    /\ UNCHANGED <<said, feed, mute, books, shared, market, result, pc, warmedUp,
                   triggerVars, elapsed>>

\* A tick raises on its way to the snapshot, or after the kill switch.
TickFails ==
    /\ Trouble
    /\ pc \in {"settle", "seek"} /\ Goto("idle")
    /\ UNCHANGED <<registryVars, feed, mute, books, health, shared, market, result,
                   warmedUp, triggerVars, elapsed>>

\* The operator clears the kill switch.
ClearTrigger ==
    /\ engaged
    /\ engaged' = FALSE /\ streak' = 0
    /\ UNCHANGED <<registryVars, worldVars, health, shared, market, result, pc,
                   warmedUp, elapsed>>

Older(age, limit) == IF age < limit THEN age + 1 ELSE age

Advance ==
    /\ elapsed < MaxElapsed /\ elapsed' = elapsed + 1
    /\ state' = [s \in REQUIRED_COMPONENTS |->
                     [state[s] EXCEPT !.beat = Older(@, OfflineAfter)]]
    /\ errors' = [s \in REQUIRED_COMPONENTS |->
                     [i \in 1..Len(errors[s]) |->
                         Older(errors[s][i], ErrorWindow + 1)]]
    /\ UNCHANGED <<said, worldVars, health, shared, market, result, pc, warmedUp,
                   triggerVars>>

---------------------------------------------------------------------------
(* The specification *)

HealthInit ==
    /\ state = [s \in REQUIRED_COMPONENTS |->
                    [status |-> "OFFLINE", beat |-> OfflineAfter]]
    /\ errors = [s \in REQUIRED_COMPONENTS |-> <<>>]
    /\ health = [s \in REQUIRED_COMPONENTS |-> "OFFLINE"]
    /\ shared = {}
    /\ said = [s \in REQUIRED_COMPONENTS |-> "OFFLINE"]
    /\ feed \in 0..Pairs
    /\ market = None /\ mute = FALSE
    /\ books = "ok" /\ result = "none"
    /\ pc = "idle" /\ warmedUp = FALSE
    /\ streak = 0 /\ engaged = FALSE
    /\ elapsed = 0 /\ troubles = 0

Loop ==
    \/ ObserveMarket \/ Drained \/ Measure \/ TakeSnapshot
    \/ WarmupReconcile \/ Warmup
    \/ ProtectReconcile \/ ProtectOnly \/ EvaluateTrigger
    \/ Seek

HealthNext ==
    \/ Loop \/ HandleMarket \/ Advance \/ ClearTrigger
    \/ FeedChanges \/ MuteChanges \/ BooksChange \/ Desync \/ TickFails

HealthSpec == HealthInit /\ [][HealthNext]_healthVars

\* The loop and the bus keep going, and the clock runs; the loop reconciles
\* every so many ticks.
HealthFairness ==
    /\ WF_healthVars(Loop) /\ WF_healthVars(HandleMarket)
    /\ SF_healthVars(Advance) /\ SF_healthVars(ProtectReconcile)

FairHealthSpec == HealthSpec /\ HealthFairness

---------------------------------------------------------------------------
(* Properties *)

\* The types of the registry, of the snapshot and of the loop.
HealthTypeOK ==
    /\ state \in [REQUIRED_COMPONENTS ->
                     [status : HealthStatus, beat : 0..OfflineAfter]]
    /\ errors \in [REQUIRED_COMPONENTS -> Seq(0..(ErrorWindow + 1))]
    /\ \A s \in REQUIRED_COMPONENTS : Len(errors[s]) <= 2 * ErrorBudget
    /\ health \in [REQUIRED_COMPONENTS -> HealthStatus]
    /\ shared \subseteq REQUIRED_COMPONENTS
    /\ said \in [REQUIRED_COMPONENTS -> HealthStatus]
    /\ feed \in 0..Pairs /\ market \in 0..None
    /\ mute \in BOOLEAN
    /\ books \in {"ok", "warning", "critical"}
    /\ result \in {"none", "ok", "warning", "critical"}
    /\ pc \in {"idle", "drain", "settle", "snapshot", "warmup", "protect",
               "evaluate", "seek"}
    /\ warmedUp \in BOOLEAN /\ engaged \in BOOLEAN
    /\ streak \in 0..Confirmations
    /\ elapsed \in 0..MaxElapsed /\ troubles \in 0..MaxTroubles

\* The errors of s that are inside the window.
Burst(s) == Cardinality({i \in DOMAIN errors[s] : errors[s][i] <= ErrorWindow})

\* A component is never shown healthier than its own last report, nor than
\* the errors of the last window allow, nor healthy when it has gone quiet,
\* whatever the order of reports and errors (heartbeat, record_error, _aged).
NeverHealthyWhileFailing ==
    /\ HealthTypeOK
    /\ \A s \in REQUIRED_COMPONENTS :
          /\ rank[Aged(s)] >= rank[said[s]]
          /\ Burst(s) >= ErrorBudget => Aged(s) # "HEALTHY"
          /\ Burst(s) >= 2 * ErrorBudget => Aged(s) = "OFFLINE"
          /\ state[s].beat >= DegradedAfter => Aged(s) # "HEALTHY"

\* An entry is made only while no required component has used up its error
\* budget, errors recorded since the tick took its snapshot included, and
\* each of them reported within degraded_after and this round of the loop
\* (gate_system_health, _risk_check).
EntriesAreHealthy ==
    EntryAllowed =>
        \A s \in REQUIRED_COMPONENTS :
            /\ Burst(s) < ErrorBudget
            /\ state[s].beat < DegradedAfter + MaxElapsed

AllIsWell == feed = Pairs /\ ~mute /\ books = "ok"

\* When the surroundings are well for good, so is every snapshot from some
\* time on: no burst of errors, silence or mismatch poisons a component for
\* ever (_evict_errors).
NotPoisonedForever == <>[]AllIsWell => <>[]RequiredOk(health)

\* When something stays wrong for good, the platform does not go on trading:
\* the kill switch engages, and again after every reset (CONFIRMATIONS).
SustainedFailureHalts == <>[](warmedUp /\ ~AllIsWell) => []<>engaged
=============================================================================
