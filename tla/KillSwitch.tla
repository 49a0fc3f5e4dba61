----------------------------- MODULE KillSwitch -----------------------------
(***************************************************************************)
(* The kill switch (risk/kill_switch) and the part of the trading loop     *)
(* that evaluates it and carries out its actions (_protect in              *)
(* apps/orchestrator/orchestrator.py).                                     *)
(*                                                                         *)
(* evaluate visits the triggers in a fixed order against inputs gathered   *)
(* before it started, and suspends only where engage publishes; cancelling *)
(* and flattening suspend too.  The API and the operator act at those      *)
(* points and between evaluations.                                         *)
(*                                                                         *)
(* The four booleans of KillSwitchState are the set in_force.              *)
(***************************************************************************)
EXTENDS Naturals, Sequences

CONSTANTS Watched,  \* the triggers evaluate examines in a run
          Named     \* the names the API or an operator engages in a run

HALT == "HALT_NEW_TRADES"
CANCEL == "CANCEL_ALL"
FLATTEN == "FLATTEN"
DISABLE == "DISABLE_EXECUTION"
KillAction == {HALT, CANCEL, FLATTEN, DISABLE}

\* The triggers with a predicate, in the order evaluate visits them.
TRIGGERS ==
    <<"MAX_DRAWDOWN_BREACHED", "MAX_DAILY_LOSS_BREACHED", "MARKET_DATA_OUTAGE",
      "BOOK_CORRUPTION", "RECONCILIATION_MISMATCH", "UNEXPECTED_POSITION",
      "SYSTEM_HEALTH_FAILURE", "EXCESSIVE_LATENCY", "STORAGE_FAILURE">>

Predicated == {TRIGGERS[i] : i \in 1..9}

\* The triggers that are only engaged by name; any other name counts too.
ByName == {"MANUAL", "AGENT_FAILURE", "RISK_LIMIT_BREACH", "UNLISTED"}
TriggerName == Predicated \cup ByName

ASSUME SwitchAssumption == Watched \subseteq Predicated /\ Named \subseteq TriggerName

\* Mutant: a trigger that disables execution no longer halts.
TRIGGER_ACTIONS_apart(t) ==
    CASE t \in {"MAX_DRAWDOWN_BREACHED", "MAX_DAILY_LOSS_BREACHED"} -> {HALT, FLATTEN}
      [] t \in {"MARKET_DATA_OUTAGE", "BOOK_CORRUPTION", "RISK_LIMIT_BREACH"} ->
            {HALT, CANCEL}
      [] t \in {"RECONCILIATION_MISMATCH", "UNEXPECTED_POSITION"} -> {CANCEL, DISABLE}
      [] t = "MANUAL" -> {HALT, CANCEL, FLATTEN}
      [] OTHER -> {HALT}

\* What each trigger does when it fires; a name not in the table halts.
TRIGGER_ACTIONS(t) ==
    CASE t \in {"MAX_DRAWDOWN_BREACHED", "MAX_DAILY_LOSS_BREACHED"} -> {HALT, FLATTEN}
      [] t \in {"MARKET_DATA_OUTAGE", "BOOK_CORRUPTION", "RISK_LIMIT_BREACH"} ->
            {HALT, CANCEL}
      [] t = "RECONCILIATION_MISMATCH" -> {HALT, CANCEL, DISABLE}
      [] t = "UNEXPECTED_POSITION" -> {HALT, DISABLE}
      [] t = "MANUAL" -> {HALT, CANCEL, FLATTEN}
      [] OTHER -> {HALT}

\* Consecutive evaluations a trigger must fire on before it engages.
CONFIRMATIONS(t) ==
    CASE t \in {"SYSTEM_HEALTH_FAILURE", "EXCESSIVE_LATENCY"} -> 3
      [] t = "MARKET_DATA_OUTAGE" -> 2
      [] OTHER -> 1

\* What evaluate makes of a condition.
Verdict == {"holds", "clear"}

VARIABLES
    in_force,           \* the booleans of KillSwitchState that are set
    triggered_by,       \* KillSwitchState.triggered_by
    streaks,            \* KillSwitch.streaks, 0 where there is no entry
    executor_disabled,  \* PaperExecutor.execution_disabled
    phase,              \* where _protect is
    todo,               \* the triggers evaluate has yet to visit
    suspended,          \* evaluate is waiting for a publication
    seen                \* since the last clear, the latest verdicts of each
                        \* trigger, newest last, CONFIRMATIONS of them at most

switchVars == <<in_force, triggered_by>>
loopVars == <<phase, todo, suspended>>
vars == <<in_force, triggered_by, streaks, executor_disabled, phase, todo,
          suspended, seen>>

Phases == {"idle", "evaluate", "cancel", "flatten"}

---------------------------------------------------------------------------
(* Engaging *)

\* engage: record the trigger and put its actions in force, once.
Engage(t) ==
    IF t \in triggered_by
    THEN UNCHANGED switchVars
    ELSE /\ triggered_by' = triggered_by \cup {t}
         /\ in_force' = in_force \cup TRIGGER_ACTIONS(t)

\* Where the trading loop lets other tasks run.
Interruptible == phase = "evaluate" => suspended

\* The API or an operator engages a trigger by name.
EngageByName(t) ==
    /\ Interruptible
    /\ Engage(t)
    /\ UNCHANGED <<streaks, executor_disabled, loopVars, seen>>

\* Mutant: a manual reset leaves the streaks.
StreaksAfterClear_kept == streaks

\* clear forgets the streaks too.
StreaksAfterClear == [t \in Watched |-> 0]

\* The manual reset.
Clear ==
    /\ Interruptible
    /\ in_force' = {} /\ triggered_by' = {}
    /\ streaks' = StreaksAfterClear
    /\ seen' = [t \in Watched |-> <<>>]
    /\ UNCHANGED <<executor_disabled, loopVars>>

---------------------------------------------------------------------------
(* Evaluating *)

\* _protect gathers the inputs and calls evaluate.
Evaluate ==
    /\ phase = "idle"
    /\ phase' = "evaluate" /\ todo' = Watched /\ suspended' = FALSE
    /\ UNCHANGED <<switchVars, streaks, executor_disabled, seen>>

\* evaluate visits the triggers in the order of the table.  What a predicate
\* makes of the inputs gathered (that it holds, that it does not, or an
\* exception) is chosen when the trigger is visited.
IsNextTrigger(t) ==
    /\ phase = "evaluate" /\ t \in todo
    /\ \E i \in 1..9 : /\ TRIGGERS[i] = t
                       /\ \A j \in 1..9 : j < i => TRIGGERS[j] \notin todo

\* The latest verdicts with one more, c of them at most.
WithOneMore(verdicts, v, c) ==
    LET longer == Append(verdicts, v) IN
    IF Len(longer) > c THEN Tail(longer) ELSE longer

Recorded(t, v) == WithOneMore(seen[t], v, CONFIRMATIONS(t))

\* Already triggered, or the predicate raises: no streak changes.
Skip(t) ==
    /\ IsNextTrigger(t)
    /\ todo' = todo \ {t} /\ suspended' = FALSE
    /\ UNCHANGED <<switchVars, streaks, executor_disabled, phase, seen>>

BrokenStreak(t) == 0

\* The condition does not hold: the streak is broken.
ObserveClear(t) ==
    /\ IsNextTrigger(t) /\ t \notin triggered_by
    /\ streaks' = [streaks EXCEPT ![t] = BrokenStreak(t)]
    /\ seen' = [seen EXCEPT ![t] = Recorded(t, "clear")]
    /\ todo' = todo \ {t} /\ suspended' = FALSE
    /\ UNCHANGED <<switchVars, executor_disabled, phase>>

\* Mutant: one evaluation too many.
Confirmed_late(t) == streaks[t] >= CONFIRMATIONS(t)

Confirmed(t) == streaks[t] + 1 >= CONFIRMATIONS(t)

\* The condition holds: the streak grows, and engages once it is long enough.
Observe(t) ==
    /\ IsNextTrigger(t) /\ t \notin triggered_by
    /\ streaks' = [streaks EXCEPT ![t] = @ + 1]
    /\ seen' = [seen EXCEPT ![t] = Recorded(t, "holds")]
    /\ IF Confirmed(t) THEN suspended' = TRUE /\ Engage(t)
                       ELSE suspended' = FALSE /\ UNCHANGED switchVars
    /\ todo' = todo \ {t}
    /\ UNCHANGED <<executor_disabled, phase>>

---------------------------------------------------------------------------
(* Carrying out the actions *)

\* Nothing is kept of an evaluation that is over.
Forget == todo' = {} /\ suspended' = FALSE

\* Mutant: the executor is never told.
Disabling_forgotten == FALSE

Disabling == DISABLE \in in_force

\* What follows cancel_all: execution is disabled, then flatten begins, or the
\* actions are done.
AfterCancel ==
    /\ executor_disabled' = (executor_disabled \/ Disabling)
    /\ phase' = IF FLATTEN \in in_force THEN "flatten" ELSE "idle"

\* evaluate is over: cancel_all begins if it is requested.
Evaluated ==
    /\ phase = "evaluate" /\ todo = {}
    /\ IF CANCEL \in in_force
       THEN phase' = "cancel" /\ UNCHANGED executor_disabled
       ELSE AfterCancel
    /\ Forget
    /\ UNCHANGED <<switchVars, streaks, seen>>

Acknowledge(action) == in_force \ {action}

\* cancel_all returned: acknowledge_cancel_all.
Cancelled ==
    /\ phase = "cancel"
    /\ in_force' = Acknowledge(CANCEL)
    /\ AfterCancel
    /\ UNCHANGED <<triggered_by, streaks, todo, suspended, seen>>

\* cancel_all raised: the tick is abandoned and nothing is acknowledged.
CancelFails ==
    /\ phase = "cancel"
    /\ phase' = "idle"
    /\ UNCHANGED <<switchVars, streaks, executor_disabled, todo,
                   suspended, seen>>

\* _flatten returned: acknowledge_flatten.
Flattened ==
    /\ phase = "flatten"
    /\ in_force' = Acknowledge(FLATTEN)
    /\ phase' = "idle"
    /\ UNCHANGED <<triggered_by, streaks, executor_disabled, todo,
                   suspended, seen>>

---------------------------------------------------------------------------
Init ==
    /\ in_force = {} /\ triggered_by = {}
    /\ streaks = [t \in Watched |-> 0]
    /\ seen = [t \in Watched |-> <<>>]
    /\ executor_disabled = FALSE
    /\ phase = "idle" /\ todo = {} /\ suspended = FALSE

Visit == \E t \in Watched : Skip(t) \/ ObserveClear(t) \/ Observe(t)

Next ==
    \/ \E t \in Named : EngageByName(t)
    \/ Clear \/ Evaluate \/ Visit \/ Evaluated
    \/ Cancelled \/ CancelFails \/ Flattened

Spec == Init /\ [][Next]_vars

\* The trading loop keeps ticking and each step of it returns; cancel_all does
\* not raise for ever, because the order that makes it raise concludes
\* (EveryOrderConcludes of PaperExecution).
Fairness ==
    /\ WF_vars(Evaluate) /\ WF_vars(Visit) /\ WF_vars(Evaluated)
    /\ SF_vars(Cancelled) /\ WF_vars(Flattened)

FairSpec == Spec /\ Fairness

---------------------------------------------------------------------------
(* Properties *)

\* Every variable has its type, and evaluate has triggers to visit only while
\* it runs.
TypeOK ==
    /\ in_force \subseteq KillAction
    /\ triggered_by \subseteq Watched \cup Named
    /\ streaks \in [Watched -> Nat]
    /\ executor_disabled \in BOOLEAN
    /\ phase \in Phases
    /\ todo \subseteq Watched /\ (todo # {} => phase = "evaluate")
    /\ suspended \in BOOLEAN
    /\ seen \in [Watched -> Seq(Verdict)]

\* What is in force is always accounted for by what was triggered, across
\* engagements, acknowledgements and resets in any order: the switch halts
\* exactly while something has triggered it, execution is disabled exactly
\* while something that disables it has, and nothing is cancelled or flattened
\* that no trigger asked for.
ForceFollowsTriggers ==
    /\ HALT \in in_force <=> triggered_by # {}
    /\ DISABLE \in in_force <=> \E t \in triggered_by : DISABLE \in TRIGGER_ACTIONS(t)
    /\ \A a \in in_force : \E t \in triggered_by : a \in TRIGGER_ACTIONS(t)

\* Between any two awaits of evaluate, of the API's calls and of the loop that
\* carries the actions out, the switch is typed and in force is what was triggered.
Accounted == TypeOK /\ ForceFollowsTriggers

\* The latest CONFIRMATIONS(t) verdicts since the last clear all held.
Sustained(s, t) ==
    Len(s[t]) = CONFIRMATIONS(t) /\ \A i \in DOMAIN s[t] : s[t][i] = "holds"

\* A sustained failure always engages: no trigger has held for as long as it
\* takes, since the last reset, without being engaged.
SustainedFailureEngages == \A t \in Watched : Sustained(seen, t) => t \in triggered_by

\* One blip never engages: evaluate engages a trigger only when it has held on
\* that many consecutive evaluations, none of them from before the last reset.
OnlySustainedFailureEngages ==
    [][\A t \in todo : t \in triggered_by' \ triggered_by /\ t \notin todo' =>
                          Sustained(seen', t)]_vars

\* The switch never clears itself: whatever is evaluated, acknowledged or fails,
\* only a reset of everything takes a trigger back or lifts the halt.
NeverClearsItself ==
    [][\/ triggered_by' = {} /\ in_force' = {}
       \/ triggered_by \subseteq triggered_by' /\ in_force \ in_force' \subseteq {CANCEL, FLATTEN}]_vars

\* Every action in force is carried out (or reset) in the end, though cancel_all
\* may raise any number of times and take the rest of the tick with it.
ActionsAreCarriedOut ==
    /\ \A a \in {CANCEL, FLATTEN} : a \in in_force ~> a \notin in_force
    /\ DISABLE \in in_force ~> (executor_disabled \/ DISABLE \notin in_force)
=============================================================================
