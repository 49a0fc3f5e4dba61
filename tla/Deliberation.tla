---------------------------- MODULE Deliberation ----------------------------
(***************************************************************************)
(* How the agents are asked about an opportunity and how their opinions    *)
(* become a decision (apps/orchestrator, core/bus/barrier.py, core/state,  *)
(* strategies/consensus, agents tidal, noro, zephr and lumen).             *)
(*                                                                         *)
(* One symbol, so one open opportunity at a time                           *)
(* (TradingFloor!ActiveIsTheOpenRecord); time is counted by the age of     *)
(* things.  The bus is "inline" when nothing suspends in a publication     *)
(* (the memory bus over SQLite): a drain then settles everything and no    *)
(* time passes in a tick.  It is "suspending" over Redis or PostgreSQL:    *)
(* handlers run while the tick waits, opinions may overtake each other,    *)
(* and drain may return before the agents have answered                    *)
(* (EventBus!DrainCompletes).  Confidences are 1.  Execution between the   *)
(* decision and MONITORING is in TradingFloor, and takes some time here;   *)
(* so are the publications that fail.                                      *)
(***************************************************************************)
EXTENDS Integers, Sequences, FiniteSets, FiniteSetsExt

CONSTANTS
    MaxOpportunities,  \* bound: opportunities of the run
    MaxPending,        \* bound: requests an agent has not handled yet
    Running,           \* bound: the agents that run over each kind of bus
    MaxAnswers,        \* bound: opinions published and not delivered
    Required,          \* consensus.required_agents
    Weight,            \* consensus.weights, in tenths
    Ttl,               \* validity of an agent's opinion
    Grace,             \* degraded_grace_ms
    Timeout,           \* agent_response_timeout_ms
    Lifetime,          \* validity of an opportunity
    TidalSignals, NoroSignals, LumenSignals

Analysts == {"TIDAL", "NORO", "ZEPHR"}
Agents == Analysts \cup {"LUMEN"}
Opportunities == 1..MaxOpportunities

ASSUME DeliberationAssumption ==
    /\ MaxOpportunities \in Nat \ {0} /\ MaxPending \in Nat \ {0}
    /\ MaxAnswers \in Nat \ {0}
    /\ Running \in [{"inline", "suspending"} -> SUBSET Agents]
    /\ Required \subseteq Analysts
    /\ Weight \in [Agents -> Nat \ {0}] /\ Ttl \in [Agents -> Nat]
    /\ Grace \in Nat /\ Timeout \in Nat \ {0} /\ Lifetime \in Nat
    /\ TidalSignals \cup NoroSignals \cup LumenSignals \subseteq {-1, 0, 1}

\* ConsensusConfig, in per cent; exit is below entry.
EntryThreshold == 60
ExitThreshold == 45
DegradedFactor == 35

None == {}
Oldest == Max({Ttl[a] + Grace : a \in Agents} \cup {Timeout, Lifetime}) + 1

\* What an opinion is about: AgentOpinion.subject.
Symbol == 0
Opinion == [agent : Agents, subject : Opportunities \cup {Symbol},
            age : 0..Oldest, signal : {-1, 0, 1}]

VARIABLES
    bus,        \* "inline" or "suspending"
    phase,      \* where the tick is
    current,    \* the latest opportunity
    age,        \* its age, while it is evaluated
    stage,      \* what became of it
    barrier,    \* ResponseBarrier._pending: who has answered, <<>> if unknown
    asked,      \* requests on their way to each agent
    answers,    \* opinions published and not delivered
    opinions,   \* SystemState.opinions
    curves,     \* Zephr.curves: what the curve of an opportunity is worth
    viewed      \* history: who had a view on it while it was evaluated

agentVars == <<asked, answers, curves>>
recordVars == <<current, age, stage, barrier, viewed>>
vars == <<bus, phase, current, age, stage, barrier, asked, answers, opinions,
          curves, viewed>>

\* Others run while the tick sleeps, and over a suspending bus while it
\* drains.  The waits in between read and write nothing of theirs: a step of
\* theirs there is the same step taken at the sleep or drain beside it.
TickWaits ==
    phase = "idle" \/ (bus = "suspending" /\ phase \in {"publish", "ask", "monitor"})

\* Handlers also run in a drain of the inline bus, which calls them.
Dispatching == TickWaits \/ phase \in {"ask", "monitor"}

IsOpen(o) == o = current /\ stage # "none"

---------------------------------------------------------------------------
(* The agents *)

\* What the market shows of a leg: no usable book, one without levels, one
\* too thin to trade with an edge, or a good one.
Quote == {"unusable", "empty", "thin", "deep"}
Legs == {"buy", "sell"}
Market == [Legs -> Quote]

\* compute_fair_value prices the venues that are usable and have liquidity.
Priced(market) == {leg \in Legs : market[leg] \in {"thin", "deep"}}

\* A view is a set of at most one signal: no view is no opinion.
TidalViews(market) ==
    IF \E leg \in Legs : market[leg] = "unusable" THEN {None}
    ELSE {{s} : s \in TidalSignals}

NoroViews(market) ==
    IF Priced(market) # Legs THEN {None} ELSE {{s} : s \in NoroSignals}

\* build_curve has none when a leg has no levels; a curve without an
\* economical size is an opinion against the trade.
CurveOf(market) ==
    IF \E leg \in Legs : market[leg] \in {"unusable", "empty"} THEN "none"
    ELSE IF \E leg \in Legs : market[leg] = "thin" THEN "unsized"
    ELSE "sized"

ZephrViews(market) ==
    CASE CurveOf(market) = "none" -> {None}
      [] CurveOf(market) = "unsized" -> {{-1}}
      [] OTHER -> {{1}}

Views(a, market) ==
    CASE a = "TIDAL" -> TidalViews(market)
      [] a = "NORO" -> NoroViews(market)
      [] OTHER -> ZephrViews(market)

OpinionsOf(a, subject, view) ==
    {[agent |-> a, subject |-> subject, age |-> 0, signal |-> s] : s \in view}

MayAnswer == Cardinality(answers) < MaxAnswers

\* on_event for OPPORTUNITY_DETECTED: an agent evaluates and publishes.
Evaluate(a, market) ==
    /\ Dispatching /\ asked[a] # <<>> /\ MayAnswer
    /\ LET o == Head(asked[a]) IN
       \E view \in Views(a, market) :
          /\ answers' = answers \cup OpinionsOf(a, o, view)
          /\ viewed' = IF view # None /\ o = current /\ stage = "evaluating"
                       THEN viewed \cup {a} ELSE viewed
          /\ curves' = IF a = "ZEPHR" /\ view # None
                       THEN [curves EXCEPT ![o] = CurveOf(market)] ELSE curves
    /\ asked' = [asked EXCEPT ![a] = Tail(@)]
    /\ UNCHANGED <<bus, phase, current, age, stage, barrier, opinions>>

\* Lumen.run_once in its own task: it publishes a read, or nothing when the
\* provider failed or its response was malformed.
LumenPoll ==
    /\ TickWaits /\ MayAnswer /\ "LUMEN" \in Running[bus]
    /\ \E s \in LumenSignals : answers' = answers \cup OpinionsOf("LUMEN", Symbol, {s})
    /\ UNCHANGED <<bus, phase, opinions, recordVars, asked, curves>>

---------------------------------------------------------------------------
(* Orchestrator._on_opinion: SystemState.put_opinion and barrier.record *)

SameKey(p, q) == p.agent = q.agent /\ p.subject = q.subject

\* A delivery out of order does not resurrect an older opinion.
PutOpinion(p) ==
    IF \E q \in opinions : SameKey(p, q) /\ q.age < p.age THEN opinions
    ELSE {q \in opinions : ~SameKey(p, q)} \cup {p}

\* The barrier ignores whom it does not know; those answers count as late.
Recorded(p) ==
    IF p.subject = Symbol \/ p.subject \notin DOMAIN barrier THEN barrier
    ELSE [barrier EXCEPT ![p.subject] = @ \cup {p.agent}]

Deliver(p) ==
    /\ Dispatching /\ p \in answers
    /\ answers' = answers \ {p}
    /\ opinions' = PutOpinion(p)
    /\ barrier' = Recorded(p)
    /\ UNCHANGED <<bus, phase, current, age, stage, viewed, asked, curves>>

---------------------------------------------------------------------------
(* ConsensusEngine.combine *)

\* AgentOpinion.quality_at
Quality(p) ==
    IF p.age <= Ttl[p.agent] THEN "FRESH"
    ELSE IF p.age <= Ttl[p.agent] + Grace THEN "DEGRADED"
    ELSE "STALE"

EffectiveWeight(p) ==
    CASE Quality(p) = "FRESH" -> 100 * Weight[p.agent]
      [] Quality(p) = "DEGRADED" -> DegradedFactor * Weight[p.agent]
      [] OTHER -> 0

\* Mutant: opinions are looked up by symbol.
OpinionsFor_symbol(o) == opinions

\* opinions_for: of the opportunity itself, or of its symbol.
OpinionsFor(o) == {p \in opinions : p.subject \in {o, Symbol}}

Votes(o) == {p \in OpinionsFor(o) : EffectiveWeight(p) > 0}
Missing(o) == Agents \ {p.agent : p \in Votes(o)}
Complete(o) == Required \cap Missing(o) = {}

Mass(o) == MapThenSumSet(EffectiveWeight, Votes(o))
Signal(o) == MapThenSumSet(LAMBDA p : EffectiveWeight(p) * p.signal, Votes(o))

\* agreement >= threshold: the mean is 0 when nothing has any weight.
Agrees(o, threshold) == Mass(o) > 0 /\ 100 * Signal(o) >= threshold * Mass(o)

EntryAllowed(o) == Complete(o) /\ Agrees(o, EntryThreshold)
ContinuationAllowed(o) == Complete(o) /\ Agrees(o, ExitThreshold)

---------------------------------------------------------------------------
(* Orchestrator *)

Without(f, o) == [k \in DOMAIN f \ {o} |-> f[k]]
Expecting(o) == [k \in DOMAIN barrier \cup {o} |-> IF k = o THEN {} ELSE barrier[k]]

Ask(o) == asked' = [a \in Agents |-> IF a \in Analysts \cap Running[bus] THEN Append(asked[a], o) ELSE <<>>]
MayAsk == \A a \in Analysts : Len(asked[a]) < MaxPending

\* A drain over the inline bus returns when everything has been handled.
Drained ==
    bus = "inline" => answers = {} /\ \A a \in Analysts : asked[a] = <<>>

\* transition to CLOSED or REJECTED ends with zephr.forget.
Finish ==
    /\ stage' = "none"
    /\ curves' = [curves EXCEPT ![current] = "none"]
    /\ age' = 0 /\ viewed' = {}

\* Mutant: opinions of finished opportunities are kept.
Kept_all == opinions

\* _prune: the opinions on the opportunities open now, and on symbols.
Kept == {p \in opinions : p.subject = Symbol \/ (p.subject = current /\ stage' # "none")}

EndTick ==
    /\ opinions' = Kept
    /\ phase' = "idle"

\* Mutant: the wait has no deadline.
Overdue_never == FALSE

\* _evaluate_or_defer stops waiting at the timeout, and when the opportunity
\* is no longer valid.
Overdue == age >= Timeout \/ age > Lifetime

\* Mutant: the barrier waits for every agent that has a weight.
Answered_all == Agents \subseteq barrier[current]

Answered == Required \subseteq barrier[current]

Defer ==
    /\ ~Answered /\ ~Overdue
    /\ UNCHANGED <<recordVars, curves>>

Forgotten == Without(barrier, current)

\* _decide, when everyone answered or the wait is over ...
Deciding ==
    /\ Answered \/ Overdue
    /\ barrier' = Forgotten
    /\ UNCHANGED current

\* ... rejects what is expired, incomplete, below the threshold, without a
\* size, or refused by a gate of RUNE ...
Reject == Deciding /\ Finish

\* ... and enters only what is none of these.
Enter ==
    /\ Deciding
    /\ age <= Lifetime
    /\ EntryAllowed(current)
    /\ curves[current] = "sized"
    /\ stage' = "held" /\ age' = 0
    /\ UNCHANGED <<viewed, curves>>

EvaluateOrDefer ==
    /\ stage = "evaluating"
    /\ Defer \/ Reject \/ Enter
    /\ UNCHANGED <<bus, asked, answers>>

\* _await_pending_agents
AwaitPending ==
    /\ phase = "idle"
    /\ EvaluateOrDefer
    /\ phase' = "seek"
    /\ UNCHANGED opinions

\* _monitor asks again ...
Monitor ==
    /\ phase = "idle" /\ stage = "held" /\ MayAsk
    /\ barrier' = Expecting(current)
    /\ Ask(current)
    /\ phase' = "monitor"
    /\ UNCHANGED <<bus, current, age, stage, viewed, opinions, answers, curves>>

\* ... and after the drain keeps the position or exits it.
Judge ==
    /\ phase = "monitor" /\ Drained
    /\ barrier' = Without(barrier, current)
    /\ stage' = IF ContinuationAllowed(current) THEN "held" ELSE "exiting"
    /\ phase' = "seek"
    /\ UNCHANGED <<bus, current, age, viewed, opinions, agentVars>>

\* A flatten exits too.
Flatten ==
    /\ phase = "idle" /\ stage = "held"
    /\ stage' = "exiting"
    /\ phase' = "seek"
    /\ UNCHANGED <<bus, current, age, barrier, viewed, opinions, agentVars>>

\* An exit is still working, or its record is closed.
AdvanceExit ==
    /\ phase = "idle" /\ stage = "exiting"
    /\ Finish \/ UNCHANGED <<stage, age, viewed, curves>>
    /\ phase' = "seek"
    /\ UNCHANGED <<bus, current, barrier, opinions, asked, answers>>

NothingToManage ==
    /\ phase = "idle" /\ stage = "none"
    /\ phase' = "seek"
    /\ UNCHANGED <<bus, opinions, recordVars, agentVars>>

\* _seek: a detected opportunity becomes a record and is published ...
Seek ==
    /\ phase = "seek" /\ stage = "none" /\ MayAsk
    /\ current < MaxOpportunities
    /\ current' = current + 1
    /\ stage' = "evaluating"
    /\ Ask(current + 1)
    /\ phase' = "publish"
    /\ UNCHANGED <<bus, age, barrier, viewed, opinions, answers, curves>>

\* ... and only then the barrier learns of it: what was answered by now is late.
Register ==
    /\ phase = "publish"
    /\ barrier' = Expecting(current)
    /\ phase' = "ask"
    /\ UNCHANGED <<bus, current, age, stage, viewed, opinions, agentVars>>

\* What is decided of it after the drain ends the tick.
AfterDrain ==
    /\ phase = "ask" /\ Drained
    /\ EvaluateOrDefer
    /\ EndTick

\* Nothing detected, or trading is not allowed.
SkipSeek ==
    /\ phase = "seek"
    /\ UNCHANGED <<bus, recordVars, agentVars>>
    /\ EndTick

\* Ages are counted to where they tell nothing more apart: an opinion is stale,
\* an opportunity has expired.
Older(n, limit) == IF n < limit THEN n + 1 ELSE n
OlderAll(ps) == {[p EXCEPT !.age = Older(@, Ttl[p.agent] + Grace + 1)] : p \in ps}

\* Time passes between ticks, and while a tick is suspended.
Pass ==
    /\ TickWaits
    /\ age' = IF stage = "evaluating" THEN Older(age, Lifetime + 1) ELSE age
    /\ answers' = OlderAll(answers)
    /\ opinions' = OlderAll(opinions)
    /\ UNCHANGED <<bus, phase, current, stage, barrier, viewed, asked, curves>>

---------------------------------------------------------------------------
Init ==
    /\ bus \in {"inline", "suspending"}
    /\ phase = "idle"
    /\ current = 0 /\ age = 0 /\ stage = "none"
    /\ barrier = <<>>
    /\ asked = [a \in Agents |-> <<>>]
    /\ answers = {} /\ opinions = {}
    /\ curves = [o \in Opportunities |-> "none"]
    /\ viewed = {}

Decisions == AwaitPending \/ AfterDrain \/ Judge
Tick ==
    \/ Monitor \/ Flatten \/ AdvanceExit \/ NothingToManage
    \/ Seek \/ Register \/ SkipSeek \/ Decisions

Handlers ==
    \/ \E a \in Analysts, market \in Market : Evaluate(a, market)
    \/ \E p \in answers : Deliver(p)

Next == Tick \/ Handlers \/ LumenPoll \/ Pass

Spec == Init /\ [][Next]_vars

\* The loop ticks for ever and sleeps between two ticks, so that time passes; a
\* bus dispatches what there is.  No agent need answer, and none need be in time.
Fairness == WF_vars(Tick) /\ WF_vars(Handlers) /\ SF_vars(Pass)

FairSpec == Spec /\ Fairness

---------------------------------------------------------------------------
(* Properties *)

\* The types of the loop, of the barrier and of what the agents are at.
TypeOK ==
    /\ bus \in {"inline", "suspending"}
    /\ phase \in {"idle", "monitor", "seek", "publish", "ask"}
    /\ current \in 0..MaxOpportunities /\ age \in 0..Oldest
    /\ stage \in {"none", "evaluating", "held", "exiting"}
    /\ barrier \in [DOMAIN barrier -> SUBSET Agents]
    /\ asked \in [Agents -> Seq(Opportunities)]
    /\ answers \subseteq Opinion /\ opinions \subseteq Opinion
    /\ curves \in [Opportunities -> {"none", "unsized", "sized"}]
    /\ viewed \subseteq Analysts

\* A position is entered only if every required agent had a view on that very
\* opportunity: silence, an opinion left over from an earlier opportunity of
\* the symbol or a read of the symbol does not stand in for it, over neither
\* kind of bus (_evaluate_or_defer, opinions_for, combine, entry_allowed).
EntryNeedsEveryView == stage = "held" => Required \subseteq viewed

\* Over the inline bus the drain after a request is enough: an opportunity
\* waits for its agents beyond its own tick only when one of them had no view
\* (_seek, _on_opinion, ResponseBarrier.record).
DecidedAtOnce ==
    (bus = "inline" /\ phase \in {"seek", "idle"} /\ stage = "evaluating") =>
        ~ (Required \subseteq viewed)

\* The barrier knows an opportunity only while its answers are awaited, and
\* over the inline bus no curve and, between ticks, no opinion is left of a
\* finished one (barrier.forget, zephr.forget, _prune).
NothingOutlivesItsRecord ==
    /\ TypeOK
    /\ \A o \in DOMAIN barrier : o = current /\ (stage = "evaluating" \/ phase = "monitor")
    /\ bus = "inline" =>
        /\ \A o \in Opportunities : curves[o] # "none" => IsOpen(o)
        /\ phase = "idle" =>
            \A p \in opinions : p.subject = Symbol \/ IsOpen(p.subject)

\* Whatever the agents say or fail to say, and though an answer may come before
\* the barrier expects it or after it was forgotten, every opportunity that is
\* evaluated is decided in the end, which is what TradingFloor!Fairness takes for
\* granted (_evaluate_or_defer, _await_pending_agents).
NobodyWaitsForEver == stage = "evaluating" ~> stage # "evaluating"
=============================================================================
