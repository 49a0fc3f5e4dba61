# A verification project for the trading floor

The repository is an event-driven paper-trading platform: agents observe two
venues, an orchestrator turns a price dislocation into an opportunity, asks the
agents for opinions, lets RUNE authorise the trade, has VESKA work it through a
simulated executor, manages the position and unwinds it. A kill switch, a
reconciliation agent (MARIN) and an API act on all of this. This directory models
the parts whose correctness depends on the order in which things happen: TLA+
modules, TLC configurations that check them on small instances, and TLAPS proofs
of what matters most for every instance.

Contents: [1 inventory](#1-inventory), [2 modules](#2-modules),
[3 runs](#3-runs-bounds-and-what-they-show), [4 fairness](#4-fairness),
[5 proofs](#5-proofs), [6 what the code does not do](#6-what-the-sources-say-and-the-code-does-not-do),
[7 what is not modelled](#7-what-is-not-modelled-and-why), [8 plan](#8-plan),
[9 running it](#9-running-it).

All paths below are relative to `src/`.

## 1 Inventory

Everything runs in one asyncio event loop. A handler is only interrupted at an
`await`: publishing, draining, sleeping. The orchestrator's task ticks for ever;
the bus has a task that dispatches events to subscribers; the API runs in its own
tasks. All share one `SystemState`, one order manager and one account.

| Component | State | Operations | What is hard | What makes it correct |
| --- | --- | --- | --- | --- |
| Orders: `core/models/execution.py` | status, filled quantity, fills | `transition`, `apply_fill` | a table of 11 statuses, used by three callers | status and fills agree; refused transitions are only the known ones |
| Executor: `execution/paper/executor.py` | `_pending` (arrival, cancel, timeout), disabled flag | `submit`, `cancel`, `cancel_all`, `poll` | cancel racing a fill, calls while an order is in flight, a loop that raises half way | trades only at the venue; every order ends; nothing new once disabled |
| Order manager: `execution/oms` | orders, duplicate window, counters | `create`, `apply_fill`, `mark_unknown`, `resolve_unknown`, `compact` | repeats beyond the window, archiving | each fill counted once; live orders resident |
| Account: `execution/paper/account.py` | running totals, fill log, checkpoint, duplicate window | `apply_fill`, `seal`, `recompute` | bounded memory without losing a fill | totals are the sum of every fill booked |
| MARIN: `agents/marin` | last result | `reconcile`, seal boundary, `run` | comparing two books that are both being shortened | a mismatch is reported exactly when the books differ |
| Kill switch: `risk/kill_switch` | four actions in force, triggers, streaks | `engage`, `evaluate`, `clear`, acknowledgements | the API acts in the middle of an evaluation | exactly sustained failures engage; nothing but a reset clears |
| Orchestrator: `apps/orchestrator` | open opportunities, plan of each, exit attempts | `tick` and its nine steps | interleaving with the API, a tick that fails half way, a mirror of orders that lags or, over Redis, lacks them | no position without an owner, no live order without a record, nothing hangs, a halt is a halt |
| Detector: `strategies/cross_venue` | active symbol map | `detect`, `release` | marks come before the records and go after them, with awaits in between | an open opportunity is marked, and a mark of none does not stay |
| Consensus, response barrier: `strategies/consensus`, `core/bus/barrier.py` | opinions, responders per request | `expect`, `record`, `responded`, `combine` | early, late and duplicate answers | no decision on a partial vote, no wait for ever |
| RUNE: `risk/limits`, `agents/rune` | decisions | gate chain, headroom | exposure of what is working but not filled | approved notional stays within the limits |
| Bus: `core/bus` | queue or Redis stream, cursors | `publish`, `drain`, dispatch | concurrent drain and dispatch, redelivery | order per publisher; drain waits for what was published |
| Recorder and stores: `storage` | buffer, failure counters | `record`, `flush` | a flush that fails | nothing lost silently; trading stops when persistence does |
| TIDAL: `agents/tidal`, `venues` | books, sequence numbers | snapshot, delta, resync | gaps, duplicates, reordering, the cut to `max_depth` | a book with a gap is not used; a cut book quotes recent levels of the venue |
| OKAPI and the hedge loop: `agents/okapi`, orchestrator `_hedge` | hedges in flight | `build_hedges`, `_hedge` | measuring delta while orders are in flight | a symbol is hedged once |
| Health: `core/health` | heartbeats, error times, status | `heartbeat`, `record_error`, `snapshot` | ageing between the reads of one tick, errors that expire | no component looks healthier than it is; trouble halts, and is forgotten when it ends |
| NORO, ZEPHR, LUMEN; replay; simulation; monitoring; API reads; configuration | | | numeric or read-only | |

Interactions. The orchestrator calls the executor, MARIN, the kill switch and RUNE
directly and sees orders only through the events they publish: `SystemState.orders`
is a mirror brought up to date when the bus is drained, if the drain completes. Agents
answer over the bus.
The API engages the kill switch between any two awaits. An
exception anywhere in a tick abandons the rest of the tick; `run_forever` logs it
and ticks again.

`PROJECT.json` lists every component with its status, and under `hazards` each
place where a test would hardly reach: the properties answer to that list.

## 2 Modules

```
OrderStates ──► PaperExecution ──refines──► OrderContract
     │                └──────────► PaperExecution_proofs
     └────────► Ledger ──────────► Ledger_proofs
KillSwitch ───┐
Health ───────┴────────────────► Supervision_proofs
TradingFloor ─► MCTradingFloor, TradingFloor_proofs
RuneGates ────► Exposure ──────► MCExposure, Exposure_proofs
Deliberation ─► MCDeliberation, Deliberation_proofs
MarketFeed ───► MarketFeed_proofs
EventBus ─────► EventBus_proofs
```

**OrderStates** is the table of `core/models/execution.py` and its derived sets.

**PaperExecution** is the executor with the order manager's state machine. One
variable per field: `status`, `filled`, `expires_at` of `PaperOrder`; `ack_at`,
`cancel_at`, `force_unknown` of `_Pending`; `execution_disabled`; `loop`, the
`poll` or `cancel_all` in progress and the orders it has yet to visit, because
each publishes per order and the API or the orchestrator may act in between;
`illegal`, the transitions asked for and refused. An action is a call
(`Submit`, `Cancel`, `CancelAll`, `Poll`) or one iteration (`PollCancels`,
`PollWorks`, `PollTimesOut`, `PollSkips`, `CancelNext`). A raised
`IllegalTransition` leaves the loop. The order book, the queue model and the
random draw of the cancel race are nondeterministic.

**OrderContract** is the abstract order: absent, working, lost or finished, with
fills that only grow and only while working. `KeepsTheContract` in PaperExecution
is the refinement; TradingFloor and Exposure rely on no more than it.

**Ledger** is the two books. The order manager keeps whole orders and a window of
fill ids; the account keeps totals, the fills since its checkpoint and a window
of its own; `Execute` and `Redeliver` deliver a fill to both in the code's order;
`Reconcile` is MARIN's whole `run`: compare, find the boundary, seal, compact.

**KillSwitch** is the switch and the part of `_protect` that evaluates it and
carries out its actions. `evaluate` visits the triggers in order with inputs
gathered beforehand and suspends when it engages one; the API and the operator act
there. The four booleans are the set `in_force`.

**TradingFloor** is the orchestrator. `phase` is where the tick is, `todo` what its
current loop has yet to visit and `current` the record it is working on between two
awaits; a record is a symbol and a place, reused when the opportunity is finished.
Handlers are cut where they await. `transition` is two actions: `Move` or `Finish`
changes the state up to the publication, and `Release` frees the symbol when it is
published. `_seek` is `Detect`, which marks every symbol it found, and then
`AddOpportunity` and `AskAgents` record by record, each with its decision before the
next: `Decide`, `SizeIntent`, `RiskCheck`, `PlanEntry`, `SendEntry`. `AwaitOrders`,
`CancelPlan`, `CancelPlanFails` and `AdvanceExecution` are `_advance_execution`;
`FlattenRecord`, `LeavePosition` and `RetryExit` are the callers of `SubmitExit`,
which is `_submit_exit` with its ways out, `CloseExit` the end of `_advance_exit`.

The floor judges its orders by `mirror`, what `SystemState.orders` says of each:
`absent` (`orders.get` gives None, which the code takes for neither live nor filled),
`live`, or `finished`. `DrainsComplete` chooses the bus. The one in the process brings
the mirror up to date at every drain (`Drained`) and does not fail to publish. Over
Redis a drain promises nothing, as the run `drain` of EventBus shows: an order is absent when it
is sent, and `Deliver` brings its news at any time. There a publication may also
raise, up to `MaxFailures` of them, at every place the code publishes: `PublishFails`,
`ExecuteFails` with the orders sent by then, and the alternatives `...Fails` of the
handlers. A failure, for whatever reason, abandons the tick (`TickFails`) and leaves
the records as they are.

Three history variables serve the properties: `released` (positions a record gave
up), `strays` (live orders no record names) and `late` (entries sent after a halt).

**RuneGates** is `risk/limits` and the sizing of `agents/rune/core.py` as
functions of an intent and a context: one operator per gate, each with a verdict
(pass, fail, unknown), the headroom, and `Sized`, which cuts an approved intent
down to it. No state; prices are constant, so a quantity is a notional.

**Exposure** lets an account move under those gates. `position` is the account's,
`working` what each order still has to trade, `record` the open opportunity of a
symbol, `allotted` the orchestrator's working notional. `Decide` is RUNE's decision
and the submission of the legs, `Submit`, `Exit` and `AdvanceExit` are
`_submit_exit` and its retries, `Hedge` is OKAPI's `build_hedges` with the
orchestrator's `_hedge`, and a poll fills any live order by any amount (`Fill`) or
ends it (`End`), as OrderContract allows. Orders trade in the poll
only, so the portfolio a tick measured stays true to the end of that tick while
the orders it sends are missing from it: that gap is the subject.

**Deliberation** is how an opportunity is judged. `_seek` publishes the request
(`Seek`) and then registers it with the barrier (`Register`): over a bus that suspends,
answers arrive in between and are late. Each agent builds its view when the request
reaches it, publishes an opinion or nothing, and keeps what it needs later (ZEPHR's
curves); the mirror of opinions keeps the newest per agent and subject and prunes;
`combine` counts them by weight and freshness, `_evaluate_or_defer` decides or
waits, and `_monitor` asks again for an open position. The bus is either
*inline*, where a drain settles everything, or *suspending*, where handlers run
while the tick waits and answers may be late and overtake each other; which
buses are which, and that a drain may return early, is EventBus.

**MarketFeed** is market data from a venue to TIDAL's local book. A venue's book is
named by the number of changes made to it, and the content of a message likewise;
the adapters differ in what they show of that number. `Connect`, `EndSession`,
`FallSilent` and `Resume` are the sessions, `DeliverDelta`, `DeliverSnapshot`,
`AnswerSubscription`, `MissChange`, `SkipChange` and `Repeat` the feed, `Handle` is
`Tidal.on_event` for the next event, and `Quality` what TIDAL says of the book.
`exact` records whether every level of the book is one of a book the venue had, and `whole`
whether the book is the top of that one: the code does not have these fields, the
property needs them. `DeepFeeds` are the adapters that show more levels than TIDAL keeps
(the simulated one does not); on those a removal may make a hole, which clears `whole`. `SkipChange` is a step of the
generator that touches no level, counts, and delivers nothing: the next delta looks
like a gap.

**Health** is the registry with its ageing heartbeats, its window and budget of
errors, and the snapshot that *shares* the records it shows; the loop that reads
it at several points of a tick; and the trigger it feeds. Three of six required
components stand for all: TIDAL is asked by the loop, ZEPHR hears over the bus,
MARIN reports when it measures. Its specification has names of its own
(`HealthSpec`, `HealthTypeOK` and so on) so that Supervision_proofs can extend it
beside KillSwitch.

**EventBus** is both transports. Three tasks publish: the tick, another one, and the
bus task from inside a handler. A publication goes through the recorder, which may
flush, and only then to the transport. In memory there are two dispatchers over one
queue (the bus task and whoever drains); over Redis one consumer reads batches,
dispatches them and moves `_last_dispatched_id`. `Waits` says exactly where a task
gives way: nowhere in memory over SQLite, in a flush into PostgreSQL, in every call
to Redis. `Stop` cancels the tasks, `Crash` forgets the process and leaves the
stream and the consumer group.

Correspondence of names: definitions keep the names of the code (camel case for
methods). `PROJECT.json` maps each definition to its lines.

How they compose. Exposure EXTENDS RuneGates. Elsewhere a module uses the
promise another one establishes instead of its steps, because the product is out of
TLC's reach: TradingFloor and Exposure let orders move as OrderContract says;
Exposure and Deliberation have one open record per symbol because
`ActiveIsTheOpenRecord` says so; Deliberation's two kinds of bus and its early
drains are what EventBus shows of `drain`; KillSwitch and TradingFloor assume
`EveryOrderConcludes`, which PaperExecution shows.

## 3 Runs, bounds and what they show

| Run | Question | Instance | States |
| --- | --- | --- | --- |
| `paper_execution` | Do status, fills, timeouts and the disabled flag stay consistent, does the executor implement the contract, and does every order end, even next to one that keeps raising? | 2 orders of 2 lots, latencies 1, time to live 2, clock to 3 | 390 k |
| `ledger` | Do the books agree under repeats and compaction? | 3 orders of 3 lots, 4 fills, 2 repeats, windows of 2 | 206 k |
| `kill_switch` | Exactly sustained failures engage, and are all actions carried out? | 4 watched triggers (with 1, 2 and 3 confirmations and all four actions), 2 engaged by name | 129 k |
| `floor` | Is a position always owned, no live order stray, a transition always legal, does everything end? | 1 symbol, 2 venues, all values of `TRIGGER_ACTIONS`, 2 exit attempts, the bus in the process | 111 k |
| `floor_redis` | What stays of it when the mirror lacks orders and a publication fails, and when symbols compete for a tick? | 2 symbols, 2 venues, the manual trigger, Redis, 1 failure, symmetric; `TroubleAlone`, `NewsIsPrompt` | 1.74 M |
| `exposure` | Do the limits hold although the gates see only what is booked, and do hedges pile up? | 2 symbols, 2 venues, 2 entries, 1 exit attempt, limits of a few units, symmetric | 1.17 M |
| `deliberation` | Does an entry have every required view, does anyone wait for an answer that is there or for ever, and does anything stay behind? | 2 opportunities, 1 request pending per agent, 2 answers in flight; opinions fresh at age 0, degraded at 1, stale at 2 | 590 k |
| `market_feed` | Can a book look current when it is not, and does it come back? | 1 book, simulated and (deep) coinbase adapters, 4 changes, 3 events on the bus, data age 1 | 109 k |
| `health` | Does anything look healthier than it is, and does lasting trouble halt? | 2 books, degraded after 2, offline after 3, budget 1 in a window of 1, 3 confirmations, 3 troubles | 305 k |
| `event_bus` | Are deliveries in order and once, is every event accounted for? | 3 events, 2 subscriptions, buffer and batch of 2, both transports, one stop or crash | 1.14 M |
| `flatten`, `drain` | Expected violations: section 6 | as `floor` with the manual trigger, as `event_bus` | |

Why the bounds are enough. Orders do not interact except through the loop that
visits them, so two orders show every way in which one delays or outlives
another; two lots distinguish partly filled from filled. A clock to 3 with
latencies 1 and a time to live of 2 lets each of arrival, cancel and expiry come
first. Four fills over windows of two put a fill in the window, in the log, at the
boundary and behind it; three orders of opposite sides with several fills allow
one to straddle the boundary. Every number of confirmations the table has occurs
among the watched triggers. Two venues give an opportunity that trades one leg and
not the other; two symbols give one opportunity that waits while the other is
decided; `MaxAttempts` 2 lets an exit fail, be retried and fail for good. `Slots`
is 2 where a second opportunity on a symbol must be seen not to happen. One failed
publication is enough to leave records in every state a tick may leave them in; a
second one meets the same states. In `floor_redis` one symbol has all of Redis to
itself. When a second one has had an opportunity too, two constraints bound the run:
`NewsIsPrompt` (the events of an order reach the mirror before anything else happens, as
a drain in the process has it) and `TroubleAlone` (no step is followed from a state in
which a publication failed, an order strayed or a position was given up). What two
symbols add is their competition for a tick and for the halt, which neither constraint
takes away; the proofs have no such bound.

In `exposure` two entries of the largest size fill a venue and reach the strategy
limit, so the second is cut down or refused depending on what has filled; three
would reach the gross limit, which the hedges do. In `deliberation` a second
opportunity can be detected while answers to the first are on their way. Over the
suspending bus only NORO and ZEPHR run: agents interact through the vote alone, and
the inline bus has all four. In `market_feed` four changes allow a snapshot, a delta,
a gap and a delta behind it, all on the bus together with a disconnect; books
do not interact except through the connection of their venue, so one is enough;
the binance adapter is the coinbase one with numbers but without an answer to a
subscription, and its books stay out after a gap (section 6), so `GapIsResynced` is
checked without it. In `health` a tick
may take longer or shorter than the differences between the thresholds. In
`event_bus` three events give each task one, and put one in the buffer, one in the
store and one in the stream.

Checked where. The type invariant is an invariant of its own in `paper_execution`;
elsewhere it is the first conjunct of an invariant.

- `paper_execution`: `FillAccounting` (the status says what the fills say),
  `OnlyCancelPendingIsRefused` (the only refused transitions are a second cancel
  and an expiry of a pending cancel), `DisabledOnlyWindsDown`, `KeepsTheContract`,
  `EveryOrderConcludes`.
- `ledger`: `BooksBalance` (checkpoint and log replay to the totals),
  `RepeatsNeedALongGap`, `OnlySplitsMakeMismatches` (without repeats the only
  mismatch is an order cut in two by the boundary), `ArchivedOrdersAreDone` (no
  order that can still trade is sealed, none with a fill in the log is archived),
  `DivergenceIsForever`.
- `kill_switch`: `Accounted` (what is in force follows from what was triggered),
  `SustainedFailureEngages` and its converse, `ActionsAreCarriedOut`.
- `floor`, over the bus in the process: `PositionsAreOwned` (a position is that of a
  record that manages it, unless a record gave it up), `NoOrderStrays` (no live order
  loses its record, although a record sees its orders in a mirror that lags),
  `TransitionsAreLegal`, `NothingHangs`. The first, the second and the last do not hold
  over Redis, and say so (section 6).
- `floor_redis`: `ActiveIsTheOpenRecord` (an open record is its symbol's mark
  at every await, whatever fails; a mark of nothing open is that of a record about to be
  added or released, or a publication failed), `AtMostOneEntryAfterHalt`,
  `TransitionsAreLegal` where a failed publication has left the records.
- `exposure`: `StrategyWithinLimit` (what the open records hold and work, taken on
  one leg, stays below the strategy's limit, however many are decided from one
  measurement), `EveryIntentFits` (an intent that can be cut to a size worth
  trading is not turned down for its size), `HedgesAreBounded` (the hedges of a
  symbol never add up to more than one order, and one that is alone on its symbol
  never trades past the delta it was sent for).
- `deliberation`: `EntryNeedsEveryView` (an entry has the view of every required
  agent on that opportunity, not on an earlier one), `DecidedAtOnce` (inline, an
  opportunity waits only for an agent that had no view),
  `NothingOutlivesItsRecord` (barrier entries and, inline, curves and opinions),
  `NobodyWaitsForEver` (every opportunity that is evaluated is decided, also when all
  answers come before the barrier expects them, or never): what `NothingHangs` takes for
  granted of `_evaluate_or_defer`.
- `market_feed`: `UsableBookIsRecent`, `OnlySnapshotsRevive`, `GapIsResynced`.
- `health`: `NeverHealthyWhileFailing`, `EntriesAreHealthy` (an entry sees
  errors recorded since the snapshot, and heartbeats no older than the threshold
  and this round of the loop), `NotPoisonedForever`, `SustainedFailureHalts`.
- `event_bus`: `DeliveredInOrder`, `NothingSkipped`, `AuditTrail` (each event
  published is in exactly one of: buffered, being stored, stored, counted as lost,
  gone with a cancelled task), `InlineDrainCompletes` (a drain is what its docstring says where
  nothing suspends).

Each property has a mutant, a variant of one definition with a plausible bug
(marked `Mutant:` in the modules), that violates it.

`CHECK_DEADLOCK FALSE` appears where the bounds stop the model: the clock ends in
PaperExecution, fills run out in Ledger, entries in Exposure, events in EventBus.
The others never stop, and are checked for deadlock.

## 4 Fairness

*PaperExecution.* `run_forever` polls again and again and each loop iteration
returns (weak fairness of the iterations, strong of starting a poll, which a
cancel_all may postpone); the clock runs. A cancel that keeps racing wins in the
end: `cancel_wins_race` draws afresh at each poll and loses with a probability
below one. This is said of LIMIT orders, the only ones the router plans; a cancel
never beats a MARKET order.

*KillSwitch.* The loop keeps ticking, and `cancel_all` does not raise for ever,
since the order that makes it raise concludes: `EveryOrderConcludes`.

*TradingFloor.* The loop ticks for ever, whatever a tick raises; an order that
keeps being polled concludes, again by `EveryOrderConcludes`; an opportunity that
keeps being evaluated is decided, because `_evaluate_or_defer` decides at the
response timeout or the expiry of the opportunity. Nothing is assumed of agents,
of fills, of prices or of the API. Liveness is claimed for the bus in the process only:
over Redis a record that a failed publication left between its states is not visited
again.

*Deliberation.* The loop ticks and the handlers run when an event is there (weak); time
passes (strong, since a step of the loop or of a handler may come first). Nothing is
assumed of the agents: an agent that is down, or has no view, never answers.

*MarketFeed.* TIDAL handles what is on the bus (weak); a generator that is up keeps
delivering snapshots, since it counts its steps, and a venue answers a subscription
(strong, because the bound on the bus may disable them for a while). Sessions may
fail at any time and need not come back: `GapIsResynced` excuses a feed that
is not up.

*Health.* The loop takes its steps and the bus hands over the market (weak); the
clock advances and the loop reconciles every so many ticks (strong, both enabled
again and again but not throughout). That components recover is not assumed.

## 5 Proofs

Every invariant and every action property that a run checks is also a theorem, for
every value of the constants, and so is the refinement of OrderContract. The
theorems assume no more than the ASSUMEs of the modules, which TLC evaluates on
every run:

- `ExecAssumption`, `LedgerAssumption`, `BusAssumption`, `FloorAssumption`,
  `FeedAssumption`, `HealthAssumption`: bounds are natural numbers, sizes, windows
  and thresholds positive where the code needs them so, sets of symbols and venues
  finite, adapters the known ones; in `HealthAssumption` also `degraded_after`
  below `offline_after`, at least two pairs, and a round of the loop shorter than
  `degraded_after`.
- `SwitchAssumption`: the watched triggers have a predicate, the named ones are
  names. In TradingFloor every trigger halts, as in `TRIGGER_ACTIONS`.
- `DeliberationAssumption`: weights are positive, signals are -1, 0 or 1, the
  required agents are among those that answer.
- `ExposureAssumption`, `LimitsArePositive`, `LimitsAreCoherent`: the limits are
  positive numbers, and the smallest trade fits an order, an order a position, a
  position the gross limit, as `RiskLimits` validates.

**PaperExecution_proofs.** The inductive invariant is `Consistent`: the type
invariant, `FillAccounting`, `OnlyCancelPendingIsRefused` and
`CancellingOnlyLive`. The last is needed because a `cancel_all` in progress
visits orders that were live when it started; that they still are is what bounds
the transitions it can have refused. A lemma per group of actions shows that it
is preserved (submission, cancel, the quiet poll steps, resolution, a poll that
trades), and `StepConsistent` combines them. From it: `TypeCorrect`,
`FillsAccounted`, `RefusalsBounded`; the action properties `TradesAtTheVenue`
(one action changes fills, and its guard is a live order at the venue) and
`DisabledWindsDown` (at most one order moves per step); and `ImplementsContract`,
the refinement: initial states map to initial states, and each step, seen through
`Kind`, moves one order along the contract or stutters.

**Ledger_proofs.** The invariant is `Kept`. `Sealed` says where the checkpoint cuts
the history of the account: the log is what comes after it, the sealed totals are
the replay of what comes before, the totals the replay of all. `Window` makes the
dedupe window the end of that history, so a fill that is booked again has left the
window (`RepeatsAreFarApart`), and `Held` gives every fill to its order. What
sealing does to the totals rests on one lemma, `ReplayInParts`: replaying two parts
of a log one after the other is replaying it. `BooksAlwaysBalance`,
`ArchivingIsSafe` and `OnlySplitsDisagree` follow; `DivergenceStays` is an action
property, from the counters of the two books (`Counted`).

**Supervision_proofs**, the kill switch. `Accounted` (type invariant and
`ForceFollowsTriggers`) is inductive: HALT and DISABLE in force are exactly those
of some trigger recorded, CANCEL_ALL and FLATTEN at most. `OnlyResetsClear` follows
step by step. For the streaks the invariant is `Counted`, which ties each streak to
the run of verdicts recorded for that trigger since the last reset; the streak
alone says nothing of the past, so neither `SustainedEngages` nor
`OnlySustainedEngages` would be inductive without it.

**Supervision_proofs**, the health monitor. The invariant is `Sober`. `Reported`
says that a record is no better than its component's report and than its errors in
the window; ageing only makes it worse (`AgedRanks`), which is
`FailuresShow`. Errors leave the window but never return to it, so time preserves
it. That an entry is made on good health (`EntriesNeedHealth`) needs what the
snapshot says *after* it was taken: `Shown` bounds the age of every heartbeat that
it shows as healthy by the time the round has taken, and keeps TIDAL's record shared
as long as it is shown as healthy, so that a later error is seen.

**TradingFloor_proofs.** The theorems are about both kinds of bus. Actions are reduced
to shapes: `StepShapes` to the twelve things a step may do to the records, `LoopShapes` to what
it does to the place in the tick and to the marks, `MirrorShapes` to what it does to the mirror;
each part of the invariant `Sane` is shown against the shapes it depends on.
`MarksAgree` and `MarksEnd` give `ActiveAgrees`: an open record is marked, and a mark of
nothing open is at work (`current`), still to be added (`Announced`) or left by a failed
publication; `AtWork` says that the loop has one record in hand at most. For the bus in
the process, `MirrorTells` says that the mirror misses no live order and shows each as
live, so that a record that sees none has none. With it `OrdersInPlay` (only a record
that executes or exits has live orders) gives `NothingStray`, and `EveryLegOwned`,
which counts an entry as an owner from its first fill on, gives `EveryPositionOwned`.
`HaltCloses` gives `OneLateEntry`: once a late entry is sent, the record in hand is not
one RUNE has authorised. `TransitionsLegal` is an action property.

**Exposure_proofs.** `SizingIsEnough` comes first: whatever the limits, the portfolio
and the exposure in flight, an intent with a headroom worth trading passes, once cut
down to it, every gate on its size but leverage, which is not part of the headroom,
and liquidity where it is unknown. Then the account: the invariant `Authorised` ties
the orders at the venues to what was authorised. An entry order works on a leg of a
record that is being entered (`EntriesOwned`), what it bought and may still buy is
within the record's allotment (`WithinAllotment`), and the allotments leave room
under the strategy limit (`RoomLeft`), from which `TheStrategyFits`, although
each decision saw an older portfolio. `OneHedge` and `AloneHedges` give
`TheHedgesAreBounded`. Exposures are sums over sets of positions of any size:
how a sum changes with one of its terms is proved in a section of its own.

**Deliberation_proofs.** The invariant is `Coherent`. An opinion of the opportunity
under evaluation is a view that its agent had on it in time (`ViewsCounted`), because an
opinion names an opportunity that was asked about and none is asked about before it
is there (`Subjects`): hence `EveryViewBeforeEntry`, over both kinds of bus. Over
the inline bus a request and its answer live within one drain (`InlineAsks`), so at
its end the barrier has whoever had a view (`InlineAnswers`), which gives
`OneDrainIsEnough` and `NothingIsLeft`. Both start where the barrier is registered: the
inline bus gives way to nobody between the publication and that (`Stages`).

**EventBus_proofs.** The invariant is `Sound`. Every event issued is in one of the
recorder's five places (`Accounted`), which is most of `TrailComplete`. The transport
reads its log from the front (`Reading`); what is behind the reader has been
given to every subscription once, is with one dispatcher at one place in the list of
subscriptions, or was given up (`Dispatching`), which gives `NoneSkipped` and, with
what one task leaves to another (`OneAtWork`), `InlineDrains`. Where one task
dispatches at a time the event in hand is the last one taken (`InLogOrder`), hence
`OrderKept`.

**MarketFeed_proofs.** Two inductive invariants over the events on the bus.
`SessionOrder`: what a venue sends of its books lies behind a connect that made good
any earlier disconnect, and a book of a venue that is not connected is out; so the
message that a venue is connected again never finds a synchronised book, and
`SnapshotsRevive` follows. `Sound`: a message is as recent as its age says, or
repeats the last that is heard of its book before it (`Heard`); where the feed has
no numbers it is the change after the last that is heard, because a new session
sends its snapshot first. What a book loses by a gap, a repeat or a missed change
is then never hidden, and ageing is monotone, so `UsableIsRecent` follows; for a feed no
deeper than the book, that it is whole is part of the same argument. Only
numbered feeds can tell a repeat, which is why `At` differs for the two kinds.

Induction. The induction theorems of the library take an operator as a parameter,
which the installed provers cannot instantiate. Where a fact is about a sum or a
replay of any length, the set of the numbers for which it holds is shown to contain
zero and to be closed under successor; `Induction`, which says that such a set has
every natural number, is proved from the well-foundedness of the order.

`TradesAtTheVenue`, `OnlyResetsClear` and `SessionsInOrder` are stated as theorems
only: no run repeats them.

Only model-checked: liveness, which these provers do not do with fairness:
`EveryOrderConcludes`, `ActionsAreCarriedOut`, `NothingHangs`, `NobodyWaitsForEver`,
`GapIsResynced`, `NotPoisonedForever` and `SustainedFailureHalts`.

## 6 What the sources say and the code does not do

Two runs expect a violation; each checks a sentence of the sources.

- `flatten`: "unwind every open opportunity immediately." A record still
  EXECUTING is skipped, the flatten is acknowledged, and the position that opens
  afterwards is kept.
- `drain`: "every event published through this bus instance before the call has
  been dispatched". Over Redis an empty read may be answered before an event is
  added and processed after it: `_last_dispatched_id` then skips the event. In
  memory, a dispatcher that suspends inside a handler is invisible to a drain that
  sees the queue empty.

The same modelling met further differences, which no run repeats:

- `apps/orchestrator/orchestrator.py:743`, "Move on once the plan's orders have all
  reached a terminal state": over Redis the drain after an entry may return before the
  mirror has heard of its orders (the run `drain`); the record then sees no live order
  and nothing filled, and is CLOSED with both orders at work. The position they open has
  no owner. An exit is replaced in the same way (974-991). In TradingFloor with
  `DrainsComplete` FALSE both can be seen; `PositionsAreOwned` and `NoOrderStrays` are
  about the other bus.
- `strategies/cross_venue/detector.py:145`, "Allow re-detection once an opportunity
  leaves the pipeline": `transition` publishes between the change of state and the
  release; if that raises, the symbol stays marked by a finished record, and `detect`
  skips it from then on. `ActiveIsTheOpenRecord` allows this after a failed publication
  and in no other case.
- `apps/orchestrator/orchestrator.py:995`, "The position does not disappear because we
  gave up on it: it is handed to OKAPI's standing hedge loop, and the hand-off is
  recorded rather than swallowed": an exit that finds no mid price for any leg closes
  the record at once (820-823) and records nothing. `PositionsAreOwned` excuses it.
- `agents/tidal/book.py:3`, "a sequence gap, a crossed book or a stale feed takes it out
  of the usable set instead of quietly degrading the prices everything else depends on":
  a level beyond `max_depth` is forgotten and not announced again when the ones before
  it go; the book stays usable with a hole, or with a best price behind the venue's.
  `UsableBookIsRecent` says where this may be: on a feed deeper than the book, from the
  first removal to the next snapshot.
- `core/bus/barrier.py:62`, "Registration happens before the request is published, so a
  response that arrives faster than the caller can start waiting is never missed":
  `_seek` registers after the publication (488), and over a bus that suspends all
  answers may come before. The opportunity is then decided at its timeout, on all the
  views (`NobodyWaitsForEver` holds).
- `apps/orchestrator/orchestrator.py:777`, "a position is not exited merely because a
  remote agent was slow": `_monitor` combines what has arrived when the drain returns; a
  required view that has expired while its successor is on the way makes the result
  incomplete, which is an exit.
- `execution/paper/executor.py:164`, "Request cancellation of every live order":
  an order in CANCEL_PENDING is live, cancelling it again raises, and the orders
  behind it are not cancelled.
- A cancel asked for before the acknowledgement, "the order resolves once it
  arrives", is forgotten; the order arrives, opens and trades.
- Compaction, said not to manufacture a missing-fill mismatch: sealing
  `min(boundary, excess)` fills can cut an order in two, and the next
  reconciliation reports its sealed fills missing. `OnlySplitsMakeMismatches` is
  the exact extent.
- A repeat beyond the window, "loud rather than silent": once its first copy is
  sealed no mismatch reports it.
- A record that a failed publication leaves between detection and execution is in no
  state that a later tick looks for: it stays open, with its symbol marked.
- Hedges do not pass the gates, so gross exposure may exceed its limit for a
  while; `tests/integration/test_pipeline.py:148` asserts the limit for the run it
  makes. Leverage is a gate and not part of the headroom.
- After the last exit attempt the residual is said to be handed to OKAPI's hedge
  loop (`apps/orchestrator/orchestrator.py:994`); a residual whose legs balance
  has no delta, and OKAPI does not work it down.
- `venues/venue_a/adapter.py:16` says a gap makes TIDAL request a checkpoint;
  `fetch_checkpoint` has no caller, so a binance book stays out until the end of
  the session and, as no snapshot comes with the next one, after it.
- A request that reaches ZEPHR after its opportunity is closed leaves a curve that
  nothing removes (`agents/zephr/agent.py:106`).
- A task cancelled in the middle of a flush takes its batch along: neither stored,
  nor buffered, nor counted (`vanished` in EventBus).
- Messages read from Redis and not acknowledged before a crash stay pending;
  nothing claims them. Over PostgreSQL the memory bus may deliver in another order
  than events were published, since a flush comes before the append;
  `DeliveredInOrder` is stated for the other configurations.

## 7 What is not modelled, and why

Prices, fees and slippage: no property here is about their values; quantities are
notionals in RuneGates and Exposure, lots elsewhere. The draw of the random
generator and the queue model: nondeterministic. The numeric estimates of the
analysis agents and the language model behind LUMEN: only whether they answer, and
with what sign. Stores beyond success, failure and suspension; the dashboard,
configuration and start-up: input/output or values. Replay: its determinism is a
statement about all of the code. Realised profit and loss and the daily reset of
the account. Trade prints and redelivery over Redis in MarketFeed, and a venue whose own
book is crossed. `unsubscribe`, stream trimming and undecodable messages in
EventBus.

In TradingFloor: hedge orders and the warm-up; an update of an order that is lost with
its publication, after which the mirror would show that order live for ever; and a
failure to publish that a tick has failed, which ends `run_forever`. Exposure takes the
bus in the process: that a hedge in flight is seen (`HedgeInFlight`) rests on the drain
after it was sent, and over Redis a hedge the mirror lacks could be asked for
again. `EveryOrderConcludes` shows that an order whose cancel was forgotten (section 6)
ends by its time to live; that the cancel takes effect is not claimed.

The reset of the kill switch has no caller in the tree other than tests; KillSwitch
models it, TradingFloor does not. An UNKNOWN order is resolved by tests only;
`CanResolve` says whether a run allows it. The barrier's `wait` has no caller and
is left out.

`PROJECT.json` lists with a note the hazards no property covers.

## 8 Plan

Done: the modules of section 2, their runs, and the proofs of section 5. Every
invariant and every action property that a run checks is stated by a theorem.

Next, in this order:

1. TradingFloor and Exposure: that the orders they move keep within OrderContract,
   as PaperExecution's do.
2. The shared assumptions between components as theorems: that what Exposure and
   Deliberation take from `ActiveIsTheOpenRecord`, and KillSwitch from
   `EveryOrderConcludes`, is what those modules state.
3. Models: Exposure over Redis, with hedges the mirror lacks; position and profit
   arithmetic of the account over bounded fills, against a reference definition.
4. The levels of a cut book, as the detailed specification under MarketFeed's `whole`;
   liveness over Redis, with the records a failed publication leaves behind excepted.

## 9 Running it

In this directory: `tlc -workers 2 -config <run>.cfg <module>.tla` with the run's
module from `PROJECT.json`; `tlapm <module>_proofs.tla` checks the proofs. The
largest runs take one and a half to two minutes (`deliberation`, `floor_redis`, `exposure`).
