-------------------------- MODULE PaperExecution --------------------------
(***************************************************************************)
(* The PaperExecutor (execution/paper/executor.py) and the OrderManager it *)
(* drives (execution/oms).  Latency is modelled the way the code models    *)
(* it: an order carries the time at which it reaches the simulated venue   *)
(* and the time at which a cancel does, and poll advances every order to   *)
(* the clock.                                                              *)
(*                                                                         *)
(* poll and cancel_all are loops that publish (an await) for each order,   *)
(* so each iteration is a step; `loop' is the loop in progress and the     *)
(* orders it has yet to visit, oldest first.  An exception leaves the loop *)
(* and the orders behind the one that raised are not visited.              *)
(*                                                                         *)
(* What the book, the queue model and the random generator decide (whether *)
(* a cancel wins its race, how much an order trades) is nondeterministic.  *)
(***************************************************************************)
EXTENDS OrderStates, Integers

CONSTANTS
    NumOrders,      \* bound: orders created in a run
    Qty,            \* lots every order asks for
    AckLatency,     \* venue latency_ms
    CancelLatency,  \* venue cancel_latency_ms
    Ttl,            \* ttl_ms of a planned order
    MaxTime,        \* bound: nothing is asked for that falls due after it
    CanResolve      \* whether something calls resolve_unknown

ASSUME ExecAssumption ==
    /\ NumOrders \in Nat
    /\ Qty \in Nat \ {0}
    /\ {AckLatency, CancelLatency, Ttl, MaxTime} \subseteq Nat
    /\ CanResolve \in BOOLEAN

Orders == 1..NumOrders

\* Python's None where a time is expected.
NoTime == -1

\* An order that has not been created.
Absent == "ABSENT"

VARIABLES
    now,                \* the platform clock
    status,             \* PaperOrder.status
    filled,             \* PaperOrder.filled_quantity
    expires_at,         \* PaperOrder.expires_at
    ack_at,             \* _Pending.ack_at, NoTime when there is no _Pending
    cancel_at,          \* _Pending.cancel_at
    force_unknown,      \* _Pending.force_unknown
    execution_disabled, \* PaperExecutor.execution_disabled
    loop,               \* the handler loop in progress
    illegal             \* transitions attempted and refused, <<from, to>>

orderVars == <<status, filled, expires_at>>
pendingVars == <<ack_at, cancel_at, force_unknown>>
vars == <<now, status, filled, expires_at, ack_at, cancel_at, force_unknown,
          execution_disabled, loop, illegal>>

---------------------------------------------------------------------------
(* Helpers *)

\* Bound: a request made now falls due before the clock stops.
InHorizon(delay) == now + delay <= MaxTime

Idle == loop.op = "idle"
IdleLoop == [op |-> "idle", todo |-> {}]

IsTerminal(o) == status[o] \in TERMINAL_STATUSES
IsLive(o) == status[o] \in LiveStatuses

\* Mutant: what is left to trade forgets what has traded.
Remaining_forgetful(o) == Qty

Remaining(o) == Qty - filled[o]
Created == {o \in Orders : status[o] # Absent}

\* The order the loop visits next: dictionaries iterate oldest first.
IsNext(o) == o \in loop.todo /\ \A p \in loop.todo : o <= p

\* The loop moves past o, or is left when it has visited every order.
Visited(o) ==
    IF loop.todo = {o} THEN IdleLoop ELSE [loop EXCEPT !.todo = @ \ {o}]

\* Where OrderManager.apply_fill leaves an order that has traded `lots'.
StatusAfterFill(lots) == IF lots = Qty THEN "FILLED" ELSE "PARTIALLY_FILLED"

\* Mutant: only an order that has traded expires.
Expired_traded(o) == now >= expires_at[o] /\ filled[o] > 0

Expired(o) == now >= expires_at[o]

\* Mutant: an order that has traded is called EXPIRED too.
StatusAfterTtl_blunt(lots) == "EXPIRED"

\* Where poll leaves a live order whose time to live has run out.
StatusAfterTtl(lots) == IF lots = 0 THEN "EXPIRED" ELSE "CANCELLED"

---------------------------------------------------------------------------
(* Submission *)

\* Mutant: submit does not look at the kill switch.
Accepting_always == TRUE

Accepting == ~execution_disabled

\* submit, for one planned order: created, sent and awaiting the venue.
Submit(o) ==
    /\ Idle /\ Accepting
    /\ status[o] = Absent /\ \A p \in Orders : p < o => status[p] # Absent
    /\ InHorizon(Ttl)
    /\ status' = [status EXCEPT ![o] = "SUBMITTING"]
    /\ expires_at' = [expires_at EXCEPT ![o] = now + Ttl]
    /\ ack_at' = [ack_at EXCEPT ![o] = now + AckLatency]
    /\ UNCHANGED <<now, filled, cancel_at, force_unknown, execution_disabled,
                   loop, illegal>>

\* submit while execution is disabled: the order is created and rejected.
Refuse(o) ==
    /\ Idle /\ ~Accepting
    /\ status[o] = Absent /\ \A p \in Orders : p < o => status[p] # Absent
    /\ InHorizon(Ttl)
    /\ status' = [status EXCEPT ![o] = "REJECTED"]
    /\ expires_at' = [expires_at EXCEPT ![o] = now + Ttl]
    /\ UNCHANGED <<now, filled, pendingVars, execution_disabled, loop, illegal>>

\* The kill switch disables execution; nothing in the tree enables it again.
Disable ==
    /\ Idle
    /\ execution_disabled' = TRUE
    /\ UNCHANGED <<now, orderVars, pendingVars, loop, illegal>>

---------------------------------------------------------------------------
(* Cancellation *)

\* The venue has not acknowledged the order: cancel only notes the time.
CancelInFlight(o) ==
    /\ status[o] = "SUBMITTING"
    /\ cancel_at' = [cancel_at EXCEPT ![o] = now]
    /\ UNCHANGED <<status, illegal>>

\* A resting order waits for the cancel to reach the venue.
CancelResting(o) ==
    /\ status[o] # "SUBMITTING"
    /\ CanTransition(status[o], "CANCEL_PENDING")
    /\ status' = [status EXCEPT ![o] = "CANCEL_PENDING"]
    /\ cancel_at' = [cancel_at EXCEPT ![o] = now + CancelLatency]
    /\ UNCHANGED illegal

\* The table refuses the transition and the exception leaves the caller.
CancelRaises(o) ==
    /\ status[o] # "SUBMITTING"
    /\ ~CanTransition(status[o], "CANCEL_PENDING")
    /\ illegal' = illegal \cup {<<status[o], "CANCEL_PENDING">>}
    /\ UNCHANGED <<status, cancel_at>>

\* cancel of one order; one that is not live is left alone.
Cancel(o) ==
    /\ Idle /\ o \in Created /\ IsLive(o) /\ InHorizon(CancelLatency)
    /\ CancelInFlight(o) \/ CancelResting(o) \/ CancelRaises(o)
    /\ UNCHANGED <<now, filled, expires_at, ack_at, force_unknown,
                   execution_disabled, loop>>

\* cancel_all starts on the orders that are live now.
CancelAll ==
    LET live == {o \in Created : IsLive(o)} IN
    /\ Idle /\ live # {} /\ InHorizon(CancelLatency)
    /\ loop' = [op |-> "cancel_all", todo |-> live]
    /\ UNCHANGED <<now, orderVars, pendingVars, execution_disabled, illegal>>

\* One iteration of cancel_all.
CancelNext(o) ==
    /\ loop.op = "cancel_all" /\ IsNext(o)
    /\ \/ (CancelInFlight(o) \/ CancelResting(o)) /\ loop' = Visited(o)
       \/ CancelRaises(o) /\ loop' = IdleLoop
    /\ UNCHANGED <<now, filled, expires_at, ack_at, force_unknown,
                   execution_disabled>>

---------------------------------------------------------------------------
(* Timeouts *)

\* Failure injection: the next poll finds the order's state unknowable.
InjectTimeout(o) ==
    /\ Idle /\ ack_at[o] # NoTime
    /\ force_unknown' = [force_unknown EXCEPT ![o] = TRUE]
    /\ UNCHANGED <<now, orderVars, ack_at, cancel_at, execution_disabled, loop,
                   illegal>>

\* What a caller of resolve_unknown that tells the truth can say of an order
\* with this many lots booked.  The code takes any status the table allows.
Truths(lots) ==
    IF lots = 0 THEN {"OPEN", "CANCELLED", "REJECTED", "EXPIRED"}
                ELSE {"PARTIALLY_FILLED", "CANCELLED"}

\* resolve_unknown: something authoritative learns the order's true state.
ResolveUnknown(o) ==
    /\ CanResolve /\ Idle /\ status[o] = "UNKNOWN"
    /\ \E s \in ORDER_TRANSITIONS["UNKNOWN"] \cap Truths(filled[o]) :
          status' = [status EXCEPT ![o] = s]
    /\ UNCHANGED <<now, filled, expires_at, pendingVars, execution_disabled,
                   loop, illegal>>

---------------------------------------------------------------------------
(* The simulation step *)

Poll ==
    /\ Idle /\ Created # {}
    /\ loop' = [op |-> "poll", todo |-> Created]
    /\ UNCHANGED <<now, orderVars, pendingVars, execution_disabled, illegal>>

Polling(o) == loop.op = "poll" /\ IsNext(o)

\* Mutant: poll does not skip finished orders.
Unpollable_lost(o) == status[o] = "UNKNOWN" \/ ack_at[o] = NoTime

\* Orders poll has nothing to do for: finished, lost, or never sent.
Unpollable(o) == IsTerminal(o) \/ status[o] = "UNKNOWN" \/ ack_at[o] = NoTime

CancelDue(o) == cancel_at[o] # NoTime /\ now >= cancel_at[o]

\* Nothing for poll to do: not pollable, not yet at the venue, or waiting for
\* its cancel to arrive there.
PollSkips(o) ==
    /\ Polling(o)
    /\ \/ Unpollable(o)
       \/ /\ ~Unpollable(o) /\ ~force_unknown[o]
          /\ \/ now < ack_at[o]
             \/ status[o] = "CANCEL_PENDING" /\ ~CancelDue(o)
    /\ loop' = Visited(o)
    /\ UNCHANGED <<now, orderVars, pendingVars, execution_disabled, illegal>>

\* The simulated venue timed out: mark_unknown.
PollTimesOut(o) ==
    /\ Polling(o) /\ ~Unpollable(o) /\ force_unknown[o]
    /\ status' = [status EXCEPT ![o] = "UNKNOWN"]
    /\ loop' = Visited(o)
    /\ UNCHANGED <<now, filled, expires_at, pendingVars, execution_disabled,
                   illegal>>

\* The order is at the venue and poll works it.
AtVenue(o) ==
    /\ Polling(o) /\ ~Unpollable(o) /\ ~force_unknown[o] /\ now >= ack_at[o]

\* A cancel that has arrived wins its race.
PollCancels(o) ==
    /\ AtVenue(o) /\ status[o] = "CANCEL_PENDING" /\ CancelDue(o)
    /\ status' = [status EXCEPT ![o] = "CANCELLED"]
    /\ loop' = Visited(o)
    /\ UNCHANGED <<now, filled, expires_at, pendingVars, execution_disabled,
                   illegal>>

\* The order trades what the book gives it, from nothing to all that remains,
\* and is retired if that leaves it live past its time to live.  A first visit
\* acknowledges and opens it; a due cancel has lost its race.
PollWorks(o) ==
    /\ AtVenue(o) /\ (status[o] = "CANCEL_PENDING" => CancelDue(o))
    /\ \E lots \in 0..Remaining(o) :
          LET arrived == IF status[o] = "SUBMITTING" THEN "OPEN" ELSE status[o]
              total == filled[o] + lots
              worked == IF lots = 0 THEN arrived ELSE StatusAfterFill(total)
              retire == worked \notin TERMINAL_STATUSES /\ Expired(o)
              raises == retire /\ ~CanTransition(worked, StatusAfterTtl(total))
          IN /\ filled' = [filled EXCEPT ![o] = total]
             /\ status' = [status EXCEPT ![o] =
                             IF retire /\ ~raises THEN StatusAfterTtl(total)
                                                  ELSE worked]
             /\ illegal' = IF raises
                           THEN illegal \cup {<<worked, StatusAfterTtl(total)>>}
                           ELSE illegal
             /\ loop' = IF raises THEN IdleLoop ELSE Visited(o)
    /\ UNCHANGED <<now, expires_at, pendingVars, execution_disabled>>

\* Time passes between calls.
Advance ==
    /\ Idle /\ now < MaxTime
    /\ now' = now + 1
    /\ UNCHANGED <<orderVars, pendingVars, execution_disabled, loop, illegal>>

---------------------------------------------------------------------------
Init ==
    /\ now = 0
    /\ status = [o \in Orders |-> Absent]
    /\ filled = [o \in Orders |-> 0]
    /\ expires_at = [o \in Orders |-> NoTime]
    /\ ack_at = [o \in Orders |-> NoTime]
    /\ cancel_at = [o \in Orders |-> NoTime]
    /\ force_unknown = [o \in Orders |-> FALSE]
    /\ execution_disabled = FALSE
    /\ loop = IdleLoop
    /\ illegal = {}

PollStep(o) ==
    PollSkips(o) \/ PollTimesOut(o) \/ PollCancels(o) \/ PollWorks(o)

Next ==
    \/ Disable \/ CancelAll \/ Poll \/ Advance
    \/ \E o \in Orders :
          \/ Submit(o) \/ Refuse(o) \/ Cancel(o) \/ CancelNext(o)
          \/ InjectTimeout(o) \/ ResolveUnknown(o)
          \/ PollStep(o)

Spec == Init /\ [][Next]_vars

\* The trading loop polls again and again and never stops inside a loop; the
\* clock runs; a cancel that keeps racing draws a winning number in the end
\* (cancel_wins_race draws afresh at each poll and the probability of losing,
\* maker_fill_probability, is below one).  That is said of LIMIT orders, the only
\* ones the router plans: a cancel never wins against a MARKET order.
Fairness ==
    /\ SF_vars(Advance) /\ SF_vars(Poll)
    /\ WF_vars(\E o \in Orders : PollStep(o) \/ CancelNext(o))
    /\ \A o \in Orders : SF_vars(PollCancels(o))

FairSpec == Spec /\ Fairness

---------------------------------------------------------------------------
(* Properties *)

\* The statuses an order can be observed in: CREATED and ACKNOWLEDGED are left
\* in the call that enters them.
RestingStatus == {Absent} \cup (OrderStatus \ {"CREATED", "ACKNOWLEDGED"})

\* Every variable has its type; a loop visits only orders that exist, and an
\* order the venue has heard of has an arrival time.
TypeOK ==
    /\ now \in Nat
    /\ status \in [Orders -> RestingStatus]
    /\ filled \in [Orders -> 0..Qty]
    /\ expires_at \in [Orders -> Nat \cup {NoTime}]
    /\ ack_at \in [Orders -> Nat \cup {NoTime}]
    /\ cancel_at \in [Orders -> Nat \cup {NoTime}]
    /\ force_unknown \in [Orders -> BOOLEAN]
    /\ execution_disabled \in BOOLEAN
    /\ loop \in [op : {"idle", "poll", "cancel_all"}, todo : SUBSET Orders]
    /\ loop.todo \subseteq Created
    /\ illegal \subseteq (OrderStatus \X OrderStatus)

\* Status and fills agree for every order at every step: FILLED means filled in
\* full and only that, an order that has traded is never called OPEN, EXPIRED
\* or REJECTED, and PARTIALLY_FILLED has traded.  The statuses are chosen by
\* poll, by apply_fill and by expiry in different places.
FillAccounting ==
    \A o \in Orders :
        /\ status[o] = "FILLED" <=> filled[o] = Qty
        /\ status[o] \in {Absent, "SUBMITTING", "OPEN", "REJECTED", "EXPIRED"}
              => filled[o] = 0
        /\ status[o] = "PARTIALLY_FILLED" => filled[o] > 0

\* Whatever the order of cancels, timeouts, expiries and fills, the only
\* transitions the state machine is ever asked for and refuses start from
\* CANCEL_PENDING: a second cancel, and an expiry.
OnlyCancelPendingIsRefused ==
    illegal \subseteq
        {<<"CANCEL_PENDING", "CANCEL_PENDING">>, <<"CANCEL_PENDING", "EXPIRED">>}

\* An order's fills never shrink, and only grow at the venue: not before it has
\* arrived, not while a cancel is on its way, and never once it is finished or
\* its state is unknown.
TradesOnlyAtTheVenue ==
    [][\A o \in Orders :
          filled'[o] # filled[o] =>
             /\ filled'[o] > filled[o]
             /\ ack_at[o] # NoTime /\ now >= ack_at[o]
             /\ status[o] \in LiveStatuses
             /\ status[o] = "CANCEL_PENDING" => CancelDue(o)]_vars

\* The orders that can still trade, now or once their state is known.
Outstanding == {o \in Created : ~IsTerminal(o)}

\* Once execution is disabled the set of orders that can still trade only
\* shrinks: no refused, finished or new order joins it.
DisabledOnlyWindsDown ==
    [][execution_disabled => Outstanding' \subseteq Outstanding]_vars

\* Every order sent to the venue is finished or lost in the end, whatever
\* cancels it meets: its time to live retires it, and where the state machine
\* refuses that, a cancel that keeps racing wins.
EveryOrderConcludes ==
    \A o \in Orders :
        status[o] = "SUBMITTING" ~> (IsTerminal(o) \/ status[o] = "UNKNOWN")

\* The abstract order a concrete one stands for.
PhaseOf(s) ==
    CASE s = Absent -> "absent"
      [] s \in TERMINAL_STATUSES -> "done"
      [] s = "UNKNOWN" -> "lost"
      [] OTHER -> "working"

Contract == INSTANCE OrderContract
    WITH phase <- [o \in Orders |-> PhaseOf(status[o])], traded <- filled

\* The executor and the order manager together keep the order contract.
KeepsTheContract == Contract!ContractSpec
=============================================================================
