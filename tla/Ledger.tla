------------------------------- MODULE Ledger -------------------------------
(***************************************************************************)
(* The two books of record and the agent that compares them: the fills of  *)
(* the OrderManager (execution/oms), the PaperAccount                      *)
(* (execution/paper/account.py) and MARIN's reconciliation and compaction  *)
(* (agents/marin/agent.py).                                                *)
(*                                                                         *)
(* Each book remembers the ids of its last Retained fills to recognise a   *)
(* repeat.  The account keeps the fills since its checkpoint; the order    *)
(* manager keeps whole orders.  Compaction shortens both, and must not     *)
(* make them disagree.                                                     *)
(*                                                                         *)
(* A fill has an id, a number in order of execution that is its price too. *)
(* There is one instrument, odd orders buy it and even ones sell it, and   *)
(* every fill costs a fee of one.  Left out: realised P&L, and what cannot *)
(* disagree here because it is one variable (an order's filled quantity    *)
(* and the sum of its fills).                                              *)
(***************************************************************************)
EXTENDS OrderStates, Integers, SequencesExt, FiniteSetsExt

CONSTANTS
    NumOrders,      \* bound: orders created in a run
    Qty,            \* lots every order asks for
    Retained,       \* retained_fills of the account, dedupe_fills of the OMS
    MaxFills,       \* bound: fills executed in a run
    MaxRepeats      \* bound: fills delivered again in a run

ASSUME LedgerAssumption ==
    /\ {NumOrders, MaxFills, MaxRepeats} \subseteq Nat
    /\ {Qty, Retained} \subseteq Nat \ {0}

Orders == 1..NumOrders
Absent == "ABSENT"
InitialBalance == 0
Fee == 1

VARIABLES
    fills,          \* the executions so far
    repeats,        \* deliveries that were not the first
    status,         \* PaperOrder.status
    order_fills,    \* PaperOrder.fills
    resident,       \* the keys of OrderManager.orders
    oms_seen,       \* OrderManager._dedupe_order
    oms_applied,    \* OrderManager.fills_applied
    acct_seen,      \* PaperAccount._dedupe_order
    acct_applied,   \* PaperAccount.fills_applied
    totals,         \* PaperAccount cash, position and fees_paid
    fill_log,       \* PaperAccount.fill_log
    checkpoint,     \* PaperAccount.checkpoint
    booked          \* every fill the account has booked, in order

omsVars == <<status, order_fills, resident, oms_seen, oms_applied>>
acctVars == <<acct_seen, acct_applied, totals, fill_log, checkpoint, booked>>
vars == <<fills, repeats, status, order_fills, resident, oms_seen, oms_applied,
          acct_seen, acct_applied, totals, fill_log, checkpoint, booked>>

---------------------------------------------------------------------------
(* Fills and what they do to a book *)

FillEvent == [fill_id : 1..MaxFills, order : Orders, lots : 1..Qty]

Lots(f) == f.lots
Signed(f) == IF f.order % 2 = 1 THEN f.lots ELSE -f.lots

\* Cash, position and fees after one more fill.
Booked(t, f) ==
    [cash |-> t.cash - Signed(f) * f.fill_id - Fee,
     position |-> t.position + Signed(f),
     fees |-> t.fees + Fee]

Opening == [cash |-> InitialBalance, position |-> 0, fees |-> 0]

\* A book rebuilt from totals t by replaying a log.
Replay(t, log) == FoldLeft(Booked, t, log)

Filled(o) == MapThenSumSet(Lots, order_fills[o])
Remaining(o) == Qty - Filled(o)
IsTerminal(o) == status[o] \in TERMINAL_STATUSES

\* Mutant: the window keeps one id too few.
Remember_short(seen, f) ==
    IF Len(seen) < Retained - 1 THEN Append(seen, f) ELSE Tail(Append(seen, f))

\* The duplicate window after one more id: the oldest beyond Retained is dropped.
Remember(seen, f) ==
    IF Len(seen) < Retained THEN Append(seen, f) ELSE Append(Tail(seen), f)

---------------------------------------------------------------------------
(* Orders *)

\* An order is created, sent and opened.
Place(o) ==
    /\ status[o] = Absent /\ \A p \in Orders : p < o => status[p] # Absent
    /\ status' = [status EXCEPT ![o] = "OPEN"]
    /\ resident' = resident \cup {o}
    /\ UNCHANGED <<fills, repeats, order_fills, oms_seen, oms_applied, acctVars>>

\* A working order is cancelled, or is lost in a timeout.
Stop(o) ==
    /\ o \in resident /\ status[o] \in LiveStatuses
    /\ \E s \in {"CANCELLED", "UNKNOWN"} :
          /\ CanTransition(status[o], s)
          /\ status' = [status EXCEPT ![o] = s]
    /\ UNCHANGED <<fills, repeats, order_fills, resident, oms_seen,
                   oms_applied, acctVars>>

\* Something authoritative resolves a lost order, truthfully: resolve_unknown.
ResolveUnknown(o) ==
    /\ o \in resident /\ status[o] = "UNKNOWN"
    /\ \E s \in {"CANCELLED", IF order_fills[o] = {} THEN "OPEN" ELSE "PARTIALLY_FILLED"} :
          status' = [status EXCEPT ![o] = s]
    /\ UNCHANGED <<fills, repeats, order_fills, resident, oms_seen,
                   oms_applied, acctVars>>

---------------------------------------------------------------------------
(* Booking a fill: _record_fill *)

\* PaperAccount.apply_fill, called when the order manager took the fill.
AccountTakes(f) ==
    IF f \in ToSet(acct_seen)
    THEN UNCHANGED acctVars
    ELSE /\ acct_seen' = Remember(acct_seen, f)
         /\ acct_applied' = acct_applied + 1
         /\ totals' = Booked(totals, f)
         /\ fill_log' = Append(fill_log, f)
         /\ booked' = Append(booked, f)
         /\ UNCHANGED checkpoint

\* Where OrderManager.apply_fill wants the order once these are its fills.
TargetOf(held) == IF MapThenSumSet(Lots, held) = Qty THEN "FILLED" ELSE "PARTIALLY_FILLED"

\* The order manager has seen f, has archived its order, or has no room left
\* in it: nothing changes (the last two raise).
OmsRefuses(f) ==
    \/ f \in ToSet(oms_seen)
    \/ f.order \notin resident
    \/ f.lots > Remaining(f.order)

\* A fresh execution of a working order.
Execute(o, lots) ==
    LET f == [fill_id |-> Cardinality(fills) + 1, order |-> o, lots |-> lots]
        held == order_fills[o] \cup {f}
    IN /\ Cardinality(fills) < MaxFills
       /\ o \in resident /\ status[o] \in {"OPEN", "PARTIALLY_FILLED"}
       /\ lots <= Remaining(o)
       /\ fills' = fills \cup {f}
       /\ order_fills' = [order_fills EXCEPT ![o] = held]
       /\ status' = [status EXCEPT ![o] = TargetOf(held)]
       /\ oms_seen' = Remember(oms_seen, f)
       /\ oms_applied' = oms_applied + 1
       /\ AccountTakes(f)
       /\ UNCHANGED <<repeats, resident>>

\* A fill delivered again.  Beyond the window it is counted like a new one, and
\* the order, which still holds the original, ignores it; if the order may not
\* move to a filled status, that raises and the account never hears of it.
Redeliver(f) ==
    LET o == f.order IN
    /\ repeats < MaxRepeats
    /\ repeats' = repeats + 1
    /\ IF OmsRefuses(f)
       THEN UNCHANGED <<omsVars, acctVars>>
       ELSE LET target == TargetOf(order_fills[o])
                moves == status[o] # target \/ target = "PARTIALLY_FILLED"
                raises == moves /\ ~CanTransition(status[o], target)
            IN /\ oms_seen' = Remember(oms_seen, f)
               /\ oms_applied' = oms_applied + 1
               /\ status' = IF moves /\ ~raises THEN [status EXCEPT ![o] = target]
                                               ELSE status
               /\ IF raises THEN UNCHANGED acctVars ELSE AccountTakes(f)
               /\ UNCHANGED <<order_fills, resident>>
    /\ UNCHANGED fills

---------------------------------------------------------------------------
(* Reconciliation *)

OmsFills == UNION {order_fills[o] : o \in resident}
LogFills == ToSet(fill_log)

\* Mutant: the lifetime counts are not compared.
FillsMissing_window == OmsFills \ LogFills # {}

FillsMissing == OmsFills \ LogFills # {} \/ oms_applied # acct_applied

\* What reconcile finds.  The fees it expects add up the log by fill id.
Mismatches ==
    LET rebuilt == Replay(checkpoint.totals, fill_log) IN
    (IF FillsMissing THEN {"MISSING_FILL"} ELSE {})
      \cup (IF LogFills \ OmsFills # {} THEN {"UNKNOWN_FILL"} ELSE {})
      \cup (IF rebuilt.cash # totals.cash THEN {"CASH_MISMATCH"} ELSE {})
      \cup (IF rebuilt.position # totals.position THEN {"POSITION_MISMATCH"} ELSE {})
      \cup (IF checkpoint.totals.fees + Fee * Cardinality(LogFills) # totals.fees
            THEN {"FEE_MISMATCH"} ELSE {})
      \cup (IF \E o \in resident : status[o] = "UNKNOWN"
            THEN {"ORDER_STATE_MISMATCH"} ELSE {})

\* Mismatches of severity WARNING; the others are CRITICAL.
Warnings == {"FEE_MISMATCH", "ORDER_STATE_MISMATCH"}
Ok == Mismatches \subseteq Warnings

---------------------------------------------------------------------------
(* Compaction *)

\* Mutant: live orders do not stop the seal.
Sealable_any(f) == f.order \in resident

Sealable(f) == f.order \in resident /\ IsTerminal(f.order)

\* How much of the log may leave memory: up to the first fill whose order is
\* not finished, and pulled back past the orders that straddle that point.
SealBoundary ==
    LET blocked == {i \in DOMAIN fill_log : ~Sealable(fill_log[i])}
        end == Min({i - 1 : i \in blocked} \cup {Len(fill_log)})
        straddling == {fill_log[i].order : i \in (end + 1)..Len(fill_log)}
    IN Max({0} \cup {b \in 1..end : fill_log[b].order \notin straddling})

\* Mutant: the tail keeps the last fill that was sealed.
Unsealed_overlap(n) == SubSeq(fill_log, IF n > 0 THEN n ELSE 1, Len(fill_log))

\* The log that is left when its first n fills are sealed.
Unsealed(n) == SubSeq(fill_log, n + 1, Len(fill_log))

\* Mutant: orders are archived although the account still holds their fills.
Archivable_early(o, held) == IsTerminal(o)

\* OrderManager.compact: finished, and none of its fills is still unsealed.
Archivable(o, held) == IsTerminal(o) /\ order_fills[o] \cap held = {}

\* Marin.run, when it changes the books: compact, after a reconciliation without
\* critical mismatch, what exceeds the retention window.
Reconcile ==
    LET excess == Len(fill_log) - Retained
        sealed == Min({SealBoundary, excess})
    IN /\ Ok /\ excess > 0
       /\ fill_log' = Unsealed(sealed)
       /\ checkpoint' = [fills_sealed |-> checkpoint.fills_sealed + sealed,
                         totals |-> Replay(checkpoint.totals,
                                           SubSeq(fill_log, 1, sealed))]
       /\ resident' = {o \in resident : ~Archivable(o, ToSet(Unsealed(sealed)))}
       /\ UNCHANGED <<fills, repeats, status, order_fills, oms_seen,
                      oms_applied, acct_seen, acct_applied, totals, booked>>

---------------------------------------------------------------------------
Init ==
    /\ fills = {} /\ repeats = 0
    /\ status = [o \in Orders |-> Absent]
    /\ order_fills = [o \in Orders |-> {}]
    /\ resident = {}
    /\ oms_seen = <<>> /\ oms_applied = 0
    /\ acct_seen = <<>> /\ acct_applied = 0
    /\ totals = Opening
    /\ fill_log = <<>> /\ booked = <<>>
    /\ checkpoint = [fills_sealed |-> 0, totals |-> Opening]

Next ==
    \/ \E o \in Orders : \/ Place(o) \/ Stop(o) \/ ResolveUnknown(o)
                         \/ \E lots \in 1..Qty : Execute(o, lots)
    \/ \E f \in fills : Redeliver(f)
    \/ Reconcile

Spec == Init /\ [][Next]_vars

---------------------------------------------------------------------------
(* Properties *)

TotalsType == [cash : Int, position : Int, fees : Nat]

\* Every variable has its type; no window outgrows Retained.
TypeOK ==
    /\ fills \subseteq FillEvent
    /\ repeats \in Nat
    /\ status \in [Orders -> {Absent} \cup OrderStatus]
    /\ order_fills \in [Orders -> SUBSET fills]
    /\ resident \subseteq Orders
    /\ oms_seen \in Seq(fills) /\ Len(oms_seen) <= Retained
    /\ acct_seen \in Seq(fills) /\ Len(acct_seen) <= Retained
    /\ {oms_applied, acct_applied} \subseteq Nat
    /\ totals \in TotalsType
    /\ fill_log \in Seq(fills) /\ booked \in Seq(fills)
    /\ checkpoint \in [fills_sealed : Nat, totals : TotalsType]

\* However often the log has been compacted, the checkpoint and the unsealed
\* tail together are the whole history: nothing is lost or counted twice by
\* sealing, and the running totals are those of the history.
BooksBalance ==
    /\ TypeOK
    /\ fill_log = SubSeq(booked, checkpoint.fills_sealed + 1, Len(booked))
    /\ checkpoint.totals = Replay(Opening, SubSeq(booked, 1, checkpoint.fills_sealed))
    /\ totals = Replay(Opening, booked)

\* A fill is booked twice only if Retained others were booked in between: the
\* two windows, maintained in different modules, are exactly that wide.
RepeatsNeedALongGap ==
    \A i, j \in DOMAIN booked : i < j /\ booked[i] = booked[j] => j - i > Retained

\* A resident order with a fill the account has sealed.
Split(o) == o \in resident /\ order_fills[o] \ LogFills # {}

\* Without a repeat the two books agree at every step, whatever is compacted,
\* except for the fills of an order that a seal has cut in two; then MARIN
\* reports them missing and reports nothing else.
OnlySplitsMakeMismatches ==
    repeats = 0 =>
        Mismatches \subseteq
            {"ORDER_STATE_MISMATCH"}
              \cup (IF \E o \in Orders : Split(o) THEN {"MISSING_FILL"} ELSE {})

\* Once a fill has been counted by the order manager and has not reached the
\* account, no later delivery heals the books by accident, every reconciliation
\* is critical, and nothing is compacted any more.
DivergenceIsForever ==
    [][oms_applied # acct_applied =>
          /\ ~Ok /\ ~Ok'
          /\ UNCHANGED checkpoint /\ resident \subseteq resident']_vars

\* Nothing is archived that can still move: no fill of an order that can still
\* trade is sealed, and no order is archived of which the account's log still
\* has a fill (_seal_boundary, compact).
ArchivedOrdersAreDone ==
    /\ \A i \in 1..checkpoint.fills_sealed : IsTerminal(booked[i].order)
    /\ \A i \in DOMAIN fill_log : fill_log[i].order \in resident
=============================================================================
