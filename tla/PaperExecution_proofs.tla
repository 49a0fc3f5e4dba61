---------------------- MODULE PaperExecution_proofs ----------------------
(***************************************************************************)
(* Theorems about PaperExecution, for any number of orders, any order      *)
(* size and any latencies, time to live and horizon.                       *)
(*                                                                         *)
(* The invariant that carries them all is Consistent: the types and the    *)
(* agreement of status and fills.  FillAccounting is not inductive without *)
(* the types (poll could find an order in CREATED) and the refusals are    *)
(* bounded only because status and fills agree (an OPEN order that had     *)
(* traded could not be told from a fresh one when its time runs out).      *)
(***************************************************************************)
EXTENDS PaperExecution, TLAPS

\* cancel_all visits only live orders: it started from them, and nothing but
\* its own iterations runs before it ends.
CancellingOnlyLive ==
    loop.op = "cancel_all" => \A o \in loop.todo : IsLive(o)

\* The inductive invariant.
Consistent ==
    TypeOK /\ FillAccounting /\ OnlyCancelPendingIsRefused /\ CancellingOnlyLive

\* What the table says of the statuses an order rests in.
LEMMA TableFacts ==
    /\ Absent \notin OrderStatus
    /\ \A s \in {"OPEN", "PARTIALLY_FILLED"} :
          /\ CanTransition(s, "CANCEL_PENDING")
          /\ CanTransition(s, "EXPIRED")
          /\ CanTransition(s, "CANCELLED")
    /\ CanTransition("CANCEL_PENDING", "CANCELLED")
    /\ ORDER_TRANSITIONS["UNKNOWN"] =
          {"OPEN", "PARTIALLY_FILLED", "FILLED", "CANCELLED", "REJECTED", "EXPIRED"}
  BY DEF Absent, OrderStatus, CanTransition, ORDER_TRANSITIONS

\* Leaving a loop, or moving past one of its orders, keeps the loop well typed.
LEMMA VisitedType ==
    ASSUME TypeOK, NEW o \in Orders
    PROVE  /\ IdleLoop \in [op : {"idle", "poll", "cancel_all"}, todo : SUBSET Orders]
           /\ Visited(o) \in [op : {"idle", "poll", "cancel_all"}, todo : SUBSET Orders]
           /\ IdleLoop.todo = {}
           /\ Visited(o).todo \subseteq loop.todo
  BY DEF TypeOK, Visited, IdleLoop

\* The initial state is consistent.
LEMMA InitConsistent == Init => Consistent
<1> SUFFICES ASSUME Init PROVE Consistent
  OBVIOUS
<1>1. TypeOK
  <2>1. /\ now \in Nat
        /\ status \in [Orders -> RestingStatus]
        /\ execution_disabled \in BOOLEAN
    BY DEF Init, RestingStatus
  <2>4. filled \in [Orders -> 0..Qty]
    <3>1. 0 \in 0..Qty
      BY ExecAssumption
    <3> QED
      BY <3>1 DEF Init
  <2>2. /\ expires_at \in [Orders -> Nat \cup {NoTime}]
        /\ ack_at \in [Orders -> Nat \cup {NoTime}]
        /\ cancel_at \in [Orders -> Nat \cup {NoTime}]
        /\ force_unknown \in [Orders -> BOOLEAN]
    BY DEF Init
  <2>3. /\ loop \in [op : {"idle", "poll", "cancel_all"}, todo : SUBSET Orders]
        /\ loop.todo \subseteq Created
        /\ illegal \subseteq (OrderStatus \X OrderStatus)
    BY DEF Init, IdleLoop
  <2> QED
    BY <2>1, <2>2, <2>3, <2>4 DEF TypeOK
<1>2. FillAccounting
  BY ExecAssumption DEF Init, FillAccounting, Absent
<1>3. OnlyCancelPendingIsRefused /\ CancellingOnlyLive
  BY DEF Init, OnlyCancelPendingIsRefused, CancellingOnlyLive, IdleLoop
<1> QED
  BY <1>1, <1>2, <1>3 DEF Consistent

\* Submitting or refusing an order keeps the state consistent.
LEMMA SubmissionConsistent ==
    ASSUME Consistent, NEW o \in Orders, Submit(o) \/ Refuse(o)
    PROVE  Consistent'
<1> USE DEF Consistent
<1>1. TypeOK'
  BY ExecAssumption, TableFacts
     DEF TypeOK, Submit, Refuse, pendingVars, RestingStatus, OrderStatus, Created
<1>2. FillAccounting'
  BY ExecAssumption, TableFacts
     DEF TypeOK, FillAccounting, Submit, Refuse, pendingVars, Absent, Orders
<1>3. OnlyCancelPendingIsRefused' /\ CancellingOnlyLive'
  BY DEF OnlyCancelPendingIsRefused, CancellingOnlyLive, Submit, Refuse, Idle
<1> QED
  BY <1>1, <1>2, <1>3

\* A cancel of one order that does not raise.
LEMMA CancelAccepted ==
    ASSUME Consistent, NEW o \in Orders, status[o] # Absent, IsLive(o),
           CancelInFlight(o) \/ CancelResting(o),
           UNCHANGED <<now, filled, expires_at, ack_at, force_unknown,
                       execution_disabled>>
    PROVE  /\ status' \in [Orders -> RestingStatus]
           /\ cancel_at' \in [Orders -> Nat \cup {NoTime}]
           /\ Created' = Created
           /\ FillAccounting'
<1> USE DEF Consistent
<1>1. status' \in [Orders -> RestingStatus] /\ cancel_at' \in [Orders -> Nat \cup {NoTime}]
  BY ExecAssumption DEF TypeOK, CancelInFlight, CancelResting, RestingStatus, OrderStatus
<1>2. Created' = Created
  BY TableFacts DEF TypeOK, CancelInFlight, CancelResting, Created, OrderStatus
<1>3. FillAccounting'
  BY DEF TypeOK, FillAccounting, CancelInFlight, CancelResting, IsLive,
         LiveStatuses, TERMINAL_STATUSES, OrderStatus, Absent
<1> QED
  BY <1>1, <1>2, <1>3

\* Cancelling one order, alone or as an iteration of cancel_all.
LEMMA CancelConsistent ==
    ASSUME Consistent, NEW o \in Orders, Cancel(o) \/ CancelNext(o)
    PROVE  Consistent'
<1> USE DEF Consistent
<1> DEFINE Rest == UNCHANGED <<now, filled, expires_at, ack_at, force_unknown,
                               execution_disabled>>
<1>1. /\ status[o] # Absent /\ IsLive(o) /\ Rest
      /\ CancelInFlight(o) \/ CancelResting(o) \/ CancelRaises(o)
  BY DEF Cancel, CancelNext, IsNext, Created, TypeOK, CancellingOnlyLive
<1>2. \/ loop' \in {loop, IdleLoop} /\ loop'.op # "cancel_all"
      \/ loop' = Visited(o) /\ loop.op = "cancel_all"
  BY DEF Cancel, CancelNext, Idle, IdleLoop
<1>3. loop' \in [op : {"idle", "poll", "cancel_all"}, todo : SUBSET Orders]
      /\ loop'.todo \subseteq loop.todo
  BY <1>2, VisitedType DEF TypeOK
<1>4. \A p \in Orders : p # o => status'[p] = status[p]
  BY <1>1 DEF TypeOK, CancelInFlight, CancelResting, CancelRaises
<1>5. CancellingOnlyLive'
  <2>1. CASE loop'.op # "cancel_all"
    BY <2>1 DEF CancellingOnlyLive
  <2>2. CASE loop' = Visited(o) /\ loop.op = "cancel_all"
    <3>1. o \notin loop'.todo
      BY <2>2 DEF Visited, IdleLoop, TypeOK
    <3> QED
      BY <1>3, <1>4, <2>2, <3>1 DEF CancellingOnlyLive, IsLive, TypeOK
  <2> QED
    BY <1>2, <2>1, <2>2
<1>6. CASE CancelInFlight(o) \/ CancelResting(o)
  <2>1. /\ status' \in [Orders -> RestingStatus]
        /\ cancel_at' \in [Orders -> Nat \cup {NoTime}]
        /\ Created' = Created
        /\ FillAccounting'
    BY <1>1, <1>6, CancelAccepted
  <2>2. illegal' = illegal
    BY <1>6 DEF CancelInFlight, CancelResting
  <2> QED
    BY <1>1, <1>3, <1>5, <2>1, <2>2 DEF TypeOK, OnlyCancelPendingIsRefused
<1>7. CASE CancelRaises(o)
  <2>1. status[o] = "CANCEL_PENDING"
    BY <1>1, <1>7, TableFacts
       DEF TypeOK, CancelRaises, IsLive, LiveStatuses, TERMINAL_STATUSES,
           RestingStatus, OrderStatus
  <2>2. illegal' = illegal \cup {<<"CANCEL_PENDING", "CANCEL_PENDING">>}
    BY <1>7, <2>1 DEF CancelRaises
  <2>3. "CANCEL_PENDING" \in OrderStatus
    BY DEF OrderStatus
  <2>4. status' = status /\ cancel_at' = cancel_at
    BY <1>7 DEF CancelRaises
  <2> QED
    BY <1>1, <1>3, <1>5, <2>2, <2>3, <2>4
       DEF TypeOK, FillAccounting, OnlyCancelPendingIsRefused, Created
<1> QED
  BY <1>1, <1>6, <1>7

\* The steps that change no order: the kill switch, the clock, the start of a
\* loop and failure injection.
LEMMA QuietConsistent ==
    ASSUME Consistent,
           Disable \/ CancelAll \/ Poll \/ Advance \/ \E o \in Orders : InjectTimeout(o)
    PROVE  Consistent'
<1> USE DEF Consistent
<1>1. /\ UNCHANGED orderVars /\ UNCHANGED <<ack_at, cancel_at, illegal>>
      /\ now' \in {now, now + 1} /\ execution_disabled' \in {execution_disabled, TRUE}
      /\ \/ force_unknown' = force_unknown
         \/ \E o \in Orders : force_unknown' = [force_unknown EXCEPT ![o] = TRUE]
  BY DEF Disable, CancelAll, Poll, Advance, InjectTimeout, pendingVars, orderVars
<1>3. now' \in Nat /\ force_unknown' \in [Orders -> BOOLEAN]
  <2>1. now' \in Nat
    BY <1>1 DEF TypeOK
  <2>2. ASSUME NEW o \in Orders, force_unknown' = [force_unknown EXCEPT ![o] = TRUE]
        PROVE  force_unknown' \in [Orders -> BOOLEAN]
    BY <2>2 DEF TypeOK
  <2>3. force_unknown \in [Orders -> BOOLEAN]
    BY DEF TypeOK
  <2> QED
    BY <1>1, <2>1, <2>2, <2>3
<1>4. execution_disabled' \in BOOLEAN
  BY <1>1, Zenon DEF TypeOK
<1>2. /\ loop' \in [op : {"idle", "poll", "cancel_all"}, todo : SUBSET Orders]
      /\ loop'.todo \subseteq Created
      /\ loop'.op = "cancel_all" => \A o \in loop'.todo : IsLive(o)
  BY DEF TypeOK, Disable, CancelAll, Poll, Advance, InjectTimeout, Created,
         CancellingOnlyLive
<1> QED
  BY <1>1, <1>2, <1>3, <1>4 DEF TypeOK, FillAccounting, OnlyCancelPendingIsRefused,
     CancellingOnlyLive, IsLive, Created, orderVars

\* A resolution that tells the truth keeps status and fills in agreement.
LEMMA ResolveConsistent ==
    ASSUME Consistent, NEW o \in Orders, ResolveUnknown(o)
    PROVE  Consistent'
<1> USE DEF Consistent
<1>1. PICK s \in ORDER_TRANSITIONS["UNKNOWN"] \cap Truths(filled[o]) :
          status' = [status EXCEPT ![o] = s]
  BY DEF ResolveUnknown
<1>2. s \in {"OPEN", "PARTIALLY_FILLED", "CANCELLED", "REJECTED", "EXPIRED"}
  BY <1>1 DEF Truths
<1>3. /\ UNCHANGED <<now, filled, expires_at, ack_at, cancel_at, force_unknown,
                     execution_disabled, loop, illegal>>
      /\ loop.op = "idle" /\ status[o] = "UNKNOWN"
  BY DEF ResolveUnknown, pendingVars, Idle
<1>4. TypeOK'
  BY <1>1, <1>2, <1>3 DEF TypeOK, RestingStatus, OrderStatus, Created, Absent
<1>5. FillAccounting'
  BY <1>1, <1>2, <1>3 DEF TypeOK, FillAccounting, Truths, Absent
<1> QED
  BY <1>3, <1>4, <1>5 DEF OnlyCancelPendingIsRefused, CancellingOnlyLive

\* An iteration of poll leaves the loop well typed.
LEMMA PollLoop ==
    ASSUME Consistent, NEW o \in Orders, Polling(o),
           loop' \in {IdleLoop, Visited(o)}
    PROVE  /\ loop' \in [op : {"idle", "poll", "cancel_all"}, todo : SUBSET Orders]
           /\ loop'.todo \subseteq Created
           /\ CancellingOnlyLive'
  BY VisitedType DEF Consistent, TypeOK, Polling, Visited, IdleLoop, CancellingOnlyLive

\* A visit that finds nothing to do, a timeout and a cancel that wins.
LEMMA PollOutcomesConsistent ==
    ASSUME Consistent, NEW o \in Orders,
           PollSkips(o) \/ PollTimesOut(o) \/ PollCancels(o)
    PROVE  Consistent'
<1> USE DEF Consistent
<1>1. Polling(o) /\ loop' = Visited(o)
  BY DEF PollSkips, PollTimesOut, PollCancels, AtVenue
<1>2. UNCHANGED <<now, filled, expires_at, ack_at, cancel_at, force_unknown,
                  execution_disabled, illegal>>
  BY DEF PollSkips, PollTimesOut, PollCancels, pendingVars, orderVars
<1>3. \/ status' = status
      \/ /\ status' = [status EXCEPT ![o] = "UNKNOWN"]
         /\ status[o] \notin TERMINAL_STATUSES
      \/ /\ status' = [status EXCEPT ![o] = "CANCELLED"]
         /\ status[o] = "CANCEL_PENDING"
  BY DEF PollSkips, PollTimesOut, PollCancels, orderVars, Unpollable, IsTerminal
<1>4. Created \subseteq Created' /\ status' \in [Orders -> RestingStatus]
  BY <1>3 DEF Created, TypeOK, RestingStatus, OrderStatus, Absent
<1>5. FillAccounting'
  BY <1>2, <1>3 DEF TypeOK, FillAccounting, TERMINAL_STATUSES, Absent
<1> QED
  BY <1>1, <1>2, <1>4, <1>5, PollLoop DEF TypeOK, OnlyCancelPendingIsRefused

\* An order poll works is sent, resting or in a cancel race it has lost.
LEMMA WorkableStatus ==
    ASSUME Consistent, NEW o \in Orders, AtVenue(o)
    PROVE  status[o] \in {"SUBMITTING", "OPEN", "PARTIALLY_FILLED", "CANCEL_PENDING"}
<1>1. status[o] # Absent
  BY DEF Consistent, TypeOK, AtVenue, Polling, IsNext, Created
<1> QED
  BY <1>1 DEF Consistent, TypeOK, AtVenue, Unpollable, IsTerminal,
     TERMINAL_STATUSES, RestingStatus, OrderStatus

\* Working an order: it trades, may be filled and may be retired, and if its
\* retirement is refused it was a cancel that lost its race and had not traded.
LEMMA PollWorksConsistent ==
    ASSUME Consistent, NEW o \in Orders, PollWorks(o)
    PROVE  Consistent'
<1> USE DEF Consistent
<1>1. /\ AtVenue(o) /\ Polling(o)
      /\ UNCHANGED <<now, expires_at, ack_at, cancel_at, force_unknown,
                     execution_disabled>>
  BY DEF PollWorks, AtVenue, pendingVars
<1>2. status[o] \in {"SUBMITTING", "OPEN", "PARTIALLY_FILLED", "CANCEL_PENDING"}
  BY <1>1, WorkableStatus
<1> DEFINE arrived == IF status[o] = "SUBMITTING" THEN "OPEN" ELSE status[o]
           total(lots) == filled[o] + lots
           worked(lots) == IF lots = 0 THEN arrived ELSE StatusAfterFill(total(lots))
           retire(lots) == worked(lots) \notin TERMINAL_STATUSES /\ Expired(o)
           raises(lots) == /\ retire(lots)
                           /\ ~CanTransition(worked(lots), StatusAfterTtl(total(lots)))
<1>3. PICK lots \in 0..Remaining(o) :
         /\ filled' = [filled EXCEPT ![o] = total(lots)]
         /\ status' = [status EXCEPT ![o] =
                          IF retire(lots) /\ ~raises(lots)
                          THEN StatusAfterTtl(total(lots)) ELSE worked(lots)]
         /\ illegal' = IF raises(lots)
                       THEN illegal \cup {<<worked(lots), StatusAfterTtl(total(lots))>>}
                       ELSE illegal
         /\ loop' = IF raises(lots) THEN IdleLoop ELSE Visited(o)
  BY DEF PollWorks
<1>4. /\ total(lots) \in 0..Qty /\ (lots # 0 => total(lots) > 0)
      /\ lots = 0 => total(lots) = filled[o] /\ filled[o] < Qty
  <2>1. filled[o] \in 0..Qty /\ filled[o] # Qty
    BY <1>2 DEF TypeOK, FillAccounting
  <2> QED
    BY <2>1, ExecAssumption DEF Remaining
<1>5. arrived \in {"OPEN", "PARTIALLY_FILLED", "CANCEL_PENDING"}
      /\ (arrived = "OPEN" => filled[o] = 0)
      /\ (arrived = "PARTIALLY_FILLED" => filled[o] > 0)
  BY <1>2 DEF FillAccounting
<1>6. /\ worked(lots) \in {"OPEN", "PARTIALLY_FILLED", "CANCEL_PENDING", "FILLED"}
      /\ worked(lots) = "FILLED" <=> total(lots) = Qty
      /\ worked(lots) = "OPEN" => total(lots) = 0
      /\ worked(lots) = "PARTIALLY_FILLED" => total(lots) > 0
  BY <1>3, <1>4, <1>5 DEF StatusAfterFill, TypeOK
<1>7. raises(lots) => worked(lots) = "CANCEL_PENDING" /\ StatusAfterTtl(total(lots)) = "EXPIRED"
  BY <1>6, TableFacts DEF StatusAfterTtl, TERMINAL_STATUSES
<1> HIDE DEF raises, worked, total, arrived
<1>8. TypeOK'
  <2>1. /\ status' \in [Orders -> RestingStatus] /\ Created \subseteq Created'
    BY <1>3, <1>6 DEF TypeOK, RestingStatus, OrderStatus, StatusAfterTtl, Created, Absent
  <2>2. filled' \in [Orders -> 0..Qty]
    BY <1>3, <1>4 DEF TypeOK
  <2>3. illegal' \subseteq (OrderStatus \X OrderStatus)
    BY <1>3, <1>7 DEF TypeOK, OrderStatus
  <2> QED
    BY <1>1, <1>3, <2>1, <2>2, <2>3, PollLoop DEF TypeOK
<1>9. FillAccounting'
  <2>1. ASSUME NEW p \in Orders, p # o
        PROVE  status'[p] = status[p] /\ filled'[p] = filled[p]
    BY <1>3, <2>1 DEF TypeOK
  <2>2. filled'[o] = total(lots)
        /\ status'[o] = IF retire(lots) /\ ~raises(lots)
                        THEN StatusAfterTtl(total(lots)) ELSE worked(lots)
    BY <1>3 DEF TypeOK
  <2>3. retire(lots) => total(lots) # Qty
    BY <1>6 DEF TERMINAL_STATUSES
  <2>4. /\ status'[o] = "FILLED" <=> filled'[o] = Qty
        /\ status'[o] \in {Absent, "SUBMITTING", "OPEN", "REJECTED", "EXPIRED"}
              => filled'[o] = 0
        /\ status'[o] = "PARTIALLY_FILLED" => filled'[o] > 0
    BY <1>6, <2>2, <2>3 DEF StatusAfterTtl, Absent
  <2> QED
    BY <2>1, <2>4 DEF FillAccounting
<1>10. OnlyCancelPendingIsRefused'
  BY <1>3, <1>7 DEF OnlyCancelPendingIsRefused
<1>11. CancellingOnlyLive'
  BY <1>1, <1>3, PollLoop
<1> QED
  BY <1>8, <1>9, <1>10, <1>11

\* Every step of the executor keeps the state consistent.
LEMMA StepConsistent == Consistent /\ [Next]_vars => Consistent'
<1> SUFFICES ASSUME Consistent, [Next]_vars PROVE Consistent'
  OBVIOUS
<1>1. CASE Disable \/ CancelAll \/ Poll \/ Advance \/ \E o \in Orders : InjectTimeout(o)
  BY <1>1, QuietConsistent
<1>2. CASE \E o \in Orders : Submit(o) \/ Refuse(o)
  BY <1>2, SubmissionConsistent
<1>3. CASE \E o \in Orders : Cancel(o) \/ CancelNext(o)
  BY <1>3, CancelConsistent
<1>4. CASE \E o \in Orders : ResolveUnknown(o)
  BY <1>4, ResolveConsistent
<1>5. CASE \E o \in Orders : PollStep(o)
  BY <1>5, PollOutcomesConsistent, PollWorksConsistent DEF PollStep
<1>6. CASE UNCHANGED vars
  BY <1>6 DEF vars, Consistent, TypeOK, FillAccounting, Created, IsLive,
     OnlyCancelPendingIsRefused, CancellingOnlyLive
<1> QED
  BY <1>1, <1>2, <1>3, <1>4, <1>5, <1>6 DEF Next

\* The inductive invariant holds of every behaviour.
LEMMA AlwaysConsistent == Spec => []Consistent
  BY InitConsistent, StepConsistent, PTL DEF Spec

\* Every reachable state is well typed: no order is ever overfilled and no
\* handler leaves an order in CREATED or ACKNOWLEDGED.
THEOREM TypeCorrect == Spec => []TypeOK
<1>1. Consistent => TypeOK
  BY DEF Consistent
<1> QED
  BY <1>1, AlwaysConsistent, PTL

\* Status and fills of every order agree at every step.
THEOREM FillsAccounted == Spec => []FillAccounting
<1>1. Consistent => FillAccounting
  BY DEF Consistent
<1> QED
  BY <1>1, AlwaysConsistent, PTL

\* The state machine refuses nothing but a second cancel and the expiry of an
\* order whose cancel lost its race.
THEOREM RefusalsBounded == Spec => []OnlyCancelPendingIsRefused
<1>1. Consistent => OnlyCancelPendingIsRefused
  BY DEF Consistent
<1> QED
  BY <1>1, AlwaysConsistent, PTL

\* The steps that leave every fill alone.
LEMMA OnlyPollWorksTrades ==
    ASSUME [Next]_vars, ~\E o \in Orders : PollWorks(o)
    PROVE  filled' = filled
<1>1. CASE UNCHANGED vars
  BY <1>1 DEF vars
<1>2. CASE Disable \/ CancelAll \/ Poll \/ Advance
  BY <1>2 DEF Disable, CancelAll, Poll, Advance, orderVars
<1>3. ASSUME NEW o \in Orders,
             \/ Submit(o) \/ Refuse(o) \/ Cancel(o) \/ CancelNext(o)
             \/ InjectTimeout(o) \/ ResolveUnknown(o)
             \/ PollSkips(o) \/ PollTimesOut(o) \/ PollCancels(o)
      PROVE  filled' = filled
  BY <1>3 DEF Submit, Refuse, Cancel, CancelNext, InjectTimeout, ResolveUnknown,
     PollSkips, PollTimesOut, PollCancels, orderVars
<1> QED
  BY <1>1, <1>2, <1>3 DEF Next, PollStep

\* Fills never shrink and only grow on an order that is at the venue, live, and
\* with no cancel still on its way.
THEOREM TradesAtTheVenue == Spec => TradesOnlyAtTheVenue
<1> DEFINE Trades(o) ==
       filled'[o] # filled[o] =>
          /\ filled'[o] > filled[o]
          /\ ack_at[o] # NoTime /\ now >= ack_at[o]
          /\ status[o] \in LiveStatuses
          /\ status[o] = "CANCEL_PENDING" => CancelDue(o)
<1>1. Consistent /\ [Next]_vars => \A o \in Orders : Trades(o)
  <2> SUFFICES ASSUME Consistent, [Next]_vars, NEW o \in Orders,
                      filled'[o] # filled[o]
               PROVE  /\ filled'[o] > filled[o]
                      /\ ack_at[o] # NoTime /\ now >= ack_at[o]
                      /\ status[o] \in LiveStatuses
                      /\ status[o] = "CANCEL_PENDING" => CancelDue(o)
    OBVIOUS
  <2>1. PICK p \in Orders : PollWorks(p)
    BY OnlyPollWorksTrades
  <2>2. PICK lots \in 0..Remaining(p) :
           filled' = [filled EXCEPT ![p] = filled[p] + lots]
    BY <2>1 DEF PollWorks
  <2>3. p = o /\ lots > 0 /\ filled'[o] = filled[o] + lots
    BY <2>2, ExecAssumption DEF Consistent, TypeOK, Remaining
  <2>4. filled'[o] > filled[o]
    BY <2>2, <2>3, ExecAssumption DEF Consistent, TypeOK, Remaining
  <2>5. status[o] \in {"SUBMITTING", "OPEN", "PARTIALLY_FILLED", "CANCEL_PENDING"}
    BY <2>1, <2>3, WorkableStatus DEF PollWorks
  <2>6. ack_at[o] # NoTime /\ now >= ack_at[o]
        /\ (status[o] = "CANCEL_PENDING" => CancelDue(o))
    BY <2>1, <2>3 DEF PollWorks, AtVenue, Unpollable
  <2> QED
    BY <2>4, <2>5, <2>6 DEF LiveStatuses, OrderStatus, TERMINAL_STATUSES
<1>2. Spec => [][\A o \in Orders : Trades(o)]_vars
  BY <1>1, AlwaysConsistent, PTL DEF Spec
<1> QED
  BY <1>2 DEF TradesOnlyAtTheVenue

\* How a step can move order p, to status s with f lots filled.
Moves(p, s, f) ==
    \/ /\ status[p] = Absent /\ f = filled[p]
       /\ s = "REJECTED" \/ (s = "SUBMITTING" /\ ~execution_disabled)
    \/ status[p] \in LiveStatuses /\ s # "UNKNOWN" /\ f >= filled[p]
    \/ status[p] \in LiveStatuses /\ s = "UNKNOWN" /\ f = filled[p]
    \/ status[p] = "UNKNOWN" /\ s # "UNKNOWN" /\ f = filled[p]

OrderMoves(p) ==
    \E s \in OrderStatus, f \in 0..Qty :
        /\ status' = [status EXCEPT ![p] = s]
        /\ filled' = [filled EXCEPT ![p] = f]
        /\ Moves(p, s, f)

OrdersStay == status' = status /\ filled' = filled

\* A change of status alone is a move that keeps the fills.
LEMMA StatusOnlyMove ==
    ASSUME Consistent, NEW p \in Orders, NEW s \in OrderStatus, filled' = filled,
           status' = [status EXCEPT ![p] = s], Moves(p, s, filled[p])
    PROVE  OrderMoves(p)
<1>1. filled' = [filled EXCEPT ![p] = filled[p]] /\ filled[p] \in 0..Qty
  BY DEF Consistent, TypeOK
<1> QED
  BY <1>1 DEF OrderMoves

\* A step moves at most one order, along one of these paths.
LEMMA OneOrderMoves ==
    ASSUME Consistent, [Next]_vars
    PROVE  OrdersStay \/ \E p \in Orders : OrderMoves(p)
<1>1. /\ status \in [Orders -> RestingStatus] /\ filled \in [Orders -> 0..Qty]
  BY DEF Consistent, TypeOK
<1>2. CASE UNCHANGED vars
  BY <1>2 DEF vars, OrdersStay
<1>3. CASE Disable \/ CancelAll \/ Poll \/ Advance \/ \E p \in Orders : InjectTimeout(p)
  BY <1>3 DEF Disable, CancelAll, Poll, Advance, InjectTimeout, orderVars, OrdersStay
<1>4. ASSUME NEW p \in Orders, Submit(p) \/ Refuse(p)
      PROVE  OrderMoves(p)
  <2>1. /\ status[p] = Absent /\ filled' = filled
        /\ \E s \in {"SUBMITTING", "REJECTED"} :
              /\ status' = [status EXCEPT ![p] = s]
              /\ s = "SUBMITTING" => ~execution_disabled
    BY <1>4 DEF Submit, Refuse, Accepting
  <2> QED
    BY <2>1, StatusOnlyMove DEF Moves, OrderStatus
<1>5. ASSUME NEW p \in Orders, Cancel(p) \/ CancelNext(p)
      PROVE  OrdersStay \/ OrderMoves(p)
  <2>1. /\ filled' = filled /\ IsLive(p)
        /\ status' = status \/ status' = [status EXCEPT ![p] = "CANCEL_PENDING"]
    BY <1>5 DEF Consistent, CancellingOnlyLive, Cancel, CancelNext, IsNext,
       CancelInFlight, CancelResting, CancelRaises
  <2> QED
    BY <2>1, StatusOnlyMove, ExecAssumption
       DEF OrdersStay, IsLive, Moves, OrderStatus, Consistent, TypeOK
<1>6. ASSUME NEW p \in Orders, ResolveUnknown(p)
      PROVE  OrderMoves(p)
  <2>1. /\ status[p] = "UNKNOWN" /\ filled' = filled
        /\ \E s \in OrderStatus \ {"UNKNOWN"} : status' = [status EXCEPT ![p] = s]
    BY <1>6, TableFacts DEF ResolveUnknown, OrderStatus
  <2> QED
    BY <2>1, StatusOnlyMove DEF Moves
<1>7. ASSUME NEW p \in Orders, PollSkips(p) \/ PollTimesOut(p) \/ PollCancels(p)
      PROVE  OrdersStay \/ OrderMoves(p)
  <2>1. filled' = filled
    BY <1>7 DEF PollSkips, PollTimesOut, PollCancels, orderVars
  <2>2. CASE PollSkips(p)
    BY <2>2 DEF PollSkips, orderVars, OrdersStay
  <2>3. CASE PollTimesOut(p)
    <3>1. status[p] \in LiveStatuses
      BY <1>1, <2>3 DEF PollTimesOut, Unpollable, IsTerminal, Polling, IsNext,
         Consistent, TypeOK, Created, RestingStatus, LiveStatuses
    <3> QED
      BY <2>1, <2>3, <3>1, StatusOnlyMove DEF PollTimesOut, Moves, OrderStatus
  <2>4. CASE PollCancels(p)
    <3>1. filled[p] >= filled[p]
      BY <1>1, ExecAssumption
    <3> QED
      BY <2>1, <2>4, <3>1, StatusOnlyMove
         DEF PollCancels, Moves, OrderStatus, LiveStatuses, TERMINAL_STATUSES
  <2> QED
    BY <1>7, <2>2, <2>3, <2>4
<1>8. ASSUME NEW p \in Orders, PollWorks(p)
      PROVE  OrderMoves(p)
  <2>1. status[p] \in {"SUBMITTING", "OPEN", "PARTIALLY_FILLED", "CANCEL_PENDING"}
    BY <1>8, WorkableStatus DEF PollWorks
  <2>2. PICK lots \in 0..Remaining(p) :
           /\ filled' = [filled EXCEPT ![p] = filled[p] + lots]
           /\ \E s \in OrderStatus \ {"UNKNOWN"} : status' = [status EXCEPT ![p] = s]
    BY <1>8, <2>1 DEF PollWorks, StatusAfterFill, StatusAfterTtl, OrderStatus
  <2>3. filled[p] + lots \in 0..Qty /\ filled[p] + lots >= filled[p]
    BY <1>1, <2>2, ExecAssumption DEF Remaining
  <2> QED
    BY <2>1, <2>2, <2>3
       DEF OrderMoves, Moves, LiveStatuses, OrderStatus, TERMINAL_STATUSES
<1> QED
  BY <1>2, <1>3, <1>4, <1>5, <1>6, <1>7, <1>8 DEF Next, PollStep

\* Once execution is disabled, the orders that can still trade only shrink.
THEOREM DisabledWindsDown == Spec => DisabledOnlyWindsDown
<1>1. Consistent /\ [Next]_vars => (execution_disabled => Outstanding' \subseteq Outstanding)
  <2> SUFFICES ASSUME Consistent, [Next]_vars, execution_disabled,
                      NEW o \in Orders, o \in Outstanding'
               PROVE  o \in Outstanding
    BY DEF Outstanding, Created
  <2>1. status \in [Orders -> RestingStatus]
    BY DEF Consistent, TypeOK
  <2>2. CASE OrdersStay
    BY <2>2 DEF OrdersStay, Outstanding, Created, IsTerminal
  <2>3. CASE \E p \in Orders : OrderMoves(p)
    <3>1. PICK p \in Orders, s \in OrderStatus, f \in 0..Qty :
             status' = [status EXCEPT ![p] = s] /\ Moves(p, s, f)
      BY <2>3 DEF OrderMoves
    <3>2. CASE o = p
      <4>1. s \notin TERMINAL_STATUSES
        BY <2>1, <3>1, <3>2 DEF Outstanding, IsTerminal
      <4> QED
        BY <3>1, <3>2, <4>1, TableFacts DEF Moves, Outstanding, Created,
           IsTerminal, TERMINAL_STATUSES, LiveStatuses, Absent
    <3>3. CASE o # p
      BY <2>1, <3>1, <3>3 DEF Outstanding, Created, IsTerminal
    <3> QED
      BY <3>2, <3>3
  <2> QED
    BY <2>2, <2>3, OneOrderMoves
<1> QED
  BY <1>1, AlwaysConsistent, PTL DEF Spec, DisabledOnlyWindsDown

---------------------------------------------------------------------------
(* Refinement: the executor keeps the order contract. *)

\* The initial state maps to the contract's.
LEMMA ContractInitially == Init => Contract!ContractInit
<1> SUFFICES ASSUME Init
             PROVE  /\ [o \in Orders |-> PhaseOf(status[o])] = [o \in Orders |-> "absent"]
                    /\ filled = [o \in Orders |-> 0]
  BY DEF Contract!ContractInit
<1>1. \A o \in Orders : PhaseOf(status[o]) = "absent"
  BY DEF Init, PhaseOf, Absent, TERMINAL_STATUSES
<1> QED
  BY <1>1 DEF Init

\* A move of one order is a step of the contract on that order.
LEMMA MoveIsContractStep ==
    ASSUME Consistent, Consistent', NEW p \in Orders, OrderMoves(p)
    PROVE  Contract!Accept(p) \/ Contract!Work(p) \/ Contract!Lose(p) \/ Contract!Resolve(p)
<1> DEFINE ph == [o \in Orders |-> PhaseOf(status[o])]
           ph2 == [o \in Orders |-> PhaseOf(status'[o])]
<1>1. /\ status \in [Orders -> RestingStatus] /\ status' \in [Orders -> RestingStatus]
      /\ filled \in [Orders -> 0..Qty] /\ filled' \in [Orders -> 0..Qty]
      /\ FillAccounting'
  BY DEF Consistent, TypeOK
<1>2. PICK s \in OrderStatus, f \in 0..Qty :
         /\ status' = [status EXCEPT ![p] = s]
         /\ filled' = [filled EXCEPT ![p] = f]
         /\ Moves(p, s, f)
  BY DEF OrderMoves
<1>3. ph2 = [ph EXCEPT ![p] = PhaseOf(s)] /\ ph[p] = PhaseOf(status[p])
  <2>1. \A o \in Orders : status'[o] = IF o = p THEN s ELSE status[o]
    BY <1>1, <1>2
  <2>2. \A o \in Orders :
           PhaseOf(status'[o]) = IF o = p THEN PhaseOf(s) ELSE PhaseOf(status[o])
    BY <2>1
  <2> QED
    BY <2>2
<1>4. f = Qty => s = "FILLED"
  BY <1>1, <1>2 DEF FillAccounting
<1>5. (f = filled[p] => filled' = filled)
  BY <1>1, <1>2
<1> HIDE DEF ph, ph2
<1>6. CASE status[p] = Absent /\ f = filled[p] /\ s \in {"SUBMITTING", "REJECTED"}
  <2>1. ph[p] = "absent" /\ PhaseOf(s) \in {"working", "done"}
    BY <1>3, <1>6 DEF PhaseOf, TERMINAL_STATUSES, Absent
  <2> QED
    BY <1>3, <1>5, <1>6, <2>1 DEF Contract!Accept, ph, ph2
<1>7. CASE status[p] \in LiveStatuses /\ s # "UNKNOWN" /\ f >= filled[p]
  <2>1. /\ ph[p] = "working" /\ PhaseOf(s) \in {"working", "done"}
        /\ s = "FILLED" => PhaseOf(s) = "done"
    BY <1>2, <1>3, <1>7, TableFacts
       DEF PhaseOf, TERMINAL_STATUSES, LiveStatuses
  <2>2. f \in filled[p]..Qty
    BY <1>1, <1>2, <1>7, ExecAssumption
  <2> QED
    BY <1>2, <1>3, <1>4, <2>1, <2>2 DEF Contract!Work, ph, ph2
<1>8. CASE status[p] \in LiveStatuses /\ s = "UNKNOWN" /\ f = filled[p]
  <2>1. ph[p] = "working" /\ PhaseOf(s) = "lost"
    BY <1>3, <1>8, TableFacts DEF PhaseOf, TERMINAL_STATUSES, LiveStatuses, Absent
  <2> QED
    BY <1>3, <1>5, <1>8, <2>1 DEF Contract!Lose, ph, ph2
<1>9. CASE status[p] = "UNKNOWN" /\ s # "UNKNOWN" /\ f = filled[p]
  <2>1. ph[p] = "lost" /\ PhaseOf(s) \in {"working", "done"}
    BY <1>2, <1>3, <1>9, TableFacts DEF PhaseOf, TERMINAL_STATUSES, Absent
  <2> QED
    BY <1>3, <1>5, <1>9, <2>1 DEF Contract!Resolve, ph, ph2
<1> QED
  BY <1>2, <1>6, <1>7, <1>8, <1>9 DEF Moves

\* Every step maps to a step of the contract, or to a stutter.
LEMMA ContractStep ==
    Consistent /\ [Next]_vars => [Contract!ContractNext]_Contract!contractVars
<1> SUFFICES ASSUME Consistent, [Next]_vars
             PROVE  [Contract!ContractNext]_Contract!contractVars
  OBVIOUS
<1>1. CASE OrdersStay
  BY <1>1 DEF OrdersStay, Contract!contractVars
<1>2. CASE \E p \in Orders : OrderMoves(p)
  BY <1>2, StepConsistent, MoveIsContractStep DEF Contract!ContractNext
<1> QED
  BY <1>1, <1>2, OneOrderMoves

\* The executor and the order manager implement the order contract: a finished
\* order never changes, a lost one waits for a resolution, and nothing trades
\* more than it asked for.
THEOREM ImplementsContract == Spec => KeepsTheContract
  BY ContractInitially, ContractStep, AlwaysConsistent, PTL
     DEF Spec, KeepsTheContract, Contract!ContractSpec
=============================================================================
