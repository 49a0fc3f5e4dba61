------------------------- MODULE Supervision_proofs -------------------------
(***************************************************************************)
(* Theorems about what supervises the trading loop: the kill switch, for   *)
(* any set of watched triggers and of names engaged by the API or an       *)
(* operator, and the health monitor, for any health policy.                *)
(*                                                                         *)
(* What is in force and what triggered it is inductive with the types      *)
(* (Accounted).  That a trigger engages after a sustained failure, and     *)
(* only then, needs what the streak counts: StreakCounts relates it to the *)
(* verdicts themselves.                                                    *)
(*                                                                         *)
(* That nothing failing is shown as healthy follows from what each record  *)
(* says of its component (Reported).  That entries are made on good health *)
(* also needs what the snapshot of a tick says of the registry while time  *)
(* passes and errors arrive (Shown).                                       *)
(***************************************************************************)
EXTENDS KillSwitch, Health, FiniteSetTheorems, TLAPS

\* Every trigger halts, whatever its name, and asks for known actions.
LEMMA EveryTriggerHalts ==
    \A t : HALT \in TRIGGER_ACTIONS(t) /\ TRIGGER_ACTIONS(t) \subseteq KillAction
  BY DEF TRIGGER_ACTIONS, HALT, CANCEL, FLATTEN, DISABLE, KillAction

\* A trigger is confirmed by one, two or three verdicts.
LEMMA ConfirmationsType == \A t : CONFIRMATIONS(t) \in 1..3
  BY DEF CONFIRMATIONS

\* The four actions are distinct.
LEMMA ActionsDistinct ==
    /\ HALT # CANCEL /\ HALT # FLATTEN /\ DISABLE # CANCEL /\ DISABLE # FLATTEN
  BY DEF HALT, CANCEL, FLATTEN, DISABLE

\* Engaging keeps what is in force accounted for.
LEMMA EngageAccounted ==
    ASSUME Accounted, NEW t \in Watched \cup Named, Engage(t)
    PROVE  /\ in_force' \subseteq KillAction
           /\ triggered_by' \subseteq Watched \cup Named
           /\ ForceFollowsTriggers'
<1>1. CASE t \in triggered_by
  BY <1>1 DEF Engage, switchVars, Accounted, TypeOK, ForceFollowsTriggers
<1>2. CASE t \notin triggered_by
  <2>1. /\ triggered_by' = triggered_by \cup {t}
        /\ in_force' = in_force \cup TRIGGER_ACTIONS(t)
    BY <1>2 DEF Engage
  <2>2. in_force' \subseteq KillAction /\ triggered_by' \subseteq Watched \cup Named
    BY <2>1, EveryTriggerHalts DEF Accounted, TypeOK
  <2>3. (HALT \in in_force <=> triggered_by # {})'
    BY <2>1, EveryTriggerHalts
  <2>4. (DISABLE \in in_force <=> \E u \in triggered_by : DISABLE \in TRIGGER_ACTIONS(u))'
    BY <2>1 DEF Accounted, ForceFollowsTriggers
  <2>5. (\A a \in in_force : \E u \in triggered_by : a \in TRIGGER_ACTIONS(u))'
    BY <2>1 DEF Accounted, ForceFollowsTriggers
  <2> QED
    BY <2>2, <2>3, <2>4, <2>5 DEF ForceFollowsTriggers
<1> QED
  BY <1>1, <1>2

\* Acknowledging CANCEL_ALL or FLATTEN keeps what is in force accounted for.
LEMMA AcknowledgeAccounted ==
    ASSUME Accounted, NEW a \in {CANCEL, FLATTEN},
           in_force' = Acknowledge(a), UNCHANGED triggered_by
    PROVE  /\ in_force' \subseteq KillAction
           /\ triggered_by' \subseteq Watched \cup Named
           /\ ForceFollowsTriggers'
<1>1. in_force' = in_force \ {a} /\ triggered_by' = triggered_by
  BY DEF Acknowledge
<1>2. in_force' \subseteq KillAction /\ triggered_by' \subseteq Watched \cup Named
  BY <1>1 DEF Accounted, TypeOK
<1>3. (HALT \in in_force' <=> HALT \in in_force) /\ (DISABLE \in in_force' <=> DISABLE \in in_force)
  BY <1>1, ActionsDistinct
<1>4. ForceFollowsTriggers'
  BY <1>1, <1>3 DEF Accounted, ForceFollowsTriggers
<1> QED
  BY <1>2, <1>4

\* Recording a verdict keeps the record of verdicts well typed.
LEMMA RecordedType ==
    ASSUME NEW s \in Seq(Verdict), NEW h \in Verdict, NEW c \in 1..3
    PROVE  WithOneMore(s, h, c) \in Seq(Verdict)
<1> DEFINE longer == Append(s, h)
<1>1. longer \in Seq(Verdict)
  OBVIOUS
<1> HIDE DEF longer
<1>2. CASE Len(longer) > c
  <2>1. WithOneMore(s, h, c) = Tail(longer)
    BY <1>2 DEF WithOneMore, longer
  <2>2. Tail(longer) \in Seq(Verdict)
    BY <1>1, <1>2
  <2> QED
    BY <2>1, <2>2
<1>3. CASE ~(Len(longer) > c)
  <2>1. WithOneMore(s, h, c) = longer
    BY <1>3 DEF WithOneMore, longer
  <2> QED
    BY <2>1, <1>1
<1> QED
  BY <1>2, <1>3

\* The initial state is accounted for.
LEMMA InitAccounted == Init => Accounted
<1> SUFFICES ASSUME Init PROVE Accounted
  OBVIOUS
<1>1. TypeOK
  <2>1. seen \in [Watched -> Seq(Verdict)] /\ streaks \in [Watched -> Nat]
    BY DEF Init
  <2> QED
    BY <2>1 DEF Init, TypeOK, Phases
<1>2. ForceFollowsTriggers
  BY DEF Init, ForceFollowsTriggers
<1> QED
  BY <1>1, <1>2 DEF Accounted

\* No step breaks the inductive invariant.
LEMMA NextAccounted == Accounted /\ [Next]_vars => Accounted'
<1> SUFFICES ASSUME Accounted, [Next]_vars PROVE Accounted'
  OBVIOUS
<1> USE DEF Accounted
<1>1. ASSUME NEW t \in Named, EngageByName(t) PROVE Accounted'
  BY <1>1, EngageAccounted DEF EngageByName, loopVars, TypeOK
<1>2. CASE Clear
  <2>1. seen' \in [Watched -> Seq(Verdict)] /\ streaks' \in [Watched -> Nat]
    BY <1>2 DEF Clear, StreaksAfterClear
  <2>2. ForceFollowsTriggers'
    BY <1>2 DEF Clear, ForceFollowsTriggers
  <2> QED
    BY <1>2, <2>1, <2>2 DEF Clear, loopVars, TypeOK
<1>3. CASE Evaluate
  BY <1>3 DEF Evaluate, switchVars, TypeOK, ForceFollowsTriggers, Phases
<1>4. ASSUME NEW t \in Watched, Skip(t) PROVE Accounted'
  BY <1>4 DEF Skip, IsNextTrigger, switchVars, TypeOK, ForceFollowsTriggers
<1>5. ASSUME NEW t \in Watched, ObserveClear(t) PROVE Accounted'
  <2>1. seen' \in [Watched -> Seq(Verdict)]
    BY <1>5, RecordedType, ConfirmationsType DEF ObserveClear, Recorded, TypeOK, Verdict
  <2>2. streaks' \in [Watched -> Nat]
    BY <1>5 DEF ObserveClear, BrokenStreak, TypeOK
  <2>3. ForceFollowsTriggers'
    BY <1>5 DEF ObserveClear, switchVars, ForceFollowsTriggers
  <2> QED
    BY <1>5, <2>1, <2>2, <2>3 DEF ObserveClear, IsNextTrigger, switchVars, TypeOK
<1>6. ASSUME NEW t \in Watched, Observe(t) PROVE Accounted'
  <2>1. seen' \in [Watched -> Seq(Verdict)]
    BY <1>6, RecordedType, ConfirmationsType DEF Observe, Recorded, TypeOK, Verdict
  <2>2. streaks' \in [Watched -> Nat]
    BY <1>6 DEF Observe, TypeOK
  <2>3. /\ in_force' \subseteq KillAction
        /\ triggered_by' \subseteq Watched \cup Named
        /\ ForceFollowsTriggers'
    <3>1. CASE Engage(t)
      BY <3>1, EngageAccounted
    <3>2. CASE UNCHANGED switchVars
      BY <3>2 DEF switchVars, TypeOK, ForceFollowsTriggers
    <3> QED
      BY <1>6, <3>1, <3>2 DEF Observe
  <2>4. /\ todo' = todo \ {t} /\ suspended' \in BOOLEAN /\ phase = "evaluate"
        /\ UNCHANGED <<executor_disabled, phase>>
    BY <1>6 DEF Observe, IsNextTrigger
  <2> QED
    BY <2>1, <2>2, <2>3, <2>4 DEF TypeOK
<1>7. CASE Evaluated
  <2>1. executor_disabled' \in BOOLEAN /\ phase' \in Phases
    BY <1>7 DEF Evaluated, AfterCancel, TypeOK, Phases
  <2>2. UNCHANGED <<switchVars, streaks, seen>> /\ todo' = {} /\ suspended' = FALSE
    BY <1>7 DEF Evaluated, Forget
  <2> QED
    BY <2>1, <2>2 DEF switchVars, TypeOK, ForceFollowsTriggers
<1>8. CASE Cancelled
  <2>1. executor_disabled' \in BOOLEAN /\ phase' \in Phases
    BY <1>8 DEF Cancelled, AfterCancel, TypeOK, Phases
  <2>2. in_force' = Acknowledge(CANCEL) /\ phase = "cancel"
        /\ UNCHANGED <<triggered_by, streaks, todo, suspended, seen>>
    BY <1>8 DEF Cancelled
  <2> QED
    BY <2>1, <2>2, AcknowledgeAccounted DEF TypeOK
<1>9. CASE CancelFails
  BY <1>9 DEF CancelFails, switchVars, TypeOK, ForceFollowsTriggers, Phases
<1>10. CASE Flattened
  BY <1>10, AcknowledgeAccounted DEF Flattened, TypeOK, Phases
<1>11. CASE UNCHANGED vars
  BY <1>11 DEF vars, TypeOK, ForceFollowsTriggers
<1> QED
  BY <1>1, <1>2, <1>3, <1>4, <1>5, <1>6, <1>7, <1>8, <1>9, <1>10, <1>11 DEF Next, Visit

\* In every behaviour of the switch and its loop the variables keep their types,
\* and what is in force follows from what was triggered.
THEOREM AlwaysAccounted == Spec => []Accounted
  BY InitAccounted, NextAccounted, PTL DEF Spec

---------------------------------------------------------------------------

\* No step but a reset of everything takes a trigger back or lifts the halt.
LEMMA StepNeverClears ==
    ASSUME [Next]_vars
    PROVE  \/ triggered_by' = {} /\ in_force' = {}
           \/ /\ triggered_by \subseteq triggered_by'
              /\ in_force \ in_force' \subseteq {CANCEL, FLATTEN}
<1>1. CASE UNCHANGED switchVars
  BY <1>1 DEF switchVars
<1>2. ASSUME NEW t, Engage(t)
      PROVE  triggered_by \subseteq triggered_by' /\ in_force \subseteq in_force'
  BY <1>2 DEF Engage, switchVars
<1>3. CASE Clear
  BY <1>3 DEF Clear
<1>4. CASE Cancelled \/ Flattened
  BY <1>4 DEF Cancelled, Flattened, Acknowledge
<1>5. CASE Evaluate \/ Evaluated \/ CancelFails
  BY <1>5, <1>1 DEF Evaluate, Evaluated, CancelFails
<1>6. CASE Visit
  BY <1>6, <1>1, <1>2 DEF Visit, Skip, ObserveClear, Observe
<1>7. ASSUME NEW t \in Named, EngageByName(t)
      PROVE  triggered_by \subseteq triggered_by' /\ in_force \subseteq in_force'
  BY <1>7, <1>2 DEF EngageByName
<1>8. CASE UNCHANGED vars
  BY <1>8, <1>1 DEF vars, switchVars
<1> QED
  BY <1>3, <1>4, <1>5, <1>6, <1>7, <1>8 DEF Next

\* The switch never clears itself.
THEOREM OnlyResetsClear == Spec => NeverClearsItself
  BY StepNeverClears, PTL DEF Spec, NeverClearsItself

---------------------------------------------------------------------------

\* What a streak counts: the last streaks[t] verdicts recorded held, the one
\* before them did not, and they are too few to engage.
CountsVerdicts(s, k, c) ==
    /\ Len(s) <= c /\ k <= Len(s) /\ k < c
    /\ \A i \in DOMAIN s : i > Len(s) - k => s[i] = "holds"
    /\ k < Len(s) => s[Len(s) - k] = "clear"

StreakCounts ==
    \A t \in Watched \ triggered_by :
        CountsVerdicts(seen[t], streaks[t], CONFIRMATIONS(t))

\* The inductive invariant of evaluate.
Counted == Accounted /\ StreakCounts

\* The two verdicts.
LEMMA VerdictType == "holds" \in Verdict /\ "clear" \in Verdict
  BY DEF Verdict

\* The verdicts dropped from a record of c.
Dropped(s, c) == IF Len(s) = c THEN 1 ELSE 0

\* The elements of the record with one more verdict.
LEMMA WithOneMoreElements ==
    ASSUME NEW s \in Seq(Verdict), NEW h \in Verdict, NEW c \in 1..3, Len(s) <= c,
           NEW m \in Seq(Verdict), m = WithOneMore(s, h, c)
    PROVE  /\ Len(m) = Len(s) + 1 - Dropped(s, c)
           /\ m[Len(m)] = h
           /\ \A i \in 1..(Len(m) - 1) : m[i] = s[i + Dropped(s, c)]
<1> USE DEF Dropped
<1> DEFINE longer == Append(s, h)
<1>1. /\ longer \in Seq(Verdict) /\ Len(longer) = Len(s) + 1 /\ Len(s) \in Nat
      /\ longer[Len(s) + 1] = h /\ \A i \in 1..Len(s) : longer[i] = s[i]
  OBVIOUS
<1> HIDE DEF longer
<1>2. CASE Len(s) = c
  <2>1. /\ Tail(longer) \in Seq(Verdict) /\ Len(Tail(longer)) = Len(s)
        /\ \A i \in 1..Len(s) : Tail(longer)[i] = longer[i + 1]
    BY <1>1
  <2>2. WithOneMore(s, h, c) = Tail(longer)
    BY <1>1, <1>2 DEF WithOneMore, longer
  <2> QED
    BY <1>1, <1>2, <2>1, <2>2
<1>3. CASE Len(s) < c
  <2>1. WithOneMore(s, h, c) = longer
    BY <1>1, <1>3 DEF WithOneMore, longer
  <2> QED
    BY <1>1, <1>3, <2>1
<1> QED
  BY <1>1, <1>2, <1>3

\* A verdict that does not hold leaves an empty streak.
LEMMA ClearCounts ==
    ASSUME NEW s \in Seq(Verdict), NEW k \in Nat, NEW c \in 1..3, CountsVerdicts(s, k, c),
           NEW m \in Seq(Verdict), m = WithOneMore(s, "clear", c)
    PROVE  CountsVerdicts(m, 0, c)
<1>1. Len(s) \in Nat /\ Len(s) <= c
  BY DEF CountsVerdicts
<1>2. Dropped(s, c) \in 0..1 /\ (Dropped(s, c) = 1 <=> Len(s) = c)
  BY DEF Dropped
<1>3. Len(m) = Len(s) + 1 - Dropped(s, c) /\ m[Len(m)] = "clear"
  BY <1>1, <1>2, VerdictType, WithOneMoreElements
<1>4. Len(m) \in 1..c
  BY <1>1, <1>2, <1>3
<1> QED
  BY <1>3, <1>4 DEF CountsVerdicts

\* A verdict that holds lengthens the streak by one: either it is still too
\* short, or every one of the last c verdicts held.
LEMMA HoldsCounts ==
    ASSUME NEW s \in Seq(Verdict), NEW k \in Nat, NEW c \in 1..3, CountsVerdicts(s, k, c),
           NEW m \in Seq(Verdict), m = WithOneMore(s, "holds", c)
    PROVE  /\ k + 1 >= c => Len(m) = c /\ \A i \in DOMAIN m : m[i] = "holds"
           /\ k + 1 < c => CountsVerdicts(m, k + 1, c)
<1>1. Len(s) <= c
  BY DEF CountsVerdicts
<1> DEFINE d == Dropped(s, c)
<1>2. d \in 0..1 /\ (d = 1 <=> Len(s) = c)
  BY DEF Dropped
<1>3. /\ Len(m) = Len(s) + 1 - d
      /\ m[Len(m)] = "holds" /\ \A i \in 1..(Len(m) - 1) : m[i] = s[i + d]
  BY <1>1, <1>2, VerdictType, WithOneMoreElements
<1> HIDE DEF d
<1>4. /\ Len(s) \in Nat /\ Len(s) <= c /\ k <= Len(s) /\ k < c
      /\ \A i \in 1..Len(s) : i > Len(s) - k => s[i] = "holds"
      /\ k < Len(s) => s[Len(s) - k] = "clear"
  BY DEF CountsVerdicts
<1>5. DOMAIN m = 1..Len(m)
  BY <1>3
<1>6. \A i \in DOMAIN m : i > Len(m) - (k + 1) => m[i] = "holds"
  <2> SUFFICES ASSUME NEW i \in 1..Len(m), i > Len(m) - (k + 1) PROVE m[i] = "holds"
    BY <1>5
  <2>1. CASE i = Len(m)
    BY <2>1, <1>3
  <2>2. CASE i # Len(m)
    <3>1. i \in 1..(Len(m) - 1) /\ i + d \in 1..Len(s) /\ i + d > Len(s) - k
      BY <2>2, <1>3, <1>4, <1>2
    <3> QED
      BY <3>1, <1>3, <1>4
  <2> QED
    BY <2>1, <2>2
<1>7. ASSUME k + 1 >= c PROVE Len(m) = c /\ \A i \in DOMAIN m : m[i] = "holds"
  <2>1. Len(m) = c
    BY <1>3, <1>4, <1>2, <1>7
  <2>2. \A i \in DOMAIN m : i > Len(m) - (k + 1)
    BY <2>1, <1>5, <1>7
  <2> QED
    BY <2>1, <2>2, <1>6
<1>8. ASSUME k + 1 < c PROVE CountsVerdicts(m, k + 1, c)
  <2>1. Len(m) <= c /\ k + 1 <= Len(m)
    BY <1>3, <1>4, <1>2, <1>8
  <2>2. ASSUME k + 1 < Len(m) PROVE m[Len(m) - (k + 1)] = "clear"
    <3>1. Len(m) - (k + 1) \in 1..(Len(m) - 1) /\ Len(m) - (k + 1) + d = Len(s) - k
      BY <2>2, <1>3, <1>4, <1>2
    <3>2. k < Len(s)
      BY <2>2, <1>3, <1>4, <1>2
    <3> QED
      BY <3>1, <3>2, <1>3, <1>4
  <2> QED
    BY <2>1, <2>2, <1>6, <1>8 DEF CountsVerdicts
<1> QED
  BY <1>7, <1>8

\* Nothing but a verdict and a reset changes what is recorded of a trigger, and
\* only a reset takes a trigger back.
LEMMA StreaksUndisturbed ==
    ASSUME Counted, UNCHANGED <<streaks, seen>>, triggered_by \subseteq triggered_by'
    PROVE  StreakCounts'
  BY DEF Counted, StreakCounts

\* An engagement adds one trigger at most.
LEMMA EngageAdds ==
    ASSUME NEW t, Engage(t)
    PROVE  triggered_by' = triggered_by \cup {t}
  BY DEF Engage, switchVars

\* A verdict that holds keeps the count, and engages only when as many as it
\* takes held.
LEMMA ObserveCounts ==
    ASSUME Counted, NEW t \in Watched, Observe(t)
    PROVE  /\ StreakCounts'
           /\ t \in triggered_by' => Sustained(seen', t)
           /\ \A u \in triggered_by' \ triggered_by : u = t
<1> DEFINE c == CONFIRMATIONS(t)
<1>1. /\ seen[t] \in Seq(Verdict) /\ streaks[t] \in Nat /\ c \in 1..3
      /\ CountsVerdicts(seen[t], streaks[t], c)
  BY ConfirmationsType DEF Counted, Accounted, TypeOK, StreakCounts, Observe
<1>2. /\ streaks' = [streaks EXCEPT ![t] = streaks[t] + 1]
      /\ seen' = [seen EXCEPT ![t] = WithOneMore(seen[t], "holds", c)]
  BY DEF Observe, Recorded
<1>3. /\ streaks'[t] = streaks[t] + 1 /\ seen'[t] = WithOneMore(seen[t], "holds", c)
      /\ \A u \in Watched \ {t} : streaks'[u] = streaks[u] /\ seen'[u] = seen[u]
  BY <1>2 DEF Counted, Accounted, TypeOK
<1> HIDE DEF c
<1>6. seen'[t] \in Seq(Verdict)
  BY <1>1, <1>3, VerdictType, RecordedType
<1>4. CASE Confirmed(t)
  <2>1. streaks[t] + 1 >= c /\ triggered_by' = triggered_by \cup {t}
    BY <1>4, EngageAdds DEF Observe, Confirmed, c
  <2>2. Len(seen'[t]) = c /\ \A i \in DOMAIN seen'[t] : seen'[t][i] = "holds"
    BY <1>1, <1>3, <1>6, <2>1, HoldsCounts
  <2>3. Sustained(seen', t)
    BY <2>2 DEF Sustained, c
  <2>4. StreakCounts'
    BY <1>3, <2>1 DEF Counted, StreakCounts
  <2> QED
    BY <2>1, <2>3, <2>4
<1>5. CASE ~Confirmed(t)
  <2>1. streaks[t] + 1 < c /\ triggered_by' = triggered_by
    BY <1>1, <1>5 DEF Observe, Confirmed, c, switchVars
  <2>2. CountsVerdicts(seen'[t], streaks'[t], c)
    BY <1>1, <1>3, <1>6, <2>1, HoldsCounts
  <2>3. StreakCounts'
    BY <1>3, <2>1, <2>2 DEF Counted, StreakCounts, c
  <2>4. t \notin triggered_by'
    BY <2>1 DEF Observe
  <2> QED
    BY <2>1, <2>3, <2>4
<1> QED
  BY <1>4, <1>5

\* Nothing is recorded in the initial state.
LEMMA InitCounted == Init => Counted
<1> SUFFICES ASSUME Init PROVE Counted
  OBVIOUS
<1>1. ASSUME NEW t \in Watched PROVE CountsVerdicts(seen[t], streaks[t], CONFIRMATIONS(t))
  <2>1. seen[t] = <<>> /\ streaks[t] = 0
    BY DEF Init
  <2>2. ASSUME NEW c \in 1..3 PROVE CountsVerdicts(<<>>, 0, c)
    BY DEF CountsVerdicts
  <2> QED
    BY <2>1, <2>2, ConfirmationsType
<1> QED
  BY <1>1, InitAccounted DEF Counted, StreakCounts

\* What a trigger is newly engaged by, in any step.
LEMMA NextCounted ==
    ASSUME Counted, [Next]_vars
    PROVE  /\ Counted'
           /\ \A t \in todo : t \in triggered_by' \ triggered_by /\ t \notin todo' =>
                                Sustained(seen', t)
<1> DEFINE Engaged ==
      \A t \in todo : t \in triggered_by' \ triggered_by /\ t \notin todo' =>
                           Sustained(seen', t)
<1> SUFFICES StreakCounts' /\ Engaged
  BY NextAccounted DEF Counted
<1>1. ASSUME NEW t \in Named, EngageByName(t) PROVE StreakCounts' /\ Engaged
  <2>1. triggered_by' = triggered_by \cup {t} /\ UNCHANGED <<streaks, seen, todo>>
    BY <1>1, EngageAdds DEF EngageByName, loopVars
  <2> QED
    BY <2>1, StreaksUndisturbed
<1>2. CASE Clear
  <2>1. triggered_by' = {}
    BY <1>2 DEF Clear
  <2>2. ASSUME NEW t \in Watched PROVE CountsVerdicts(seen'[t], streaks'[t], CONFIRMATIONS(t))
    <3>1. seen'[t] = <<>> /\ streaks'[t] = 0
      BY <1>2 DEF Clear, StreaksAfterClear
    <3>2. ASSUME NEW c \in 1..3 PROVE CountsVerdicts(<<>>, 0, c)
      BY DEF CountsVerdicts
    <3> QED
      BY <3>1, <3>2, ConfirmationsType
  <2> QED
    BY <2>1, <2>2 DEF StreakCounts
<1>3. CASE UNCHANGED <<streaks, seen, triggered_by>>
  BY <1>3, StreaksUndisturbed
<1>4. CASE Evaluate \/ Evaluated \/ Cancelled \/ CancelFails \/ Flattened
  BY <1>3, <1>4 DEF Evaluate, Evaluated, Cancelled, CancelFails, Flattened, switchVars
<1>5. ASSUME NEW t \in Watched, Skip(t) PROVE StreakCounts' /\ Engaged
  BY <1>3, <1>5 DEF Skip, switchVars
<1>6. ASSUME NEW t \in Watched, ObserveClear(t) PROVE StreakCounts' /\ Engaged
  <2>1. /\ seen[t] \in Seq(Verdict) /\ streaks[t] \in Nat /\ CONFIRMATIONS(t) \in 1..3
        /\ CountsVerdicts(seen[t], streaks[t], CONFIRMATIONS(t))
    BY <1>6, ConfirmationsType DEF Counted, Accounted, TypeOK, StreakCounts, ObserveClear
  <2>2. /\ streaks'[t] = 0 /\ seen'[t] = WithOneMore(seen[t], "clear", CONFIRMATIONS(t))
        /\ \A u \in Watched \ {t} : streaks'[u] = streaks[u] /\ seen'[u] = seen[u]
    BY <1>6 DEF ObserveClear, Recorded, BrokenStreak, Counted, Accounted, TypeOK
  <2>5. seen'[t] \in Seq(Verdict)
    BY <2>1, <2>2, VerdictType, RecordedType
  <2>3. CountsVerdicts(seen'[t], streaks'[t], CONFIRMATIONS(t))
    BY <2>1, <2>2, <2>5, ClearCounts
  <2>4. triggered_by' = triggered_by
    BY <1>6 DEF ObserveClear, switchVars
  <2> QED
    BY <2>2, <2>3, <2>4 DEF Counted, StreakCounts
<1>7. ASSUME NEW t \in Watched, Observe(t) PROVE StreakCounts' /\ Engaged
  BY <1>7, ObserveCounts
<1>8. CASE UNCHANGED vars
  BY <1>3, <1>8 DEF vars
<1> QED
  BY <1>1, <1>2, <1>4, <1>5, <1>6, <1>7, <1>8 DEF Next, Visit

\* Every behaviour's streaks count what was seen.
THEOREM AlwaysCounted == Spec => []Counted
<1>1. Counted /\ [Next]_vars => Counted'
  BY NextCounted
<1> QED
  BY <1>1, InitCounted, PTL DEF Spec

\* A sustained failure always engages.
THEOREM SustainedEngages == Spec => []SustainedFailureEngages
<1>1. Counted => SustainedFailureEngages
  <2> SUFFICES ASSUME Counted, NEW t \in Watched, Sustained(seen, t), t \notin triggered_by
               PROVE  FALSE
    BY DEF SustainedFailureEngages
  <2>1. /\ seen[t] \in Seq(Verdict) /\ streaks[t] \in Nat /\ CONFIRMATIONS(t) \in 1..3
        /\ CountsVerdicts(seen[t], streaks[t], CONFIRMATIONS(t))
    BY ConfirmationsType DEF Counted, Accounted, TypeOK, StreakCounts
  <2>2. Len(seen[t]) = CONFIRMATIONS(t) /\ \A i \in DOMAIN seen[t] : seen[t][i] = "holds"
    BY DEF Sustained
  <2>3. Len(seen[t]) - streaks[t] \in 1..Len(seen[t]) /\ seen[t][Len(seen[t]) - streaks[t]] = "clear"
    BY <2>1, <2>2 DEF CountsVerdicts
  <2> QED
    BY <2>1, <2>2, <2>3
<1> QED
  BY <1>1, AlwaysCounted, PTL

\* One blip never engages.
THEOREM OnlySustainedEngages == Spec => OnlySustainedFailureEngages
<1> DEFINE Engaged ==
      \A t \in todo : t \in triggered_by' \ triggered_by /\ t \notin todo' =>
                           Sustained(seen', t)
<1>1. Counted /\ [Next]_vars => [Engaged]_vars
  BY NextCounted
<1> QED
  BY <1>1, AlwaysCounted, PTL DEF Spec, OnlySustainedFailureEngages
---------------------------------------------------------------------------
(***************************************************************************)
(* Health monitoring                                                       *)
(***************************************************************************)

\* From the snapshot of a tick to its end, the snapshot decides.
SnapshotDecides == pc \in {"warmup", "protect", "evaluate", "seek"}

\* A record is no better than the component's report, nor than the errors of the
\* window allow.
Reported ==
    \A s \in REQUIRED_COMPONENTS :
        /\ rank[state[s].status] >= rank[said[s]]
        /\ Burst(s) >= ErrorBudget => state[s].status # "HEALTHY"
        /\ Burst(s) >= 2 * ErrorBudget => state[s].status = "OFFLINE"

\* Errors are recorded against TIDAL only.
OnlyTidalErrs == \A s \in REQUIRED_COMPONENTS \ {"TIDAL"} : errors[s] = <<>>

\* What the snapshot shows as healthy was heard of when it was taken; and TIDAL
\* is shown by its record, unless it was too old to be shown as healthy.
Shown ==
    SnapshotDecides =>
        /\ \A s \in REQUIRED_COMPONENTS :
              health[s] = "HEALTHY" => state[s].beat < DegradedAfter + elapsed
        /\ health["TIDAL"] = "HEALTHY" => "TIDAL" \in shared
        /\ "TIDAL" \in shared => health["TIDAL"] = state["TIDAL"].status

Sober == HealthTypeOK /\ Reported /\ OnlyTidalErrs /\ Shown

---------------------------------------------------------------------------
(* Statuses and errors *)

\* The statuses in their order.
LEMMA Ranks ==
    /\ rank["HEALTHY"] = 0 /\ rank["DEGRADED"] = 1 /\ rank["OFFLINE"] = 2
    /\ \A s \in HealthStatus : rank[s] \in 0..2
    /\ \A s \in HealthStatus : rank[s] = 0 <=> s = "HEALTHY"
    /\ \A s \in HealthStatus : rank[s] = 2 <=> s = "OFFLINE"
<1>1. rank["HEALTHY"] = 0 /\ rank["DEGRADED"] = 1 /\ rank["OFFLINE"] = 2
  BY DEF rank
<1>2. \A s \in HealthStatus : s = "HEALTHY" \/ s = "DEGRADED" \/ s = "OFFLINE"
  BY DEF HealthStatus
<1> QED
  BY <1>1, <1>2

\* The worse of two statuses is one of them, and as bad as each.
LEMMA WorseRanks ==
    ASSUME NEW s \in HealthStatus, NEW t \in HealthStatus
    PROVE  /\ Worse(s, t) \in HealthStatus
           /\ rank[Worse(s, t)] >= rank[s] /\ rank[Worse(s, t)] >= rank[t]
BY Ranks DEF Worse

\* The errors inside the window, of a sequence of ages.
Young(q) == {i \in DOMAIN q : q[i] <= ErrorWindow}

Ages == 0..(ErrorWindow + 1)

\* There are no more young errors than errors.
LEMMA YoungFew ==
    ASSUME NEW q \in Seq(Ages)
    PROVE  /\ IsFiniteSet(Young(q)) /\ Cardinality(Young(q)) \in Nat
           /\ Cardinality(Young(q)) <= Len(q)
<1>1. Young(q) \subseteq 1..Len(q)
  BY DEF Young
<1>2. IsFiniteSet(1..Len(q)) /\ Cardinality(1..Len(q)) = Len(q)
  <2>1. Len(q) \in Nat
    OBVIOUS
  <2> QED
    BY <2>1, FS_Interval
<1> QED
  BY <1>1, <1>2, FS_Subset, FS_CardinalityType

\* What is evicted is taken off one end.
LEMMA EvictedTyped ==
    ASSUME NEW q \in Seq(Ages)
    PROVE  Evicted(q) \in Seq(Ages) /\ Len(Evicted(q)) <= Len(q)
<1> DEFINE old == {i \in DOMAIN q : \A j \in 1..i : q[j] > ErrorWindow}
<1>1. Cardinality(old) \in Nat /\ Cardinality(old) <= Len(q)
  <2>1. old \subseteq 1..Len(q)
    OBVIOUS
  <2>2. IsFiniteSet(1..Len(q)) /\ Cardinality(1..Len(q)) = Len(q)
    <3>1. Len(q) \in Nat
      OBVIOUS
    <3> QED
      BY <3>1, FS_Interval
  <2> QED
    BY <2>1, <2>2, FS_Subset, FS_CardinalityType
<1>2. PICK n : n = Cardinality(old)
  OBVIOUS
<1>3. Evicted(q) = SubSeq(q, n + 1, Len(q))
  BY <1>2 DEF Evicted
<1>4. n \in Nat /\ n <= Len(q) /\ Len(q) \in Nat
  BY <1>1, <1>2
<1>5. /\ SubSeq(q, n + 1, Len(q)) \in Seq(Ages)
      /\ Len(SubSeq(q, n + 1, Len(q))) = Len(q) - n
  <2>1. \A i \in (n + 1)..Len(q) : q[i] \in Ages
    BY <1>4
  <2> QED
    BY <1>4, <2>1
<1> QED
  BY <1>3, <1>4, <1>5

\* What the budget makes of a sequence of errors.
LEMMA BudgetRanks ==
    ASSUME NEW q \in Seq(Ages)
    PROVE  /\ BudgetStatus(q) \in HealthStatus
           /\ Cardinality(Young(q)) >= ErrorBudget => rank[BudgetStatus(q)] >= 1
           /\ Cardinality(Young(q)) >= 2 * ErrorBudget => rank[BudgetStatus(q)] >= 2
<1>1. Cardinality(Young(q)) \in Nat /\ Cardinality(Young(q)) <= Len(q) /\ Len(q) \in Nat
  BY YoungFew
<1>2. ErrorBudget \in Nat
  BY HealthAssumption DEF HealthAssumption
<1> QED
  BY <1>1, <1>2, Ranks DEF BudgetStatus, HealthStatus

\* Only the newest errors are kept.
LEMMA NewestTyped ==
    ASSUME NEW q \in Seq(Ages), Len(q) <= 2 * ErrorBudget + 1
    PROVE  Newest(q) \in Seq(Ages) /\ Len(Newest(q)) <= 2 * ErrorBudget
<1>1. ErrorBudget \in Nat /\ ErrorBudget # 0
  BY HealthAssumption DEF HealthAssumption
<1>2. CASE Len(q) > 2 * ErrorBudget
  <2>1. q # <<>>
    BY <1>1, <1>2
  <2>2. Tail(q) \in Seq(Ages) /\ Len(Tail(q)) = Len(q) - 1
    BY <2>1
  <2> QED
    BY <1>1, <1>2, <2>2 DEF Newest
<1>3. CASE ~(Len(q) > 2 * ErrorBudget)
  BY <1>1, <1>3 DEF Newest
<1> QED
  BY <1>2, <1>3

---------------------------------------------------------------------------
(* The registry *)

\* What a tick does to what the registry holds of one component.
Fit(status, said_, q) ==
    /\ rank[status] >= rank[said_]
    /\ Cardinality(Young(q)) >= ErrorBudget => status # "HEALTHY"
    /\ Cardinality(Young(q)) >= 2 * ErrorBudget => status = "OFFLINE"

\* Reported, in these terms.
LEMMA ReportedFits ==
    Reported <=> \A s \in REQUIRED_COMPONENTS : Fit(state[s].status, said[s], errors[s])
BY DEF Reported, Fit, Young, Burst

\* A status that is worse than the budget allows fits the errors.
LEMMA WorseFits ==
    ASSUME NEW q \in Seq(Ages), NEW t \in HealthStatus, NEW r \in HealthStatus,
           rank[t] >= rank[r], rank[t] >= rank[BudgetStatus(q)]
    PROVE  Fit(t, r, q)
<1>1. /\ BudgetStatus(q) \in HealthStatus
      /\ Cardinality(Young(q)) >= ErrorBudget => rank[BudgetStatus(q)] >= 1
      /\ Cardinality(Young(q)) >= 2 * ErrorBudget => rank[BudgetStatus(q)] >= 2
  BY BudgetRanks
<1>2. rank[t] \in 0..2 /\ rank[BudgetStatus(q)] \in 0..2
  BY <1>1, Ranks
<1>3. Cardinality(Young(q)) >= ErrorBudget => t # "HEALTHY"
  BY <1>1, <1>2, Ranks
<1>4. Cardinality(Young(q)) >= 2 * ErrorBudget => t = "OFFLINE"
  <2>1. rank[t] = 2 <=> t = "OFFLINE"
    BY Ranks
  <2> QED
    BY <2>1, <1>1, <1>2
<1> QED
  BY <1>3, <1>4 DEF Fit

\* A heartbeat of one component: its record is new and fits its errors.
LEMMA HeartbeatKeeps ==
    ASSUME Sober, NEW c \in REQUIRED_COMPONENTS, NEW reports,
           DOMAIN reports = {c}, reports[c] \in HealthStatus, Heartbeat(reports)
    PROVE  /\ state' \in [REQUIRED_COMPONENTS -> [status : HealthStatus, beat : 0..OfflineAfter]]
           /\ errors' \in [REQUIRED_COMPONENTS -> Seq(Ages)]
           /\ \A s \in REQUIRED_COMPONENTS : Len(errors'[s]) <= 2 * ErrorBudget
           /\ said' \in [REQUIRED_COMPONENTS -> HealthStatus]
           /\ Reported' /\ OnlyTidalErrs'
           /\ state'[c].beat = 0
           /\ \A s \in REQUIRED_COMPONENTS \ {c} : state'[s] = state[s]
<1> USE DEF Sober
<1>1. PICK kept : kept = [s \in REQUIRED_COMPONENTS |->
                             IF s \in {c} THEN Evicted(errors[s]) ELSE errors[s]]
  OBVIOUS
<1>2. PICK report : report = reports[c]
  OBVIOUS
<1>3. /\ errors' = kept
      /\ state' = [s \in REQUIRED_COMPONENTS |->
            IF s \in {c} THEN [status |-> Effective(reports[s], kept[s]), beat |-> 0] ELSE state[s]]
      /\ said' = [s \in REQUIRED_COMPONENTS |-> IF s \in {c} THEN reports[s] ELSE said[s]]
  BY <1>1 DEF Heartbeat
<1>4. \A s \in REQUIRED_COMPONENTS : errors[s] \in Seq(Ages) /\ Len(errors[s]) <= 2 * ErrorBudget
  BY DEF HealthTypeOK, Ages
<1>5. ASSUME NEW s \in REQUIRED_COMPONENTS
      PROVE  kept[s] \in Seq(Ages) /\ Len(kept[s]) <= 2 * ErrorBudget
  <2>1. PICK q \in Seq(Ages) : q = errors[s] /\ Len(q) <= 2 * ErrorBudget
    BY <1>4
  <2>2. Evicted(q) \in Seq(Ages) /\ Len(Evicted(q)) <= Len(q)
    BY EvictedTyped
  <2>3. Len(q) \in Nat /\ Len(Evicted(q)) \in Nat /\ ErrorBudget \in Nat
    BY <2>2, HealthAssumption DEF HealthAssumption
  <2>4. kept[s] = q \/ kept[s] = Evicted(q)
    BY <1>1, <2>1
  <2> QED
    BY <2>1, <2>2, <2>3, <2>4
<1>6. PICK t : t = Effective(report, kept[c])
  OBVIOUS
<1>7. t \in HealthStatus /\ rank[t] >= rank[report] /\ rank[t] >= rank[BudgetStatus(kept[c])]
  <2>1. PICK b : b = BudgetStatus(kept[c])
    OBVIOUS
  <2>2. b \in HealthStatus
    BY <2>1, <1>5, BudgetRanks
  <2> QED
    BY <2>1, <2>2, <1>2, <1>6, WorseRanks DEF Effective
<1>8. Fit(t, report, kept[c])
  BY <1>2, <1>5, <1>7, WorseFits
<1>9. /\ state'[c] = [status |-> t, beat |-> 0] /\ said'[c] = report /\ errors'[c] = kept[c]
      /\ \A s \in REQUIRED_COMPONENTS \ {c} :
            state'[s] = state[s] /\ said'[s] = said[s] /\ errors'[s] = errors[s]
  BY <1>1, <1>2, <1>3, <1>6
<1>10. state' \in [REQUIRED_COMPONENTS -> [status : HealthStatus, beat : 0..OfflineAfter]]
  <2>1. 0 \in 0..OfflineAfter
    BY HealthAssumption DEF HealthAssumption
  <2>2. [status |-> t, beat |-> 0] \in [status : HealthStatus, beat : 0..OfflineAfter]
    BY <1>7, <2>1
  <2>3. \A s \in REQUIRED_COMPONENTS : state'[s] \in [status : HealthStatus, beat : 0..OfflineAfter]
    BY <1>9, <2>2 DEF HealthTypeOK
  <2>4. state' = [s \in REQUIRED_COMPONENTS |-> state'[s]]
    BY <1>3
  <2> QED
    BY <2>3, <2>4
<1>11. said' \in [REQUIRED_COMPONENTS -> HealthStatus]
  <2>1. \A s \in REQUIRED_COMPONENTS : said'[s] \in HealthStatus
    BY <1>2, <1>9 DEF HealthTypeOK
  <2>2. said' = [s \in REQUIRED_COMPONENTS |-> said'[s]]
    BY <1>3
  <2> QED
    BY <2>1, <2>2
<1>12. errors' \in [REQUIRED_COMPONENTS -> Seq(Ages)]
  BY <1>1, <1>3, <1>5
<1>13. Reported'
  <2>1. Reported' <=> \A s \in REQUIRED_COMPONENTS : Fit(state'[s].status, said'[s], errors'[s])
    BY DEF Reported, Fit, Young, Burst
  <2>2. Fit(state'[c].status, said'[c], errors'[c])
    BY <1>8, <1>9
  <2>3. ASSUME NEW s \in REQUIRED_COMPONENTS \ {c} PROVE Fit(state'[s].status, said'[s], errors'[s])
    BY <1>9, ReportedFits
  <2> QED
    BY <2>1, <2>2, <2>3
<1>14. OnlyTidalErrs'
  <2> SUFFICES ASSUME NEW s \in REQUIRED_COMPONENTS \ {"TIDAL"} PROVE errors'[s] = <<>>
    BY DEF OnlyTidalErrs
  <2>1. errors[s] = <<>>
    BY DEF OnlyTidalErrs
  <2>2. CASE s # c
    BY <2>1, <2>2, <1>9
  <2>3. CASE s = c
    <3>1. PICK q \in Seq(Ages) : q = errors[s] /\ Len(q) = 0
      BY <2>1, <1>4
    <3>2. Evicted(q) \in Seq(Ages) /\ Len(Evicted(q)) <= Len(q)
      BY EvictedTyped
    <3>3. Evicted(q) = <<>>
      BY <3>1, <3>2
    <3> QED
      BY <2>1, <2>3, <3>1, <3>3, <1>1, <1>3
  <2> QED
    BY <2>2, <2>3
<1> QED
  BY <1>3, <1>5, <1>9, <1>10, <1>11, <1>12, <1>13, <1>14

\* What is shown does not depend on the record of another component than TIDAL
\* that has just reported.
LEMMA HeartbeatShown ==
    ASSUME Sober, NEW c \in REQUIRED_COMPONENTS \ {"TIDAL"},
           state'[c].beat = 0,
           \A s \in REQUIRED_COMPONENTS \ {c} : state'[s] = state[s],
           shared' = shared \ {c}, SnapshotDecides' => SnapshotDecides,
           UNCHANGED <<health, elapsed>>
    PROVE  Shown'
<1> SUFFICES ASSUME SnapshotDecides
             PROVE  /\ \A s \in REQUIRED_COMPONENTS :
                          health[s] = "HEALTHY" => state'[s].beat < DegradedAfter + elapsed
                    /\ health["TIDAL"] = "HEALTHY" => "TIDAL" \in shared'
                    /\ "TIDAL" \in shared' => health["TIDAL"] = state'["TIDAL"].status
  BY DEF Shown
<1>1. elapsed \in Nat /\ DegradedAfter \in Nat /\ DegradedAfter # 0
  BY HealthAssumption DEF Sober, HealthTypeOK, HealthAssumption
<1>2. "TIDAL" \in REQUIRED_COMPONENTS \ {c}
  BY DEF REQUIRED_COMPONENTS
<1>3. /\ \A s \in REQUIRED_COMPONENTS :
            health[s] = "HEALTHY" => state[s].beat < DegradedAfter + elapsed
      /\ health["TIDAL"] = "HEALTHY" => "TIDAL" \in shared
      /\ "TIDAL" \in shared => health["TIDAL"] = state["TIDAL"].status
  BY DEF Sober, Shown
<1> QED
  BY <1>1, <1>2, <1>3

\* The age of a record only makes it worse.
LEMMA AgedRanks ==
    ASSUME HealthTypeOK, NEW s \in REQUIRED_COMPONENTS
    PROVE  /\ Aged(s) \in HealthStatus
           /\ rank[Aged(s)] >= rank[state[s].status]
           /\ state[s].beat >= DegradedAfter => Aged(s) # "HEALTHY"
           /\ Aged(s) = "HEALTHY" => state[s].status = "HEALTHY" /\ state[s].beat < OfflineAfter
<1>1. state[s].status \in HealthStatus /\ state[s].beat \in 0..OfflineAfter
  BY DEF HealthTypeOK
<1>2. "OFFLINE" \in HealthStatus /\ "DEGRADED" \in HealthStatus
  BY DEF HealthStatus
<1>3. PICK t : t = state[s].status
  OBVIOUS
<1>4. PICK w : w = Worse(t, "DEGRADED")
  OBVIOUS
<1>5. w \in HealthStatus /\ rank[w] >= rank[t] /\ rank[w] >= 1
  BY <1>1, <1>2, <1>3, <1>4, WorseRanks, Ranks
<1>6. w # "HEALTHY"
  BY <1>5, Ranks
<1>7. CASE state[s].beat >= OfflineAfter
  <2>1. Aged(s) = "OFFLINE"
    BY <1>7 DEF Aged
  <2>2. rank[t] \in 0..2 /\ rank["OFFLINE"] = 2
    BY <1>1, <1>3, Ranks
  <2> QED
    BY <2>1, <2>2, <1>2, <1>3
<1>8. CASE ~(state[s].beat >= OfflineAfter) /\ state[s].beat >= DegradedAfter
  <2>1. Aged(s) = w
    BY <1>3, <1>4, <1>8 DEF Aged
  <2> QED
    BY <2>1, <1>3, <1>5, <1>6
<1>9. CASE ~(state[s].beat >= OfflineAfter) /\ ~(state[s].beat >= DegradedAfter)
  <2>1. Aged(s) = t
    BY <1>3, <1>9 DEF Aged
  <2>2. rank[t] \in 0..2
    BY <1>1, <1>3, Ranks
  <2>3. state[s].beat < OfflineAfter
    BY <1>9, <1>1, HealthAssumption DEF HealthAssumption
  <2> QED
    BY <2>1, <2>2, <2>3, <1>1, <1>3, <1>9
<1> QED
  BY <1>7, <1>8, <1>9

\* A snapshot shows what there is when it is taken.
LEMMA SnapshotShows ==
    ASSUME Sober, Snapshot, UNCHANGED <<registryVars, elapsed>>
    PROVE  /\ health' \in [REQUIRED_COMPONENTS -> HealthStatus]
           /\ shared' \subseteq REQUIRED_COMPONENTS
           /\ Shown'
<1>1. /\ health' = [s \in REQUIRED_COMPONENTS |-> Aged(s)] /\ shared' = Sharable
      /\ state' = state /\ elapsed' = elapsed
  BY DEF Snapshot, registryVars
<1>2. \A s \in REQUIRED_COMPONENTS : Aged(s) \in HealthStatus
  BY AgedRanks DEF Sober
<1>3. \A s \in REQUIRED_COMPONENTS :
          health'[s] = "HEALTHY" => state[s].beat < DegradedAfter + elapsed
  <2> SUFFICES ASSUME NEW s \in REQUIRED_COMPONENTS, Aged(s) = "HEALTHY"
               PROVE  state[s].beat < DegradedAfter + elapsed
    BY <1>1
  <2>1. ~(state[s].beat >= DegradedAfter)
    BY AgedRanks DEF Sober
  <2> QED
    BY <2>1, HealthAssumption DEF Sober, HealthTypeOK, HealthAssumption
<1>4. /\ health'["TIDAL"] = "HEALTHY" => "TIDAL" \in shared'
      /\ "TIDAL" \in shared' => health'["TIDAL"] = state["TIDAL"].status
  <2>1. "TIDAL" \in REQUIRED_COMPONENTS /\ health'["TIDAL"] = Aged("TIDAL")
    BY <1>1 DEF REQUIRED_COMPONENTS
  <2>2. "TIDAL" \in shared' => Aged("TIDAL") = state["TIDAL"].status
    BY <1>1 DEF Sharable
  <2>3. Aged("TIDAL") = "HEALTHY" =>
            state["TIDAL"].status = "HEALTHY" /\ state["TIDAL"].beat < OfflineAfter
    BY <2>1, AgedRanks DEF Sober
  <2> QED
    BY <2>1, <2>2, <2>3, <1>1 DEF Sharable
<1>5. shared' \subseteq REQUIRED_COMPONENTS
  BY <1>1 DEF Sharable
<1> QED
  BY <1>1, <1>2, <1>3, <1>4, <1>5 DEF Shown

\* An error is seen in the record and in the snapshot that shares it.
LEMMA ErrorKeeps ==
    ASSUME Sober, RecordError("TIDAL"), UNCHANGED <<said, shared, pc, elapsed>>
    PROVE  /\ state' \in [REQUIRED_COMPONENTS -> [status : HealthStatus, beat : 0..OfflineAfter]]
           /\ errors' \in [REQUIRED_COMPONENTS -> Seq(Ages)]
           /\ \A s \in REQUIRED_COMPONENTS : Len(errors'[s]) <= 2 * ErrorBudget
           /\ health' \in [REQUIRED_COMPONENTS -> HealthStatus]
           /\ Reported' /\ OnlyTidalErrs' /\ Shown'
<1> USE DEF Sober
<1>1. PICK longer : longer = Append(errors["TIDAL"], 0)
  OBVIOUS
<1>2. PICK q : q = Newest(Evicted(longer))
  OBVIOUS
<1>3. PICK t : t = Worse(state["TIDAL"].status, BudgetStatus(q))
  OBVIOUS
<1>4. /\ errors' = [errors EXCEPT !["TIDAL"] = q]
      /\ state' = [state EXCEPT !["TIDAL"].status = t]
      /\ health' = IF "TIDAL" \in shared THEN [health EXCEPT !["TIDAL"] = t] ELSE health
  BY <1>1, <1>2, <1>3 DEF RecordError
<1>5. "TIDAL" \in REQUIRED_COMPONENTS /\ ErrorBudget \in Nat
  BY HealthAssumption DEF REQUIRED_COMPONENTS, HealthAssumption
<1>6. longer \in Seq(Ages) /\ Len(longer) <= 2 * ErrorBudget + 1
  <2>1. PICK e \in Seq(Ages) : e = errors["TIDAL"] /\ Len(e) <= 2 * ErrorBudget
    BY <1>5 DEF HealthTypeOK, Ages
  <2>2. 0 \in Ages
    BY HealthAssumption DEF Ages, HealthAssumption
  <2> QED
    BY <2>1, <2>2, <1>1, <1>5
<1>7. q \in Seq(Ages) /\ Len(q) <= 2 * ErrorBudget
  <2>1. PICK e : e = Evicted(longer)
    OBVIOUS
  <2>2. e \in Seq(Ages) /\ Len(e) <= Len(longer)
    BY <2>1, <1>6, EvictedTyped
  <2>3. Len(e) <= 2 * ErrorBudget + 1
    <3>1. Len(e) \in Nat /\ Len(longer) \in Nat
      BY <2>2, <1>6
    <3> QED
      BY <3>1, <2>2, <1>6, <1>5
  <2> QED
    BY <2>1, <2>2, <2>3, <1>2, NewestTyped
<1>8. t \in HealthStatus /\ rank[t] >= rank[state["TIDAL"].status] /\ rank[t] >= rank[BudgetStatus(q)]
  <2>1. PICK b : b = BudgetStatus(q)
    OBVIOUS
  <2>2. PICK r : r = state["TIDAL"].status
    OBVIOUS
  <2>3. b \in HealthStatus /\ r \in HealthStatus
    BY <2>1, <2>2, <1>5, <1>7, BudgetRanks DEF HealthTypeOK
  <2> QED
    BY <2>1, <2>2, <2>3, <1>3, WorseRanks
<1>9. Fit(t, said["TIDAL"], q)
  <2>1. PICK r : r = said["TIDAL"]
    OBVIOUS
  <2>2. rank[state["TIDAL"].status] >= rank[r] /\ r \in HealthStatus
        /\ state["TIDAL"].status \in HealthStatus
    BY <2>1, <1>5 DEF Reported, HealthTypeOK
  <2>3. rank[t] >= rank[r]
    <3>1. rank[t] \in 0..2 /\ rank[r] \in 0..2 /\ rank[state["TIDAL"].status] \in 0..2
      BY <2>2, <1>8, Ranks
    <3> QED
      BY <3>1, <2>2, <1>8
  <2> QED
    BY <2>1, <2>2, <2>3, <1>7, <1>8, WorseFits
<1>10. /\ state'["TIDAL"].status = t /\ state'["TIDAL"].beat = state["TIDAL"].beat
       /\ errors'["TIDAL"] = q
       /\ \A s \in REQUIRED_COMPONENTS \ {"TIDAL"} : state'[s] = state[s] /\ errors'[s] = errors[s]
       /\ state' \in [REQUIRED_COMPONENTS -> [status : HealthStatus, beat : 0..OfflineAfter]]
  BY <1>4, <1>5, <1>8 DEF HealthTypeOK
<1>11. errors' \in [REQUIRED_COMPONENTS -> Seq(Ages)]
  BY <1>4, <1>7 DEF HealthTypeOK, Ages
<1>12. \A s \in REQUIRED_COMPONENTS : Len(errors'[s]) <= 2 * ErrorBudget
  BY <1>7, <1>10 DEF HealthTypeOK
<1>13. health' \in [REQUIRED_COMPONENTS -> HealthStatus]
  BY <1>4, <1>8 DEF HealthTypeOK
<1>14. Reported'
  <2>1. Reported' <=> \A s \in REQUIRED_COMPONENTS : Fit(state'[s].status, said[s], errors'[s])
    BY DEF Reported, Fit, Young, Burst
  <2>2. Fit(state'["TIDAL"].status, said["TIDAL"], errors'["TIDAL"])
    BY <1>9, <1>10
  <2>3. ASSUME NEW s \in REQUIRED_COMPONENTS \ {"TIDAL"} PROVE Fit(state'[s].status, said[s], errors'[s])
    BY <1>10, ReportedFits
  <2> QED
    BY <2>1, <2>2, <2>3
<1>15. OnlyTidalErrs'
  BY <1>10 DEF OnlyTidalErrs
<1>16. Shown'
  <2> SUFFICES ASSUME SnapshotDecides
               PROVE  /\ \A s \in REQUIRED_COMPONENTS :
                            health'[s] = "HEALTHY" => state'[s].beat < DegradedAfter + elapsed
                      /\ health'["TIDAL"] = "HEALTHY" => "TIDAL" \in shared
                      /\ "TIDAL" \in shared => health'["TIDAL"] = state'["TIDAL"].status
    BY DEF Shown, SnapshotDecides
  <2>1. /\ \A s \in REQUIRED_COMPONENTS :
              health[s] = "HEALTHY" => state[s].beat < DegradedAfter + elapsed
        /\ health["TIDAL"] = "HEALTHY" => "TIDAL" \in shared
        /\ "TIDAL" \in shared => health["TIDAL"] = state["TIDAL"].status
    BY DEF Shown
  <2>2. \A s \in REQUIRED_COMPONENTS : state'[s].beat = state[s].beat
    BY <1>10
  <2>3. CASE "TIDAL" \notin shared
    BY <2>1, <2>2, <2>3, <1>4
  <2>4. CASE "TIDAL" \in shared
    <3>1. /\ health'["TIDAL"] = t
          /\ \A s \in REQUIRED_COMPONENTS \ {"TIDAL"} : health'[s] = health[s]
      BY <2>4, <1>4, <1>5 DEF HealthTypeOK
    <3>2. t = "HEALTHY" => state["TIDAL"].status = "HEALTHY"
      <4>1. rank[state["TIDAL"].status] \in 0..2 /\ state["TIDAL"].status \in HealthStatus
        BY <1>5, Ranks DEF HealthTypeOK
      <4>2. rank["HEALTHY"] = 0
        BY Ranks
      <4>3. t = "HEALTHY" => rank[state["TIDAL"].status] = 0
        BY <4>1, <4>2, <1>8
      <4> QED
        BY <4>1, <4>3, Ranks
    <3>3. ASSUME NEW s \in REQUIRED_COMPONENTS, health'[s] = "HEALTHY"
          PROVE  health[s] = "HEALTHY"
      BY <3>1, <3>2, <3>3, <2>1, <2>4
    <3> QED
      BY <2>1, <2>2, <2>4, <3>1, <3>3, <1>10
  <2> QED
    BY <2>3, <2>4
<1> QED
  BY <1>10, <1>11, <1>12, <1>13, <1>14, <1>15, <1>16

\* Ages grow, and with them no error comes back into the window.
LEMMA AdvanceKeeps ==
    ASSUME Sober, Advance
    PROVE  Sober'
<1> USE DEF Sober
<1>1. /\ elapsed < MaxElapsed /\ elapsed' = elapsed + 1
      /\ state' = [s \in REQUIRED_COMPONENTS |-> [state[s] EXCEPT !.beat = Older(@, OfflineAfter)]]
      /\ errors' = [s \in REQUIRED_COMPONENTS |->
                       [i \in 1..Len(errors[s]) |-> Older(errors[s][i], ErrorWindow + 1)]]
      /\ UNCHANGED <<said, feed, mute, books, troubles, health, shared, market, result, pc,
                     warmedUp, streak, engaged>>
  BY DEF Advance, worldVars, triggerVars
<1>2. /\ OfflineAfter \in Nat /\ ErrorWindow \in Nat /\ DegradedAfter \in Nat /\ MaxElapsed \in Nat
  BY HealthAssumption DEF HealthAssumption
<1>3. ASSUME NEW s \in REQUIRED_COMPONENTS
      PROVE  /\ state'[s] \in [status : HealthStatus, beat : 0..OfflineAfter]
             /\ state'[s].status = state[s].status
             /\ state'[s].beat <= state[s].beat + 1
  <2>1. state[s] \in [status : HealthStatus, beat : 0..OfflineAfter]
    BY DEF HealthTypeOK
  <2>2. PICK b : b = Older(state[s].beat, OfflineAfter)
    OBVIOUS
  <2>3. b \in 0..OfflineAfter /\ b <= state[s].beat + 1
    BY <2>1, <2>2, <1>2 DEF Older
  <2>4. state'[s] = [state[s] EXCEPT !.beat = b]
    BY <2>2, <1>1
  <2> QED
    BY <2>1, <2>3, <2>4
<1>4. ASSUME NEW s \in REQUIRED_COMPONENTS
      PROVE  /\ errors'[s] \in Seq(Ages) /\ Len(errors'[s]) = Len(errors[s])
             /\ Young(errors'[s]) \subseteq Young(errors[s])
  <2>1. PICK q \in Seq(Ages) : q = errors[s]
    BY DEF HealthTypeOK, Ages
  <2>2. PICK r : r = [i \in 1..Len(q) |-> Older(q[i], ErrorWindow + 1)]
    OBVIOUS
  <2>3. errors'[s] = r
    BY <2>1, <2>2, <1>1
  <2>4. Len(q) \in Nat /\ \A i \in 1..Len(q) : q[i] \in 0..(ErrorWindow + 1)
    <3>1. Len(q) \in Nat /\ \A i \in 1..Len(q) : q[i] \in Ages
      OBVIOUS
    <3> QED
      BY <3>1 DEF Ages
  <2>5. \A i \in 1..Len(q) : /\ r[i] \in 0..(ErrorWindow + 1)
                             /\ r[i] <= ErrorWindow => q[i] <= ErrorWindow
    BY <2>2, <2>4, <1>2 DEF Older
  <2>6. r \in Seq(Ages) /\ Len(r) = Len(q) /\ DOMAIN r = 1..Len(q) /\ DOMAIN q = 1..Len(q)
    BY <2>2, <2>4, <2>5 DEF Ages
  <2>7. Young(r) \subseteq Young(q)
    BY <2>5, <2>6 DEF Young
  <2> QED
    BY <2>1, <2>3, <2>6, <2>7
<1>5. HealthTypeOK'
  <2>1. state' \in [REQUIRED_COMPONENTS -> [status : HealthStatus, beat : 0..OfflineAfter]]
    <3>1. state' = [s \in REQUIRED_COMPONENTS |-> state'[s]]
      BY <1>1
    <3> QED
      BY <3>1, <1>3
  <2>2. errors' \in [REQUIRED_COMPONENTS -> Seq(0..(ErrorWindow + 1))]
    <3>1. errors' = [s \in REQUIRED_COMPONENTS |-> errors'[s]]
      BY <1>1
    <3> QED
      BY <3>1, <1>4 DEF Ages
  <2>3. \A s \in REQUIRED_COMPONENTS : Len(errors'[s]) <= 2 * ErrorBudget
    BY <1>4 DEF HealthTypeOK
  <2>4. elapsed' \in 0..MaxElapsed
    BY <1>1, <1>2 DEF HealthTypeOK
  <2> QED
    BY <2>1, <2>2, <2>3, <2>4, <1>1 DEF HealthTypeOK
<1>6. Reported'
  <2>1. Reported' <=> \A s \in REQUIRED_COMPONENTS : Fit(state'[s].status, said'[s], errors'[s])
    BY DEF Reported, Fit, Young, Burst
  <2>2. ASSUME NEW s \in REQUIRED_COMPONENTS PROVE Fit(state'[s].status, said'[s], errors'[s])
    <3>1. Fit(state[s].status, said[s], errors[s])
      BY ReportedFits
    <3>2. PICK old : old = Young(errors[s])
      OBVIOUS
    <3>3. PICK new : new = Young(errors'[s])
      OBVIOUS
    <3>4. IsFiniteSet(old) /\ Cardinality(old) \in Nat
      <4>1. errors[s] \in Seq(Ages)
        BY DEF HealthTypeOK, Ages
      <4> QED
        BY <4>1, <3>2, YoungFew
    <3>5. Cardinality(new) \in Nat /\ Cardinality(new) <= Cardinality(old)
      BY <3>2, <3>3, <3>4, <1>4, FS_Subset, FS_CardinalityType
    <3>6. ErrorBudget \in Nat
      BY HealthAssumption DEF HealthAssumption
    <3>7. /\ Cardinality(new) >= ErrorBudget => Cardinality(old) >= ErrorBudget
          /\ Cardinality(new) >= 2 * ErrorBudget => Cardinality(old) >= 2 * ErrorBudget
      BY <3>4, <3>5, <3>6
    <3> QED
      BY <3>1, <3>2, <3>3, <3>7, <1>1, <1>3 DEF Fit
  <2> QED
    BY <2>1, <2>2
<1>7. OnlyTidalErrs'
  <2> SUFFICES ASSUME NEW s \in REQUIRED_COMPONENTS \ {"TIDAL"} PROVE errors'[s] = <<>>
    BY DEF OnlyTidalErrs
  <2>1. Len(errors[s]) = 0
    BY DEF OnlyTidalErrs
  <2> QED
    BY <2>1, <1>4
<1>8. Shown'
  <2> SUFFICES ASSUME SnapshotDecides
               PROVE  /\ \A s \in REQUIRED_COMPONENTS :
                            health[s] = "HEALTHY" => state'[s].beat < DegradedAfter + elapsed'
                      /\ health["TIDAL"] = "HEALTHY" => "TIDAL" \in shared
                      /\ "TIDAL" \in shared => health["TIDAL"] = state'["TIDAL"].status
    BY <1>1 DEF Shown, SnapshotDecides
  <2>1. /\ \A s \in REQUIRED_COMPONENTS :
              health[s] = "HEALTHY" => state[s].beat < DegradedAfter + elapsed
        /\ health["TIDAL"] = "HEALTHY" => "TIDAL" \in shared
        /\ "TIDAL" \in shared => health["TIDAL"] = state["TIDAL"].status
    BY DEF Shown
  <2>2. \A s \in REQUIRED_COMPONENTS :
           /\ state'[s].status = state[s].status /\ state'[s].beat <= state[s].beat + 1
           /\ state'[s].beat \in Nat /\ state[s].beat \in Nat
    BY <1>3, <1>2 DEF HealthTypeOK
  <2>3. "TIDAL" \in REQUIRED_COMPONENTS /\ elapsed \in Nat
    BY DEF REQUIRED_COMPONENTS, HealthTypeOK
  <2>4. ASSUME NEW s \in REQUIRED_COMPONENTS, health[s] = "HEALTHY"
        PROVE  state'[s].beat < DegradedAfter + elapsed'
    <3>1. state[s].beat < DegradedAfter + elapsed
      BY <2>1, <2>4
    <3>2. PICK b \in Nat, c \in Nat : b = state[s].beat /\ c = state'[s].beat
      BY <2>2
    <3>3. c <= b + 1 /\ b < DegradedAfter + elapsed /\ elapsed' = elapsed + 1
      BY <2>2, <3>1, <3>2, <1>1
    <3> QED
      BY <3>2, <3>3, <2>3, <1>2
  <2>5. "TIDAL" \in shared => health["TIDAL"] = state'["TIDAL"].status
    BY <2>1, <2>2, <2>3
  <2> QED
    BY <2>1, <2>4, <2>5
<1> QED
  BY <1>5, <1>6, <1>7, <1>8

---------------------------------------------------------------------------
(* The actions *)

\* A step that leaves the registry and the snapshot alone keeps what they say.
LEMMA QuietKeeps ==
    ASSUME Sober, UNCHANGED <<registryVars, health, shared, elapsed>>,
           SnapshotDecides' => SnapshotDecides
    PROVE  Reported' /\ OnlyTidalErrs' /\ Shown'
<1>1. /\ state' = state /\ errors' = errors /\ said' = said
      /\ health' = health /\ shared' = shared /\ elapsed' = elapsed
  BY DEF registryVars
<1>2. Reported'
  BY <1>1 DEF Sober, Reported, Burst
<1>3. OnlyTidalErrs'
  BY <1>1 DEF Sober, OnlyTidalErrs
<1>4. Shown'
  BY <1>1 DEF Sober, Shown
<1> QED
  BY <1>2, <1>3, <1>4

\* The components report what they know, as a status.
LEMMA ReportsTyped ==
    /\ \A n \in Nat : TidalReport(n) \in HealthStatus /\ ZephrReport(n) \in HealthStatus
    /\ \A r \in {"none", "ok", "warning", "critical"} : MarinReport[r] \in HealthStatus
BY DEF TidalReport, ZephrReport, MarinReport, HealthStatus

\* ZEPHR reports.
LEMMA HandleMarketKeeps ==
    ASSUME Sober, HandleMarket
    PROVE  Sober'
<1>1. PICK r : r = ZephrReport(market)
  OBVIOUS
<1>2. PICK reports : reports = [ZEPHR |-> r]
  OBVIOUS
<1>3. r \in HealthStatus
  BY <1>1, ReportsTyped, HealthAssumption DEF HandleMarket, None, Sober, HealthTypeOK, HealthAssumption
<1>4. Heartbeat(reports) /\ DOMAIN reports = {"ZEPHR"} /\ reports["ZEPHR"] = r
  BY <1>1, <1>2 DEF HandleMarket
<1>5. /\ market' = None /\ shared' = shared \ {"ZEPHR"}
      /\ UNCHANGED <<health, feed, mute, books, troubles, result, pc, warmedUp, streak,
                     engaged, elapsed>>
  BY DEF HandleMarket, worldVars, triggerVars
<1>6. "ZEPHR" \in REQUIRED_COMPONENTS \ {"TIDAL"}
  BY DEF REQUIRED_COMPONENTS
<1>7. /\ state' \in [REQUIRED_COMPONENTS -> [status : HealthStatus, beat : 0..OfflineAfter]]
      /\ errors' \in [REQUIRED_COMPONENTS -> Seq(Ages)]
      /\ \A s \in REQUIRED_COMPONENTS : Len(errors'[s]) <= 2 * ErrorBudget
      /\ said' \in [REQUIRED_COMPONENTS -> HealthStatus]
      /\ Reported' /\ OnlyTidalErrs'
      /\ state'["ZEPHR"].beat = 0
      /\ \A s \in REQUIRED_COMPONENTS \ {"ZEPHR"} : state'[s] = state[s]
  BY <1>3, <1>4, <1>6, HeartbeatKeeps
<1>8. Shown'
  <2>1. SnapshotDecides' => SnapshotDecides
    BY <1>5 DEF SnapshotDecides
  <2> QED
    BY <2>1, <1>5, <1>6, <1>7, HeartbeatShown
<1>9. HealthTypeOK'
  <2>1. None \in 0..None
    BY HealthAssumption DEF None, HealthAssumption
  <2> QED
    BY <2>1, <1>5, <1>7 DEF Sober, HealthTypeOK, Ages, None
<1> QED
  BY <1>7, <1>8, <1>9 DEF Sober

\* TIDAL reports, at the start of a tick.
LEMMA ObserveKeeps ==
    ASSUME Sober, ObserveMarket
    PROVE  Sober'
<1>1. PICK r : r = TidalReport(feed)
  OBVIOUS
<1>2. PICK reports : reports = [TIDAL |-> r]
  OBVIOUS
<1>3. r \in HealthStatus
  BY <1>1, ReportsTyped, HealthAssumption DEF Sober, HealthTypeOK, HealthAssumption
<1>4. Heartbeat(reports) /\ DOMAIN reports = {"TIDAL"} /\ reports["TIDAL"] = r
  BY <1>1, <1>2 DEF ObserveMarket
<1>5. /\ market' = feed /\ shared' = shared \ {"TIDAL"} /\ elapsed' = 0 /\ pc' = "drain"
      /\ UNCHANGED <<health, feed, mute, books, troubles, result, warmedUp, streak, engaged>>
  BY DEF ObserveMarket, Goto, worldVars, triggerVars
<1>6. "TIDAL" \in REQUIRED_COMPONENTS
  BY DEF REQUIRED_COMPONENTS
<1>7. /\ state' \in [REQUIRED_COMPONENTS -> [status : HealthStatus, beat : 0..OfflineAfter]]
      /\ errors' \in [REQUIRED_COMPONENTS -> Seq(Ages)]
      /\ \A s \in REQUIRED_COMPONENTS : Len(errors'[s]) <= 2 * ErrorBudget
      /\ said' \in [REQUIRED_COMPONENTS -> HealthStatus]
      /\ Reported' /\ OnlyTidalErrs'
  BY <1>3, <1>4, <1>6, HeartbeatKeeps
<1>8. Shown'
  BY <1>5 DEF Shown, SnapshotDecides
<1>9. HealthTypeOK'
  <2>1. market' \in 0..None /\ elapsed' \in 0..MaxElapsed
    BY <1>5, HealthAssumption DEF Sober, HealthTypeOK, None, HealthAssumption
  <2> QED
    BY <2>1, <1>5, <1>7 DEF Sober, HealthTypeOK, Ages, None
<1> QED
  BY <1>7, <1>8, <1>9 DEF Sober

\* MARIN reports, whichever of its results it reports.
LEMMA MarinKeeps ==
    ASSUME Sober, NEW found \in {"none", "ok", "warning", "critical"},
           Heartbeat([MARIN |-> MarinReport[found]]), shared' = shared \ {"MARIN"},
           SnapshotDecides' => SnapshotDecides, UNCHANGED <<health, elapsed>>,
           UNCHANGED <<market, worldVars, warmedUp, triggerVars>>,
           result' \in {"none", "ok", "warning", "critical"},
           pc' \in {"snapshot", "warmup", "evaluate"}
    PROVE  Sober'
<1>1. PICK r : r = MarinReport[found]
  OBVIOUS
<1>2. PICK reports : reports = [MARIN |-> r]
  OBVIOUS
<1>3. r \in HealthStatus
  BY <1>1, ReportsTyped
<1>4. Heartbeat(reports) /\ DOMAIN reports = {"MARIN"} /\ reports["MARIN"] = r
  BY <1>1, <1>2
<1>5. UNCHANGED <<market, feed, mute, books, troubles, warmedUp, streak, engaged>>
  BY DEF worldVars, triggerVars
<1>6. "MARIN" \in REQUIRED_COMPONENTS \ {"TIDAL"}
  BY DEF REQUIRED_COMPONENTS
<1>7. /\ state' \in [REQUIRED_COMPONENTS -> [status : HealthStatus, beat : 0..OfflineAfter]]
      /\ errors' \in [REQUIRED_COMPONENTS -> Seq(Ages)]
      /\ \A s \in REQUIRED_COMPONENTS : Len(errors'[s]) <= 2 * ErrorBudget
      /\ said' \in [REQUIRED_COMPONENTS -> HealthStatus]
      /\ Reported' /\ OnlyTidalErrs'
      /\ state'["MARIN"].beat = 0
      /\ \A s \in REQUIRED_COMPONENTS \ {"MARIN"} : state'[s] = state[s]
  BY <1>3, <1>4, <1>6, HeartbeatKeeps
<1>8. Shown'
  BY <1>6, <1>7, HeartbeatShown
<1>9. HealthTypeOK'
  BY <1>5, <1>7 DEF Sober, HealthTypeOK, Ages, None
<1> QED
  BY <1>7, <1>8, <1>9 DEF Sober

\* The tick reports MARIN's last result.
LEMMA MeasureKeeps ==
    ASSUME Sober, Measure
    PROVE  Sober'
<1>1. /\ Heartbeat([MARIN |-> MarinReport[result]]) /\ shared' = shared \ {"MARIN"}
      /\ pc' = "snapshot" /\ result' = result
      /\ UNCHANGED <<health, elapsed>> /\ UNCHANGED <<market, worldVars, warmedUp, triggerVars>>
  BY DEF Measure, Goto
<1>2. result \in {"none", "ok", "warning", "critical"}
  BY DEF Sober, HealthTypeOK
<1>3. SnapshotDecides' => SnapshotDecides
  BY <1>1 DEF SnapshotDecides
<1> QED
  BY <1>1, <1>2, <1>3, MarinKeeps

\* MARIN reconciles, in the warm-up and in the trading ticks.
LEMMA ReconcileKeeps ==
    ASSUME Sober, WarmupReconcile \/ ProtectReconcile
    PROVE  Sober'
<1>1. /\ Heartbeat([MARIN |-> MarinReport[books]]) /\ shared' = shared \ {"MARIN"}
      /\ pc \in {"warmup", "protect"} /\ pc' \in {"warmup", "evaluate"} /\ result' = books
      /\ UNCHANGED <<health, elapsed>> /\ UNCHANGED <<market, worldVars, warmedUp, triggerVars>>
  BY DEF WarmupReconcile, ProtectReconcile, Reconcile, Goto
<1>2. books \in {"none", "ok", "warning", "critical"}
  BY DEF Sober, HealthTypeOK
<1>3. SnapshotDecides' => SnapshotDecides
  BY <1>1 DEF SnapshotDecides
<1> QED
  BY <1>1, <1>2, <1>3, MarinKeeps

\* The two snapshots of a tick.
LEMMA SnapshotKeeps ==
    ASSUME Sober, TakeSnapshot \/ Warmup
    PROVE  Sober'
<1>1. /\ Snapshot /\ UNCHANGED <<registryVars, elapsed>>
      /\ state' = state /\ errors' = errors /\ said' = said
      /\ UNCHANGED <<feed, mute, books, troubles, market, result, streak, engaged>>
  BY DEF TakeSnapshot, Warmup, registryVars, worldVars, triggerVars
<1>2. pc' \in {"protect", "warmup", "idle"} /\ warmedUp' \in BOOLEAN
  <2>1. CASE TakeSnapshot
    BY <2>1 DEF TakeSnapshot, Goto, Sober, HealthTypeOK
  <2>2. CASE Warmup
    <3>1. pc' = IF warmedUp' THEN "protect" ELSE "idle"
      BY <2>2 DEF Warmup, Goto
    <3>2. warmedUp' = RequiredOk(health')
      BY <2>2 DEF Warmup
    <3>3. RequiredOk(health') \in BOOLEAN
      BY DEF RequiredOk
    <3> QED
      BY <3>1, <3>2, <3>3
  <2> QED
    BY <2>1, <2>2
<1>3. /\ health' \in [REQUIRED_COMPONENTS -> HealthStatus]
      /\ shared' \subseteq REQUIRED_COMPONENTS
      /\ Shown'
  BY <1>1, SnapshotShows
<1>4. HealthTypeOK'
  BY <1>1, <1>2, <1>3 DEF Sober, HealthTypeOK, None
<1>5. Reported' /\ OnlyTidalErrs'
  BY <1>1 DEF Sober, Reported, OnlyTidalErrs, Burst
<1> QED
  BY <1>3, <1>4, <1>5 DEF Sober

\* The steps of the loop that neither report nor take a snapshot.
LEMMA LoopKeeps ==
    ASSUME Sober, Drained \/ ProtectOnly \/ EvaluateTrigger \/ Seek \/ TickFails
    PROVE  Sober'
<1>1. /\ UNCHANGED <<registryVars, health, shared, elapsed>>
      /\ state' = state /\ errors' = errors /\ said' = said
      /\ UNCHANGED <<feed, mute, books, result, warmedUp>>
      /\ pc' \in {"settle", "evaluate", "seek", "idle"} /\ (SnapshotDecides' => SnapshotDecides)
      /\ market' \in {market, None}
  BY DEF Drained, ProtectOnly, EvaluateTrigger, Seek, TickFails, Goto, registryVars, worldVars,
         triggerVars, SnapshotDecides
<1>2. Reported' /\ OnlyTidalErrs' /\ Shown'
  BY <1>1, QuietKeeps
<1>3. streak' \in 0..Confirmations /\ engaged' \in BOOLEAN
  <2>1. CASE EvaluateTrigger
    <3>1. TriggerConfirmed \in BOOLEAN
      BY DEF TriggerConfirmed
    <3> QED
      BY <2>1, <3>1, HealthAssumption DEF EvaluateTrigger, Sober, HealthTypeOK, HealthAssumption
  <2>2. CASE ~EvaluateTrigger
    BY <2>2 DEF Drained, ProtectOnly, Seek, TickFails, triggerVars, Sober, HealthTypeOK
  <2> QED
    BY <2>1, <2>2
<1>4. troubles' \in 0..MaxTroubles
  <2>1. CASE TickFails
    BY <2>1, HealthAssumption DEF TickFails, Trouble, Sober, HealthTypeOK, HealthAssumption
  <2>2. CASE ~TickFails
    BY <2>2 DEF Drained, ProtectOnly, EvaluateTrigger, Seek, worldVars, Sober, HealthTypeOK
  <2> QED
    BY <2>1, <2>2
<1>5. market' \in 0..None
  BY <1>1, HealthAssumption DEF Sober, HealthTypeOK, None, HealthAssumption
<1>6. HealthTypeOK'
  BY <1>1, <1>3, <1>4, <1>5 DEF Sober, HealthTypeOK, None
<1> QED
  BY <1>2, <1>6 DEF Sober

\* What changes around the loop, and the operator.
LEMMA WorldKeeps ==
    ASSUME Sober, FeedChanges \/ MuteChanges \/ BooksChange \/ ClearTrigger
    PROVE  Sober'
<1>1. /\ UNCHANGED <<registryVars, health, shared, elapsed>>
      /\ state' = state /\ errors' = errors /\ said' = said
      /\ UNCHANGED <<market, result, warmedUp, pc>>
  BY DEF FeedChanges, MuteChanges, BooksChange, ClearTrigger, tickVars, registryVars, worldVars
<1>2. SnapshotDecides' => SnapshotDecides
  BY <1>1 DEF SnapshotDecides
<1>3. Reported' /\ OnlyTidalErrs' /\ Shown'
  BY <1>1, <1>2, QuietKeeps
<1>4. /\ feed' \in 0..Pairs /\ mute' \in BOOLEAN /\ books' \in {"ok", "warning", "critical"}
  BY DEF FeedChanges, MuteChanges, BooksChange, ClearTrigger, worldVars, Sober, HealthTypeOK
<1>5. streak' \in 0..Confirmations /\ engaged' \in BOOLEAN
  <2>1. (streak' = 0 /\ engaged' = FALSE) \/ UNCHANGED <<streak, engaged>>
    BY DEF FeedChanges, MuteChanges, BooksChange, ClearTrigger, tickVars
  <2>2. streak' \in 0..Confirmations
    BY <2>1, HealthAssumption DEF Sober, HealthTypeOK, HealthAssumption
  <2> QED
    BY <2>1, <2>2 DEF Sober, HealthTypeOK
<1>6. troubles' \in 0..MaxTroubles
  <2>1. CASE ClearTrigger
    BY <2>1 DEF ClearTrigger, worldVars, Sober, HealthTypeOK
  <2>2. CASE ~ClearTrigger
    BY <2>2, HealthAssumption
       DEF FeedChanges, MuteChanges, BooksChange, Trouble, Sober, HealthTypeOK, HealthAssumption
  <2> QED
    BY <2>1, <2>2
<1>7. HealthTypeOK'
  BY <1>1, <1>4, <1>5, <1>6 DEF Sober, HealthTypeOK, None
<1> QED
  BY <1>3, <1>7 DEF Sober

\* TIDAL records an error.
LEMMA DesyncKeeps ==
    ASSUME Sober, Desync
    PROVE  Sober'
<1>1. /\ RecordError("TIDAL") /\ UNCHANGED <<said, shared, pc, elapsed>>
      /\ UNCHANGED <<feed, mute, books, market, result, warmedUp, streak, engaged>>
  BY DEF Desync, triggerVars
<1>2. /\ state' \in [REQUIRED_COMPONENTS -> [status : HealthStatus, beat : 0..OfflineAfter]]
      /\ errors' \in [REQUIRED_COMPONENTS -> Seq(Ages)]
      /\ \A s \in REQUIRED_COMPONENTS : Len(errors'[s]) <= 2 * ErrorBudget
      /\ health' \in [REQUIRED_COMPONENTS -> HealthStatus]
      /\ Reported' /\ OnlyTidalErrs' /\ Shown'
  BY <1>1, ErrorKeeps
<1>3. troubles' \in 0..MaxTroubles
  BY HealthAssumption DEF Desync, Trouble, Sober, HealthTypeOK, HealthAssumption
<1>4. HealthTypeOK'
  BY <1>1, <1>2, <1>3 DEF Sober, HealthTypeOK, Ages, None
<1> QED
  BY <1>2, <1>4 DEF Sober

---------------------------------------------------------------------------
(* The theorems *)

\* No component has been heard of at the start, and no error recorded.
LEMMA InitSober ==
    ASSUME HealthInit
    PROVE  Sober
<1>1. /\ state = [s \in REQUIRED_COMPONENTS |-> [status |-> "OFFLINE", beat |-> OfflineAfter]]
      /\ errors = [s \in REQUIRED_COMPONENTS |-> <<>>]
      /\ said = [s \in REQUIRED_COMPONENTS |-> "OFFLINE"]
      /\ pc = "idle"
  BY DEF HealthInit
<1>2. \A s \in REQUIRED_COMPONENTS : Burst(s) = 0
  <2> SUFFICES ASSUME NEW s \in REQUIRED_COMPONENTS PROVE Burst(s) = 0
    OBVIOUS
  <2>1. {i \in DOMAIN errors[s] : errors[s][i] <= ErrorWindow} = {}
    BY <1>1
  <2> QED
    BY <2>1, FS_EmptySet DEF Burst
<1>3. HealthTypeOK
  <2>1. /\ OfflineAfter \in Nat /\ ErrorBudget \in Nat /\ Pairs \in Nat /\ ErrorWindow \in Nat
        /\ MaxElapsed \in Nat /\ MaxTroubles \in Nat /\ Confirmations \in Nat
    BY HealthAssumption DEF HealthAssumption
  <2>2. state \in [REQUIRED_COMPONENTS -> [status : HealthStatus, beat : 0..OfflineAfter]]
    <3>1. [status |-> "OFFLINE", beat |-> OfflineAfter] \in [status : HealthStatus, beat : 0..OfflineAfter]
      BY <2>1 DEF HealthStatus
    <3> QED
      BY <3>1, <1>1
  <2>3. errors \in [REQUIRED_COMPONENTS -> Seq(0..(ErrorWindow + 1))]
    <3>1. <<>> \in Seq(0..(ErrorWindow + 1))
      OBVIOUS
    <3> QED
      BY <3>1, <1>1
  <2>4. \A s \in REQUIRED_COMPONENTS : Len(errors[s]) <= 2 * ErrorBudget
    <3>1. Len(<<>>) = 0
      OBVIOUS
    <3>2. \A s \in REQUIRED_COMPONENTS : errors[s] = <<>>
      BY <1>1
    <3> QED
      BY <3>1, <3>2, <2>1
  <2>5. /\ said \in [REQUIRED_COMPONENTS -> HealthStatus]
        /\ health \in [REQUIRED_COMPONENTS -> HealthStatus]
    BY DEF HealthInit, HealthStatus
  <2>6. /\ shared \subseteq REQUIRED_COMPONENTS /\ feed \in 0..Pairs /\ market \in 0..None
        /\ streak \in 0..Confirmations /\ elapsed \in 0..MaxElapsed /\ troubles \in 0..MaxTroubles
    BY <2>1 DEF HealthInit, None
  <2> QED
    BY <2>2, <2>3, <2>4, <2>5, <2>6 DEF HealthInit, HealthTypeOK
<1>4. Reported
  <2>1. ErrorBudget \in Nat /\ ErrorBudget # 0
    BY HealthAssumption DEF HealthAssumption
  <2>2. rank["OFFLINE"] >= rank["OFFLINE"]
    BY Ranks
  <2> QED
    BY <1>1, <1>2, <2>1, <2>2 DEF Reported
<1> QED
  BY <1>1, <1>3, <1>4 DEF Sober, OnlyTidalErrs, Shown, SnapshotDecides

\* Every step keeps the registry and the snapshot sober.
LEMMA NextSober ==
    ASSUME Sober, [HealthNext]_healthVars
    PROVE  Sober'
<1>1. CASE Loop
  <2>1. CASE ObserveMarket
    BY <2>1, ObserveKeeps
  <2>2. CASE Measure
    BY <2>2, MeasureKeeps
  <2>3. CASE TakeSnapshot \/ Warmup
    BY <2>3, SnapshotKeeps
  <2>4. CASE WarmupReconcile \/ ProtectReconcile
    BY <2>4, ReconcileKeeps
  <2>5. CASE Drained \/ ProtectOnly \/ EvaluateTrigger \/ Seek
    BY <2>5, LoopKeeps
  <2> QED
    BY <1>1, <2>1, <2>2, <2>3, <2>4, <2>5 DEF Loop
<1>2. CASE HandleMarket
  BY <1>2, HandleMarketKeeps
<1>3. CASE Advance
  BY <1>3, AdvanceKeeps
<1>4. CASE Desync
  BY <1>4, DesyncKeeps
<1>5. CASE TickFails
  BY <1>5, LoopKeeps
<1>6. CASE FeedChanges \/ MuteChanges \/ BooksChange \/ ClearTrigger
  BY <1>6, WorldKeeps
<1>7. CASE UNCHANGED healthVars
  <2>1. /\ UNCHANGED <<registryVars, health, shared, elapsed>>
        /\ UNCHANGED <<state, errors, said, feed, market, mute, books, result, pc, warmedUp,
                       streak, engaged, troubles>>
    BY <1>7 DEF healthVars, registryVars
  <2>2. SnapshotDecides' => SnapshotDecides
    BY <2>1 DEF SnapshotDecides
  <2>3. Reported' /\ OnlyTidalErrs' /\ Shown'
    BY <2>1, <2>2, QuietKeeps
  <2>4. HealthTypeOK'
    BY <2>1 DEF Sober, HealthTypeOK, None
  <2> QED
    BY <2>3, <2>4 DEF Sober
<1> QED
  BY <1>1, <1>2, <1>3, <1>4, <1>5, <1>6, <1>7 DEF HealthNext

\* The registry and the snapshot are sober in every reachable state.
THEOREM AlwaysSober == HealthSpec => []Sober
<1>1. HealthInit => Sober
  BY InitSober
<1>2. Sober /\ [HealthNext]_healthVars => Sober'
  BY NextSober
<1> QED
  BY <1>1, <1>2, PTL DEF HealthSpec

\* Nothing that fails, or has gone quiet, is shown as healthy.
LEMMA SoberIsNotHealthy ==
    ASSUME Sober
    PROVE  NeverHealthyWhileFailing
<1> SUFFICES ASSUME NEW s \in REQUIRED_COMPONENTS
             PROVE  /\ rank[Aged(s)] >= rank[said[s]]
                    /\ Burst(s) >= ErrorBudget => Aged(s) # "HEALTHY"
                    /\ Burst(s) >= 2 * ErrorBudget => Aged(s) = "OFFLINE"
                    /\ state[s].beat >= DegradedAfter => Aged(s) # "HEALTHY"
  BY DEF Sober, NeverHealthyWhileFailing
<1>1. /\ Aged(s) \in HealthStatus
      /\ rank[Aged(s)] >= rank[state[s].status]
      /\ state[s].beat >= DegradedAfter => Aged(s) # "HEALTHY"
      /\ Aged(s) = "HEALTHY" => state[s].status = "HEALTHY"
  BY AgedRanks DEF Sober
<1>2. /\ rank[state[s].status] >= rank[said[s]]
      /\ Burst(s) >= ErrorBudget => state[s].status # "HEALTHY"
      /\ Burst(s) >= 2 * ErrorBudget => state[s].status = "OFFLINE"
  BY DEF Sober, Reported
<1>3. state[s].status \in HealthStatus /\ said[s] \in HealthStatus
  BY DEF Sober, HealthTypeOK
<1>4. rank[Aged(s)] \in 0..2 /\ rank[state[s].status] \in 0..2 /\ rank[said[s]] \in 0..2
  BY <1>1, <1>3, Ranks
<1>5. rank[Aged(s)] >= rank[said[s]]
  BY <1>1, <1>2, <1>4
<1>6. Burst(s) >= 2 * ErrorBudget => Aged(s) = "OFFLINE"
  <2>1. rank["OFFLINE"] = 2 /\ (rank[Aged(s)] = 2 <=> Aged(s) = "OFFLINE")
    BY <1>1, Ranks
  <2> QED
    BY <2>1, <1>1, <1>2, <1>4
<1> QED
  BY <1>1, <1>2, <1>5, <1>6

\* NeverHealthyWhileFailing, for every policy and any number of pairs.
THEOREM FailuresShow == HealthSpec => []NeverHealthyWhileFailing
<1>1. Sober => NeverHealthyWhileFailing
  BY SoberIsNotHealthy
<1> QED
  BY <1>1, AlwaysSober, PTL

\* An entry is made on a snapshot that shows every component as healthy.
LEMMA SoberEntries ==
    ASSUME Sober
    PROVE  EntriesAreHealthy
<1> SUFFICES ASSUME EntryAllowed, NEW s \in REQUIRED_COMPONENTS
             PROVE  Burst(s) < ErrorBudget /\ state[s].beat < DegradedAfter + MaxElapsed
  BY DEF EntriesAreHealthy
<1>1. SnapshotDecides /\ \A c \in REQUIRED_COMPONENTS : health[c] = "HEALTHY"
  BY DEF EntryAllowed, RequiredOk, SnapshotDecides
<1>2. state[s].beat < DegradedAfter + elapsed
  BY <1>1 DEF Sober, Shown
<1>3. state[s].beat < DegradedAfter + MaxElapsed
  BY <1>2, HealthAssumption DEF Sober, HealthTypeOK, HealthAssumption
<1>4. ErrorBudget \in Nat /\ ErrorBudget # 0
  BY HealthAssumption DEF HealthAssumption
<1>5. CASE s = "TIDAL"
  <2>1. state[s].status = "HEALTHY"
    BY <1>1, <1>5 DEF Sober, Shown
  <2>2. ~(Burst(s) >= ErrorBudget)
    BY <2>1 DEF Sober, Reported
  <2>3. Burst(s) \in Nat
    <3>1. errors[s] \in Seq(Ages)
      BY DEF Sober, HealthTypeOK, Ages
    <3> QED
      BY <3>1, YoungFew DEF Burst, Young
  <2> QED
    BY <2>2, <2>3, <1>3, <1>4
<1>6. CASE s # "TIDAL"
  <2>1. errors[s] = <<>>
    BY <1>6 DEF Sober, OnlyTidalErrs
  <2>2. {i \in DOMAIN errors[s] : errors[s][i] <= ErrorWindow} = {}
    BY <2>1
  <2>3. Burst(s) = 0
    BY <2>2, FS_EmptySet DEF Burst
  <2> QED
    BY <2>3, <1>3, <1>4
<1> QED
  BY <1>5, <1>6

\* EntriesAreHealthy, for every policy and any number of pairs.
THEOREM EntriesNeedHealth == HealthSpec => []EntriesAreHealthy
<1>1. Sober => EntriesAreHealthy
  BY SoberEntries
<1> QED
  BY <1>1, AlwaysSober, PTL
=============================================================================
