------------------------ MODULE Deliberation_proofs ------------------------
(***************************************************************************)
(* Theorems about Deliberation, for any agents that run, weights, signals, *)
(* validities and timeouts, over both kinds of bus.                        *)
(*                                                                         *)
(* Whoever has an opinion of the opportunity under evaluation had a view   *)
(* on it in time (ViewsCounted), because an opinion names an opportunity   *)
(* that was asked about, and none is asked about before it is there        *)
(* (Subjects).  Over the inline bus a request and its answer live within   *)
(* one drain (InlineAsks), so that at its end the barrier has whoever had  *)
(* a view (InlineAnswers).                                                 *)
(***************************************************************************)
EXTENDS Deliberation, TLAPS

\* What is asked and answered is about an opportunity there has been; only
\* LUMEN speaks of the symbol.
Subjects ==
    /\ \A p \in answers \cup opinions :
          p.subject <= current /\ (p.agent \in Analysts => p.subject # Symbol)
    /\ \A a \in Analysts : \A i \in 1..Len(asked[a]) : asked[a][i] <= current

\* An opinion of the opportunity that is evaluated is a view on it in time.
ViewsCounted ==
    stage = "evaluating" =>
        \A p \in answers \cup opinions : p.subject = current => p.agent \in viewed

\* The barrier knows the opportunity whose answers are awaited, and no other.
Stages ==
    /\ phase = "monitor" => stage = "held"
    /\ phase \in {"publish", "ask"} => stage = "evaluating"
    /\ stage = "none" => viewed = {}
    /\ stage # "none" => current # Symbol
    /\ DOMAIN barrier =
          IF (stage = "evaluating" /\ phase # "publish") \/ phase = "monitor"
          THEN {current} ELSE {}

\* Over the inline bus requests and their answers do not outlive the drain.
InlineAsks ==
    bus = "inline" =>
        /\ \A a \in Analysts : asked[a] # <<>> =>
              /\ phase \in {"publish", "ask", "monitor"}
              /\ \A i \in 1..Len(asked[a]) : asked[a][i] = current
        /\ \A p \in answers : p.subject # Symbol =>
              phase \in {"ask", "monitor"} /\ p.subject = current

\* Over the inline bus a view is at the barrier or on its way there, and there
\* is none before the barrier expects it.
InlineAnswers ==
    (bus = "inline" /\ stage = "evaluating") =>
        /\ phase = "publish" => viewed = {}
        /\ \A a \in viewed : \/ a \in barrier[current]
                             \/ \E p \in answers : p.agent = a /\ p.subject = current

\* Over the inline bus nothing is left of a finished opportunity.
InlineLeftovers ==
    bus = "inline" =>
        /\ \A o \in Opportunities : curves[o] # "none" => IsOpen(o)
        /\ phase = "idle" =>
              \A p \in opinions : p.subject = Symbol \/ IsOpen(p.subject)

Coherent ==
    /\ TypeOK /\ Subjects /\ ViewsCounted /\ Stages
    /\ InlineAsks /\ InlineAnswers /\ InlineLeftovers
    /\ EntryNeedsEveryView /\ DecidedAtOnce

---------------------------------------------------------------------------
(* What an agent says, and how old things get *)

\* The oldest age that is told apart is a number, and no limit is beyond it.
LEMMA OldestType ==
    /\ Oldest \in Nat \ {0}
    /\ Lifetime + 1 \in 0..Oldest
    /\ \A a \in Agents : Ttl[a] + Grace + 1 \in 0..Oldest
<1> DEFINE S == {Ttl[a] + Grace : a \in Agents} \cup {Timeout, Lifetime}
           T == Ttl["TIDAL"] + Grace
           N == Ttl["NORO"] + Grace
           Z == Ttl["ZEPHR"] + Grace
           L == Ttl["LUMEN"] + Grace
<1>1. T \in Nat /\ N \in Nat /\ Z \in Nat /\ L \in Nat /\ Timeout \in Nat /\ Lifetime \in Nat
  BY DeliberationAssumption DEF Agents, Analysts
<1>2. S = {T, N, Z, L, Timeout, Lifetime}
  BY DEF Agents, Analysts
<1>3. \A a \in Agents : Ttl[a] + Grace \in {T, N, Z, L}
  BY DEF Agents, Analysts
<1> HIDE DEF T, N, Z, L
<1>4. \E x \in {T, N, Z, L, Timeout, Lifetime} :
         \A y \in {T, N, Z, L, Timeout, Lifetime} : x >= y
  BY <1>1
<1>5. Max(S) \in S /\ \A y \in S : Max(S) >= y
  BY <1>2, <1>4 DEF Max
<1>6. Max(S) \in Nat
  BY <1>1, <1>2, <1>5
<1>7. Oldest = Max(S) + 1
  BY DEF Oldest
<1> HIDE DEF S
<1>8. \A y \in {T, N, Z, L, Timeout, Lifetime} : y + 1 \in 0..Oldest
  BY <1>1, <1>2, <1>5, <1>6, <1>7
<1> QED
  BY <1>3, <1>6, <1>7, <1>8

\* Ageing stays within the ages that are told apart.
LEMMA OlderType ==
    ASSUME NEW n \in 0..Oldest, NEW limit \in 0..Oldest
    PROVE  Older(n, limit) \in 0..Oldest
  BY OldestType DEF Older

\* Ageing an opinion changes nothing else of it.
LEMMA OlderOpinions ==
    ASSUME NEW ps \in SUBSET Opinion
    PROVE  /\ OlderAll(ps) \subseteq Opinion
           /\ \A q \in OlderAll(ps) : \E p \in ps : q.agent = p.agent /\ q.subject = p.subject
           /\ \A p \in ps : \E q \in OlderAll(ps) : q.agent = p.agent /\ q.subject = p.subject
<1> DEFINE Aged(p) == [p EXCEPT !.age = Older(@, Ttl[p.agent] + Grace + 1)]
<1>1. ASSUME NEW p \in ps
      PROVE  Aged(p) \in Opinion /\ Aged(p).agent = p.agent /\ Aged(p).subject = p.subject
  <2>1. p \in Opinion
    OBVIOUS
  <2>2. Older(p.age, Ttl[p.agent] + Grace + 1) \in 0..Oldest
    BY <2>1, OldestType, OlderType DEF Opinion
  <2> QED
    BY <2>1, <2>2 DEF Opinion
<1> QED
  BY <1>1 DEF OlderAll

\* A view is a set of signals.
LEMMA ViewsAreSignals ==
    ASSUME NEW a \in Analysts, NEW market \in Market, NEW view \in Views(a, market)
    PROVE  view \subseteq {-1, 0, 1}
  BY DeliberationAssumption DEF Views, TidalViews, NoroViews, ZephrViews, None

\* The opinions an agent publishes are its own, about what it was asked; there
\* is one if it has a view.
LEMMA OpinionsOfType ==
    ASSUME NEW a \in Agents, NEW subject \in Opportunities \cup {Symbol},
           NEW view \in SUBSET {-1, 0, 1}
    PROVE  /\ OpinionsOf(a, subject, view) \subseteq Opinion
           /\ \A p \in OpinionsOf(a, subject, view) : p.agent = a /\ p.subject = subject
           /\ view = None => OpinionsOf(a, subject, view) = {}
           /\ view # None => \E p \in OpinionsOf(a, subject, view) : p.agent = a /\ p.subject = subject
<1> DEFINE said(s) == [agent |-> a, subject |-> subject, age |-> 0, signal |-> s]
<1>1. 0 \in 0..Oldest
  BY OldestType
<1>2. \A s \in view : said(s) \in Opinion /\ said(s).agent = a /\ said(s).subject = subject
  BY <1>1 DEF Opinion
<1>3. OpinionsOf(a, subject, view) = {said(s) : s \in view}
  BY DEF OpinionsOf
<1> HIDE DEF said
<1> QED
  BY <1>2, <1>3 DEF None

\* The head of what an agent is asked is one of them, and the rest stays.
LEMMA HeadAsked ==
    ASSUME NEW s \in Seq(Opportunities), s # <<>>
    PROVE  /\ Head(s) \in Opportunities /\ Tail(s) \in Seq(Opportunities)
           /\ Len(s) > 0 /\ Head(s) = s[1]
           /\ \A i \in 1..Len(Tail(s)) : Tail(s)[i] = s[i + 1] /\ i + 1 \in 1..Len(s)
  OBVIOUS

\* Delivering an opinion adds it to the mirror, and to the barrier that knows
\* its subject.
LEMMA PutOpinionElements ==
    ASSUME NEW p
    PROVE  PutOpinion(p) \subseteq opinions \cup {p}
  BY DEF PutOpinion

---------------------------------------------------------------------------
(* The agents and the bus *)

\* An agent that evaluates.
LEMMA EvaluateCoherent ==
    ASSUME Coherent, NEW a \in Analysts, NEW market \in Market, Evaluate(a, market)
    PROVE  Coherent'
<1> USE DEF Coherent
<1> DEFINE o == Head(asked[a])
<1>1. PICK view \in Views(a, market) :
        /\ answers' = answers \cup OpinionsOf(a, o, view)
        /\ viewed' = IF view # None /\ o = current /\ stage = "evaluating"
                     THEN viewed \cup {a} ELSE viewed
        /\ curves' = IF a = "ZEPHR" /\ view # None
                     THEN [curves EXCEPT ![o] = CurveOf(market)] ELSE curves
  BY DEF Evaluate
<1>2. /\ asked[a] # <<>> /\ asked' = [asked EXCEPT ![a] = Tail(@)]
      /\ UNCHANGED <<bus, phase, current, age, stage, barrier, opinions>>
  BY DEF Evaluate
<1>3. asked \in [Agents -> Seq(Opportunities)] /\ a \in Agents
  BY DEF TypeOK, Agents
<1>4. o \in Opportunities /\ Tail(asked[a]) \in Seq(Opportunities)
  BY <1>2, <1>3, HeadAsked
<1>5. o = asked[a][1] /\ o <= current /\ o # Symbol
  BY <1>2, <1>3, <1>4, HeadAsked DEF Subjects, Opportunities, Symbol
<1> HIDE DEF o
<1>6. /\ OpinionsOf(a, o, view) \subseteq Opinion
      /\ \A p \in OpinionsOf(a, o, view) : p.agent = a /\ p.subject = o
      /\ view = None => OpinionsOf(a, o, view) = {}
      /\ view # None => \E p \in OpinionsOf(a, o, view) : p.agent = a /\ p.subject = o
  <2>1. view \in SUBSET {-1, 0, 1} /\ o \in Opportunities \cup {Symbol}
    BY <1>4, ViewsAreSignals
  <2> QED
    BY <1>3, <2>1, OpinionsOfType
<1>7. TypeOK'
  <2>1. asked' \in [Agents -> Seq(Opportunities)]
    BY <1>2, <1>3, <1>4
  <2>2. answers' \subseteq Opinion /\ viewed' \subseteq Analysts
    BY <1>1, <1>6 DEF TypeOK
  <2>3. curves' \in [Opportunities -> {"none", "unsized", "sized"}]
    BY <1>1, <1>4 DEF TypeOK, CurveOf
  <2> QED
    BY <1>2, <2>1, <2>2, <2>3 DEF TypeOK
<1>8. \A b \in Analysts : \A i \in 1..Len(asked'[b]) :
         \E j \in 1..Len(asked[b]) : asked'[b][i] = asked[b][j]
  <2>1. ASSUME NEW i \in 1..Len(Tail(asked[a]))
        PROVE  \E j \in 1..Len(asked[a]) : Tail(asked[a])[i] = asked[a][j]
    BY <1>2, <1>3, HeadAsked
  <2>2. \A b \in Analysts : b # a => asked'[b] = asked[b]
    BY <1>2, <1>3 DEF Agents
  <2>3. asked'[a] = Tail(asked[a])
    BY <1>2, <1>3
  <2>4. ASSUME NEW b \in Analysts, NEW i \in 1..Len(asked'[b])
        PROVE  \E j \in 1..Len(asked[b]) : asked'[b][i] = asked[b][j]
    <3>1. CASE b = a
      BY <2>1, <2>3, <2>4, <3>1
    <3>2. CASE b # a
      BY <2>2, <2>4, <3>2
    <3> QED
      BY <3>1, <3>2
  <2> QED
    BY <2>4
<1>9. Subjects'
  <2>1. \A b \in Analysts : \A i \in 1..Len(asked'[b]) : asked'[b][i] <= current
    BY <1>8 DEF Subjects
  <2>2. \A p \in answers' : p.subject <= current /\ (p.agent \in Analysts => p.subject # Symbol)
    BY <1>1, <1>5, <1>6 DEF Subjects
  <2> QED
    BY <1>2, <2>1, <2>2 DEF Subjects
<1>10. ViewsCounted'
  BY <1>1, <1>2, <1>6 DEF ViewsCounted
<1>11. (bus = "inline") => phase \in {"ask", "monitor"} /\ o = current
  <2>1. (bus = "inline") => phase \in {"idle", "ask", "monitor"}
    BY DEF Evaluate, Dispatching, TickWaits
  <2> QED
    BY <1>2, <1>3, <1>5, <2>1, HeadAsked DEF InlineAsks
<1>12. Stages'
  BY <1>1, <1>2 DEF Stages
<1>13. InlineAsks'
  <2>1. \A b \in Analysts : asked'[b] # <<>> => asked[b] # <<>>
    BY <1>2, <1>3 DEF Agents
  <2>2. bus = "inline" =>
           \A b \in Analysts : asked'[b] # <<>> =>
              /\ phase \in {"publish", "ask", "monitor"}
              /\ \A i \in 1..Len(asked'[b]) : asked'[b][i] = current
    BY <1>8, <2>1 DEF InlineAsks
  <2> QED
    BY <1>1, <1>2, <1>6, <1>11, <2>2 DEF InlineAsks
<1>14. InlineAnswers'
  BY <1>1, <1>2, <1>6, <1>11 DEF InlineAnswers
<1>15. InlineLeftovers'
  <2>1. bus = "inline" => \A q \in Opportunities : curves'[q] # "none" => IsOpen(q)
    BY <1>1, <1>4, <1>11 DEF InlineLeftovers, IsOpen, Stages, TypeOK
  <2> QED
    BY <1>2, <1>11, <2>1 DEF InlineLeftovers, IsOpen
<1>16. EntryNeedsEveryView'
  BY <1>1, <1>2 DEF EntryNeedsEveryView
<1>17. DecidedAtOnce'
  BY <1>2, <1>11 DEF DecidedAtOnce
<1> QED
  BY <1>7, <1>9, <1>10, <1>12, <1>13, <1>14, <1>15, <1>16, <1>17

\* An opinion that is delivered.
LEMMA DeliverCoherent ==
    ASSUME Coherent, NEW p \in answers, Deliver(p)
    PROVE  Coherent'
<1> USE DEF Coherent
<1>1. /\ answers' = answers \ {p} /\ opinions' = PutOpinion(p) /\ barrier' = Recorded(p)
      /\ UNCHANGED <<bus, phase, current, age, stage, viewed, asked, curves>>
  BY DEF Deliver
<1>2. opinions' \subseteq opinions \cup {p}
  BY <1>1, PutOpinionElements
<1>3. /\ DOMAIN barrier' = DOMAIN barrier
      /\ barrier' \in [DOMAIN barrier -> SUBSET Agents]
      /\ \A o \in DOMAIN barrier : barrier[o] \subseteq barrier'[o]
      /\ p.subject # Symbol /\ p.subject \in DOMAIN barrier => p.agent \in barrier'[p.subject]
  BY <1>1 DEF Recorded, TypeOK, Opinion
<1>4. TypeOK'
  BY <1>1, <1>2, <1>3 DEF TypeOK
<1>5. Subjects' /\ ViewsCounted' /\ Stages' /\ InlineAsks'
  BY <1>1, <1>2, <1>3 DEF Subjects, ViewsCounted, Stages, InlineAsks
<1>6. InlineAnswers'
  <2> SUFFICES ASSUME bus = "inline", stage = "evaluating", NEW a \in viewed
               PROVE  \/ a \in barrier'[current]
                      \/ \E q \in answers' : q.agent = a /\ q.subject = current
    BY <1>1 DEF InlineAnswers
  <2>1. current \in DOMAIN barrier
    BY DEF Stages, InlineAnswers
  <2>2. CASE a \in barrier[current]
    BY <1>3, <2>1, <2>2
  <2>3. CASE p.agent = a /\ p.subject = current
    <3>1. p.subject # Symbol
      BY <2>3 DEF Subjects, TypeOK
    <3> QED
      BY <1>3, <2>1, <2>3, <3>1
  <2>4. CASE \E q \in answers \ {p} : q.agent = a /\ q.subject = current
    BY <1>1, <2>4
  <2> QED
    BY <2>2, <2>3, <2>4 DEF InlineAnswers
<1>7. InlineLeftovers'
  BY <1>1, <1>2 DEF InlineLeftovers, InlineAsks, IsOpen
<1>8. EntryNeedsEveryView' /\ DecidedAtOnce'
  BY <1>1 DEF EntryNeedsEveryView, DecidedAtOnce
<1> QED
  BY <1>4, <1>5, <1>6, <1>7, <1>8

\* LUMEN speaks of the symbol.
LEMMA LumenCoherent ==
    ASSUME Coherent, LumenPoll
    PROVE  Coherent'
<1> USE DEF Coherent
<1>1. PICK s \in LumenSignals : answers' = answers \cup OpinionsOf("LUMEN", Symbol, {s})
  BY DEF LumenPoll
<1>2. UNCHANGED <<bus, phase, opinions, current, age, stage, barrier, viewed, asked, curves>>
  BY DEF LumenPoll, recordVars
<1>3. /\ OpinionsOf("LUMEN", Symbol, {s}) \subseteq Opinion
      /\ \A p \in OpinionsOf("LUMEN", Symbol, {s}) : p.agent = "LUMEN" /\ p.subject = Symbol
  <2>1. {s} \in SUBSET {-1, 0, 1} /\ "LUMEN" \in Agents
    BY DeliberationAssumption DEF Agents
  <2> QED
    BY <2>1, OpinionsOfType
<1>4. TypeOK'
  BY <1>1, <1>2, <1>3 DEF TypeOK
<1>5. Subjects'
  <2>1. 0 <= current /\ "LUMEN" \notin Analysts
    BY DEF TypeOK, Analysts
  <2>2. \A p \in answers' : p.subject <= current /\ (p.agent \in Analysts => p.subject # Symbol)
    BY <1>1, <1>3, <2>1 DEF Subjects, Symbol
  <2> QED
    BY <1>2, <2>2 DEF Subjects
<1>6. ViewsCounted'
  <2>1. stage = "evaluating" => current # Symbol
    BY DEF Stages
  <2> QED
    BY <1>1, <1>2, <1>3, <2>1 DEF ViewsCounted
<1>7. Stages' /\ InlineAsks' /\ InlineAnswers' /\ InlineLeftovers'
  BY <1>1, <1>2, <1>3 DEF Stages, InlineAsks, InlineAnswers, InlineLeftovers, IsOpen
<1>8. EntryNeedsEveryView' /\ DecidedAtOnce'
  BY <1>2 DEF EntryNeedsEveryView, DecidedAtOnce
<1> QED
  BY <1>4, <1>5, <1>6, <1>7, <1>8

\* Time passes where the tick waits.
LEMMA PassCoherent ==
    ASSUME Coherent, Pass
    PROVE  Coherent'
<1> USE DEF Coherent
<1>1. /\ TickWaits
      /\ age' = IF stage = "evaluating" THEN Older(age, Lifetime + 1) ELSE age
      /\ answers' = OlderAll(answers) /\ opinions' = OlderAll(opinions)
      /\ UNCHANGED <<bus, phase, current, stage, barrier, viewed, asked, curves>>
  BY DEF Pass
<1>2. /\ answers' \subseteq Opinion /\ opinions' \subseteq Opinion
      /\ \A q \in answers' : \E p \in answers : q.agent = p.agent /\ q.subject = p.subject
      /\ \A p \in answers : \E q \in answers' : q.agent = p.agent /\ q.subject = p.subject
      /\ \A q \in opinions' : \E p \in opinions : q.agent = p.agent /\ q.subject = p.subject
  BY <1>1, OlderOpinions DEF TypeOK
<1>3. TypeOK'
  <2>1. age' \in 0..Oldest
    BY <1>1, OldestType, OlderType DEF TypeOK
  <2> QED
    BY <1>1, <1>2, <2>1 DEF TypeOK
<1>4. Subjects'
  BY <1>1, <1>2 DEF Subjects
<1>5. ViewsCounted'
  BY <1>1, <1>2 DEF ViewsCounted
<1>6. Stages' /\ InlineAsks'
  BY <1>1, <1>2 DEF Stages, InlineAsks
<1>7. InlineAnswers'
  BY <1>1, <1>2 DEF InlineAnswers
<1>8. InlineLeftovers'
  BY <1>1, <1>2 DEF InlineLeftovers, IsOpen
<1>9. EntryNeedsEveryView' /\ DecidedAtOnce'
  BY <1>1 DEF EntryNeedsEveryView, DecidedAtOnce, TickWaits
<1> QED
  BY <1>3, <1>4, <1>5, <1>6, <1>7, <1>8, <1>9

---------------------------------------------------------------------------
(* The loop *)

\* What the barrier knows after it forgot the one opportunity it knew.
LEMMA ForgetsAll ==
    ASSUME NEW f, NEW o, DOMAIN f \subseteq {o}
    PROVE  DOMAIN Without(f, o) = {} /\ Without(f, o) \in [DOMAIN Without(f, o) -> SUBSET Agents]
  BY DEF Without

\* Asking adds the opportunity to what the agents are asked, and nothing else.
LEMMA AskAdds ==
    ASSUME asked \in [Agents -> Seq(Opportunities)], NEW o \in Opportunities, Ask(o)
    PROVE  /\ asked' \in [Agents -> Seq(Opportunities)]
           /\ \A a \in Analysts : \A i \in 1..Len(asked'[a]) :
                 asked'[a][i] = o \/ \E j \in 1..Len(asked[a]) : asked'[a][i] = asked[a][j]
<1>1. asked' = [a \in Agents |-> IF a \in Analysts \cap Running[bus]
                                 THEN Append(asked[a], o) ELSE <<>>]
  BY DEF Ask
<1>2. \A a \in Agents : Append(asked[a], o) \in Seq(Opportunities)
  OBVIOUS
<1>3. asked' \in [Agents -> Seq(Opportunities)]
  BY <1>1, <1>2
<1>4. ASSUME NEW a \in Analysts, NEW i \in 1..Len(asked'[a])
      PROVE  asked'[a][i] = o \/ \E j \in 1..Len(asked[a]) : asked'[a][i] = asked[a][j]
  <2>1. a \in Agents /\ asked[a] \in Seq(Opportunities)
    BY DEF Agents
  <2>2. CASE a \in Running[bus]
    <3>1. asked'[a] = Append(asked[a], o)
      BY <1>1, <2>1, <2>2
    <3> QED
      BY <1>4, <2>1, <3>1
  <2>3. CASE a \notin Running[bus]
    <3>1. asked'[a] = <<>>
      BY <1>1, <2>1, <2>3
    <3> QED
      BY <1>4, <3>1
  <2> QED
    BY <2>2, <2>3
<1> QED
  BY <1>3, <1>4

\* Consensus is complete only with a view of every required agent: what counts
\* as its vote is an opinion of the opportunity itself.
LEMMA CompleteIsViewed ==
    ASSUME Coherent, stage = "evaluating", EntryAllowed(current)
    PROVE  Required \subseteq viewed
<1> SUFFICES ASSUME NEW a \in Required
             PROVE  a \in viewed
  OBVIOUS
<1>1. a \in Analysts /\ a \in Agents
  BY DeliberationAssumption DEF Agents
<1>2. PICK p \in Votes(current) : p.agent = a
  BY <1>1 DEF EntryAllowed, Complete, Missing
<1>3. p \in opinions /\ p.subject \in {current, Symbol}
  BY <1>2 DEF Votes, OpinionsFor
<1>4. p.subject = current
  BY <1>1, <1>2, <1>3 DEF Coherent, Subjects
<1> QED
  BY <1>2, <1>3, <1>4 DEF Coherent, ViewsCounted

\* When the tick does not drain, nothing is on its way over the inline bus.
Settled ==
    bus = "inline" => /\ \A a \in Analysts : asked[a] = <<>>
                      /\ \A p \in answers : p.subject = Symbol

\* A drain that returned, or was not begun, left nothing on its way.
LEMMA NothingOnItsWay ==
    ASSUME Coherent, phase \in {"idle", "seek"} \/ Drained
    PROVE  Settled
  BY DEF Coherent, InlineAsks, Drained, Settled

\* An opportunity is waited for, rejected or entered.
LEMMA EvaluateOrDeferCoherent ==
    ASSUME Coherent, EvaluateOrDefer, Settled, phase # "publish", phase' \in {"idle", "seek"},
           opinions' \subseteq opinions,
           (bus = "inline" /\ ~Answered) => ~ (Required \subseteq viewed),
           (bus = "inline" /\ phase' = "idle") =>
               \A p \in opinions' : p.subject = Symbol \/ (p.subject = current /\ stage' # "none")
    PROVE  Coherent'
<1> USE DEF Coherent
<1>1. stage = "evaluating" /\ UNCHANGED <<bus, asked, answers>>
  BY DEF EvaluateOrDefer
<1>2. DOMAIN barrier = {current} /\ current # Symbol
  BY <1>1 DEF Stages
<1>3. UNCHANGED current
  BY DEF EvaluateOrDefer, Defer, Reject, Enter, Deciding, recordVars
<1>4. Subjects'
  BY <1>1, <1>3 DEF Subjects
<1>5. InlineAsks'
  BY <1>1 DEF Settled, InlineAsks
<1>6. CASE Defer
  <2>1. UNCHANGED <<age, stage, barrier, viewed, curves>> /\ ~Answered /\ ~Overdue
    BY <1>6 DEF Defer, recordVars
  <2>2. TypeOK'
    BY <1>1, <1>3, <2>1 DEF TypeOK
  <2>3. ViewsCounted' /\ Stages'
    BY <1>1, <1>3, <2>1 DEF ViewsCounted, Stages
  <2>4. InlineAnswers'
    BY <1>1, <1>3, <2>1 DEF InlineAnswers
  <2>5. InlineLeftovers'
    BY <1>1, <1>3, <2>1 DEF InlineLeftovers, IsOpen
  <2>6. EntryNeedsEveryView' /\ DecidedAtOnce'
    BY <1>1, <2>1 DEF EntryNeedsEveryView, DecidedAtOnce
  <2> QED
    BY <1>4, <1>5, <2>2, <2>3, <2>4, <2>5, <2>6
<1>7. CASE Reject \/ Enter
  <2>1. barrier' = Without(barrier, current)
    BY <1>7 DEF Reject, Enter, Deciding, Forgotten
  <2>2. DOMAIN barrier' = {} /\ barrier' \in [DOMAIN barrier' -> SUBSET Agents]
    BY <1>2, <2>1, ForgetsAll
  <2>3. \/ /\ stage' = "none" /\ viewed' = {}
           /\ curves' = [curves EXCEPT ![current] = "none"]
        \/ stage' = "held" /\ viewed' = viewed /\ curves' = curves
    BY <1>7 DEF Reject, Finish, Enter
  <2>4. age' = 0
    BY <1>7 DEF Reject, Finish, Enter
  <2>5. TypeOK'
    <3>1. 0 \in 0..Oldest
      BY OldestType
    <3> QED
      BY <1>1, <1>3, <2>2, <2>3, <2>4, <3>1 DEF TypeOK
  <2>6. ViewsCounted' /\ Stages' /\ InlineAnswers'
    BY <1>2, <1>3, <2>2, <2>3 DEF ViewsCounted, Stages, InlineAnswers
  <2>7. InlineLeftovers'
    BY <1>1, <1>3, <2>3 DEF InlineLeftovers, IsOpen, TypeOK
  <2>8. DecidedAtOnce'
    BY <2>3 DEF DecidedAtOnce
  <2>9. EntryNeedsEveryView'
    <3>1. CASE stage' = "none"
      BY <3>1 DEF EntryNeedsEveryView
    <3>2. CASE stage' = "held"
      <4>1. EntryAllowed(current) /\ viewed' = viewed
        BY <1>7, <3>2 DEF Reject, Finish, Enter
      <4> QED
        BY <1>1, <4>1, CompleteIsViewed DEF EntryNeedsEveryView
    <3> QED
      BY <2>3, <3>1, <3>2
  <2> QED
    BY <1>4, <1>5, <2>5, <2>6, <2>7, <2>8, <2>9
<1> QED
  BY <1>6, <1>7 DEF EvaluateOrDefer

\* The decisions on an opportunity that waits for its agents.
LEMMA DecisionCoherent ==
    ASSUME Coherent, AwaitPending \/ AfterDrain
    PROVE  Coherent'
<1>1. CASE AwaitPending
  <2>1. Settled
    BY <1>1, NothingOnItsWay DEF AwaitPending
  <2>2. bus = "inline" => ~ (Required \subseteq viewed)
    BY <1>1 DEF AwaitPending, EvaluateOrDefer, Coherent, DecidedAtOnce
  <2> QED
    BY <1>1, <2>1, <2>2, EvaluateOrDeferCoherent DEF AwaitPending
<1>2. CASE AfterDrain
  <2>1. Settled
    BY <1>2, NothingOnItsWay DEF AfterDrain
  <2>2. (bus = "inline" /\ ~Answered) => ~ (Required \subseteq viewed)
    BY <1>2 DEF AfterDrain, EvaluateOrDefer, Drained, Coherent, InlineAnswers, Answered
  <2>3. /\ opinions' \subseteq opinions
        /\ \A p \in opinions' : p.subject = Symbol \/ (p.subject = current /\ stage' # "none")
    BY <1>2 DEF AfterDrain, EndTick, Kept
  <2> QED
    BY <1>2, <2>1, <2>2, <2>3, EvaluateOrDeferCoherent DEF AfterDrain, EndTick
<1> QED
  BY <1>1, <1>2

\* A position is looked at again: its agents are asked about it.
LEMMA MonitorCoherent ==
    ASSUME Coherent, Monitor
    PROVE  Coherent'
<1> USE DEF Coherent
<1>1. /\ phase = "idle" /\ stage = "held" /\ phase' = "monitor"
      /\ barrier' = Expecting(current) /\ Ask(current)
      /\ UNCHANGED <<bus, current, age, stage, viewed, opinions, answers, curves>>
  BY DEF Monitor
<1>2. current \in Opportunities /\ DOMAIN barrier = {}
  BY <1>1 DEF Stages, TypeOK, Opportunities, Symbol
<1>3. Settled
  BY <1>1, NothingOnItsWay
<1>4. /\ asked' \in [Agents -> Seq(Opportunities)]
      /\ \A a \in Analysts : \A i \in 1..Len(asked'[a]) :
            asked'[a][i] = current \/ \E j \in 1..Len(asked[a]) : asked'[a][i] = asked[a][j]
  BY <1>1, <1>2, AskAdds DEF TypeOK
<1>5. DOMAIN barrier' = {current} /\ barrier' \in [DOMAIN barrier' -> SUBSET Agents]
  BY <1>1, <1>2 DEF Expecting
<1>6. TypeOK'
  BY <1>1, <1>4, <1>5 DEF TypeOK
<1>7. Subjects'
  <2>1. current <= current
    BY DEF TypeOK
  <2>2. \A a \in Analysts : \A i \in 1..Len(asked'[a]) : asked'[a][i] <= current
    BY <1>4, <2>1 DEF Subjects
  <2> QED
    BY <1>1, <2>2 DEF Subjects
<1>8. ViewsCounted' /\ InlineAnswers' /\ EntryNeedsEveryView' /\ DecidedAtOnce'
     
  BY <1>1 DEF ViewsCounted, InlineAnswers, EntryNeedsEveryView, DecidedAtOnce
<1>9. Stages'
  BY <1>1, <1>5 DEF Stages
<1>10. InlineAsks'
  <2>1. bus = "inline" => \A a \in Analysts : Len(asked[a]) = 0
    BY <1>3 DEF Settled
  <2>2. bus = "inline" => \A a \in Analysts : \A i \in 1..Len(asked'[a]) : asked'[a][i] = current
    BY <1>4, <2>1
  <2> QED
    BY <1>1, <1>3, <2>2 DEF InlineAsks, Settled
<1>11. InlineLeftovers'
  BY <1>1 DEF InlineLeftovers, IsOpen
<1> QED
  BY <1>6, <1>7, <1>8, <1>9, <1>10, <1>11

\* A new opportunity: nobody has spoken of it.
LEMMA SeekCoherent ==
    ASSUME Coherent, Seek
    PROVE  Coherent'
<1> USE DEF Coherent
<1>1. /\ phase = "seek" /\ stage = "none" /\ stage' = "evaluating" /\ phase' = "publish"
      /\ current < MaxOpportunities /\ current' = current + 1 /\ Ask(current + 1)
      /\ UNCHANGED <<bus, age, barrier, viewed, opinions, answers, curves>>
  BY DEF Seek
<1>2. current + 1 \in Opportunities /\ DOMAIN barrier = {} /\ viewed = {}
  BY <1>1, DeliberationAssumption DEF Stages, TypeOK, Opportunities
<1>3. Settled
  BY <1>1, NothingOnItsWay
<1>4. /\ asked' \in [Agents -> Seq(Opportunities)]
      /\ \A a \in Analysts : \A i \in 1..Len(asked'[a]) :
            asked'[a][i] = current + 1 \/ \E j \in 1..Len(asked[a]) : asked'[a][i] = asked[a][j]
  BY <1>1, <1>2, AskAdds DEF TypeOK
<1>5. DOMAIN barrier' = {}
  BY <1>1, <1>2
<1>6. TypeOK'
  BY <1>1, <1>2, <1>4 DEF TypeOK, Opportunities
<1>7. /\ \A p \in answers \cup opinions : p.subject <= current /\ p.subject \in Int
      /\ current \in Int
  BY DEF Subjects, TypeOK, Opinion, Opportunities, Symbol
<1>8. Subjects'
  <2>1. \A a \in Analysts : \A i \in 1..Len(asked[a]) : asked[a][i] <= current /\ asked[a][i] \in Int
    <3>1. ASSUME NEW a \in Analysts, NEW i \in 1..Len(asked[a])
          PROVE  asked[a][i] \in Int
      <4>1. asked[a] \in Seq(Opportunities)
        BY DEF TypeOK, Agents
      <4>2. asked[a][i] \in Opportunities
        BY <4>1
      <4> QED
        BY <4>2 DEF Opportunities
    <3> QED
      BY <3>1 DEF Subjects
  <2>2. \A a \in Analysts : \A i \in 1..Len(asked'[a]) : asked'[a][i] <= current + 1
    BY <1>4, <1>7, <2>1
  <2>3. \A p \in answers \cup opinions : p.subject <= current + 1
    BY <1>7
  <2> QED
    BY <1>1, <2>2, <2>3 DEF Subjects
<1>9. ViewsCounted'
  BY <1>1, <1>7 DEF ViewsCounted
<1>10. InlineAnswers'
  BY <1>1, <1>2 DEF InlineAnswers
<1>11. Stages'
  <2>1. current + 1 # Symbol
    BY <1>7, DeliberationAssumption DEF TypeOK, Symbol
  <2> QED
    BY <1>1, <1>5, <2>1 DEF Stages
<1>12. InlineAsks'
  <2>1. bus = "inline" => \A a \in Analysts : Len(asked[a]) = 0
    BY <1>3 DEF Settled
  <2>2. bus = "inline" => \A a \in Analysts : \A i \in 1..Len(asked'[a]) : asked'[a][i] = current + 1
    BY <1>4, <2>1
  <2> QED
    BY <1>1, <1>3, <2>2 DEF InlineAsks, Settled
<1>13. InlineLeftovers'
  BY <1>1 DEF InlineLeftovers, IsOpen
<1>14. EntryNeedsEveryView' /\ DecidedAtOnce'
  BY <1>1 DEF EntryNeedsEveryView, DecidedAtOnce
<1> QED
  BY <1>6, <1>8, <1>9, <1>10, <1>11, <1>12, <1>13, <1>14

\* The barrier learns of the opportunity.
LEMMA RegisterCoherent ==
    ASSUME Coherent, Register
    PROVE  Coherent'
<1> USE DEF Coherent
<1>1. /\ phase = "publish" /\ phase' = "ask" /\ stage = "evaluating"
      /\ barrier' = Expecting(current)
      /\ UNCHANGED <<bus, current, age, stage, viewed, opinions, asked, answers, curves>>
  BY DEF Register, Stages, agentVars
<1>2. DOMAIN barrier = {} /\ current # Symbol
  BY <1>1 DEF Stages
<1>3. DOMAIN barrier' = {current} /\ barrier' \in [DOMAIN barrier' -> SUBSET Agents]
  BY <1>1, <1>2 DEF Expecting
<1>4. TypeOK'
  BY <1>1, <1>3 DEF TypeOK
<1>5. Subjects' /\ ViewsCounted' /\ Stages' /\ InlineAsks'
  BY <1>1, <1>2, <1>3 DEF Subjects, ViewsCounted, Stages, InlineAsks
<1>6. InlineAnswers'
  BY <1>1 DEF InlineAnswers
<1>7. InlineLeftovers' /\ EntryNeedsEveryView' /\ DecidedAtOnce'
  BY <1>1 DEF InlineLeftovers, IsOpen, EntryNeedsEveryView, DecidedAtOnce
<1> QED
  BY <1>4, <1>5, <1>6, <1>7

\* A position is kept or exited, and an exit ends.
LEMMA ManageCoherent ==
    ASSUME Coherent, Judge \/ Flatten \/ AdvanceExit \/ NothingToManage \/ SkipSeek
    PROVE  Coherent'
<1> USE DEF Coherent
<1>1. Settled
  BY NothingOnItsWay DEF Judge, Flatten, AdvanceExit, NothingToManage, SkipSeek
<1>2. UNCHANGED <<bus, current, asked, answers>> /\ opinions' \subseteq opinions
  BY DEF Judge, Flatten, AdvanceExit, NothingToManage, SkipSeek, EndTick, Kept, recordVars,
       agentVars
<1>3. /\ phase' \in {"idle", "seek"}
      /\ stage' = "evaluating" => stage = "evaluating" /\ barrier' = barrier /\ viewed' = viewed
      /\ stage' = "held" => stage = "held" /\ viewed' = viewed
      /\ stage' \in {"none", "evaluating", "held", "exiting"}
      /\ viewed' \in {viewed, {}} /\ (stage' = "none" => viewed' = {})
      /\ stage = "none" => stage' = "none"
  BY DEF Judge, Flatten, AdvanceExit, NothingToManage, SkipSeek, EndTick, recordVars, Finish,
       Stages, TypeOK
<1>4. /\ barrier' \in [DOMAIN barrier' -> SUBSET Agents]
      /\ DOMAIN barrier' = IF stage' = "evaluating" THEN {current} ELSE {}
  <2>1. CASE Judge
    BY <2>1, ForgetsAll DEF Judge, Stages
  <2>2. CASE ~Judge
    BY <2>2 DEF Flatten, AdvanceExit, NothingToManage, SkipSeek, EndTick, recordVars, Finish,
         Stages, TypeOK
  <2> QED
    BY <2>1, <2>2
<1>5. /\ age' \in {age, 0}
      /\ \/ curves' = curves /\ (stage # "none" => stage' # "none")
         \/ curves' = [curves EXCEPT ![current] = "none"]
  BY DEF Judge, Flatten, AdvanceExit, NothingToManage, SkipSeek, recordVars, agentVars, Finish
<1>6. TypeOK'
  <2>1. age' \in 0..Oldest
    BY <1>5, OldestType DEF TypeOK
  <2> QED
    BY <1>2, <1>3, <1>4, <1>5, <2>1 DEF TypeOK
<1>7. Subjects' /\ Stages' /\ InlineAsks'
  BY <1>1, <1>2, <1>3, <1>4 DEF Subjects, Stages, InlineAsks, Settled
<1>8. ViewsCounted' /\ InlineAnswers'
  BY <1>2, <1>3 DEF ViewsCounted, InlineAnswers
<1>9. InlineLeftovers'
  <2>1. phase' = "idle" =>
          \A p \in opinions' : p.subject = Symbol \/ (p.subject = current /\ stage' # "none")
    BY DEF Judge, Flatten, AdvanceExit, NothingToManage, SkipSeek, EndTick, Kept
  <2>2. bus = "inline" => \A o \in Opportunities : curves'[o] # "none" => o = current /\ stage' # "none"
    BY <1>5 DEF InlineLeftovers, IsOpen, TypeOK
  <2> QED
    BY <1>2, <2>1, <2>2 DEF InlineLeftovers, IsOpen
<1>10. EntryNeedsEveryView'
  BY <1>3 DEF EntryNeedsEveryView
<1>11. DecidedAtOnce'
  BY <1>2, <1>3 DEF DecidedAtOnce, Judge, Flatten, AdvanceExit,
       NothingToManage, SkipSeek, EndTick, recordVars, Finish
<1> QED
  BY <1>6, <1>7, <1>8, <1>9, <1>10, <1>11

---------------------------------------------------------------------------
(* The invariant, and what follows from it *)

\* Nothing is open when the platform starts.
LEMMA InitCoherent == Init => Coherent
<1> SUFFICES ASSUME Init
             PROVE  Coherent
  OBVIOUS
<1> USE DEF Init
<1>1. TypeOK
  <2>1. age \in 0..Oldest /\ current \in 0..MaxOpportunities
    BY OldestType, DeliberationAssumption
  <2>2. asked \in [Agents -> Seq(Opportunities)] /\ barrier \in [DOMAIN barrier -> SUBSET Agents]
    OBVIOUS
  <2> QED
    BY <2>1, <2>2 DEF TypeOK
<1>2. Subjects /\ ViewsCounted /\ Stages
  BY DEF Subjects, ViewsCounted, Stages, Analysts, Agents
<1>3. InlineAsks /\ InlineAnswers /\ InlineLeftovers
  BY DEF InlineAsks, InlineAnswers, InlineLeftovers, Analysts, Agents
<1>4. EntryNeedsEveryView /\ DecidedAtOnce
  BY DEF EntryNeedsEveryView, DecidedAtOnce
<1> QED
  BY <1>1, <1>2, <1>3, <1>4 DEF Coherent

\* Every step keeps the invariant.
LEMMA StepCoherent == Coherent /\ [Next]_vars => Coherent'
<1> SUFFICES ASSUME Coherent, [Next]_vars
             PROVE  Coherent'
  OBVIOUS
<1>1. ASSUME NEW a \in Analysts, NEW market \in Market, Evaluate(a, market)
      PROVE  Coherent'
  BY <1>1, EvaluateCoherent
<1>2. ASSUME NEW p \in answers, Deliver(p)
      PROVE  Coherent'
  BY <1>2, DeliverCoherent
<1>3. CASE LumenPoll \/ Pass
  BY <1>3, LumenCoherent, PassCoherent
<1>4. CASE AwaitPending \/ AfterDrain
  BY <1>4, DecisionCoherent
<1>5. CASE Monitor \/ Seek \/ Register
  BY <1>5, MonitorCoherent, SeekCoherent, RegisterCoherent
<1>6. CASE Judge \/ Flatten \/ AdvanceExit \/ NothingToManage \/ SkipSeek
  BY <1>6, ManageCoherent
<1>7. CASE UNCHANGED vars
  BY <1>7 DEF vars, Coherent, TypeOK, Subjects, ViewsCounted, Stages, InlineAsks, InlineAnswers,
       InlineLeftovers, IsOpen, EntryNeedsEveryView, DecidedAtOnce
<1> QED
  BY <1>1, <1>2, <1>3, <1>4, <1>5, <1>6, <1>7 DEF Next, Tick, Decisions, Handlers

\* The inductive invariant holds of every behaviour.
THEOREM AlwaysCoherent == Spec => []Coherent
  BY InitCoherent, StepCoherent, PTL DEF Spec

\* A position is entered only on a view of every required agent on that very
\* opportunity, whatever is late, lost, left over or said of the symbol.
THEOREM EveryViewBeforeEntry == Spec => []EntryNeedsEveryView
<1>1. Coherent => EntryNeedsEveryView
  BY DEF Coherent
<1> QED
  BY <1>1, AlwaysCoherent, PTL

\* Over the inline bus an opportunity on which everyone has a view does not
\* wait beyond its own tick.
THEOREM OneDrainIsEnough == Spec => []DecidedAtOnce
<1>1. Coherent => DecidedAtOnce
  BY DEF Coherent
<1> QED
  BY <1>1, AlwaysCoherent, PTL

\* The barrier, the curves and the mirror of opinions keep nothing of an
\* opportunity that is finished.
THEOREM NothingIsLeft == Spec => []NothingOutlivesItsRecord
<1>1. Coherent => NothingOutlivesItsRecord
  BY DEF Coherent, Stages, InlineLeftovers, NothingOutlivesItsRecord
<1> QED
  BY <1>1, AlwaysCoherent, PTL
=============================================================================
