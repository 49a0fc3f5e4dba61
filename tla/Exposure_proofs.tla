--------------------------- MODULE Exposure_proofs ---------------------------
(***************************************************************************)
(* Theorems about RuneGates and Exposure, for any limits, any number of    *)
(* venues and symbols, and any sizes that ZEPHR proposes.                  *)
(*                                                                         *)
(* RUNE's sizing first: Headroom is a minimum of minima, cut at zero.      *)
(* HeadroomBounds takes it apart once; each gate on a size then needs one  *)
(* of the bounds.  What the strategy carries and what a hedge is sized by  *)
(* are sums over positions, so what Sum returns is proved next; and last   *)
(* the invariant that ties the orders at the venues to what was authorised *)
(* for their records.                                                      *)
(***************************************************************************)
EXTENDS Exposure, FiniteSetTheorems, TLAPS

---------------------------------------------------------------------------
(* Sizing *)

\* The limits on sizes are numbers, and the smallest trade is worth something.
LimitsAreNumbers ==
    /\ Limits.min_trade_notional \in Nat \ {0}
    /\ {Limits.max_order_notional, Limits.max_position_notional,
        Limits.max_gross_exposure, Limits.max_venue_exposure,
        Limits.max_strategy_exposure} \subseteq Int

\* The intents of a set of symbols and venues.
Intents(symbols, venues) ==
    [symbol : symbols, buy : venues, sell : venues, notional : Int, edge : Int,
     age : Int \cup {None}, remaining : Int, agreement : Int]

\* What the sizing reads of the portfolio are numbers too; what the books carry
\* economically may be unknown.
ContextIsNumbers(intent, ctx) ==
    /\ ctx.portfolio.gross \in Int /\ ctx.strategy \in Int
    /\ \A leg \in Legs(intent) :
          PositionOf(intent, leg, ctx) \in Int /\ VenueExposure(leg, ctx) \in Int
    /\ ctx.economical # None => ctx.economical \in Int

\* The lesser of two numbers is one of them and exceeds neither.
LEMMA LeastBounds ==
    ASSUME NEW a \in Int, NEW b \in Int
    PROVE  Least(a, b) \in Int /\ Least(a, b) <= a /\ Least(a, b) <= b
  BY DEF Least

\* Half of a number, rounded down, fits in it twice.
LEMMA HalfFits ==
    ASSUME NEW n \in Int
    PROVE  n \div LegCount \in Int /\ (n \div LegCount) * LegCount <= n
  BY DEF LegCount

\* A headroom worth trading is a size under every limit it was computed from
\* (_headroom).
LEMMA HeadroomBounds ==
    ASSUME LimitsAreNumbers, NEW symbols, NEW venues, NEW ctx,
           NEW intent \in Intents(symbols, venues), ContextIsNumbers(intent, ctx),
           Headroom(intent, ctx) >= Limits.min_trade_notional
    PROVE  /\ Headroom(intent, ctx) \in Int
           /\ Headroom(intent, ctx) <= intent.notional
           /\ Headroom(intent, ctx) <= Limits.max_order_notional
           /\ ctx.portfolio.gross + Headroom(intent, ctx) * LegCount
                 <= Limits.max_gross_exposure
           /\ ctx.strategy + Headroom(intent, ctx) * LegCount
                 <= Limits.max_strategy_exposure
           /\ \A leg \in Legs(intent) :
                 /\ VenueExposure(leg, ctx) + Headroom(intent, ctx)
                       <= Limits.max_venue_exposure
                 /\ PositionOf(intent, leg, ctx) + Headroom(intent, ctx)
                       <= Limits.max_position_notional
           /\ ctx.economical # None => Headroom(intent, ctx) <= ctx.economical
<1> DEFINE order == Least(intent.notional, Limits.max_order_notional)
           half(n) == n \div LegCount
           total == Least(half(Limits.max_gross_exposure - ctx.portfolio.gross),
                          half(Limits.max_strategy_exposure - ctx.strategy))
           onLeg(leg) == Least(Limits.max_venue_exposure - VenueExposure(leg, ctx),
                               Limits.max_position_notional - PositionOf(intent, leg, ctx))
           legs == Least(onLeg(intent.buy), onLeg(intent.sell))
           fitted == Least(Least(order, total), legs)
           size == IF ctx.economical = None THEN fitted ELSE Least(fitted, ctx.economical)
           H == Headroom(intent, ctx)
<1>1. H = Most(0, size)
  BY DEF Headroom
<1>2. order \in Int /\ order <= intent.notional /\ order <= Limits.max_order_notional
  BY LeastBounds DEF LimitsAreNumbers, Intents
<1>3. /\ total \in Int
      /\ total * LegCount <= Limits.max_gross_exposure - ctx.portfolio.gross
      /\ total * LegCount <= Limits.max_strategy_exposure - ctx.strategy
  <2> DEFINE g == Limits.max_gross_exposure - ctx.portfolio.gross
             s == Limits.max_strategy_exposure - ctx.strategy
  <2>1. g \in Int /\ s \in Int
    BY DEF LimitsAreNumbers, ContextIsNumbers
  <2>2. /\ half(g) \in Int /\ half(g) * LegCount <= g
        /\ half(s) \in Int /\ half(s) * LegCount <= s
    BY <2>1, HalfFits
  <2>3. total \in Int /\ total <= half(g) /\ total <= half(s)
    BY <2>2, LeastBounds
  <2> HIDE DEF g, s, half, total
  <2>4. total * LegCount <= g /\ total * LegCount <= s
    BY <2>1, <2>2, <2>3 DEF LegCount
  <2> QED
    BY <2>3, <2>4 DEF g, s
<1>4. \A leg \in Legs(intent) :
        /\ onLeg(leg) \in Int
        /\ onLeg(leg) <= Limits.max_venue_exposure - VenueExposure(leg, ctx)
        /\ onLeg(leg) <= Limits.max_position_notional - PositionOf(intent, leg, ctx)
  <2> SUFFICES ASSUME NEW leg \in Legs(intent)
               PROVE  /\ onLeg(leg) \in Int
                      /\ onLeg(leg) <= Limits.max_venue_exposure - VenueExposure(leg, ctx)
                      /\ onLeg(leg) <= Limits.max_position_notional - PositionOf(intent, leg, ctx)
    OBVIOUS
  <2>1. /\ Limits.max_venue_exposure - VenueExposure(leg, ctx) \in Int
        /\ Limits.max_position_notional - PositionOf(intent, leg, ctx) \in Int
    BY DEF LimitsAreNumbers, ContextIsNumbers
  <2> QED
    BY <2>1, LeastBounds
<1>5. legs \in Int /\ \A leg \in Legs(intent) : legs <= onLeg(leg)
  <2>1. onLeg(intent.buy) \in Int /\ onLeg(intent.sell) \in Int
    BY <1>4 DEF Legs
  <2> QED
    BY <2>1, LeastBounds DEF Legs
<1> HIDE DEF order, total, onLeg, legs
<1>6. fitted \in Int /\ fitted <= order /\ fitted <= total /\ fitted <= legs
  <2>1. /\ Least(order, total) \in Int
        /\ Least(order, total) <= order /\ Least(order, total) <= total
    BY <1>2, <1>3, LeastBounds
  <2>2. /\ fitted \in Int /\ fitted <= Least(order, total) /\ fitted <= legs
    BY <2>1, <1>5, LeastBounds
  <2> HIDE DEF fitted
  <2> QED
    BY <1>2, <1>3, <2>1, <2>2
<1> HIDE DEF fitted
<1>7. /\ size \in Int /\ size <= fitted
      /\ ctx.economical # None => size <= ctx.economical
  <2>1. CASE ctx.economical = None
    BY <1>6, <2>1
  <2>2. CASE ctx.economical # None
    <3>1. /\ Least(fitted, ctx.economical) \in Int
          /\ Least(fitted, ctx.economical) <= fitted
          /\ Least(fitted, ctx.economical) <= ctx.economical
      BY <1>6, <2>2, LeastBounds DEF ContextIsNumbers
    <3> QED
      BY <2>2, <3>1
  <2> QED
    BY <2>1, <2>2
<1> HIDE DEF size
<1>8. H = size
  BY <1>1, <1>7 DEF Most, LimitsAreNumbers
<1>9. size <= order /\ size <= total /\ size <= legs
  BY <1>2, <1>3, <1>5, <1>6, <1>7
<1>10. /\ size <= intent.notional /\ size <= Limits.max_order_notional
  BY <1>2, <1>7, <1>9 DEF LimitsAreNumbers, Intents
<1>11. /\ ctx.portfolio.gross + size * LegCount <= Limits.max_gross_exposure
       /\ ctx.strategy + size * LegCount <= Limits.max_strategy_exposure
  BY <1>3, <1>7, <1>9 DEF LimitsAreNumbers, ContextIsNumbers, LegCount
<1>12. \A leg \in Legs(intent) :
         /\ VenueExposure(leg, ctx) + size <= Limits.max_venue_exposure
         /\ PositionOf(intent, leg, ctx) + size <= Limits.max_position_notional
  BY <1>4, <1>5, <1>7, <1>9 DEF LimitsAreNumbers, ContextIsNumbers
<1> QED
  BY <1>7, <1>8, <1>10, <1>11, <1>12

\* "A size-based gate can only fail if the reduction could not make it pass":
\* whatever the limits, the portfolio and the plans at work, an intent whose
\* headroom is worth trading passes every gate on its size, but for leverage,
\* which the headroom leaves out, and for liquidity nobody measured
\* (RuneCore.evaluate, _headroom, gate_*).
THEOREM SizingIsEnough ==
    ASSUME LimitsAreNumbers, NEW symbols, NEW venues, NEW ctx,
           NEW intent \in Intents(symbols, venues), ContextIsNumbers(intent, ctx)
    PROVE  SizingFits(intent, ctx)
<1> SUFFICES ASSUME Headroom(intent, ctx) >= Limits.min_trade_notional
             PROVE  \A g \in Blocking(SizeGates(Sized(intent, ctx), ctx)) :
                       \/ g[1] = "MAX_LEVERAGE"
                       \/ ctx.economical = None /\ g[1] = "LIQUIDITY_SUFFICIENT"
  BY DEF SizingFits
<1> DEFINE H == Headroom(intent, ctx)
           sized == Sized(intent, ctx)
<1>1. /\ H \in Int /\ H <= intent.notional
      /\ H <= Limits.max_order_notional
      /\ ctx.portfolio.gross + H * LegCount <= Limits.max_gross_exposure
      /\ ctx.strategy + H * LegCount <= Limits.max_strategy_exposure
      /\ \A leg \in Legs(intent) :
            /\ VenueExposure(leg, ctx) + H <= Limits.max_venue_exposure
            /\ PositionOf(intent, leg, ctx) + H <= Limits.max_position_notional
      /\ ctx.economical # None => H <= ctx.economical
  BY HeadroomBounds
<1> HIDE DEF H
<1>2. Least(intent.notional, H) = H
  BY <1>1 DEF Least, Intents
<1>3. /\ sized.notional = H
      /\ Legs(sized) = Legs(intent)
      /\ \A leg : PositionOf(sized, leg, ctx) = PositionOf(intent, leg, ctx)
  BY <1>2 DEF Sized, Intents, Legs, PositionOf, H
<1> HIDE DEF sized
<1>4. OrderNotional(sized) = "PASS"
  BY <1>1, <1>3 DEF OrderNotional, Check
<1>5. PositionNotional(sized, ctx) = "PASS"
  BY <1>1, <1>3 DEF PositionNotional, Check
<1>6. GrossExposure(sized, ctx) = "PASS"
  BY <1>1, <1>3 DEF GrossExposure, Projected, Check
<1>7. VenueLimit(sized, ctx) = "PASS"
  BY <1>1, <1>3 DEF VenueLimit, Check
<1>8. StrategyExposure(sized, ctx) = "PASS"
  BY <1>1, <1>3 DEF StrategyExposure, Check
<1>9. ctx.economical = None \/ Liquidity(sized, ctx) = "PASS"
  BY <1>1, <1>3 DEF Liquidity, Check, ContextIsNumbers
<1> QED
  BY <1>4, <1>5, <1>6, <1>7, <1>8, <1>9 DEF Blocking, SizeGates, sized

---------------------------------------------------------------------------
(* Sums *)

\* Every set with zero, and with the successor of each number in it, has all.
LEMMA Induction ==
    ASSUME NEW T, 0 \in T, \A n \in Nat : n \in T => n + 1 \in T
    PROVE  Nat \subseteq T
<1> DEFINE below(n) == 0..(n - 1)
           U == {below(n) : n \in Nat \ T}
<1> SUFFICES ASSUME U # {} PROVE FALSE
  OBVIOUS
<1>1. U \subseteq FiniteSubsetsOf(Nat)
  <2>1. \A n \in Nat : below(n) \subseteq Nat /\ IsFiniteSet(below(n))
    BY FS_Interval
  <2> QED
    BY <2>1 DEF FiniteSubsetsOf
<1>2. PICK u \in U : \A w \in U : ~ (<<w, u>> \in StrictSubsetOrdering(Nat))
  <2> HIDE DEF U
  <2> QED
    BY <1>1, WFMin, FS_StrictSubsetOrderingWellFounded
<1>3. PICK n \in Nat \ T : u = below(n)
  BY <1>2
<1>4. n # 0 /\ n - 1 \in Nat /\ n - 1 \in Nat \ T
  OBVIOUS
<1>5. below(n - 1) \in U
  BY <1>4
<1>6. <<below(n - 1), below(n)>> \in StrictSubsetOrdering(Nat)
  <2>1. below(n - 1) \subseteq Nat /\ below(n) \subseteq Nat
    OBVIOUS
  <2>2. below(n - 1) \subseteq below(n) /\ n - 1 \in below(n) /\ n - 1 \notin below(n - 1)
    BY <1>4
  <2> QED
    BY <2>1, <2>2 DEF StrictSubsetOrdering
<1> QED
  BY <1>2, <1>3, <1>5, <1>6

\* The element of a set that Sum takes next.
Next1(s) == CHOOSE x \in s : TRUE

\* The function over the subsets of a set by which Sum is defined.
Totals(h, f, S) ==
    h = [s \in SUBSET S |-> IF s = {} THEN 0 ELSE f[Next1(s)] + h[s \ {Next1(s)}]]

\* Sum is its value at the whole set.
LEMMA SumIsTotal ==
    ASSUME NEW f, NEW S
    PROVE  Sum(f, S) = (CHOOSE h : Totals(h, f, S))[S]
BY DEF Sum, FoldFunctionOnSet, MapThenFoldSet, Totals, Next1

\* A subset without an element it has is smaller by one.
LEMMA OneLess ==
    ASSUME NEW S, IsFiniteSet(S), NEW s \in SUBSET S, NEW x \in s
    PROVE  /\ IsFiniteSet(s) /\ Cardinality(s) \in Nat /\ Cardinality(s) # 0
           /\ IsFiniteSet(s \ {x}) /\ Cardinality(s \ {x}) = Cardinality(s) - 1
<1>1. IsFiniteSet(s)
  BY FS_Subset
<1>2. Cardinality(s) \in Nat /\ Cardinality(s) # 0
  BY <1>1, FS_CardinalityType, FS_EmptySet
<1> QED
  BY <1>1, <1>2, FS_RemoveElement

\* The element taken is one of the set.
LEMMA NextIn ==
    ASSUME NEW s, s # {}
    PROVE  Next1(s) \in s
BY DEF Next1

\* There is such a function, for a finite set.
LEMMA TotalsExist ==
    ASSUME NEW f, NEW S, IsFiniteSet(S)
    PROVE  \E h : Totals(h, f, S)
<1> DEFINE upTo(h, m) ==
              /\ h = [s \in SUBSET S |-> h[s]]
              /\ \A s \in SUBSET S : Cardinality(s) <= m =>
                    h[s] = IF s = {} THEN 0 ELSE f[Next1(s)] + h[s \ {Next1(s)}]
           T == {m \in Nat : \E h : upTo(h, m)}
<1>1. \A s \in SUBSET S : IsFiniteSet(s) /\ Cardinality(s) \in Nat
  BY FS_Subset, FS_CardinalityType
<1>2. \A s \in SUBSET S : s # {} =>
         /\ s \ {Next1(s)} \in SUBSET S
         /\ Cardinality(s) # 0 /\ Cardinality(s \ {Next1(s)}) = Cardinality(s) - 1
  BY NextIn, OneLess
<1>3. 0 \in T
  <2> DEFINE h == [s \in SUBSET S |-> 0]
  <2>1. \A s \in SUBSET S : Cardinality(s) <= 0 => s = {}
    BY <1>1, FS_EmptySet
  <2>2. upTo(h, 0)
    BY <2>1
  <2> QED
    BY <2>2
<1>4. ASSUME NEW m \in Nat, m \in T PROVE m + 1 \in T
  <2>1. PICK h : upTo(h, m)
    BY <1>4
  <2> DEFINE g == [s \in SUBSET S |->
                      IF Cardinality(s) <= m THEN h[s]
                      ELSE f[Next1(s)] + h[s \ {Next1(s)}]]
  <2>2. ASSUME NEW s \in SUBSET S, Cardinality(s) <= m + 1
        PROVE  g[s] = IF s = {} THEN 0 ELSE f[Next1(s)] + g[s \ {Next1(s)}]
    <3>1. CASE s = {}
      <4>1. Cardinality(s) <= m
        BY <3>1, FS_EmptySet
      <4> QED
        BY <3>1, <4>1, <2>1
    <3>2. CASE s # {}
      <4>1. /\ s \ {Next1(s)} \in SUBSET S
            /\ Cardinality(s \ {Next1(s)}) <= m
        BY <3>2, <1>1, <1>2, <2>2
      <4>2. g[s \ {Next1(s)}] = h[s \ {Next1(s)}]
        BY <4>1
      <4>3. g[s] = f[Next1(s)] + h[s \ {Next1(s)}]
        BY <3>2, <2>1
      <4> QED
        BY <3>2, <4>2, <4>3
    <3> QED
      BY <3>1, <3>2
  <2>3. upTo(g, m + 1)
    BY <2>2
  <2> HIDE DEF g, upTo
  <2>4. \E u : upTo(u, m + 1)
    BY <2>3
  <2> QED
    BY <2>4
<1>5. Nat \subseteq T
  <2> HIDE DEF T
  <2> QED
    BY <1>3, <1>4, Induction
<1>6. Cardinality(S) \in Nat
  BY <1>1
<1>7. PICK h : upTo(h, Cardinality(S))
  BY <1>5, <1>6
<1>8. \A s \in SUBSET S : Cardinality(s) <= Cardinality(S)
  BY FS_Subset
<1>9. Totals(h, f, S)
  <2>1. \A s \in SUBSET S :
           h[s] = IF s = {} THEN 0 ELSE f[Next1(s)] + h[s \ {Next1(s)}]
    BY <1>7, <1>8
  <2>2. h = [s \in SUBSET S |-> h[s]]
    BY <1>7
  <2> QED
    BY <2>1, <2>2 DEF Totals
<1> QED
  BY <1>9

\* Two such functions agree on the subsets that they share.
LEMMA TotalsAgree ==
    ASSUME NEW f, NEW S, IsFiniteSet(S), NEW R \in SUBSET S, NEW h, NEW g,
           Totals(h, f, S), Totals(g, f, R)
    PROVE  \A s \in SUBSET R : g[s] = h[s]
<1> DEFINE T == {m \in Nat : \A s \in SUBSET R : Cardinality(s) = m => g[s] = h[s]}
<1>1. /\ \A s \in SUBSET S : h[s] = IF s = {} THEN 0 ELSE f[Next1(s)] + h[s \ {Next1(s)}]
      /\ \A s \in SUBSET R : g[s] = IF s = {} THEN 0 ELSE f[Next1(s)] + g[s \ {Next1(s)}]
  BY DEF Totals
<1>2. \A s \in SUBSET R : IsFiniteSet(s) /\ Cardinality(s) \in Nat
  BY FS_Subset, FS_CardinalityType
<1>3. 0 \in T
  <2>1. \A s \in SUBSET R : Cardinality(s) = 0 => s = {}
    BY <1>2, FS_EmptySet
  <2> QED
    BY <2>1, <1>1
<1>4. ASSUME NEW m \in Nat, m \in T PROVE m + 1 \in T
  <2> SUFFICES ASSUME NEW s \in SUBSET R, Cardinality(s) = m + 1 PROVE g[s] = h[s]
    OBVIOUS
  <2>1. s # {}
    BY FS_EmptySet
  <2>2. s \ {Next1(s)} \in SUBSET R /\ Cardinality(s \ {Next1(s)}) = m
    BY <2>1, NextIn, OneLess
  <2>3. g[s \ {Next1(s)}] = h[s \ {Next1(s)}]
    BY <2>2, <1>4
  <2>4. s \in SUBSET S /\ s \in SUBSET R
    OBVIOUS
  <2> QED
    BY <2>1, <2>3, <2>4, <1>1
<1>5. Nat \subseteq T
  <2> HIDE DEF T
  <2> QED
    BY <1>3, <1>4, Induction
<1> QED
  BY <1>2, <1>5

\* A sum is that of the element taken and of the others.
LEMMA SumSteps ==
    ASSUME NEW f, NEW S, IsFiniteSet(S)
    PROVE  Sum(f, S) = IF S = {} THEN 0 ELSE f[Next1(S)] + Sum(f, S \ {Next1(S)})
<1> DEFINE h == CHOOSE u : Totals(u, f, S)
           R == S \ {Next1(S)}
           g == CHOOSE u : Totals(u, f, R)
<1>1. R \in SUBSET S /\ IsFiniteSet(R)
  BY FS_Subset
<1>2. Totals(h, f, S) /\ Totals(g, f, R)
  BY <1>1, TotalsExist
<1>3. Sum(f, S) = h[S] /\ Sum(f, R) = g[R]
  BY SumIsTotal
<1> HIDE DEF h, g
<1>4. g[R] = h[R]
  BY <1>1, <1>2, TotalsAgree
<1>5. h[S] = IF S = {} THEN 0 ELSE f[Next1(S)] + h[R]
  BY <1>2 DEF Totals
<1> QED
  BY <1>3, <1>4, <1>5

\* The sum of integers is an integer.
LEMMA SumTyped ==
    ASSUME NEW f, NEW S, IsFiniteSet(S), \A x \in S : f[x] \in Int
    PROVE  \A s \in SUBSET S : Sum(f, s) \in Int
<1> DEFINE T == {m \in Nat : \A s \in SUBSET S : Cardinality(s) = m => Sum(f, s) \in Int}
<1>1. \A s \in SUBSET S : IsFiniteSet(s) /\ Cardinality(s) \in Nat
  BY FS_Subset, FS_CardinalityType
<1>2. 0 \in T
  <2> SUFFICES ASSUME NEW s \in SUBSET S, Cardinality(s) = 0 PROVE Sum(f, s) \in Int
    OBVIOUS
  <2>1. s = {}
    BY <1>1, FS_EmptySet
  <2> QED
    BY <2>1, <1>1, SumSteps
<1>3. ASSUME NEW m \in Nat, m \in T PROVE m + 1 \in T
  <2> SUFFICES ASSUME NEW s \in SUBSET S, Cardinality(s) = m + 1 PROVE Sum(f, s) \in Int
    OBVIOUS
  <2>1. s # {}
    BY FS_EmptySet
  <2>2. Next1(s) \in s
    BY <2>1, NextIn
  <2>3. s \ {Next1(s)} \in SUBSET S /\ Cardinality(s \ {Next1(s)}) = m
    BY <2>2, OneLess
  <2>4. Sum(f, s) = f[Next1(s)] + Sum(f, s \ {Next1(s)})
    BY <2>1, <1>1, SumSteps
  <2>5. f[Next1(s)] \in Int /\ Sum(f, s \ {Next1(s)}) \in Int
    BY <2>2, <2>3, <1>3
  <2> QED
    BY <2>4, <2>5
<1>4. Nat \subseteq T
  <2> HIDE DEF T
  <2> QED
    BY <1>2, <1>3, Induction
<1> QED
  BY <1>1, <1>4

\* Any element of the set can be taken first.
LEMMA SumTakes ==
    ASSUME NEW f, NEW S, IsFiniteSet(S), \A x \in S : f[x] \in Int
    PROVE  \A s \in SUBSET S : \A x \in s : Sum(f, s) = f[x] + Sum(f, s \ {x})
<1> DEFINE good(s) == \A x \in s : Sum(f, s) = f[x] + Sum(f, s \ {x})
           T == {m \in Nat : \A s \in SUBSET S : Cardinality(s) = m => good(s)}
<1>1. \A s \in SUBSET S : IsFiniteSet(s) /\ Cardinality(s) \in Nat
  BY FS_Subset, FS_CardinalityType
<1>2. 0 \in T
  BY <1>1, FS_EmptySet
<1>3. ASSUME NEW m \in Nat, m \in T PROVE m + 1 \in T
  <2> SUFFICES ASSUME NEW s \in SUBSET S, Cardinality(s) = m + 1, NEW x \in s
               PROVE  Sum(f, s) = f[x] + Sum(f, s \ {x})
    OBVIOUS
  <2> DEFINE c == Next1(s)
  <2>1. c \in s
    BY NextIn
  <2>2. Sum(f, s) = f[c] + Sum(f, s \ {c})
    BY <2>1, <1>1, SumSteps
  <2> HIDE DEF c
  <2>3. \A y \in s : s \ {y} \in SUBSET S /\ Cardinality(s \ {y}) = m
    BY OneLess
  <2>4. \A y \in s : good(s \ {y})
    BY <2>3, <1>3
  <2>5. CASE x = c
    BY <2>5, <2>2
  <2>6. CASE x # c
    <3> DEFINE rest == (s \ {x}) \ {c}
    <3>1. rest = (s \ {c}) \ {x} /\ c \in s \ {x} /\ x \in s \ {c}
      BY <2>1, <2>6
    <3>2. Sum(f, s \ {c}) = f[x] + Sum(f, rest)
      BY <3>1, <2>1, <2>4
    <3>3. Sum(f, s \ {x}) = f[c] + Sum(f, rest)
      BY <3>1, <2>4
    <3>4. Sum(f, rest) \in Int /\ f[x] \in Int /\ f[c] \in Int
      BY <2>1, SumTyped
    <3> HIDE DEF rest
    <3> QED
      BY <2>2, <3>2, <3>3, <3>4
  <2> QED
    BY <2>5, <2>6
<1>4. Nat \subseteq T
  <2> HIDE DEF T
  <2> QED
    BY <1>2, <1>3, Induction
<1> QED
  BY <1>1, <1>4

\* A sum of greater numbers is greater.
LEMMA SumGrows ==
    ASSUME NEW f, NEW g, NEW S, IsFiniteSet(S),
           \A x \in S : f[x] \in Int /\ g[x] \in Int /\ f[x] <= g[x]
    PROVE  Sum(f, S) <= Sum(g, S)
<1> DEFINE T == {m \in Nat : \A s \in SUBSET S : Cardinality(s) = m => Sum(f, s) <= Sum(g, s)}
<1>1. \A s \in SUBSET S : /\ IsFiniteSet(s) /\ Cardinality(s) \in Nat
                          /\ Sum(f, s) \in Int /\ Sum(g, s) \in Int
  BY FS_Subset, FS_CardinalityType, SumTyped
<1>2. 0 \in T
  <2> SUFFICES ASSUME NEW s \in SUBSET S, Cardinality(s) = 0 PROVE Sum(f, s) <= Sum(g, s)
    OBVIOUS
  <2>1. s = {}
    BY <1>1, FS_EmptySet
  <2>2. Sum(f, s) = 0 /\ Sum(g, s) = 0
    BY <2>1, <1>1, SumSteps
  <2> QED
    BY <2>2
<1>3. ASSUME NEW m \in Nat, m \in T PROVE m + 1 \in T
  <2> SUFFICES ASSUME NEW s \in SUBSET S, Cardinality(s) = m + 1 PROVE Sum(f, s) <= Sum(g, s)
    OBVIOUS
  <2>1. s # {}
    BY FS_EmptySet
  <2>2. PICK c : c = Next1(s)
    OBVIOUS
  <2>3. c \in s
    BY <2>1, <2>2, NextIn
  <2>4. s \ {c} \in SUBSET S /\ Cardinality(s \ {c}) = m
    <3>1. Cardinality(s \ {c}) = Cardinality(s) - 1
      BY <2>3, OneLess
    <3> QED
      BY <3>1
  <2>5. Sum(f, s) = f[c] + Sum(f, s \ {c}) /\ Sum(g, s) = g[c] + Sum(g, s \ {c})
    BY <2>1, <2>2, <1>1, SumSteps
  <2>6. Sum(f, s \ {c}) <= Sum(g, s \ {c})
    BY <2>4, <1>3
  <2>7. /\ Sum(f, s \ {c}) \in Int /\ Sum(g, s \ {c}) \in Int
        /\ f[c] \in Int /\ g[c] \in Int /\ f[c] <= g[c]
    BY <2>3, <2>4, <1>1
  <2> QED
    BY <2>5, <2>6, <2>7
<1>4. Nat \subseteq T
  <2> HIDE DEF T
  <2> QED
    BY <1>2, <1>3, Induction
<1> QED
  BY <1>1, <1>4

\* A sum depends on the numbers that it adds.
LEMMA SumSame ==
    ASSUME NEW f, NEW g, NEW S, IsFiniteSet(S),
           \A x \in S : f[x] \in Int /\ f[x] = g[x]
    PROVE  Sum(f, S) = Sum(g, S)
<1>1. Sum(f, S) <= Sum(g, S) /\ Sum(g, S) <= Sum(f, S)
  BY SumGrows
<1>2. Sum(f, S) \in Int /\ Sum(g, S) \in Int
  BY SumTyped
<1> QED
  BY <1>1, <1>2

\* A sum moves with each of its numbers.
LEMMA SumMoves ==
    ASSUME NEW f, NEW g, NEW S, IsFiniteSet(S), NEW k \in S,
           \A x \in S : f[x] \in Int /\ g[x] \in Int,
           \A x \in S \ {k} : g[x] = f[x]
    PROVE  Sum(g, S) = Sum(f, S) + (g[k] - f[k])
<1>1. Sum(f, S) = f[k] + Sum(f, S \ {k}) /\ Sum(g, S) = g[k] + Sum(g, S \ {k})
  BY SumTakes
<1>2. IsFiniteSet(S \ {k})
  BY FS_Subset
<1>3. Sum(f, S \ {k}) = Sum(g, S \ {k})
  BY <1>2, SumSame
<1>4. /\ Sum(f, S \ {k}) \in Int /\ Sum(f, S) \in Int /\ f[k] \in Int /\ g[k] \in Int
  BY SumTyped
<1> QED
  BY <1>1, <1>3, <1>4

\* Nothing sums to nothing, and one number to itself.
LEMMA SumFew ==
    ASSUME NEW f
    PROVE  /\ Sum(f, {}) = 0
           /\ \A x : f[x] \in Int => Sum(f, {x}) = f[x]
<1>1. Sum(f, {}) = 0
  BY SumSteps, FS_EmptySet
<1>2. ASSUME NEW x, f[x] \in Int PROVE Sum(f, {x}) = f[x]
  <2>1. IsFiniteSet({x}) /\ Next1({x}) = x /\ {x} \ {x} = {}
    BY FS_Singleton DEF Next1
  <2>2. Sum(f, {x}) = f[x] + Sum(f, {})
    BY <2>1, SumSteps
  <2> QED
    BY <2>2, <1>1, <1>2
<1> QED
  BY <1>1, <1>2

\* A function that is zero everywhere sums to zero.
LEMMA SumNothing ==
    ASSUME NEW f, NEW S, IsFiniteSet(S), \A x \in S : f[x] = 0
    PROVE  Sum(f, S) = 0
<1> DEFINE T == {m \in Nat : \A s \in SUBSET S : Cardinality(s) = m => Sum(f, s) = 0}
<1>1. \A s \in SUBSET S : IsFiniteSet(s) /\ Cardinality(s) \in Nat
  BY FS_Subset, FS_CardinalityType
<1>2. 0 \in T
  <2> SUFFICES ASSUME NEW s \in SUBSET S, Cardinality(s) = 0 PROVE Sum(f, s) = 0
    OBVIOUS
  <2>1. s = {}
    BY <1>1, FS_EmptySet
  <2> QED
    BY <2>1, <1>1, SumSteps
<1>3. ASSUME NEW m \in Nat, m \in T PROVE m + 1 \in T
  <2> SUFFICES ASSUME NEW s \in SUBSET S, Cardinality(s) = m + 1 PROVE Sum(f, s) = 0
    OBVIOUS
  <2>1. s # {}
    BY FS_EmptySet
  <2>2. PICK c : c = Next1(s)
    OBVIOUS
  <2>3. c \in s
    BY <2>1, <2>2, NextIn
  <2>4. s \ {c} \in SUBSET S /\ Cardinality(s \ {c}) = m
    <3>1. Cardinality(s \ {c}) = Cardinality(s) - 1
      BY <2>3, OneLess
    <3> QED
      BY <3>1
  <2>5. Sum(f, s) = f[c] + Sum(f, s \ {c})
    BY <2>1, <2>2, <1>1, SumSteps
  <2>6. Sum(f, s \ {c}) = 0 /\ f[c] = 0
    BY <2>3, <2>4, <1>3
  <2> QED
    BY <2>5, <2>6
<1>4. Nat \subseteq T
  <2> HIDE DEF T
  <2> QED
    BY <1>2, <1>3, Induction
<1> QED
  BY <1>1, <1>4

---------------------------------------------------------------------------
(* The inductive invariant *)

\* The order that works the leg of a record.
Leg(s, side) == OrderOf("entry", IF side = "BUY" THEN record[s].buy ELSE record[s].sell, s, side)

\* An open record has two legs, and counts its exits only.
RecordsInOrder ==
    \A s \in Symbols :
        /\ record[s].stage = "none" => record[s] = NoRecord /\ allotted[s] = 0
        /\ record[s].stage # "none" => /\ record[s].buy \in Venues /\ record[s].sell \in Venues
        /\ record[s].stage # "exiting" => record[s].attempts = 0

\* Entry orders work on the legs of records that are being entered.
EntriesOwned ==
    \A o \in Order : o.role = "entry" /\ Live(o) =>
        /\ record[o.symbol].stage = "entering"
        /\ o = Leg(o.symbol, o.side)

\* What was bought and what may still be is within what was allotted.
WithinAllotment ==
    \A s \in Symbols : record[s].stage # "none" =>
        /\ record[s].bought + working[Leg(s, "BUY")] <= allotted[s]
        /\ record[s].sold + working[Leg(s, "SELL")] <= allotted[s]

\* The allotments leave room under the limit of the strategy.
RoomLeft == Sum(allotted, Symbols) < Limits.max_strategy_exposure

\* A symbol has one hedge at a time, of one order's size.
OneHedge ==
    \A o \in Order : o.role = "hedge" /\ Live(o) =>
        /\ working[o] <= Limits.max_order_notional
        /\ \A p \in Order : p.role = "hedge" /\ p.symbol = o.symbol /\ Live(p) => p = o

\* A hedge that is alone trades towards zero, and not past it.
AloneHedges ==
    \A o \in Order : o.symbol \in alone /\ Live(o) =>
        /\ o.role = "hedge"
        /\ Sign(o.side) * Delta(position, o.symbol) < 0
        /\ working[o] <= Abs(Delta(position, o.symbol))

Authorised == /\ TypeOK /\ RecordsInOrder /\ EntriesOwned /\ WithinAllotment
              /\ RoomLeft /\ OneHedge /\ AloneHedges

---------------------------------------------------------------------------
(* What RUNE reads, and what it authorises *)

\* The limits are numbers.
LEMMA LimitsNumbered == LimitsAreNumbers
BY LimitsArePositive DEF LimitsAreNumbers

\* The positions of one venue, of one symbol and all of them are finitely many.
LEMMA FinitelyMany ==
    /\ IsFiniteSet(Venues \X Symbols)
    /\ \A v \in Venues : IsFiniteSet({v} \X Symbols)
    /\ \A s \in Symbols : IsFiniteSet(Venues \X {s})
<1>1. IsFiniteSet(Venues) /\ IsFiniteSet(Symbols)
  BY ExposureAssumption
<1>2. \A x : IsFiniteSet({x})
  BY FS_Singleton
<1> QED
  BY <1>1, <1>2, FS_Product

\* The deltas are integers.
LEMMA DeltaTyped ==
    ASSUME TypeOK, NEW s \in Symbols
    PROVE  Delta(position, s) \in Int
<1>1. \A k \in Venues \X {s} : position[k] \in Int
  BY DEF TypeOK
<1> QED
  BY <1>1, FinitelyMany, SumTyped DEF Delta

\* What RUNE reads of the account are integers.
LEMMA ContextTyped ==
    ASSUME TypeOK, NEW economical \in Int, NEW symbols \in SUBSET Symbols,
           NEW intent \in Intents(symbols, Venues)
    PROVE  ContextIsNumbers(intent, Context(economical))
<1> DEFINE size == [k \in Venues \X Symbols |-> Abs(position[k])]
           ctx == Context(economical)
<1>1. \A k \in Venues \X Symbols : size[k] \in Int
  BY DEF TypeOK, Abs
<1>2. Sum(size, Venues \X Symbols) \in Int
  BY <1>1, FinitelyMany, SumTyped
<1>3. ASSUME NEW v \in Venues PROVE Sum(size, {v} \X Symbols) \in Int
  <2>1. \A k \in {v} \X Symbols : size[k] \in Int
    BY <1>1
  <2> HIDE DEF size
  <2> QED
    BY <2>1, FinitelyMany, SumTyped
<1>4. Sum(allotted, Symbols) \in Int
  <2>1. \A s \in Symbols : allotted[s] \in Int
    BY DEF TypeOK
  <2> QED
    BY <2>1, ExposureAssumption, SumTyped
<1>5. /\ ctx.portfolio.gross = Sum(size, Venues \X Symbols)
      /\ ctx.portfolio.position = size
      /\ ctx.portfolio.venue = [v \in Venues |-> Sum(size, {v} \X Symbols)]
      /\ ctx.strategy = Sum(allotted, Symbols)
      /\ ctx.economical = economical
  BY DEF Context, PortfolioState, StrategyInUse
<1> HIDE DEF ctx
<1>6. ASSUME NEW leg \in Legs(intent)
      PROVE  PositionOf(intent, leg, ctx) \in Int /\ VenueExposure(leg, ctx) \in Int
  <2>1. leg \in Venues /\ intent.symbol \in Symbols
    BY DEF Legs, Intents
  <2>2. PositionOf(intent, leg, ctx) = size[<<leg, intent.symbol>>]
    BY <1>5 DEF PositionOf
  <2>3. VenueExposure(leg, ctx) = Sum(size, {leg} \X Symbols)
    BY <2>1, <1>5 DEF VenueExposure
  <2> HIDE DEF size
  <2> QED
    BY <2>1, <2>2, <2>3, <1>1, <1>3
<1> HIDE DEF size
<1>7. /\ ctx.portfolio.gross \in Int /\ ctx.strategy \in Int
      /\ ctx.economical # None => ctx.economical \in Int
  BY <1>2, <1>4, <1>5
<1> QED
  BY <1>6, <1>7 DEF ContextIsNumbers, ctx

\* The intents the loop decides.
LEMMA IntentTyped ==
    ASSUME NEW s \in Symbols, NEW v \in Venues, NEW w \in Venues, NEW notional \in Ladder
    PROVE  Intent(s, v, w, notional) \in Intents(Symbols, Venues)
BY ExposureAssumption DEF Intent, Intents

\* What RUNE authorises, on both legs, fits beside what the strategy carries.
LEMMA ApprovedFits ==
    ASSUME TypeOK, NEW s \in Symbols, NEW v \in Venues, NEW w \in Venues,
           NEW notional \in Ladder, NEW economical \in Ladder,
           Approved(Intent(s, v, w, notional), Context(economical)) > 0
    PROVE  LET size == Approved(Intent(s, v, w, notional), Context(economical)) IN
           /\ size \in Nat
           /\ StrategyInUse + size * LegCount <= Limits.max_strategy_exposure
<1> DEFINE intent == Intent(s, v, w, notional)
           ctx == Context(economical)
           sized == Sized(intent, ctx)
           size == Approved(intent, ctx)
<1>1. /\ intent \in Intents(Symbols, Venues) /\ intent.notional \in Int
      /\ ContextIsNumbers(intent, ctx)
  <2>1. economical \in Int
    BY ExposureAssumption
  <2> QED
    BY <2>1, IntentTyped, ContextTyped DEF Intents
<1>2. ctx.strategy = StrategyInUse
  BY DEF Context
<1> HIDE DEF intent, ctx
<1>3. /\ Headroom(intent, ctx) >= Limits.min_trade_notional
      /\ Blocking(SizeGates(sized, ctx) \cup OtherGates(sized, ctx)) = {}
      /\ size = sized.notional
  BY DEF Approved, intent, ctx
<1>4. Headroom(intent, ctx) \in Int
  BY <1>1, <1>3, LimitsNumbered, HeadroomBounds
<1>5. sized.notional = Least(intent.notional, Headroom(intent, ctx))
  BY <1>1 DEF Sized, Intents
<1>6. size \in Int
  BY <1>1, <1>3, <1>4, <1>5 DEF Least
<1>7. StrategyExposure(sized, ctx) = "PASS"
  <2>1. <<"MAX_STRATEGY_EXPOSURE", StrategyExposure(sized, ctx)>> \in SizeGates(sized, ctx)
    BY DEF SizeGates
  <2> HIDE DEF sized
  <2> QED
    BY <2>1, <1>3 DEF Blocking
<1>8. ctx.strategy + size * LegCount <= Limits.max_strategy_exposure
  BY <1>3, <1>7 DEF StrategyExposure, Check
<1> QED
  BY <1>2, <1>6, <1>8 DEF intent, ctx

\* An order by its name.
LEMMA Orders ==
    /\ \A role \in {"entry", "exit", "hedge"}, v \in Venues, s \in Symbols, side \in Sides :
          /\ OrderOf(role, v, s, side) \in Order
          /\ OrderOf(role, v, s, side).role = role /\ OrderOf(role, v, s, side).venue = v
          /\ OrderOf(role, v, s, side).symbol = s /\ OrderOf(role, v, s, side).side = side
    /\ \A o \in Order : /\ o = OrderOf(o.role, o.venue, o.symbol, o.side)
                        /\ o.role \in {"entry", "exit", "hedge"} /\ o.venue \in Venues
                        /\ o.symbol \in Symbols /\ o.side \in Sides
BY DEF Order, OrderOf

\* The legs of an open record are orders.
LEMMA Legged ==
    ASSUME RecordsInOrder, NEW s \in Symbols, record[s].stage # "none", NEW side \in Sides
    PROVE  Leg(s, side) \in Order /\ Leg(s, side).symbol = s /\ Leg(s, side).side = side
           /\ Leg(s, side).role = "entry"
BY Orders DEF RecordsInOrder, Leg

---------------------------------------------------------------------------
(* The venues: fills and ends *)

\* A change at one place moves the sums over the places that have it.
LEMMA SumShifts ==
    ASSUME NEW f, NEW g, NEW S, NEW k, IsFiniteSet(S),
           \A x \in S : f[x] \in Int /\ g[x] \in Int,
           \A x \in S : x # k => g[x] = f[x]
    PROVE  Sum(g, S) = IF k \in S THEN Sum(f, S) + (g[k] - f[k]) ELSE Sum(f, S)
<1>1. CASE k \in S
  <2>1. \A x \in S \ {k} : g[x] = f[x]
    OBVIOUS
  <2>2. Sum(g, S) = Sum(f, S) + (g[k] - f[k])
    BY <1>1, <2>1, SumMoves
  <2> QED
    BY <1>1, <2>2
<1>2. CASE k \notin S
  <2>1. \A x \in S : g[x] = f[x]
    BY <1>2
  <2>2. Sum(g, S) = Sum(f, S)
    BY <2>1, SumSame
  <2> QED
    BY <1>2, <2>2
<1> QED
  BY <1>1, <1>2

\* Positions f and g differ at k only.
Shifted(f, g, k) ==
    /\ f \in [Venues \X Symbols -> Int] /\ g \in [Venues \X Symbols -> Int]
    /\ k \in Venues \X Symbols
    /\ \A j \in Venues \X Symbols : j # k => g[j] = f[j]

\* A change at one place moves the delta of its symbol, and no other.
LEMMA DeltaShifts ==
    ASSUME NEW f, NEW g, NEW k, Shifted(f, g, k), NEW s \in Symbols
    PROVE  /\ k \in Venues \X {s} => Delta(g, s) = Delta(f, s) + (g[k] - f[k])
           /\ k \notin Venues \X {s} => Delta(g, s) = Delta(f, s)
<1>1. PICK S : S = Venues \X {s}
  OBVIOUS
<1>2. S \subseteq Venues \X Symbols /\ IsFiniteSet(S)
  BY <1>1, FinitelyMany
<1>3. /\ \A x \in S : f[x] \in Int /\ g[x] \in Int
      /\ \A x \in S : x # k => g[x] = f[x]
  BY <1>2 DEF Shifted
<1>4. Sum(g, S) = IF k \in S THEN Sum(f, S) + (g[k] - f[k]) ELSE Sum(f, S)
  BY <1>2, <1>3, SumShifts
<1> QED
  BY <1>1, <1>4 DEF Delta

\* A trade moves the delta of its symbol, and no other.
LEMMA DeltaMoves ==
    ASSUME TypeOK, NEW o \in Order, NEW q \in Int
    PROVE  LET p == [position EXCEPT ![<<o.venue, o.symbol>>] = @ + q * Sign(o.side)] IN
           /\ p \in [Venues \X Symbols -> Int]
           /\ Delta(p, o.symbol) = Delta(position, o.symbol) + q * Sign(o.side)
           /\ \A s \in Symbols \ {o.symbol} : Delta(p, s) = Delta(position, s)
<1>1. PICK f : f = position
  OBVIOUS
<1>2. PICK k : k = <<o.venue, o.symbol>>
  OBVIOUS
<1>3. PICK d : d = q * Sign(o.side)
  OBVIOUS
<1>4. PICK p : p = [f EXCEPT ![k] = @ + d]
  OBVIOUS
<1>5. /\ o.symbol \in Symbols /\ k \in Venues \X Symbols /\ k \in Venues \X {o.symbol}
      /\ \A s \in Symbols \ {o.symbol} : k \notin Venues \X {s}
  BY <1>2 DEF Order
<1>6. d \in Int
  BY <1>3 DEF Sign
<1>7. f \in [Venues \X Symbols -> Int]
  BY <1>1 DEF TypeOK
<1>8. p \in [Venues \X Symbols -> Int]
  BY <1>4, <1>5, <1>6, <1>7
<1>9. p[k] - f[k] = d /\ \A j \in Venues \X Symbols : j # k => p[j] = f[j]
  BY <1>4, <1>5, <1>6, <1>7
<1>10. \A s \in Symbols : /\ k \in Venues \X {s} => Delta(p, s) = Delta(f, s) + (p[k] - f[k])
                          /\ k \notin Venues \X {s} => Delta(p, s) = Delta(f, s)
  <2>1. Shifted(f, p, k)
    BY <1>5, <1>7, <1>8, <1>9 DEF Shifted
  <2> QED
    BY <2>1, DeltaShifts
<1>11. /\ Delta(p, o.symbol) = Delta(f, o.symbol) + d
       /\ \A s \in Symbols \ {o.symbol} : Delta(p, s) = Delta(f, s)
  BY <1>5, <1>9, <1>10
<1> QED
  BY <1>1, <1>2, <1>3, <1>4, <1>8, <1>11

\* A fill keeps the types.
LEMMA FillTyped ==
    ASSUME TypeOK, NEW o \in Order, NEW q \in Int, Fill(o, q)
    PROVE  TypeOK'
<1>1. q \in 1..working[o] /\ working[o] \in Nat
  BY DEF Fill, TypeOK
<1>2. working' \in [Order -> Nat]
  BY <1>1 DEF Fill, TypeOK
<1>3. position' \in [Venues \X Symbols -> Int]
  BY DeltaMoves DEF Fill
<1>4. record' \in [Symbols -> [stage : {"none", "entering", "held", "exiting"},
                              buy : Venues \cup {None}, sell : Venues \cup {None},
                              bought : Nat, sold : Nat,
                              attempts : 0..Most(1, MaxAttempts)]]
  <2>1. o.symbol \in Symbols /\ q \in Nat
    BY <1>1 DEF Order
  <2>2. CASE o.role # "entry"
    BY <2>2 DEF Fill, TypeOK
  <2> DEFINE Rec == [stage : {"none", "entering", "held", "exiting"},
                     buy : Venues \cup {None}, sell : Venues \cup {None},
                     bought : Nat, sold : Nat,
                     attempts : 0..Most(1, MaxAttempts)]
  <2>3. record \in [Symbols -> Rec]
    BY DEF TypeOK
  <2>4. \A r \in Rec : /\ [r EXCEPT !.bought = @ + q] \in Rec
                      /\ [r EXCEPT !.sold = @ + q] \in Rec
    <3> TAKE r \in Rec
    <3>1. r.bought + q \in Nat /\ r.sold + q \in Nat
      BY <2>1
    <3> QED
      BY <3>1
  <2> HIDE DEF Rec
  <2>5. CASE o.role = "entry" /\ o.side = "BUY"
    <3>1. record' = [record EXCEPT ![o.symbol].bought = @ + q]
      BY <2>5 DEF Fill
    <3> QED
      BY <2>1, <2>3, <2>4, <3>1 DEF Rec
  <2>6. CASE o.role = "entry" /\ o.side # "BUY"
    <3>1. record' = [record EXCEPT ![o.symbol].sold = @ + q]
      BY <2>6 DEF Fill
    <3> QED
      BY <2>1, <2>3, <2>4, <3>1 DEF Rec
  <2> QED
    BY <2>2, <2>5, <2>6
<1> QED
  BY <1>2, <1>3, <1>4 DEF Fill, TypeOK

\* What a fill leaves to trade.
LEMMA FillLeaves ==
    ASSUME TypeOK, NEW o \in Order, NEW q \in Int, Fill(o, q)
    PROVE  /\ q \in Nat /\ q # 0 /\ Live(o)
           /\ working'[o] = working[o] - q
           /\ \A p \in Order : /\ working[p] \in Nat /\ working'[p] \in Nat
                               /\ p # o => working'[p] = working[p]
                               /\ working'[p] <= working[p]
                               /\ Live(p)' => Live(p)
<1>1. q \in 1..working[o] /\ working \in [Order -> Nat]
  BY DEF Fill, TypeOK
<1>2. working' = [working EXCEPT ![o] = @ - q]
  BY DEF Fill
<1>3. q \in Nat /\ q # 0 /\ working[o] > 0 /\ working'[o] = working[o] - q
  BY <1>1, <1>2
<1>4. ASSUME NEW p \in Order
      PROVE  /\ working[p] \in Nat /\ working'[p] \in Nat
             /\ p # o => working'[p] = working[p]
             /\ working'[p] <= working[p]
             /\ working'[p] > 0 => working[p] > 0
  BY <1>1, <1>2, <1>3
<1> QED
  BY <1>3, <1>4 DEF Live

\* A fill leaves room under the limit of the strategy as it was.
LEMMA FillKeepsRoom ==
    ASSUME RoomLeft, NEW o \in Order, NEW q \in Int, Fill(o, q)
    PROVE  RoomLeft'
BY DEF Fill, RoomLeft

\* A fill brings a lone hedge and the delta closer to zero together.
LEMMA FillKeepsHedges ==
    ASSUME Authorised, NEW o \in Order, NEW q \in Int, Fill(o, q)
    PROVE  OneHedge' /\ AloneHedges'
<1> USE DEF Authorised
<1>1. /\ q \in Nat /\ q # 0 /\ Live(o)
      /\ working'[o] = working[o] - q
      /\ \A p \in Order : /\ working[p] \in Nat /\ working'[p] \in Nat
                          /\ p # o => working'[p] = working[p]
                          /\ working'[p] <= working[p]
                          /\ Live(p)' => Live(p)
  BY FillLeaves
<1>2. Limits.max_order_notional \in Nat
  BY LimitsArePositive
<1>3. OneHedge'
  BY <1>1, <1>2 DEF OneHedge
<1>4. /\ Delta(position', o.symbol) = Delta(position, o.symbol) + q * Sign(o.side)
      /\ \A s \in Symbols \ {o.symbol} : Delta(position', s) = Delta(position, s)
  BY DeltaMoves DEF Fill
<1>5. alone' = alone /\ o.symbol \in Symbols /\ o.side \in {"BUY", "SELL"}
  BY DEF Fill, Order, Sides
<1>6. ASSUME NEW p \in Order, p.symbol \in alone, Live(p)'
      PROVE  /\ p.role = "hedge"
             /\ Sign(p.side) * Delta(position', p.symbol) < 0
             /\ working'[p] <= Abs(Delta(position', p.symbol))
  <2> DEFINE d == Delta(position, p.symbol)
  <2>1. /\ p.role = "hedge" /\ Live(p) /\ p.symbol \in Symbols
        /\ Sign(p.side) * d < 0 /\ working[p] <= Abs(d)
    BY <1>1, <1>6 DEF AloneHedges, Order
  <2>2. CASE p = o
    <3>1. d \in Int /\ working[p] - q > 0 /\ working[p] \in Nat
      BY <2>1, <2>2, <1>1, <1>6, DeltaTyped DEF Live
    <3>2. Delta(position', p.symbol) = d + q * Sign(p.side)
      BY <2>2, <1>4
    <3> HIDE DEF d
    <3>3. CASE o.side = "BUY"
      <4>1. Sign(p.side) = 1
        BY <2>2, <3>3 DEF Sign
      <4>2. d < 0 /\ working[p] <= -d
        BY <4>1, <2>1, <3>1 DEF Abs
      <4>3. d + q < 0 /\ working[p] - q <= -(d + q)
        BY <4>2, <3>1, <1>1
      <4>4. d + q * Sign(p.side) = d + q /\ d + q \in Int
        BY <4>1, <3>1, <1>1
      <4> QED
        BY <4>1, <4>3, <4>4, <3>2, <2>1, <2>2, <1>1 DEF Abs
    <3>4. CASE o.side = "SELL"
      <4>1. Sign(p.side) = -1
        BY <2>2, <3>4 DEF Sign
      <4>2. d > 0 /\ working[p] <= d
        BY <4>1, <2>1, <3>1 DEF Abs
      <4>3. d - q > 0 /\ working[p] - q <= d - q
        BY <4>2, <3>1, <1>1
      <4>4. d + q * Sign(p.side) = d - q /\ d - q \in Int
        BY <4>1, <3>1, <1>1
      <4> QED
        BY <4>1, <4>3, <4>4, <3>2, <2>1, <2>2, <1>1 DEF Abs
    <3> QED
      BY <3>3, <3>4, <1>5
  <2>3. CASE p # o
    <3>1. o.symbol # p.symbol
      <4> SUFFICES ASSUME o.symbol = p.symbol PROVE FALSE
        OBVIOUS
      <4>1. o.role = "hedge"
        BY <1>1, <1>6 DEF AloneHedges
      <4> QED
        BY <4>1, <2>1, <2>3, <1>1 DEF OneHedge
    <3>2. Delta(position', p.symbol) = d
      BY <3>1, <2>1, <1>4
    <3> QED
      BY <3>2, <2>1, <2>3, <1>1
  <2> QED
    BY <2>2, <2>3
<1>7. AloneHedges'
  BY <1>5, <1>6 DEF AloneHedges
<1> QED
  BY <1>3, <1>7

\* A fill keeps the orders within what was authorised.
LEMMA FillKeeps ==
    ASSUME Authorised, NEW o \in Order, NEW q \in Int, Fill(o, q)
    PROVE  Authorised'
<1> USE DEF Authorised
<1>1. /\ q \in Nat /\ q # 0 /\ Live(o)
      /\ working'[o] = working[o] - q
      /\ \A p \in Order : /\ working[p] \in Nat /\ working'[p] \in Nat
                          /\ p # o => working'[p] = working[p]
                          /\ working'[p] <= working[p]
                          /\ Live(p)' => Live(p)
  BY FillLeaves
<1>2. /\ o.symbol \in Symbols /\ o.side \in {"BUY", "SELL"}
      /\ record \in [Symbols -> [stage : {"none", "entering", "held", "exiting"},
                              buy : Venues \cup {None}, sell : Venues \cup {None},
                              bought : Nat, sold : Nat,
                              attempts : 0..Most(1, MaxAttempts)]]
      /\ allotted' = allotted /\ alone' = alone
  BY DEF Order, Sides, Fill, TypeOK
<1>3. CASE o.role = "entry"
  <2>1. record[o.symbol].stage = "entering" /\ o = Leg(o.symbol, o.side)
    BY <1>1, <1>3 DEF EntriesOwned
  <2>2. record' = IF o.side = "BUY"
                  THEN [record EXCEPT ![o.symbol].bought = @ + q]
                  ELSE [record EXCEPT ![o.symbol].sold = @ + q]
    BY <1>3 DEF Fill
  <2>3. \A s \in Symbols :
           /\ record'[s].stage = record[s].stage /\ record'[s].attempts = record[s].attempts
           /\ record'[s].buy = record[s].buy /\ record'[s].sell = record[s].sell
           /\ s # o.symbol => record'[s] = record[s]
    BY <2>2, <1>2
  <2>4. /\ o.side = "BUY" => /\ record'[o.symbol].bought = record[o.symbol].bought + q
                             /\ record'[o.symbol].sold = record[o.symbol].sold
        /\ o.side = "SELL" => /\ record'[o.symbol].sold = record[o.symbol].sold + q
                              /\ record'[o.symbol].bought = record[o.symbol].bought
    BY <2>2, <1>2
  <2>5. \A s \in Symbols, side \in Sides : Leg(s, side)' = Leg(s, side)
    BY <2>3 DEF Leg
  <2>6. RecordsInOrder'
    BY <2>1, <2>3, <1>2 DEF RecordsInOrder
  <2>7. EntriesOwned'
    <3> SUFFICES ASSUME NEW p \in Order, p.role = "entry", Live(p)'
                 PROVE  record'[p.symbol].stage = "entering" /\ p = Leg(p.symbol, p.side)'
      BY DEF EntriesOwned
    <3>1. record[p.symbol].stage = "entering" /\ p = Leg(p.symbol, p.side)
      BY <1>1 DEF EntriesOwned
    <3>2. p.symbol \in Symbols /\ p.side \in Sides
      BY DEF Order
    <3> QED
      BY <3>1, <3>2, <2>3, <2>5
  <2>8. WithinAllotment'
    <3> SUFFICES ASSUME NEW s \in Symbols, record'[s].stage # "none"
                 PROVE  /\ record'[s].bought + working'[Leg(s, "BUY")] <= allotted[s]
                        /\ record'[s].sold + working'[Leg(s, "SELL")] <= allotted[s]
      BY <1>2, <2>5 DEF WithinAllotment, Sides
    <3>1. /\ record[s].bought + working[Leg(s, "BUY")] <= allotted[s]
          /\ record[s].sold + working[Leg(s, "SELL")] <= allotted[s]
          /\ record[s].bought \in Nat /\ record[s].sold \in Nat /\ allotted[s] \in Nat
      BY <2>3 DEF WithinAllotment, TypeOK
    <3>2. /\ Leg(s, "BUY") \in Order /\ Leg(s, "SELL") \in Order
          /\ Leg(s, "BUY").side = "BUY" /\ Leg(s, "SELL").side = "SELL"
          /\ Leg(s, "BUY").symbol = s /\ Leg(s, "SELL").symbol = s
      BY <2>3, Legged DEF Sides
    <3>3. /\ working[Leg(s, "BUY")] \in Nat /\ working'[Leg(s, "BUY")] \in Nat
          /\ working[Leg(s, "SELL")] \in Nat /\ working'[Leg(s, "SELL")] \in Nat
      BY <3>2, <1>1
    <3>4. CASE s # o.symbol
      <4>1. Leg(s, "BUY") # o /\ Leg(s, "SELL") # o
        BY <3>2, <3>4
      <4> QED
        BY <3>1, <3>2, <3>4, <4>1, <2>3, <1>1
    <3>5. CASE s = o.symbol /\ o.side = "BUY"
      <4>1. Leg(s, "BUY") = o /\ Leg(s, "SELL") # o
        BY <3>2, <3>5, <2>1
      <4>2. working'[Leg(s, "BUY")] = working[Leg(s, "BUY")] - q
        BY <4>1, <1>1
      <4>3. working'[Leg(s, "SELL")] = working[Leg(s, "SELL")]
        BY <4>1, <3>2, <1>1
      <4> QED
        BY <3>1, <3>3, <3>5, <4>2, <4>3, <2>4, <1>1
    <3>6. CASE s = o.symbol /\ o.side = "SELL"
      <4>1. Leg(s, "SELL") = o /\ Leg(s, "BUY") # o
        BY <3>2, <3>6, <2>1
      <4>2. working'[Leg(s, "SELL")] = working[Leg(s, "SELL")] - q
        BY <4>1, <1>1
      <4>3. working'[Leg(s, "BUY")] = working[Leg(s, "BUY")]
        BY <4>1, <3>2, <1>1
      <4> QED
        BY <3>1, <3>3, <3>6, <4>2, <4>3, <2>4, <1>1
    <3> QED
      BY <3>4, <3>5, <3>6, <1>2
  <2> QED
    BY <2>6, <2>7, <2>8, <1>3, FillTyped, FillKeepsHedges, FillKeepsRoom
<1>4. CASE o.role # "entry"
  <2>1. record' = record
    BY <1>4 DEF Fill
  <2>2. RecordsInOrder' /\ EntriesOwned'
    BY <2>1, <1>1, <1>2 DEF RecordsInOrder, EntriesOwned, Leg, Order
  <2>3. WithinAllotment'
    <3> SUFFICES ASSUME NEW s \in Symbols, record[s].stage # "none"
                 PROVE  /\ record[s].bought + working'[Leg(s, "BUY")] <= allotted[s]
                        /\ record[s].sold + working'[Leg(s, "SELL")] <= allotted[s]
      BY <2>1, <1>2 DEF WithinAllotment, Leg
    <3>1. Leg(s, "BUY") # o /\ Leg(s, "SELL") # o
      BY <1>4, Legged DEF Sides
    <3>2. Leg(s, "BUY") \in Order /\ Leg(s, "SELL") \in Order
      BY Legged DEF Sides
    <3> QED
      BY <3>1, <3>2, <1>1 DEF WithinAllotment
  <2> QED
    BY <2>2, <2>3, FillTyped, FillKeepsHedges, FillKeepsRoom
<1> QED
  BY <1>3, <1>4

\* An order that ends leaves less to trade.
LEMMA EndKeeps ==
    ASSUME Authorised, NEW o \in Order, End(o)
    PROVE  Authorised'
<1> USE DEF Authorised
<1>1. /\ working' = [working EXCEPT ![o] = 0] /\ working \in [Order -> Nat]
      /\ UNCHANGED <<position, record, allotted, entries, alone>>
  BY DEF End, TypeOK
<1>2. \A p \in Order : /\ working[p] \in Nat /\ working'[p] \in Nat
                       /\ working'[p] <= working[p]
                       /\ Live(p)' => Live(p)
                       /\ Live(p)' => working'[p] = working[p]
  BY <1>1 DEF Live
<1>3. TypeOK'
  BY <1>1 DEF TypeOK
<1>4. RecordsInOrder' /\ RoomLeft'
  BY <1>1 DEF RecordsInOrder, RoomLeft
<1>5. EntriesOwned'
  BY <1>1, <1>2 DEF EntriesOwned, Leg
<1>6. WithinAllotment'
  <2> SUFFICES ASSUME NEW s \in Symbols, record[s].stage # "none"
               PROVE  /\ record[s].bought + working'[Leg(s, "BUY")] <= allotted[s]
                      /\ record[s].sold + working'[Leg(s, "SELL")] <= allotted[s]
    BY <1>1 DEF WithinAllotment, Leg
  <2>1. Leg(s, "BUY") \in Order /\ Leg(s, "SELL") \in Order
    BY Legged DEF Sides
  <2>2. record[s].bought \in Nat /\ record[s].sold \in Nat /\ allotted[s] \in Nat
    BY DEF TypeOK
  <2>3. /\ record[s].bought + working[Leg(s, "BUY")] <= allotted[s]
        /\ record[s].sold + working[Leg(s, "SELL")] <= allotted[s]
    BY DEF WithinAllotment
  <2>4. /\ working[Leg(s, "BUY")] \in Nat /\ working'[Leg(s, "BUY")] \in Nat
        /\ working'[Leg(s, "BUY")] <= working[Leg(s, "BUY")]
        /\ working[Leg(s, "SELL")] \in Nat /\ working'[Leg(s, "SELL")] \in Nat
        /\ working'[Leg(s, "SELL")] <= working[Leg(s, "SELL")]
    BY <2>1, <1>2
  <2> QED
    BY <2>2, <2>3, <2>4
<1>7. OneHedge'
  <2> SUFFICES ASSUME NEW p \in Order, p.role = "hedge", Live(p)'
               PROVE  /\ working'[p] <= Limits.max_order_notional
                      /\ \A r \in Order :
                            r.role = "hedge" /\ r.symbol = p.symbol /\ Live(r)' => r = p
    BY DEF OneHedge
  <2> QED
    BY <1>2 DEF OneHedge
<1>8. AloneHedges'
  BY <1>1, <1>2 DEF AloneHedges
<1> QED
  BY <1>3, <1>4, <1>5, <1>6, <1>7, <1>8

---------------------------------------------------------------------------
(* The hedges *)

\* What is not in flight.
LEMMA NoneLive ==
    ASSUME NEW roles, NEW s
    PROVE  LiveOf(roles, s) = {} <=> \A o \in Order : o.role \in roles /\ o.symbol = s => ~Live(o)
BY DEF LiveOf

\* A hedge is of the side that brings the delta towards zero, and not past it.
LEMMA HedgeSized ==
    ASSUME TypeOK, NEW s \in Symbols, Abs(Delta(position, s)) > Tolerance
    PROVE  /\ HedgeSide(s) \in Sides /\ HedgeNotional(s) \in Nat
           /\ HedgeNotional(s) <= Limits.max_order_notional
           /\ Sign(HedgeSide(s)) * Delta(position, s) < 0
           /\ HedgeNotional(s) <= Abs(Delta(position, s))
<1>1. PICK d : d = Delta(position, s)
  OBVIOUS
<1>2. d \in Int /\ Abs(d) > Tolerance /\ Tolerance \in Nat
  BY <1>1, DeltaTyped, ExposureAssumption
<1>3. Limits.max_order_notional \in Nat
  BY LimitsArePositive
<1>4. Abs(d) \in Nat
  BY <1>2 DEF Abs
<1>5. HedgeSide(s) = IF d > 0 THEN "SELL" ELSE "BUY"
  BY <1>1 DEF HedgeSide
<1>6. HedgeNotional(s) = Least(Abs(d), Limits.max_order_notional)
  BY <1>1 DEF HedgeNotional
<1>7. CASE d > 0
  <2>1. HedgeSide(s) = "SELL" /\ Sign(HedgeSide(s)) = -1
    BY <1>5, <1>7 DEF Sign
  <2> QED
    BY <2>1, <1>1, <1>2, <1>3, <1>4, <1>6, <1>7 DEF Least, Sides
<1>8. CASE d < 0
  <2>1. HedgeSide(s) = "BUY" /\ Sign(HedgeSide(s)) = 1
    BY <1>2, <1>5, <1>8 DEF Sign
  <2> QED
    BY <2>1, <1>1, <1>2, <1>3, <1>4, <1>6, <1>8 DEF Least, Sides
<1> QED
  BY <1>2, <1>7, <1>8 DEF Abs

\* A hedge is sent when none works, for the delta there is.
LEMMA HedgeKeeps ==
    ASSUME Authorised, NEW s \in Symbols, NEW v \in Venues, Hedge(s, v)
    PROVE  Authorised'
<1> USE DEF Authorised
<1>1. PICK o : o = OrderOf("hedge", v, s, HedgeSide(s))
  OBVIOUS
<1>2. PICK n : n = HedgeNotional(s)
  OBVIOUS
<1>3. Abs(Delta(position, s)) > Tolerance /\ LiveOf({"hedge"}, s) = {}
  BY DEF Hedge, HedgeInFlight
<1>4. /\ n \in Nat /\ n <= Limits.max_order_notional /\ HedgeSide(s) \in Sides
      /\ Sign(HedgeSide(s)) * Delta(position, s) < 0
      /\ n <= Abs(Delta(position, s))
  BY <1>2, <1>3, HedgeSized
<1>5. o \in Order /\ o.role = "hedge" /\ o.symbol = s /\ o.side = HedgeSide(s)
  BY <1>1, <1>4, Orders
<1>6. /\ UNCHANGED <<position, record, allotted, entries>>
      /\ working \in [Order -> Nat]
      /\ working' = [working EXCEPT ![o] = @ + n]
      /\ alone' = IF LiveOf({"entry", "exit", "hedge"}, s) = {} THEN alone \cup {s} ELSE alone \ {s}
  BY <1>1, <1>2 DEF Hedge, TypeOK
<1>7. \A p \in Order : p.role = "hedge" /\ p.symbol = s => ~Live(p)
  BY <1>3, NoneLive
<1>8. working[o] = 0
  BY <1>5, <1>6, <1>7 DEF Live
<1>9. /\ working' \in [Order -> Nat] /\ working'[o] = n
      /\ \A p \in Order : p # o => working'[p] = working[p] /\ (Live(p)' <=> Live(p))
  BY <1>4, <1>5, <1>6, <1>8 DEF Live
<1>10. TypeOK'
  BY <1>6, <1>9 DEF TypeOK
<1>11. RecordsInOrder' /\ RoomLeft'
  BY <1>6 DEF RecordsInOrder, RoomLeft
<1>12. EntriesOwned'
  BY <1>5, <1>6, <1>9 DEF EntriesOwned, Leg
<1>13. WithinAllotment'
  <2> SUFFICES ASSUME NEW r \in Symbols, record[r].stage # "none"
               PROVE  /\ record[r].bought + working'[Leg(r, "BUY")] <= allotted[r]
                      /\ record[r].sold + working'[Leg(r, "SELL")] <= allotted[r]
    BY <1>6 DEF WithinAllotment, Leg
  <2>1. /\ Leg(r, "BUY") # o /\ Leg(r, "SELL") # o
        /\ Leg(r, "BUY") \in Order /\ Leg(r, "SELL") \in Order
    BY <1>5, Legged DEF Sides
  <2> QED
    BY <2>1, <1>9 DEF WithinAllotment
<1>14. OneHedge'
  <2> SUFFICES ASSUME NEW p \in Order, p.role = "hedge", Live(p)'
               PROVE  /\ working'[p] <= Limits.max_order_notional
                      /\ \A r \in Order :
                            r.role = "hedge" /\ r.symbol = p.symbol /\ Live(r)' => r = p
    BY DEF OneHedge
  <2>1. CASE p = o
    BY <2>1, <1>4, <1>5, <1>7, <1>9
  <2>2. CASE p # o
    <3>1. Live(p) /\ p.symbol # s /\ working'[p] = working[p]
      BY <2>2, <1>7, <1>9
    <3> QED
      BY <3>1, <1>5, <1>9 DEF OneHedge
  <2> QED
    BY <2>1, <2>2
<1>15. AloneHedges'
  <2> SUFFICES ASSUME NEW p \in Order, p.symbol \in alone', Live(p)'
               PROVE  /\ p.role = "hedge"
                      /\ Sign(p.side) * Delta(position, p.symbol) < 0
                      /\ working'[p] <= Abs(Delta(position, p.symbol))
    BY <1>6 DEF AloneHedges
  <2>1. CASE p = o
    BY <2>1, <1>4, <1>5, <1>9
  <2>2. CASE p # o
    <3>1. Live(p) /\ working'[p] = working[p]
      BY <2>2, <1>9
    <3>2. p.symbol # s
      <4> SUFFICES ASSUME p.symbol = s PROVE FALSE
        OBVIOUS
      <4>1. LiveOf({"entry", "exit", "hedge"}, s) = {}
        BY <1>6
      <4> QED
        BY <4>1, <3>1, NoneLive, Orders
    <3>3. p.symbol \in alone
      BY <3>2, <1>6
    <3> QED
      BY <3>1, <3>3 DEF AloneHedges
  <2> QED
    BY <2>1, <2>2
<1> QED
  BY <1>10, <1>11, <1>12, <1>13, <1>14, <1>15

---------------------------------------------------------------------------
(* The decisions *)

\* What an allotment adds to the strategy, or what is given back leaves it.
LEMMA AllotmentMoves ==
    ASSUME TypeOK, NEW s \in Symbols, NEW n \in Nat,
           allotted' = [allotted EXCEPT ![s] = n]
    PROVE  /\ allotted' \in [Symbols -> Nat]
           /\ Sum(allotted, Symbols) \in Int /\ Sum(allotted', Symbols) \in Int
           /\ Sum(allotted', Symbols) = Sum(allotted, Symbols) + (n - allotted[s])
<1>1. PICK f : f = allotted
  OBVIOUS
<1>2. PICK g : g = allotted'
  OBVIOUS
<1>3. f \in [Symbols -> Nat] /\ g = [f EXCEPT ![s] = n]
  BY <1>1, <1>2 DEF TypeOK
<1>4. g \in [Symbols -> Nat] /\ g[s] = n /\ \A x \in Symbols : x # s => g[x] = f[x]
  BY <1>3
<1>5. IsFiniteSet(Symbols)
  BY ExposureAssumption
<1>6. \A x \in Symbols : f[x] \in Int /\ g[x] \in Int
  BY <1>3, <1>4
<1>7. Sum(f, Symbols) \in Int /\ Sum(g, Symbols) \in Int
  BY <1>5, <1>6, SumTyped
<1>8. Sum(g, Symbols) = Sum(f, Symbols) + (g[s] - f[s])
  <2>1. Sum(g, Symbols) = IF s \in Symbols THEN Sum(f, Symbols) + (g[s] - f[s]) ELSE Sum(f, Symbols)
    BY <1>4, <1>5, <1>6, SumShifts
  <2> QED
    BY <2>1
<1> QED
  BY <1>1, <1>2, <1>4, <1>7, <1>8

\* A decision opens a record with an order on each leg, within what RUNE allowed.
LEMMA DecideKeeps ==
    ASSUME Authorised, NEW s \in Symbols, NEW v \in Venues, NEW w \in Venues,
           NEW notional \in Ladder, NEW economical \in Ladder,
           Decide(s, v, w, notional, economical)
    PROVE  Authorised'
<1> USE DEF Authorised
<1>1. PICK n : n = Approved(Intent(s, v, w, notional), Context(economical))
  OBVIOUS
<1>2. PICK b, c : b = OrderOf("entry", v, s, "BUY") /\ c = OrderOf("entry", w, s, "SELL")
  OBVIOUS
<1>3. PICK r : r = [NoRecord EXCEPT !.stage = "entering", !.buy = v, !.sell = w]
  OBVIOUS
<1>4. /\ record[s].stage = "none" /\ n > 0 /\ entries < MaxEntries
      /\ working' = [working EXCEPT ![b] = n, ![c] = n]
      /\ record' = [record EXCEPT ![s] = r]
      /\ allotted' = [allotted EXCEPT ![s] = n]
      /\ entries' = entries + 1 /\ alone' = alone \ {s} /\ position' = position
  BY <1>1, <1>2, <1>3 DEF Decide
<1>5. n \in Nat /\ Sum(allotted, Symbols) + n * LegCount <= Limits.max_strategy_exposure
  BY <1>1, <1>4, ApprovedFits DEF StrategyInUse
<1>6. /\ b \in Order /\ c \in Order /\ b # c /\ b.role = "entry" /\ c.role = "entry"
      /\ b.symbol = s /\ c.symbol = s /\ b.side = "BUY" /\ c.side = "SELL"
  <2>1. b \in Order /\ b.role = "entry" /\ b.symbol = s /\ b.side = "BUY"
    BY <1>2, Orders DEF Sides
  <2>2. c \in Order /\ c.role = "entry" /\ c.symbol = s /\ c.side = "SELL"
    BY <1>2, Orders DEF Sides
  <2> QED
    BY <2>1, <2>2
<1>7. /\ r.stage = "entering" /\ r.buy = v /\ r.sell = w /\ r.bought = 0 /\ r.sold = 0
      /\ r.attempts = 0
      /\ r \in [stage : {"none", "entering", "held", "exiting"},
                buy : Venues \cup {None}, sell : Venues \cup {None},
                bought : Nat, sold : Nat, attempts : 0..Most(1, MaxAttempts)]
  <2>1. r = [stage |-> "entering", buy |-> v, sell |-> w, bought |-> 0, sold |-> 0, attempts |-> 0]
    BY <1>3 DEF NoRecord
  <2>2. 0 \in 0..Most(1, MaxAttempts)
    BY ExposureAssumption DEF Most
  <2> QED
    BY <2>1, <2>2
<1>8. /\ record'[s] = r
      /\ \A x \in Symbols : x # s => record'[x] = record[x]
      /\ record' \in [Symbols -> [stage : {"none", "entering", "held", "exiting"},
                                  buy : Venues \cup {None}, sell : Venues \cup {None},
                                  bought : Nat, sold : Nat,
                                  attempts : 0..Most(1, MaxAttempts)]]
  BY <1>4, <1>7 DEF TypeOK
<1>9. /\ working' \in [Order -> Nat] /\ working'[b] = n /\ working'[c] = n
      /\ \A p \in Order : p # b /\ p # c => working'[p] = working[p] /\ (Live(p)' <=> Live(p))
  BY <1>4, <1>5, <1>6 DEF TypeOK, Live
<1>10. \A p \in Order : p.symbol # s \/ p.role # "entry" =>
          working'[p] = working[p] /\ (Live(p)' <=> Live(p))
  BY <1>6, <1>9
<1>11. allotted[s] = 0 /\ allotted \in [Symbols -> Nat]
  BY <1>4 DEF RecordsInOrder, TypeOK
<1>12. TypeOK'
  <2>1. allotted' \in [Symbols -> Nat]
    BY <1>4, <1>5, <1>11
  <2>2. entries' \in 0..MaxEntries
    BY <1>4, ExposureAssumption DEF TypeOK
  <2> QED
    BY <1>4, <1>8, <1>9, <2>1, <2>2 DEF TypeOK
<1>13. RecordsInOrder'
  BY <1>4, <1>7, <1>8, <1>11 DEF RecordsInOrder
<1>14. /\ Leg(s, "BUY")' = b /\ Leg(s, "SELL")' = c
       /\ \A x \in Symbols, side \in Sides : x # s => Leg(x, side)' = Leg(x, side)
  BY <1>2, <1>7, <1>8 DEF Leg
<1>15. EntriesOwned'
  <2> SUFFICES ASSUME NEW p \in Order, p.role = "entry", Live(p)'
               PROVE  record'[p.symbol].stage = "entering" /\ p = Leg(p.symbol, p.side)'
    BY DEF EntriesOwned
  <2>1. CASE p = b \/ p = c
    BY <2>1, <1>6, <1>7, <1>8, <1>14
  <2>2. CASE p # b /\ p # c
    <3>1. Live(p)
      BY <2>2, <1>9
    <3>2. record[p.symbol].stage = "entering" /\ p = Leg(p.symbol, p.side)
      BY <3>1 DEF EntriesOwned
    <3>3. p.symbol # s /\ p.symbol \in Symbols /\ p.side \in Sides
      BY <3>2, <1>4 DEF Order
    <3> QED
      BY <3>2, <3>3, <1>8, <1>14
  <2> QED
    BY <2>1, <2>2
<1>16. WithinAllotment'
  <2> SUFFICES ASSUME NEW x \in Symbols, record'[x].stage # "none"
               PROVE  /\ record'[x].bought + working'[Leg(x, "BUY")'] <= allotted'[x]
                      /\ record'[x].sold + working'[Leg(x, "SELL")'] <= allotted'[x]
    BY DEF WithinAllotment
  <2>1. CASE x = s
    <3>1. allotted'[x] = n
      BY <2>1, <1>4, <1>11
    <3> QED
      BY <2>1, <3>1, <1>5, <1>7, <1>8, <1>9, <1>14
  <2>2. CASE x # s
    <3>1. record'[x] = record[x] /\ allotted'[x] = allotted[x]
      BY <2>2, <1>4, <1>8, <1>11
    <3>2. /\ Leg(x, "BUY") \in Order /\ Leg(x, "BUY").symbol = x
          /\ Leg(x, "SELL") \in Order /\ Leg(x, "SELL").symbol = x
      BY <3>1, Legged DEF Sides
    <3>3. /\ working'[Leg(x, "BUY")] = working[Leg(x, "BUY")]
          /\ working'[Leg(x, "SELL")] = working[Leg(x, "SELL")]
      BY <3>2, <2>2, <1>10
    <3>4. Leg(x, "BUY")' = Leg(x, "BUY") /\ Leg(x, "SELL")' = Leg(x, "SELL")
      BY <2>2, <1>14 DEF Sides
    <3>5. /\ record[x].bought + working[Leg(x, "BUY")] <= allotted[x]
          /\ record[x].sold + working[Leg(x, "SELL")] <= allotted[x]
      BY <3>1 DEF WithinAllotment
    <3> QED
      BY <3>1, <3>3, <3>4, <3>5
  <2> QED
    BY <2>1, <2>2
<1>17. RoomLeft'
  <2>1. /\ Sum(allotted, Symbols) \in Int
        /\ Sum(allotted', Symbols) = Sum(allotted, Symbols) + (n - allotted[s])
    BY <1>4, <1>5, AllotmentMoves
  <2>2. Limits.max_strategy_exposure \in Nat
    BY LimitsArePositive
  <2> QED
    BY <2>1, <2>2, <1>4, <1>5, <1>11 DEF RoomLeft, LegCount
<1>18. OneHedge'
  BY <1>10 DEF OneHedge
<1>19. AloneHedges'
  <2> SUFFICES ASSUME NEW p \in Order, p.symbol \in alone', Live(p)'
               PROVE  /\ p.role = "hedge"
                      /\ Sign(p.side) * Delta(position, p.symbol) < 0
                      /\ working'[p] <= Abs(Delta(position, p.symbol))
    BY <1>4 DEF AloneHedges
  <2>1. p.symbol # s /\ p.symbol \in alone
    BY <1>4
  <2> QED
    BY <2>1, <1>10 DEF AloneHedges
<1> QED
  BY <1>12, <1>13, <1>15, <1>16, <1>17, <1>18, <1>19

---------------------------------------------------------------------------
(* The records *)

\* A closed record gives its allotment back; no entry of its symbol is working.
LEMMA ClosedKeeps ==
    ASSUME Authorised, NEW s \in Symbols, Closed(s),
           \A p \in Order : p.role = "entry" /\ p.symbol = s => ~Live(p),
           UNCHANGED <<position, working, entries, alone>>
    PROVE  Authorised'
<1> USE DEF Authorised
<1>1. /\ record' = [record EXCEPT ![s] = NoRecord] /\ allotted' = [allotted EXCEPT ![s] = 0]
  BY DEF Closed
<1>2. /\ NoRecord.stage = "none" /\ NoRecord.attempts = 0
      /\ NoRecord \in [stage : {"none", "entering", "held", "exiting"},
                       buy : Venues \cup {None}, sell : Venues \cup {None},
                       bought : Nat, sold : Nat, attempts : 0..Most(1, MaxAttempts)]
  BY ExposureAssumption DEF NoRecord, Most
<1>3. /\ record'[s] = NoRecord /\ allotted'[s] = 0
      /\ allotted[s] \in Nat /\ allotted' \in [Symbols -> Nat]
      /\ \A x \in Symbols : x # s => record'[x] = record[x] /\ allotted'[x] = allotted[x]
  BY <1>1 DEF TypeOK
<1>4. record' \in [Symbols -> [stage : {"none", "entering", "held", "exiting"},
                               buy : Venues \cup {None}, sell : Venues \cup {None},
                               bought : Nat, sold : Nat, attempts : 0..Most(1, MaxAttempts)]]
  BY <1>1, <1>2 DEF TypeOK
<1>5. TypeOK'
  BY <1>3, <1>4 DEF TypeOK
<1>6. RecordsInOrder'
  BY <1>2, <1>3 DEF RecordsInOrder
<1>7. \A x \in Symbols, side \in Sides : x # s => Leg(x, side)' = Leg(x, side)
  BY <1>3 DEF Leg
<1>8. EntriesOwned'
  <2> SUFFICES ASSUME NEW p \in Order, p.role = "entry", Live(p)
               PROVE  record'[p.symbol].stage = "entering" /\ p = Leg(p.symbol, p.side)'
    BY DEF EntriesOwned, Live
  <2>1. p.symbol # s /\ p.symbol \in Symbols /\ p.side \in Sides
    BY DEF Order
  <2> QED
    BY <2>1, <1>3, <1>7 DEF EntriesOwned
<1>9. WithinAllotment'
  <2> SUFFICES ASSUME NEW x \in Symbols, record'[x].stage # "none"
               PROVE  /\ record'[x].bought + working[Leg(x, "BUY")'] <= allotted'[x]
                      /\ record'[x].sold + working[Leg(x, "SELL")'] <= allotted'[x]
    BY DEF WithinAllotment
  <2>1. x # s
    BY <1>2, <1>3
  <2>2. record'[x] = record[x] /\ allotted'[x] = allotted[x]
    BY <2>1, <1>3
  <2>3. Leg(x, "BUY")' = Leg(x, "BUY") /\ Leg(x, "SELL")' = Leg(x, "SELL")
    BY <2>1, <1>7 DEF Sides
  <2> QED
    BY <2>2, <2>3 DEF WithinAllotment
<1>10. RoomLeft'
  <2>1. /\ Sum(allotted, Symbols) \in Int
        /\ Sum(allotted', Symbols) = Sum(allotted, Symbols) + (0 - allotted[s])
    BY <1>1, AllotmentMoves
  <2>2. Limits.max_strategy_exposure \in Nat
    BY LimitsArePositive
  <2> QED
    BY <2>1, <2>2, <1>3 DEF RoomLeft
<1>11. OneHedge' /\ AloneHedges'
  BY DEF OneHedge, AloneHedges, Live
<1> QED
  BY <1>5, <1>6, <1>8, <1>9, <1>10, <1>11

\* A record that goes on: its stage and its attempts change, and what works for it does not.
LEMMA StageKeeps ==
    ASSUME Authorised, NEW s \in Symbols, NEW stage \in {"held", "exiting"},
           NEW attempts \in 0..Most(1, MaxAttempts), stage = "held" => attempts = 0,
           record[s].stage # "none",
           \A p \in Order : p.role = "entry" /\ p.symbol = s => ~Live(p),
           record' = [record EXCEPT ![s].stage = stage, ![s].attempts = attempts],
           \A p \in Order : p.role # "exit" \/ p.symbol # s => working'[p] = working[p],
           working' \in [Order -> Nat],
           UNCHANGED <<working, alone>> \/ alone' = alone \ {s},
           UNCHANGED <<position, allotted, entries>>
    PROVE  Authorised'
<1> USE DEF Authorised
<1> DEFINE Rec == [stage : {"none", "entering", "held", "exiting"},
                   buy : Venues \cup {None}, sell : Venues \cup {None},
                   bought : Nat, sold : Nat, attempts : 0..Most(1, MaxAttempts)]
<1>1. record \in [Symbols -> Rec]
  BY DEF TypeOK
<1>2. PICK r : r = [record[s] EXCEPT !.stage = stage, !.attempts = attempts]
  OBVIOUS
<1>3. /\ r \in Rec /\ r.stage = stage /\ r.attempts = attempts
      /\ r.buy = record[s].buy /\ r.sell = record[s].sell
      /\ r.bought = record[s].bought /\ r.sold = record[s].sold
  BY <1>1, <1>2
<1> HIDE DEF Rec
<1>4. record' = [record EXCEPT ![s] = r]
  BY <1>1, <1>2
<1>5. /\ record' \in [Symbols -> Rec] /\ record'[s] = r
      /\ \A x \in Symbols : x # s => record'[x] = record[x]
  BY <1>1, <1>3, <1>4
<1>6. \A p \in Order : p.role # "exit" \/ p.symbol # s => (Live(p)' <=> Live(p))
  BY DEF Live
<1>7. TypeOK'
  BY <1>5 DEF TypeOK, Rec
<1>8. RecordsInOrder'
  BY <1>3, <1>5 DEF RecordsInOrder
<1>9. \A x \in Symbols, side \in Sides : Leg(x, side)' = Leg(x, side)
  BY <1>3, <1>5 DEF Leg
<1>10. EntriesOwned'
  <2> SUFFICES ASSUME NEW p \in Order, p.role = "entry", Live(p)'
               PROVE  record'[p.symbol].stage = "entering" /\ p = Leg(p.symbol, p.side)'
    BY DEF EntriesOwned
  <2>1. Live(p)
    BY <1>6
  <2>2. p.symbol # s /\ p.symbol \in Symbols /\ p.side \in Sides
    BY <2>1 DEF Order
  <2> QED
    BY <2>1, <2>2, <1>5, <1>9 DEF EntriesOwned
<1>11. WithinAllotment'
  <2> SUFFICES ASSUME NEW x \in Symbols, record'[x].stage # "none"
               PROVE  /\ record'[x].bought + working'[Leg(x, "BUY")'] <= allotted[x]
                      /\ record'[x].sold + working'[Leg(x, "SELL")'] <= allotted[x]
    BY DEF WithinAllotment
  <2>1. /\ record[x].stage # "none"
        /\ record'[x].bought = record[x].bought /\ record'[x].sold = record[x].sold
    BY <1>3, <1>5
  <2>2. /\ Leg(x, "BUY") \in Order /\ Leg(x, "BUY").role = "entry"
        /\ Leg(x, "SELL") \in Order /\ Leg(x, "SELL").role = "entry"
    BY <2>1, Legged DEF Sides
  <2>3. /\ working'[Leg(x, "BUY")] = working[Leg(x, "BUY")]
        /\ working'[Leg(x, "SELL")] = working[Leg(x, "SELL")]
    BY <2>2
  <2>4. Leg(x, "BUY")' = Leg(x, "BUY") /\ Leg(x, "SELL")' = Leg(x, "SELL")
    BY <1>9 DEF Sides
  <2> QED
    BY <2>1, <2>3, <2>4 DEF WithinAllotment
<1>12. RoomLeft'
  BY DEF RoomLeft
<1>13. OneHedge'
  BY <1>6 DEF OneHedge
<1>14. AloneHedges'
  <2> SUFFICES ASSUME NEW p \in Order, p.symbol \in alone', Live(p)'
               PROVE  /\ p.role = "hedge"
                      /\ Sign(p.side) * Delta(position, p.symbol) < 0
                      /\ working'[p] <= Abs(Delta(position, p.symbol))
    BY DEF AloneHedges
  <2>1. p.symbol \in alone /\ Live(p) /\ working'[p] = working[p]
    <3>1. CASE UNCHANGED <<working, alone>>
      BY <3>1 DEF Live
    <3>2. CASE alone' = alone \ {s}
      BY <3>2, <1>6
    <3> QED
      BY <3>1, <3>2
  <2> QED
    BY <2>1 DEF AloneHedges
<1> QED
  BY <1>7, <1>8, <1>10, <1>11, <1>12, <1>13, <1>14

\* The exits that are sent work on positions, and on nothing else.
LEMMA SubmitKeeps ==
    ASSUME Authorised, NEW s \in Symbols, record[s].stage \in {"held", "exiting"},
           record[s].attempts + 1 <= Most(1, MaxAttempts),
           Submit(s), UNCHANGED <<position, entries>>
    PROVE  Authorised'
<1> USE DEF Authorised
<1>1. \A p \in Order : p.role = "entry" /\ p.symbol = s => ~Live(p)
  BY DEF EntriesOwned
<1>2. PICK legs \in SUBSET Residual(s) :
         IF legs = {}
         THEN Closed(s) /\ UNCHANGED <<working, alone>>
         ELSE /\ record' = [record EXCEPT ![s].stage = "exiting", ![s].attempts = @ + 1]
              /\ UNCHANGED allotted
              /\ \/ /\ working' = [o \in Order |->
                           IF /\ o.role = "exit" /\ o.symbol = s /\ o.venue \in legs
                              /\ Sign(o.side) * position[<<o.venue, s>>] < 0
                           THEN Abs(position[<<o.venue, s>>]) ELSE working[o]]
                    /\ alone' = alone \ {s}
                 \/ UNCHANGED <<working, alone>>
  BY DEF Submit
<1>3. CASE legs = {}
  BY <1>1, <1>2, <1>3, ClosedKeeps
<1>4. CASE legs # {}
  <2>1. PICK attempts : attempts = record[s].attempts + 1
    OBVIOUS
  <2>2. attempts \in 0..Most(1, MaxAttempts)
    BY <2>1, ExposureAssumption DEF TypeOK, Most
  <2>3. record' = [record EXCEPT ![s].stage = "exiting", ![s].attempts = attempts]
    BY <2>1, <1>2, <1>4
  <2>4. working \in [Order -> Nat]
    BY DEF TypeOK
  <2>5. \A o \in Order : o.symbol = s =>
           position[<<o.venue, s>>] \in Int /\ Abs(position[<<o.venue, s>>]) \in Nat
    BY DEF TypeOK, Order, Abs
  <2>6. /\ \A p \in Order : p.role # "exit" \/ p.symbol # s => working'[p] = working[p]
        /\ working' \in [Order -> Nat]
        /\ UNCHANGED <<working, alone>> \/ alone' = alone \ {s}
    <3>1. CASE UNCHANGED <<working, alone>>
      BY <3>1, <2>4
    <3>2. CASE ~UNCHANGED <<working, alone>>
      <4>1. /\ working' = [o \in Order |->
                 IF /\ o.role = "exit" /\ o.symbol = s /\ o.venue \in legs
                    /\ Sign(o.side) * position[<<o.venue, s>>] < 0
                 THEN Abs(position[<<o.venue, s>>]) ELSE working[o]]
            /\ alone' = alone \ {s}
        BY <3>2, <1>2, <1>4
      <4>2. \A p \in Order : p.role # "exit" \/ p.symbol # s => working'[p] = working[p]
        BY <4>1
      <4>3. \A p \in Order : working'[p] \in {working[p], Abs(position[<<p.venue, s>>])}
        BY <4>1
      <4>4. \A p \in Order : p.symbol = s => working'[p] \in Nat
        BY <4>3, <2>4, <2>5
      <4>5. \A p \in Order : working'[p] \in Nat
        BY <4>2, <4>4, <2>4
      <4>6. working' = [p \in Order |-> working'[p]]
        BY <4>1
      <4> QED
        BY <4>1, <4>2, <4>5, <4>6
    <3> QED
      BY <3>1, <3>2
  <2>7. UNCHANGED <<position, allotted, entries>>
    BY <1>2, <1>4
  <2> QED
    BY <2>2, <2>3, <2>6, <2>7, <1>1, StageKeeps
<1> QED
  BY <1>3, <1>4

\* An entry that is over is held, or closed when nothing traded.
LEMMA EnteredKeeps ==
    ASSUME Authorised, NEW s \in Symbols, Entered(s)
    PROVE  Authorised'
<1> USE DEF Authorised
<1>1. /\ record[s].stage = "entering" /\ LiveOf({"entry"}, s) = {}
      /\ UNCHANGED <<position, working, entries, alone>>
  BY DEF Entered
<1>2. \A p \in Order : p.role = "entry" /\ p.symbol = s => ~Live(p)
  BY <1>1, NoneLive
<1>3. CASE Closed(s)
  BY <1>1, <1>2, <1>3, ClosedKeeps
<1>4. CASE record' = [record EXCEPT ![s].stage = "held"] /\ UNCHANGED allotted
  <2>1. record[s].attempts = 0 /\ record[s] = [record[s] EXCEPT !.attempts = 0]
    BY <1>1 DEF RecordsInOrder, TypeOK
  <2>2. record' = [record EXCEPT ![s].stage = "held", ![s].attempts = 0]
    <3>1. PICK r : r = record[s] /\ r.attempts = 0
      BY <2>1
    <3>2. [r EXCEPT !.stage = "held", !.attempts = 0] = [r EXCEPT !.stage = "held"]
      BY <3>1 DEF TypeOK
    <3>3. record' = [record EXCEPT ![s] = [r EXCEPT !.stage = "held", !.attempts = 0]]
      BY <1>4, <3>1, <3>2
    <3> QED
      BY <3>1, <3>3
  <2>3. 0 \in 0..Most(1, MaxAttempts)
    BY ExposureAssumption DEF Most
  <2>4. working' \in [Order -> Nat] /\ \A p \in Order : working'[p] = working[p]
    BY <1>1 DEF TypeOK
  <2> QED
    BY <1>1, <1>2, <1>4, <2>2, <2>3, <2>4, StageKeeps
<1> QED
  BY <1>3, <1>4 DEF Entered

\* The exit of a record that is held.
LEMMA ExitKeeps ==
    ASSUME Authorised, NEW s \in Symbols, Exit(s)
    PROVE  Authorised'
<1>1. record[s].stage = "held" /\ Submit(s) /\ UNCHANGED <<position, entries>>
  BY DEF Exit
<1>2. record[s].attempts = 0
  BY <1>1 DEF Authorised, RecordsInOrder
<1>3. 0 + 1 <= Most(1, MaxAttempts)
  BY ExposureAssumption DEF Most
<1> QED
  BY <1>1, <1>2, <1>3, SubmitKeeps

\* The exit that is tried again, or given up.
LEMMA AdvanceExitKeeps ==
    ASSUME Authorised, NEW s \in Symbols, AdvanceExit(s)
    PROVE  Authorised'
<1>1. record[s].stage = "exiting" /\ UNCHANGED <<position, entries>>
  BY DEF AdvanceExit
<1>2. \A p \in Order : p.role = "entry" /\ p.symbol = s => ~Live(p)
  BY <1>1 DEF Authorised, EntriesOwned
<1>3. CASE MayRetry(s)
  <2>1. record[s].attempts + 1 <= Most(1, MaxAttempts)
    BY <1>3, ExposureAssumption DEF MayRetry, Most, Authorised, TypeOK
  <2> QED
    BY <1>1, <1>3, <2>1, SubmitKeeps DEF AdvanceExit
<1>4. CASE ~MayRetry(s)
  BY <1>1, <1>2, <1>4, ClosedKeeps DEF AdvanceExit
<1> QED
  BY <1>3, <1>4

---------------------------------------------------------------------------
(* The invariant, and what follows from it *)

\* Nothing is held, working or allotted at the start.
LEMMA InitAuthorised == Init => Authorised
<1> SUFFICES ASSUME Init PROVE Authorised
  OBVIOUS
<1> USE DEF Init
<1>1. /\ NoRecord.stage = "none" /\ NoRecord.attempts = 0
      /\ NoRecord \in [stage : {"none", "entering", "held", "exiting"},
                       buy : Venues \cup {None}, sell : Venues \cup {None},
                       bought : Nat, sold : Nat, attempts : 0..Most(1, MaxAttempts)]
  BY ExposureAssumption DEF NoRecord, Most
<1>2. TypeOK
  BY <1>1, ExposureAssumption DEF TypeOK
<1>3. RecordsInOrder
  BY <1>1 DEF RecordsInOrder
<1>4. EntriesOwned /\ OneHedge /\ AloneHedges
  BY DEF EntriesOwned, OneHedge, AloneHedges, Live
<1>5. WithinAllotment
  BY <1>1 DEF WithinAllotment
<1>6. RoomLeft
  <2>1. PICK f : f = allotted
    OBVIOUS
  <2>2. Sum(f, Symbols) = 0
    <3>1. \A x \in Symbols : f[x] = 0
      BY <2>1
    <3> QED
      BY <3>1, ExposureAssumption, SumNothing
  <2> QED
    BY <2>1, <2>2, LimitsArePositive DEF RoomLeft
<1> QED
  BY <1>2, <1>3, <1>4, <1>5, <1>6 DEF Authorised

\* Every step of the loop keeps the orders within what was authorised.
LEMMA NextAuthorised == Authorised /\ [Next]_vars => Authorised'
<1> SUFFICES ASSUME Authorised, [Next]_vars PROVE Authorised'
  OBVIOUS
<1>1. CASE Poll
  <2>1. PICK o \in Order : End(o) \/ \E q \in 1..Limits.max_order_notional : Fill(o, q)
    BY <1>1 DEF Poll
  <2>2. \A q \in 1..Limits.max_order_notional : q \in Int
    BY LimitsArePositive
  <2> QED
    BY <2>1, <2>2, EndKeeps, FillKeeps
<1>2. ASSUME NEW s \in Symbols, NEW v \in Venues, Hedge(s, v) PROVE Authorised'
  BY <1>2, HedgeKeeps
<1>3. ASSUME NEW s \in Symbols, Entered(s) \/ Exit(s) \/ AdvanceExit(s) PROVE Authorised'
  BY <1>3, EnteredKeeps, ExitKeeps, AdvanceExitKeeps
<1>4. CASE DecideAny
  BY <1>4, DecideKeeps DEF DecideAny
<1>5. CASE UNCHANGED vars
  <2> USE <1>5 DEF vars, Authorised
  <2>1. TypeOK' /\ RecordsInOrder' /\ RoomLeft'
    BY DEF TypeOK, RecordsInOrder, RoomLeft
  <2>2. EntriesOwned' /\ WithinAllotment' /\ OneHedge' /\ AloneHedges'
    BY DEF EntriesOwned, WithinAllotment, Leg, OneHedge, AloneHedges, Live
  <2> QED
    BY <2>1, <2>2
<1> QED
  BY <1>1, <1>2, <1>3, <1>4, <1>5 DEF Next

\* The orders, the records and the hedges stay within what was authorised.
THEOREM AlwaysAuthorised == Spec => []Authorised
BY InitAuthorised, NextAuthorised, PTL DEF Spec

\* The account, the orders and the records keep their types, from the first
\* state on (Orchestrator, OmsMirror).
THEOREM TypeCorrect == Spec => []TypeOK
<1>1. Authorised => TypeOK
  BY DEF Authorised
<1> QED
  BY <1>1, AlwaysAuthorised, PTL

\* What a record has taken on, or may still, was allotted to it.
LEMMA TakenWithinAllotment ==
    ASSUME Authorised, NEW s \in Symbols
    PROVE  Taken(s) \in Nat /\ allotted[s] \in Nat /\ Taken(s) <= allotted[s]
<1> USE DEF Authorised
<1>1. allotted[s] \in Nat
  BY DEF TypeOK
<1>2. CASE record[s].stage = "none"
  BY <1>1, <1>2 DEF Taken
<1>3. CASE record[s].stage # "none"
  <2>1. PICK b, c : b = Leg(s, "BUY") /\ c = Leg(s, "SELL")
    OBVIOUS
  <2>2. /\ b = OrderOf("entry", record[s].buy, s, "BUY")
        /\ c = OrderOf("entry", record[s].sell, s, "SELL")
    BY <2>1 DEF Leg
  <2>3. Taken(s) = Most(record[s].bought + working[b], record[s].sold + working[c])
    BY <1>3, <2>2 DEF Taken
  <2>4. working[b] \in Nat /\ working[c] \in Nat
    BY <1>3, <2>1, Legged DEF Sides, TypeOK
  <2>5. record[s].bought \in Nat /\ record[s].sold \in Nat
    BY DEF TypeOK
  <2>6. record[s].bought + working[b] <= allotted[s] /\ record[s].sold + working[c] <= allotted[s]
    BY <1>3, <2>1 DEF WithinAllotment
  <2> QED
    BY <1>1, <2>3, <2>4, <2>5, <2>6 DEF Most
<1> QED
  BY <1>2, <1>3

\* What the open records have taken on, or may still take on, on one leg stays
\* below the limit of the strategy, however many entries one measurement of the
\* portfolio decides (working_notional, gate_strategy_exposure).
THEOREM TheStrategyFits == Spec => []StrategyWithinLimit
<1>1. Authorised => StrategyWithinLimit
  <2> SUFFICES ASSUME Authorised PROVE StrategyWithinLimit
    OBVIOUS
  <2>1. PICK f : f = [s \in Symbols |-> Taken(s)]
    OBVIOUS
  <2>2. PICK g : g = allotted
    OBVIOUS
  <2>3. \A s \in Symbols : f[s] \in Int /\ g[s] \in Int /\ f[s] <= g[s]
    BY <2>1, <2>2, TakenWithinAllotment
  <2>4. IsFiniteSet(Symbols)
    BY ExposureAssumption
  <2>5. Sum(f, Symbols) <= Sum(g, Symbols)
    BY <2>3, <2>4, SumGrows
  <2>6. Sum(f, Symbols) \in Int /\ Sum(g, Symbols) \in Int
    <3>1. \A s \in Symbols : f[s] \in Int
      BY <2>3
    <3>2. \A s \in Symbols : g[s] \in Int
      BY <2>3
    <3> QED
      BY <2>4, <3>1, <3>2, SumTyped
  <2>7. Sum(g, Symbols) < Limits.max_strategy_exposure /\ TypeOK
    BY <2>2 DEF Authorised, RoomLeft
  <2>8. Limits.max_strategy_exposure \in Int
    BY LimitsArePositive
  <2>9. Sum(f, Symbols) < Limits.max_strategy_exposure
    BY <2>5, <2>6, <2>7, <2>8
  <2> QED
    BY <2>1, <2>7, <2>9 DEF StrategyWithinLimit
<1> QED
  BY <1>1, AlwaysAuthorised, PTL

\* Whatever the state of the account, an intent that can be cut to a size worth
\* trading is not turned down for its size (RuneCore.evaluate).
THEOREM TheLoopIsSized == Spec => []EveryIntentFits
<1>1. TypeOK => EveryIntentFits
  <2> SUFFICES ASSUME TypeOK, NEW s \in Symbols, NEW v \in Venues, NEW w \in Venues,
                      NEW notional \in Ladder, NEW economical \in Ladder
               PROVE  SizingFits(Intent(s, v, w, notional), Context(economical))
    BY DEF EveryIntentFits
  <2>1. PICK intent : intent = Intent(s, v, w, notional)
    OBVIOUS
  <2>2. PICK ctx : ctx = Context(economical)
    OBVIOUS
  <2>3. intent \in Intents(Symbols, Venues)
    BY <2>1, IntentTyped
  <2>4. ContextIsNumbers(intent, ctx)
    <3>1. economical \in Int
      BY ExposureAssumption
    <3> QED
      BY <2>2, <2>3, <3>1, ContextTyped
  <2>5. SizingFits(intent, ctx)
    BY <2>3, <2>4, LimitsNumbered, SizingIsEnough
  <2> QED
    BY <2>1, <2>2, <2>5
<1> QED
  BY <1>1, TypeCorrect, PTL

\* The hedges of a symbol never add up to more than one order's size, and one
\* that is its symbol's only order never trades past the delta it was sent for
\* (_hedge, _hedge_in_flight).
THEOREM TheHedgesAreBounded == Spec => []HedgesAreBounded
<1>1. Authorised => HedgesAreBounded
  <2> SUFFICES ASSUME Authorised PROVE HedgesAreBounded
    OBVIOUS
  <2> USE DEF Authorised
  <2>1. ASSUME NEW s \in Symbols
        PROVE  Sum(working, LiveOf({"hedge"}, s)) <= Limits.max_order_notional
    <3>1. PICK f : f = working
      OBVIOUS
    <3>2. PICK L : L = LiveOf({"hedge"}, s)
      OBVIOUS
    <3>3. Limits.max_order_notional \in Nat
      BY LimitsArePositive
    <3>4. CASE L = {}
      <4>1. Sum(f, L) = 0
        BY <3>4, SumFew
      <4> QED
        BY <4>1, <3>1, <3>2, <3>3
    <3>5. CASE L # {}
      <4>1. PICK o : o \in L
        BY <3>5
      <4>2. \A p \in L : p \in Order /\ p.role = "hedge" /\ p.symbol = s /\ Live(p)
        BY <3>2 DEF LiveOf
      <4>3. L = {o}
        BY <4>1, <4>2 DEF OneHedge
      <4>4. f[o] \in Int /\ f[o] <= Limits.max_order_notional
        BY <4>1, <4>2, <3>1 DEF OneHedge, TypeOK
      <4>5. Sum(f, {o}) = f[o]
        BY <4>4, SumFew
      <4> QED
        BY <4>3, <4>4, <4>5, <3>1, <3>2
    <3> QED
      BY <3>4, <3>5
  <2>2. ASSUME NEW s \in alone, NEW o \in LiveOf({"hedge"}, s)
        PROVE  Sign(o.side) * Delta(position, s) < 0 /\ working[o] <= Abs(Delta(position, s))
    BY DEF LiveOf, AloneHedges
  <2> QED
    BY <2>1, <2>2 DEF HedgesAreBounded
<1> QED
  BY <1>1, AlwaysAuthorised, PTL
=============================================================================
