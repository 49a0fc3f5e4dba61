---------------------------- MODULE Ledger_proofs ----------------------------
(***************************************************************************)
(* Theorems about Ledger, for any number of orders and fills, any size of  *)
(* an order and any width of the windows.                                  *)
(*                                                                         *)
(* The history of the account is cut in two at the checkpoint (Sealed);    *)
(* its window is the end of that history (Windows); and every fill in it   *)
(* is held by its order (Held).  What sealing does to the totals rests on  *)
(* one fact about replaying a log: replaying its two parts one after the   *)
(* other is replaying it (ReplayInParts).                                  *)
(***************************************************************************)
EXTENDS Ledger, SequenceTheorems, FiniteSetTheorems, TLAPS


---------------------------------------------------------------------------
(* The inductive invariant *)

\* Fills are numbered as they are executed.
FillsNumbered ==
    /\ IsFiniteSet(fills)
    /\ \A f \in fills : f.fill_id <= Cardinality(fills)

\* An order keeps every fill it got.
Held == \A f \in fills : f \in order_fills[f.order]

\* The window of the account is the end of its history.
Window ==
    /\ Len(acct_seen) = IF Len(booked) < Retained THEN Len(booked) ELSE Retained
    /\ \A i \in 1..Len(acct_seen) :
          acct_seen[i] = booked[(Len(booked) - Len(acct_seen)) + i]

\* The checkpoint and the log are the two parts of the history.
Sealed ==
    /\ checkpoint.fills_sealed <= Len(booked)
    /\ fill_log = SubSeq(booked, checkpoint.fills_sealed + 1, Len(booked))
    /\ checkpoint.totals = Replay(Opening, SubSeq(booked, 1, checkpoint.fills_sealed))
    /\ totals = Replay(Opening, booked)

\* What the account counts, the order manager has counted; what is delivered
\* once is booked once.
Counted ==
    /\ acct_applied <= oms_applied
    /\ repeats = 0 =>
          /\ acct_applied = oms_applied
          /\ \A i, j \in DOMAIN booked : booked[i] = booked[j] => i = j

Kept == /\ TypeOK /\ FillsNumbered /\ Held /\ Window /\ Sealed /\ Counted
        /\ RepeatsNeedALongGap /\ ArchivedOrdersAreDone
---------------------------------------------------------------------------
(* Numbers *)

\* Every set with zero, and with the successor of each number in it, has all.
LEMMA Induction ==
    ASSUME NEW T, 0 \in T, \A n \in Nat : n \in T => n + 1 \in T
    PROVE  Nat \subseteq T
<1> DEFINE below(n) == 0..(n - 1)
           U == {below(n) : n \in Nat \ T}
<1> SUFFICES ASSUME U # {} PROVE FALSE
  OBVIOUS
<1>1. U \subseteq FiniteSubsetsOf(Nat)
  <2>1. \A n \in Nat : below(n) \subseteq Nat /\ IsFiniteSet(below(n))
    BY FS_Interval
  <2> QED
    BY <2>1 DEF FiniteSubsetsOf
<1>2. PICK u \in U : \A w \in U : ~ (<<w, u>> \in StrictSubsetOrdering(Nat))
  <2> HIDE DEF U
  <2> QED
    BY <1>1, WFMin, FS_StrictSubsetOrderingWellFounded
<1>3. PICK n \in Nat \ T : u = below(n)
  BY <1>2
<1>4. n # 0 /\ n - 1 \in Nat /\ n - 1 \in Nat \ T
  OBVIOUS
<1>5. below(n - 1) \in U
  BY <1>4
<1>6. <<below(n - 1), below(n)>> \in StrictSubsetOrdering(Nat)
  <2>1. below(n - 1) \subseteq Nat /\ below(n) \subseteq Nat
    OBVIOUS
  <2>2. below(n - 1) \subseteq below(n) /\ n - 1 \in below(n) /\ n - 1 \notin below(n - 1)
    BY <1>4
  <2> QED
    BY <2>1, <2>2 DEF StrictSubsetOrdering
<1> QED
  BY <1>2, <1>3, <1>5, <1>6

\* A set of numbers has a least one.
LEMMA MinOf ==
    ASSUME NEW S, S \subseteq Nat, S # {}
    PROVE  Min(S) \in S /\ \A y \in S : Min(S) <= y
<1> DEFINE T == {n \in Nat : \A x \in S : x <= n => \E m \in S : \A y \in S : m <= y}
<1>1. 0 \in T
  <2>1. ASSUME NEW x \in S, x <= 0 PROVE \A y \in S : x <= y
    BY <2>1
  <2> QED
    BY <2>1
<1>2. ASSUME NEW n \in Nat, n \in T PROVE n + 1 \in T
  <2> SUFFICES ASSUME NEW x \in S, x <= n + 1 PROVE \E m \in S : \A y \in S : m <= y
    OBVIOUS
  <2>1. CASE \E z \in S : z <= n
    BY <2>1, <1>2
  <2>2. CASE \A z \in S : ~ (z <= n)
    <3>1. \A y \in S : x <= y
      BY <2>2
    <3> QED
      BY <3>1
  <2> QED
    BY <2>1, <2>2
<1>3. Nat \subseteq T
  <2> HIDE DEF T
  <2> QED
    BY <1>1, <1>2, Induction
<1>4. PICK x \in S : TRUE
  OBVIOUS
<1>5. \E m \in S : \A y \in S : m <= y
  BY <1>3, <1>4
<1> QED
  BY <1>5 DEF Min

\* A set of numbers under a bound has a greatest one.
LEMMA MaxOf ==
    ASSUME NEW S, NEW n \in Nat, S \subseteq 0..n, S # {}
    PROVE  Max(S) \in S /\ \A y \in S : Max(S) >= y
<1> DEFINE B == {k \in Nat : \A y \in S : y <= k}
<1>1. n \in B /\ B \subseteq Nat
  OBVIOUS
<1>2. Min(B) \in B /\ \A k \in B : Min(B) <= k
  <2> HIDE DEF B
  <2> QED
    BY <1>1, MinOf
<1> DEFINE m == Min(B)
<1> HIDE DEF m
<1>3. m \in Nat /\ (\A y \in S : y <= m) /\ \A k \in B : m <= k
  BY <1>2 DEF m
<1>4. m \in S
  <2> SUFFICES ASSUME m \notin S PROVE FALSE
    OBVIOUS
  <2>1. m # 0
    <3>1. PICK y \in S : TRUE
      OBVIOUS
    <3>2. y \in Nat /\ y <= m /\ y # m
      BY <1>3
    <3> QED
      BY <3>2, <1>3
  <2>2. ASSUME NEW y \in S PROVE y <= m - 1
    <3>1. y \in Nat /\ y <= m /\ y # m
      BY <1>3
    <3> QED
      BY <3>1, <1>3
  <2>3. m - 1 \in B
    BY <2>1, <2>2, <1>3
  <2> QED
    BY <2>3, <1>3
<1>5. \E x \in S : \A y \in S : x >= y
  BY <1>3, <1>4
<1> QED
  BY <1>5 DEF Max

---------------------------------------------------------------------------
(* Parts of a log *)

\* A part of a log.
LEMMA PartOf ==
    ASSUME NEW S, NEW log \in Seq(S), NEW b \in 0..Len(log), NEW a \in 0..b
    PROVE  /\ SubSeq(log, a + 1, b) \in Seq(S)
           /\ Len(SubSeq(log, a + 1, b)) = b - a
           /\ \A i \in 1..(b - a) : SubSeq(log, a + 1, b)[i] = log[a + i]
<1> DEFINE part == SubSeq(log, a + 1, b)
<1>1. /\ Len(log) \in Nat /\ a \in Nat /\ b \in Nat /\ a <= b /\ b <= Len(log)
      /\ b - a \in Nat /\ b - (a + 1) + 1 = b - a
  OBVIOUS
<1>2. \A i \in (a + 1)..b : log[i] \in S
  BY <1>1
<1>3. /\ part \in Seq(S)
      /\ Len(part) = IF a + 1 <= b THEN b - (a + 1) + 1 ELSE 0
      /\ \A i \in 1..(b - (a + 1) + 1) : part[i] = log[(a + 1) + i - 1]
  BY <1>1, <1>2, SubSeqProperties
<1> HIDE DEF part
<1>4. Len(part) = b - a
  <2>1. CASE a + 1 <= b
    BY <2>1, <1>1, <1>3
  <2>2. CASE ~ (a + 1 <= b)
    <3>1. b - a = 0
      BY <2>2, <1>1
    <3> QED
      BY <2>2, <3>1, <1>3
  <2> QED
    BY <2>1, <2>2
<1>5. ASSUME NEW i \in 1..(b - a) PROVE part[i] = log[a + i]
  <2>1. (a + 1) + i - 1 = a + i
    BY <1>1
  <2>2. part[i] = log[(a + 1) + i - 1]
    BY <1>1, <1>3
  <2> QED
    BY <2>1, <2>2
<1> QED
  BY <1>3, <1>4, <1>5 DEF part

\* The first part of a log.
LEMMA FirstPartOf ==
    ASSUME NEW S, NEW log \in Seq(S), NEW b \in 0..Len(log)
    PROVE  /\ SubSeq(log, 1, b) \in Seq(S)
           /\ Len(SubSeq(log, 1, b)) = b
           /\ \A i \in 1..b : SubSeq(log, 1, b)[i] = log[i]
<1>1. b \in Nat /\ b <= Len(log) /\ Len(log) \in Nat
  OBVIOUS
<1>2. \A i \in 1..b : log[i] \in S
  BY <1>1
<1>3. /\ SubSeq(log, 1, b) \in Seq(S)
      /\ Len(SubSeq(log, 1, b)) = IF 1 <= b THEN b - 1 + 1 ELSE 0
      /\ \A i \in 1..(b - 1 + 1) : SubSeq(log, 1, b)[i] = log[1 + i - 1]
  BY <1>1, <1>2, SubSeqProperties
<1>4. b - 1 + 1 = b /\ \A i \in 1..b : 1 + i - 1 = i
  BY <1>1
<1> QED
  BY <1>1, <1>3, <1>4

---------------------------------------------------------------------------
(* Replaying a log *)

\* The function over the places of a log by which Replay is defined.
Unfolds(h, t, log, places) ==
    h = [s \in SUBSET places |->
            IF s = {} THEN t ELSE Booked(h[s \ {Max(s)}], log[Max(s)])]

\* There is such a function.
LEMMA UnfoldingExists ==
    ASSUME NEW t, NEW log, NEW n \in Nat
    PROVE  \E h : Unfolds(h, t, log, 1..n)
<1> DEFINE T == {m \in Nat : \E h : Unfolds(h, t, log, 1..m)}
<1>1. 0 \in T
  <2> DEFINE h == [s \in SUBSET (1..0) |-> t]
  <2>1. Unfolds(h, t, log, 1..0)
    <3>1. \A s \in SUBSET (1..0) : s = {}
      OBVIOUS
    <3> QED
      BY <3>1 DEF Unfolds
  <2> QED
    BY <2>1
<1>2. ASSUME NEW m \in Nat, m \in T PROVE m + 1 \in T
  <2>1. PICK h : Unfolds(h, t, log, 1..m)
    BY <1>2
  <2> DEFINE k == m + 1
             g == [s \in SUBSET (1..k) |->
                      IF k \in s THEN Booked(h[s \ {k}], log[k]) ELSE h[s]]
  <2>2. \A s \in SUBSET (1..m) :
           h[s] = IF s = {} THEN t ELSE Booked(h[s \ {Max(s)}], log[Max(s)])
    BY <2>1 DEF Unfolds
  <2>3. \A s \in SUBSET (1..k) : k \notin s => s \in SUBSET (1..m)
    OBVIOUS
  <2>4. ASSUME NEW s \in SUBSET (1..k)
        PROVE  g[s] = IF s = {} THEN t ELSE Booked(g[s \ {Max(s)}], log[Max(s)])
    <3>1. CASE k \in s
      <4>1. \A x \in s : k >= x
        OBVIOUS
      <4>2. Max(s) \in s /\ Max(s) >= k
        BY <4>1, <3>1 DEF Max
      <4>3. Max(s) = k
        <5>1. \A x \in s : x <= k /\ x \in Nat
          OBVIOUS
        <5>2. PICK x \in s : x = Max(s) /\ x >= k
          BY <4>2
        <5>3. x <= k /\ x \in Nat /\ k \in Nat
          BY <5>1
        <5>4. x = k
          BY <5>2, <5>3
        <5> QED
          BY <5>2, <5>4
      <4>4. s \ {k} \in SUBSET (1..k) /\ k \notin s \ {k}
        OBVIOUS
      <4>5. g[s \ {k}] = h[s \ {k}] /\ g[s] = Booked(h[s \ {k}], log[k])
        BY <3>1, <4>4
      <4> QED
        BY <3>1, <4>3, <4>5
    <3>2. CASE k \notin s
      <4>1. s \in SUBSET (1..m) /\ g[s] = h[s]
        BY <3>2, <2>3
      <4>2. \A x : s \ {x} \in SUBSET (1..k) /\ k \notin s \ {x}
        BY <3>2
      <4>3. \A x : g[s \ {x}] = h[s \ {x}]
        <5> SUFFICES ASSUME NEW x PROVE g[s \ {x}] = h[s \ {x}]
          OBVIOUS
        <5>1. s \ {x} \in SUBSET (1..k) /\ k \notin s \ {x}
          BY <4>2
        <5> QED
          BY <5>1
      <4> QED
        BY <4>1, <4>3, <2>2
    <3> QED
      BY <3>1, <3>2
  <2>5. Unfolds(g, t, log, 1..k)
    BY <2>4 DEF Unfolds
  <2> QED
    BY <2>5
<1>3. Nat \subseteq T
  <2> HIDE DEF T
  <2> QED
    BY <1>1, <1>2, Induction
<1> QED
  BY <1>3

\* A log is replayed fill by fill.
LEMMA ReplaySteps ==
    ASSUME NEW t, NEW S, NEW log \in Seq(S)
    PROVE  \E g : /\ g[0] = t
                  /\ \A i \in 1..Len(log) : g[i] = Booked(g[i - 1], log[i])
                  /\ g[Len(log)] = Replay(t, log)
<1> DEFINE n == Len(log)
           h == CHOOSE u : Unfolds(u, t, log, 1..n)
           g == [i \in 0..n |-> h[1..i]]
<1>1. n \in Nat /\ DOMAIN log = 1..n
  OBVIOUS
<1>2. Unfolds(h, t, log, 1..n)
  BY <1>1, UnfoldingExists
<1>3. Replay(t, log) = h[1..n]
  BY <1>1 DEF Replay, FoldLeft, MapThenFoldSet, Unfolds
<1> HIDE DEF h, n
<1>4. \A s \in SUBSET (1..n) :
         h[s] = IF s = {} THEN t ELSE Booked(h[s \ {Max(s)}], log[Max(s)])
  BY <1>2 DEF Unfolds
<1>5. g[0] = t
  <2>1. 1..0 = {} /\ 0 \in 0..n
    BY <1>1
  <2> QED
    BY <2>1, <1>4
<1>6. ASSUME NEW i \in 1..n PROVE g[i] = Booked(g[i - 1], log[i])
  <2>1. i \in 1..i /\ \A x \in 1..i : i >= x
    OBVIOUS
  <2>2. Max(1..i) \in 1..i /\ Max(1..i) >= i
    BY <2>1 DEF Max
  <2>3. Max(1..i) = i
    BY <2>2
  <2>4. (1..i) \ {i} = 1..(i - 1) /\ 1..i \in SUBSET (1..n) /\ 1..i # {}
    BY <1>1
  <2>5. h[1..i] = Booked(h[1..(i - 1)], log[i])
    BY <2>3, <2>4, <1>4
  <2>6. i \in 0..n /\ i - 1 \in 0..n
    BY <1>1
  <2> QED
    BY <2>5, <2>6
<1>7. g[n] = Replay(t, log)
  <2>1. n \in 0..n
    BY <1>1
  <2> QED
    BY <2>1, <1>3
<1> QED
  BY <1>5, <1>6, <1>7 DEF n

\* The replay d of q starts where the replay g of p is after k fills, and goes
\* through n fills that come next in p.
Continues(d, q, g, p, k, n) ==
    /\ d[0] = g[k]
    /\ \A i \in 1..n : /\ d[i] = Booked(d[i - 1], q[i])
                      /\ g[k + i] = Booked(g[k + i - 1], p[k + i])
                      /\ q[i] = p[k + i]

\* Two replays that start alike and go through the same fills end alike.
LEMMA ReplaysAgree ==
    ASSUME NEW n \in Nat, NEW k \in Nat, NEW p, NEW q, NEW g, NEW d,
           Continues(d, q, g, p, k, n)
    PROVE  d[n] = g[k + n]
<1>0. /\ d[0] = g[k]
      /\ \A i \in 1..n : d[i] = Booked(d[i - 1], q[i])
      /\ \A i \in 1..n : g[k + i] = Booked(g[k + i - 1], p[k + i])
      /\ \A i \in 1..n : q[i] = p[k + i]
  BY DEF Continues
<1> DEFINE T == {m \in Nat : m <= n => d[m] = g[k + m]}
<1>1. 0 \in T
  BY <1>0
<1>2. ASSUME NEW m \in Nat, m \in T PROVE m + 1 \in T
  <2> SUFFICES ASSUME m + 1 <= n PROVE d[m + 1] = g[k + (m + 1)]
    OBVIOUS
  <2>1. m + 1 \in 1..n /\ d[m] = g[k + m]
    BY <1>2
  <2>2. (m + 1) - 1 = m /\ k + (m + 1) - 1 = k + m
    OBVIOUS
  <2>3. d[m + 1] = Booked(d[m], q[m + 1])
    BY <2>1, <2>2, <1>0
  <2>4. g[k + (m + 1)] = Booked(g[k + m], p[k + (m + 1)])
    BY <2>1, <2>2, <1>0
  <2> QED
    BY <2>1, <2>3, <2>4, <1>0
<1>3. Nat \subseteq T
  <2> HIDE DEF T
  <2> QED
    BY <1>1, <1>2, Induction
<1> QED
  BY <1>3

\* Replaying nothing changes nothing.
LEMMA ReplayNothing ==
    ASSUME NEW t
    PROVE  Replay(t, <<>>) = t
<1>1. <<>> \in Seq({}) /\ Len(<<>>) = 0
  OBVIOUS
<1>2. \E g : g[0] = t /\ g[Len(<<>>)] = Replay(t, <<>>)
  <2>1. <<>> \in Seq({})
    BY <1>1
  <2> QED
    BY <2>1, ReplaySteps
<1> QED
  BY <1>1, <1>2

\* One more fill in the log is booked last.
LEMMA ReplayOneMore ==
    ASSUME NEW t, NEW S, NEW log \in Seq(S), NEW f \in S
    PROVE  Replay(t, Append(log, f)) = Booked(Replay(t, log), f)
<1> DEFINE more == Append(log, f)
           n == Len(log)
<1>1. /\ n \in Nat /\ more \in Seq(S) /\ Len(more) = n + 1 /\ more[n + 1] = f
      /\ \A i \in 1..n : more[i] = log[i]
  OBVIOUS
<1> HIDE DEF more
<1>2. PICK d : /\ d[0] = t
               /\ \A i \in 1..n : d[i] = Booked(d[i - 1], log[i])
               /\ d[n] = Replay(t, log)
  BY ReplaySteps
<1>3. PICK g : /\ g[0] = t
               /\ \A i \in 1..Len(more) : g[i] = Booked(g[i - 1], more[i])
               /\ g[Len(more)] = Replay(t, more)
  BY <1>1, ReplaySteps
<1> HIDE DEF n
<1>4. d[n] = g[0 + n]
  <2>1. \A i \in 1..n : 0 + i = i /\ 0 + i - 1 = i - 1 /\ i \in 1..Len(more)
    BY <1>1
  <2>2. Continues(d, log, g, more, 0, n)
    BY <2>1, <1>1, <1>2, <1>3 DEF Continues
  <2> QED
    BY <2>2, <1>1, ReplaysAgree
<1>5. g[n + 1] = Booked(g[n], f)
  <2>1. n + 1 \in 1..Len(more) /\ (n + 1) - 1 = n
    BY <1>1
  <2> QED
    BY <2>1, <1>1, <1>3
<1>6. 0 + n = n
  BY <1>1
<1> QED
  BY <1>1, <1>2, <1>3, <1>4, <1>5, <1>6 DEF more

\* Replaying the two parts of a log one after the other is replaying it.
LEMMA ReplayInParts ==
    ASSUME NEW t, NEW S, NEW log \in Seq(S), NEW k \in 0..Len(log)
    PROVE  Replay(Replay(t, SubSeq(log, 1, k)), SubSeq(log, k + 1, Len(log)))
             = Replay(t, log)
<1> DEFINE n == Len(log)
           first == SubSeq(log, 1, k)
           rest == SubSeq(log, k + 1, n)
<1>1. n \in Nat /\ k \in Nat /\ k <= n /\ n \in 0..Len(log) /\ k \in 0..n
  OBVIOUS
<1>2. /\ first \in Seq(S) /\ Len(first) = k
      /\ \A i \in 1..k : first[i] = log[i]
  BY FirstPartOf
<1>3. /\ rest \in Seq(S) /\ Len(rest) = n - k
      /\ \A i \in 1..(n - k) : rest[i] = log[k + i]
  BY <1>1, PartOf
<1> HIDE DEF first, rest
<1>4. PICK g : /\ g[0] = t
               /\ \A i \in 1..n : g[i] = Booked(g[i - 1], log[i])
               /\ g[n] = Replay(t, log)
  BY ReplaySteps
<1> HIDE DEF n
<1>5. PICK a : /\ a[0] = t
               /\ \A i \in 1..k : a[i] = Booked(a[i - 1], first[i])
               /\ a[k] = Replay(t, first)
  BY <1>2, ReplaySteps
<1>6. PICK b : /\ b[0] = Replay(t, first)
               /\ \A i \in 1..(n - k) : b[i] = Booked(b[i - 1], rest[i])
               /\ b[n - k] = Replay(Replay(t, first), rest)
  <2>1. \E b : /\ b[0] = Replay(t, first)
               /\ \A i \in 1..Len(rest) : b[i] = Booked(b[i - 1], rest[i])
               /\ b[Len(rest)] = Replay(Replay(t, first), rest)
    BY <1>3, ReplaySteps
  <2> QED
    BY <2>1, <1>3
<1>7. a[k] = g[0 + k]
  <2>1. \A i \in 1..k : 0 + i = i /\ 0 + i - 1 = i - 1 /\ i \in 1..n
    BY <1>1
  <2>2. Continues(a, first, g, log, 0, k)
    BY <2>1, <1>2, <1>4, <1>5 DEF Continues
  <2> QED
    BY <2>2, <1>1, ReplaysAgree
<1>8. b[n - k] = g[k + (n - k)]
  <2>1. n - k \in Nat /\ 0 + k = k /\ \A i \in 1..(n - k) : k + i \in 1..n
    BY <1>1
  <2>2. b[0] = g[k]
    BY <2>1, <1>5, <1>6, <1>7
  <2>3. Continues(b, rest, g, log, k, n - k)
    BY <2>1, <2>2, <1>3, <1>4, <1>6 DEF Continues
  <2> QED
    BY <2>1, <2>3, <1>1, ReplaysAgree
<1>9. k + (n - k) = n
  BY <1>1
<1> QED
  BY <1>4, <1>6, <1>8, <1>9 DEF first, rest, n

---------------------------------------------------------------------------
(* Books, windows and logs *)

\* Books stay numbers, whatever fill is booked.
LEMMA BookedTyped ==
    ASSUME NEW t \in TotalsType, NEW f \in FillEvent
    PROVE  Booked(t, f) \in TotalsType /\ Booked(t, f).fees = t.fees + 1
<1>1. t.cash \in Int /\ t.position \in Int /\ t.fees \in Nat
  BY DEF TotalsType
<1>2. f.fill_id \in Int /\ f.lots \in Int
  BY LedgerAssumption DEF FillEvent
<1>3. Signed(f) \in Int
  BY <1>2 DEF Signed
<1>4. Signed(f) * f.fill_id \in Int
  BY <1>2, <1>3
<1>5. /\ t.cash - Signed(f) * f.fill_id - Fee \in Int
      /\ t.position + Signed(f) \in Int /\ t.fees + Fee \in Nat /\ t.fees + Fee = t.fees + 1
  BY <1>1, <1>3, <1>4 DEF Fee
<1> QED
  BY <1>5 DEF Booked, TotalsType

\* So does a whole log of fills; every fill costs its fee.
LEMMA ReplayTyped ==
    ASSUME NEW t \in TotalsType, NEW log \in Seq(FillEvent)
    PROVE  Replay(t, log) \in TotalsType /\ Replay(t, log).fees = t.fees + Len(log)
<1> DEFINE n == Len(log)
<1>1. n \in Nat /\ \A i \in 1..n : log[i] \in FillEvent
  OBVIOUS
<1>2. PICK g : /\ g[0] = t
               /\ \A i \in 1..n : g[i] = Booked(g[i - 1], log[i])
               /\ g[n] = Replay(t, log)
  BY ReplaySteps
<1> HIDE DEF n
<1> DEFINE T == {m \in Nat : m <= n => g[m] \in TotalsType /\ g[m].fees = t.fees + m}
<1>3. t.fees \in Nat
  BY DEF TotalsType
<1>4. 0 \in T
  BY <1>2, <1>3
<1>5. ASSUME NEW m \in Nat, m \in T PROVE m + 1 \in T
  <2> SUFFICES ASSUME m + 1 <= n
               PROVE  g[m + 1] \in TotalsType /\ g[m + 1].fees = t.fees + (m + 1)
    OBVIOUS
  <2>1. m + 1 \in 1..n /\ (m + 1) - 1 = m /\ g[m] \in TotalsType /\ g[m].fees = t.fees + m
    BY <1>1, <1>5
  <2>2. g[m + 1] = Booked(g[m], log[m + 1]) /\ log[m + 1] \in FillEvent
    BY <2>1, <1>1, <1>2
  <2>3. g[m + 1] \in TotalsType /\ g[m + 1].fees = g[m].fees + 1
    BY <2>1, <2>2, BookedTyped
  <2> QED
    BY <2>1, <2>3, <1>3
<1>6. Nat \subseteq T
  <2> HIDE DEF T
  <2> QED
    BY <1>4, <1>5, Induction
<1>7. g[n] \in TotalsType /\ g[n].fees = t.fees + n
  BY <1>1, <1>6
<1> QED
  BY <1>2, <1>7 DEF n

\* A window gains the new id, and once it is full loses its oldest.
LEMMA Remembered ==
    ASSUME NEW S, NEW seen \in Seq(S), NEW f \in S, Len(seen) <= Retained
    PROVE  /\ Remember(seen, f) \in Seq(S)
           /\ Len(Remember(seen, f)) = IF Len(seen) < Retained THEN Len(seen) + 1
                                                              ELSE Retained
           /\ Remember(seen, f)[Len(Remember(seen, f))] = f
           /\ \A i \in 1..(Len(Remember(seen, f)) - 1) :
                 Remember(seen, f)[i] = seen[(Len(seen) + 1 - Len(Remember(seen, f))) + i]
<1>1. Len(seen) \in Nat /\ Retained \in Nat /\ Retained # 0
  BY LedgerAssumption
<1>2. CASE Len(seen) < Retained
  <2>1. Remember(seen, f) = Append(seen, f)
    BY <1>2 DEF Remember
  <2> QED
    BY <2>1, <1>1, <1>2
<1>3. CASE ~ (Len(seen) < Retained)
  <2>1. Remember(seen, f) = Append(Tail(seen), f) /\ Len(seen) = Retained
    BY <1>1, <1>3 DEF Remember
  <2>2. seen # <<>> /\ Len(seen) > 0
    BY <1>1, <2>1
  <2>3. /\ Tail(seen) \in Seq(S) /\ Len(Tail(seen)) = Retained - 1
        /\ \A i \in 1..(Retained - 1) : Tail(seen)[i] = seen[i + 1]
    BY <2>1, <2>2, <1>1
  <2> DEFINE t == Tail(seen)
  <2> HIDE DEF t
  <2>4. /\ Append(t, f) \in Seq(S) /\ Len(Append(t, f)) = Retained
        /\ Append(t, f)[Retained] = f
        /\ \A i \in 1..(Retained - 1) : Append(t, f)[i] = t[i]
    BY <2>3, <1>1 DEF t
  <2>5. \A i \in 1..(Retained - 1) : (Len(seen) + 1 - Retained) + i = i + 1
    BY <2>1, <1>1
  <2> QED
    BY <2>1, <2>3, <2>4, <2>5, <1>3 DEF t
<1> QED
  BY <1>2, <1>3

\* The same fills are in a log of the same fills.
LEMMA InLog ==
    ASSUME NEW S, NEW log \in Seq(S)
    PROVE  /\ ToSet(log) = {log[i] : i \in 1..Len(log)}
           /\ ToSet(log) \subseteq S
  BY DEF ToSet

---------------------------------------------------------------------------
(* What booking and sealing do to the account *)

\* The windows and the logs hold fills.
LEMMA LogsOfFills ==
    ASSUME TypeOK
    PROVE  /\ oms_seen \in Seq(FillEvent) /\ acct_seen \in Seq(FillEvent)
           /\ fill_log \in Seq(FillEvent) /\ booked \in Seq(FillEvent)
BY SeqMonotonic DEF TypeOK

\* The window stays the end of the history.
LEMMA WindowBooks ==
    ASSUME TypeOK, Window, NEW f \in FillEvent, f \notin ToSet(acct_seen), AccountTakes(f)
    PROVE  Window'
<1> DEFINE n == Len(booked)
           w == Len(acct_seen)
           seen == Remember(acct_seen, f)
           log == Append(booked, f)
<1>1. acct_seen \in Seq(FillEvent) /\ booked \in Seq(FillEvent) /\ w <= Retained
  BY LogsOfFills DEF TypeOK
<1>2. acct_seen' = seen /\ booked' = log
  BY DEF AccountTakes
<1>3. /\ seen \in Seq(FillEvent)
      /\ Len(seen) = IF w < Retained THEN w + 1 ELSE Retained
      /\ seen[Len(seen)] = f
      /\ \A i \in 1..(Len(seen) - 1) : seen[i] = acct_seen[(w + 1 - Len(seen)) + i]
  BY <1>1, Remembered
<1>4. Len(log) = n + 1 /\ log[n + 1] = f /\ \A i \in 1..n : log[i] = booked[i]
  BY <1>1
<1>5. /\ w = IF n < Retained THEN n ELSE Retained
      /\ \A i \in 1..w : acct_seen[i] = booked[(n - w) + i]
  BY DEF Window
<1>6. n \in Nat /\ w \in Nat /\ Retained \in Nat /\ Retained # 0
  BY <1>1, LedgerAssumption
<1> HIDE DEF n, w, seen, log
<1> DEFINE v == Len(seen)
<1>7. v \in Nat /\ v = IF n + 1 < Retained THEN n + 1 ELSE Retained
  BY <1>3, <1>5, <1>6
<1> HIDE DEF v
<1>8. ASSUME NEW i \in 1..v PROVE seen[i] = log[((n + 1) - v) + i]
  <2>1. CASE i = v
    <3>1. ((n + 1) - v) + i = n + 1
      BY <2>1, <1>6, <1>7
    <3> QED
      BY <2>1, <3>1, <1>3, <1>4 DEF v
  <2>2. CASE i # v
    <3>1. i \in 1..(v - 1)
      BY <2>2, <1>7
    <3>2. seen[i] = acct_seen[(w + 1 - v) + i]
      BY <3>1, <1>3 DEF v
    <3>3. /\ (w + 1 - v) + i \in 1..w
          /\ (n - w) + ((w + 1 - v) + i) = ((n + 1) - v) + i
          /\ ((n + 1) - v) + i \in 1..n
      BY <3>1, <1>3, <1>5, <1>6, <1>7 DEF v
    <3>4. acct_seen[(w + 1 - v) + i] = booked[((n + 1) - v) + i]
      BY <3>3, <1>5
    <3> QED
      BY <3>2, <3>3, <3>4, <1>4
  <2> QED
    BY <2>1, <2>2
<1>9. Len(acct_seen') = v /\ Len(booked') = n + 1
  BY <1>2, <1>4 DEF v
<1> QED
  BY <1>2, <1>7, <1>8, <1>9 DEF Window

\* A fill out of the window has Retained others after it.
LEMMA GapBooks ==
    ASSUME TypeOK, Window, RepeatsNeedALongGap,
           NEW f \in FillEvent, f \notin ToSet(acct_seen), AccountTakes(f)
    PROVE  RepeatsNeedALongGap'
<1> DEFINE n == Len(booked)
           w == Len(acct_seen)
           log == Append(booked, f)
<1>1. acct_seen \in Seq(FillEvent) /\ booked \in Seq(FillEvent)
  BY LogsOfFills
<1>2. /\ booked' = log /\ DOMAIN log = 1..(n + 1)
      /\ log[n + 1] = f /\ \A i \in 1..n : log[i] = booked[i]
  BY <1>1 DEF AccountTakes
<1>3. n \in Nat /\ w \in Nat /\ Retained \in Nat /\ DOMAIN booked = 1..n
  BY <1>1, LedgerAssumption
<1>4. /\ w = IF n < Retained THEN n ELSE Retained
      /\ \A i \in 1..w : acct_seen[i] = booked[(n - w) + i]
  BY DEF Window
<1>5. \A i \in 1..w : acct_seen[i] # f
  BY <1>1 DEF ToSet
<1> HIDE DEF n, w, log
<1>6. ASSUME NEW i \in 1..n, booked[i] = f PROVE (n + 1) - i > Retained
  <2>1. CASE i > n - w
    <3>1. i - (n - w) \in 1..w /\ (n - w) + (i - (n - w)) = i
      BY <2>1, <1>3, <1>4
    <3>2. acct_seen[i - (n - w)] = booked[i]
      BY <3>1, <1>4
    <3> QED
      BY <3>1, <3>2, <1>5, <1>6
  <2>2. CASE ~ (i > n - w)
    BY <2>2, <1>3, <1>4
  <2> QED
    BY <2>1, <2>2
<1>7. ASSUME NEW i \in 1..(n + 1), NEW j \in 1..(n + 1), i < j, log[i] = log[j]
      PROVE  j - i > Retained
  <2>1. i \in 1..n
    BY <1>3, <1>7
  <2>2. CASE j = n + 1
    BY <2>1, <2>2, <1>2, <1>6, <1>7
  <2>3. CASE j # n + 1
    <3>1. j \in 1..n
      BY <2>3, <1>3
    <3>2. booked[i] = booked[j]
      BY <2>1, <3>1, <1>2, <1>7
    <3> QED
      BY <2>1, <3>1, <3>2, <1>3, <1>7 DEF RepeatsNeedALongGap
  <2> QED
    BY <2>2, <2>3
<1> QED
  BY <1>2, <1>7 DEF RepeatsNeedALongGap

\* A booking goes to the end of the history and of the log.
LEMMA SealedBooks ==
    ASSUME TypeOK, Sealed, NEW f \in FillEvent, f \notin ToSet(acct_seen), AccountTakes(f)
    PROVE  Sealed'
<1> DEFINE n == Len(booked)
           k == checkpoint.fills_sealed
           log == Append(booked, f)
<1>1. booked \in Seq(FillEvent) /\ fill_log \in Seq(FillEvent)
  BY LogsOfFills
<1>2. n \in Nat /\ k \in Nat /\ k <= n
  BY <1>1 DEF TypeOK, Sealed
<1>3. /\ booked' = log /\ fill_log' = Append(fill_log, f) /\ checkpoint' = checkpoint
      /\ totals' = Booked(totals, f)
  BY DEF AccountTakes
<1>4. /\ log \in Seq(FillEvent) /\ Len(log) = n + 1 /\ log[n + 1] = f
      /\ \A i \in 1..n : log[i] = booked[i]
  BY <1>1
<1>5. Len(booked') = n + 1
  BY <1>3, <1>4
<1>6. totals' = Replay(Opening, log)
  <2>1. Replay(Opening, log) = Booked(Replay(Opening, booked), f)
    BY <1>1, ReplayOneMore
  <2> QED
    BY <2>1, <1>3 DEF Sealed
<1>7. SubSeq(booked, 1, k) = SubSeq(log, 1, k)
  <2>1. k \in 0..Len(booked) /\ k \in 0..Len(log) /\ \A i \in 1..k : i \in 1..n
    BY <1>2, <1>4
  <2>2. /\ SubSeq(booked, 1, k) \in Seq(FillEvent) /\ Len(SubSeq(booked, 1, k)) = k
        /\ \A i \in 1..k : SubSeq(booked, 1, k)[i] = booked[i]
    BY <2>1, <1>1, FirstPartOf
  <2>3. /\ SubSeq(log, 1, k) \in Seq(FillEvent) /\ Len(SubSeq(log, 1, k)) = k
        /\ \A i \in 1..k : SubSeq(log, 1, k)[i] = log[i]
    BY <2>1, <1>4, FirstPartOf
  <2>4. \A i \in 1..k : SubSeq(booked, 1, k)[i] = SubSeq(log, 1, k)[i]
    BY <2>1, <2>2, <2>3, <1>4
  <2> QED
    BY <2>2, <2>3, <2>4, SeqEqual
<1>8. Append(fill_log, f) = SubSeq(log, k + 1, n + 1)
  <2>1. /\ n \in 0..Len(booked) /\ n + 1 \in 0..Len(log) /\ k \in 0..n /\ k \in 0..(n + 1)
        /\ n - k \in Nat /\ (n + 1) - k = (n - k) + 1
    BY <1>2, <1>4
  <2>2. /\ Len(fill_log) = n - k
        /\ \A i \in 1..(n - k) : fill_log[i] = booked[k + i]
    <3>1. fill_log = SubSeq(booked, k + 1, n)
      BY DEF Sealed
    <3>2. /\ Len(SubSeq(booked, k + 1, n)) = n - k
          /\ \A i \in 1..(n - k) : SubSeq(booked, k + 1, n)[i] = booked[k + i]
      BY <2>1, <1>1, PartOf
    <3> QED
      BY <3>1, <3>2
  <2>3. /\ Append(fill_log, f) \in Seq(FillEvent) /\ Len(Append(fill_log, f)) = (n - k) + 1
        /\ Append(fill_log, f)[(n - k) + 1] = f
        /\ \A i \in 1..(n - k) : Append(fill_log, f)[i] = fill_log[i]
    BY <2>2, <1>1
  <2>4. /\ SubSeq(log, k + 1, n + 1) \in Seq(FillEvent)
        /\ Len(SubSeq(log, k + 1, n + 1)) = (n - k) + 1
        /\ \A i \in 1..((n - k) + 1) : SubSeq(log, k + 1, n + 1)[i] = log[k + i]
    <3>1. /\ SubSeq(log, k + 1, n + 1) \in Seq(FillEvent)
          /\ Len(SubSeq(log, k + 1, n + 1)) = (n + 1) - k
          /\ \A i \in 1..((n + 1) - k) : SubSeq(log, k + 1, n + 1)[i] = log[k + i]
      BY <2>1, <1>4, PartOf
    <3> QED
      BY <2>1, <3>1
  <2> DEFINE a == Append(fill_log, f)
             b == SubSeq(log, k + 1, n + 1)
             d == n - k
  <2> HIDE DEF a, b, d
  <2>5. ASSUME NEW i \in 1..(d + 1) PROVE a[i] = b[i]
    <3>1. CASE i = d + 1
      <4>1. k + (d + 1) = n + 1
        BY <1>2 DEF d
      <4> QED
        BY <3>1, <4>1, <2>3, <2>4, <1>4 DEF a, b, d
    <3>2. CASE i # d + 1
      <4>1. i \in 1..d /\ k + i \in 1..n
        BY <3>2, <2>1, <1>2 DEF d
      <4> QED
        BY <4>1, <2>2, <2>3, <2>4, <1>4 DEF a, b, d
    <3> QED
      BY <3>1, <3>2
  <2>6. a \in Seq(FillEvent) /\ b \in Seq(FillEvent) /\ Len(a) = d + 1 /\ Len(b) = d + 1
    BY <2>3, <2>4 DEF a, b, d
  <2>7. a = b
    BY <2>5, <2>6, SeqEqual
  <2> QED
    BY <2>7 DEF a, b
<1>9. k <= n + 1
  BY <1>2
<1> HIDE DEF n, log
<1> QED
  BY <1>3, <1>5, <1>6, <1>7, <1>8, <1>9 DEF Sealed

\* What lies before the boundary of a seal belongs to finished orders.
LEMMA BoundaryIsSealable ==
    ASSUME NEW S, fill_log \in Seq(S)
    PROVE  /\ SealBoundary \in 0..Len(fill_log)
           /\ \A j \in 1..SealBoundary : Sealable(fill_log[j])
<1> DEFINE n == Len(fill_log)
           blocked == {i \in DOMAIN fill_log : ~Sealable(fill_log[i])}
           ends == {i - 1 : i \in blocked} \cup {Len(fill_log)}
           end == Min(ends)
           straddling == {fill_log[i].order : i \in (end + 1)..Len(fill_log)}
           bounds == {0} \cup {b \in 1..end : fill_log[b].order \notin straddling}
<1>1. n \in Nat /\ DOMAIN fill_log = 1..n
  OBVIOUS
<1>2. ends \subseteq Nat /\ n \in ends
  BY <1>1
<1>3. end \in ends /\ \A y \in ends : end <= y
  <2> HIDE DEF ends
  <2> QED
    BY <1>2, MinOf
<1>4. end \in 0..n
  <2> HIDE DEF n, end
  <2>1. end \in Nat /\ end <= n
    BY <1>2, <1>3
  <2> QED
    BY <1>1, <2>1
<1>5. \A i \in blocked : end <= i - 1
  <2> SUFFICES ASSUME NEW i \in blocked PROVE end <= i - 1
    OBVIOUS
  <2>1. i - 1 \in ends
    OBVIOUS
  <2> HIDE DEF ends, end
  <2> QED
    BY <2>1, <1>3
<1> HIDE DEF end
<1>6. bounds \subseteq 0..end /\ bounds # {} /\ end \in Nat
  BY <1>4
<1>7. Max(bounds) \in bounds
  <2> HIDE DEF bounds
  <2> QED
    BY <1>6, MaxOf
<1>8. Max(bounds) \in 0..end
  BY <1>6, <1>7
<1>9. SealBoundary = Max(bounds)
  BY DEF SealBoundary, end
<1>10. ASSUME NEW j \in 1..Max(bounds) PROVE Sealable(fill_log[j])
  <2>1. j \in 1..n /\ ~ (end <= j - 1)
    <3> HIDE DEF bounds, n
    <3>1. PICK b \in 0..end : b = Max(bounds)
      BY <1>8
    <3> QED
      BY <3>1, <1>1, <1>4
  <2> QED
    BY <2>1, <1>1, <1>5
<1>11. Max(bounds) \in 0..n
  <2> HIDE DEF bounds, n
  <2> QED
    BY <1>8, <1>4, <1>1
<1> QED
  BY <1>9, <1>10, <1>11

\* A compaction that seals the first m fills of the log.
Seals(m) ==
    /\ \A j \in 1..m : Sealable(fill_log[j])
    /\ fill_log' = Unsealed(m)
    /\ checkpoint' = [fills_sealed |-> checkpoint.fills_sealed + m,
                      totals |-> Replay(checkpoint.totals, SubSeq(fill_log, 1, m))]
    /\ resident' = {o \in resident : ~Archivable(o, ToSet(Unsealed(m)))}

\* Compaction seals fills of finished orders only, and no more than there are.
LEMMA ReconcileSeals ==
    ASSUME TypeOK, Reconcile
    PROVE  \E m \in 0..Len(fill_log) : Seals(m)
<1> DEFINE n == Len(fill_log)
           pair == {SealBoundary, n - Retained}
           m == Min(pair)
<1>1. fill_log \in Seq(FillEvent) /\ n \in Nat /\ Retained \in Nat
  BY LogsOfFills, LedgerAssumption
<1>2. /\ SealBoundary \in 0..n
      /\ \A j \in 1..SealBoundary : Sealable(fill_log[j])
  BY <1>1, BoundaryIsSealable
<1>3. n - Retained > 0
  BY DEF Reconcile
<1>4. pair \subseteq Nat /\ pair # {} /\ SealBoundary \in pair
  BY <1>1, <1>2, <1>3
<1>5. m \in pair /\ m <= SealBoundary
  <2> HIDE DEF pair
  <2> QED
    BY <1>4, MinOf
<1>6. m \in Nat
  BY <1>4, <1>5
<1>7. /\ fill_log' = Unsealed(m)
      /\ checkpoint' = [fills_sealed |-> checkpoint.fills_sealed + m,
                        totals |-> Replay(checkpoint.totals, SubSeq(fill_log, 1, m))]
      /\ resident' = {o \in resident : ~Archivable(o, ToSet(Unsealed(m)))}
  BY DEF Reconcile
<1> HIDE DEF m, n
<1>8. m \in 0..n /\ \A j \in 1..m : Sealable(fill_log[j])
  <2>1. PICK s \in 0..n : s = SealBoundary
    BY <1>2
  <2>2. m <= s /\ s <= n
    BY <2>1, <1>1, <1>5
  <2>3. m \in 0..n /\ 1..m \subseteq 1..s
    BY <2>2, <1>1, <1>6
  <2> QED
    BY <2>1, <2>3, <1>2
<1>9. Seals(m)
  BY <1>7, <1>8 DEF Seals
<1> QED
  BY <1>8, <1>9 DEF n

\* Sealing moves the cut between checkpoint and log, and nothing else.
LEMMA SealedReconciles ==
    ASSUME TypeOK, Sealed, Reconcile
    PROVE  Sealed'
<1> DEFINE n == Len(booked)
           k == checkpoint.fills_sealed
<1>1. PICK m \in 0..Len(fill_log) : Seals(m)
  BY ReconcileSeals
<1>2. booked \in Seq(FillEvent) /\ fill_log \in Seq(FillEvent)
  BY LogsOfFills
<1>3. n \in Nat /\ k \in Nat /\ k <= n /\ m \in Nat
  BY <1>2 DEF TypeOK, Sealed
<1>4. booked' = booked /\ totals' = totals /\ Len(booked') = n
  BY DEF Reconcile
<1>5. /\ fill_log' = SubSeq(fill_log, m + 1, Len(fill_log))
      /\ checkpoint' = [fills_sealed |-> k + m,
                        totals |-> Replay(checkpoint.totals, SubSeq(fill_log, 1, m))]
  BY <1>1 DEF Seals, Unsealed
<1>6. /\ n \in 0..Len(booked) /\ k \in 0..n /\ n - k \in Nat
  BY <1>3
<1>7. /\ Len(fill_log) = n - k /\ fill_log = SubSeq(booked, k + 1, n)
      /\ \A i \in 1..(n - k) : fill_log[i] = booked[k + i]
  BY <1>6, <1>2, PartOf DEF Sealed
<1>8. /\ m <= n - k /\ k + m \in 0..n /\ k + m \in 0..Len(booked) /\ k \in 0..(k + m)
      /\ (k + m) - k = m /\ (n - k) - m = n - (k + m)
      /\ n - k \in 0..Len(fill_log) /\ m \in 0..(n - k)
  <2>1. PICK l \in Nat : l = Len(fill_log) /\ l = n - k /\ m <= l
    BY <1>6, <1>7
  <2>2. n = Len(booked)
    OBVIOUS
  <2> HIDE DEF n, k
  <2> QED
    BY <2>1, <2>2, <1>3
<1>9. fill_log' = SubSeq(booked, (k + m) + 1, n)
  <2> DEFINE a == SubSeq(fill_log, m + 1, n - k)
             b == SubSeq(booked, (k + m) + 1, n)
  <2>1. /\ a \in Seq(FillEvent) /\ Len(a) = (n - k) - m
        /\ \A i \in 1..((n - k) - m) : a[i] = fill_log[m + i]
    <3> HIDE DEF n, k
    <3> QED
      BY <1>2, <1>8, PartOf
  <2>2. /\ b \in Seq(FillEvent) /\ Len(b) = n - (k + m)
        /\ \A i \in 1..(n - (k + m)) : b[i] = booked[(k + m) + i]
    <3> HIDE DEF k
    <3> QED
      BY <1>2, <1>6, <1>8, PartOf
  <2> HIDE DEF a, b, n, k
  <2>3. ASSUME NEW i \in 1..((n - k) - m) PROVE a[i] = b[i]
    <3>1. m + i \in 1..(n - k) /\ k + (m + i) = (k + m) + i
      BY <1>3, <1>8
    <3>2. a[i] = fill_log[m + i] /\ fill_log[m + i] = booked[(k + m) + i]
      BY <3>1, <2>1, <1>7
    <3> QED
      BY <3>2, <2>2, <1>8
  <2>4. a = b
    BY <2>1, <2>2, <2>3, <1>8, SeqEqual
  <2> QED
    BY <2>4, <1>5, <1>7 DEF a, b
<1>10. Replay(checkpoint.totals, SubSeq(fill_log, 1, m))
         = Replay(Opening, SubSeq(booked, 1, k + m))
  <2> DEFINE u == SubSeq(booked, 1, k + m)
             a == SubSeq(u, 1, k)
             b == SubSeq(u, k + 1, k + m)
             c == SubSeq(booked, 1, k)
             e == SubSeq(fill_log, 1, m)
  <2>1. /\ u \in Seq(FillEvent) /\ Len(u) = k + m
        /\ \A i \in 1..(k + m) : u[i] = booked[i]
    BY <1>2, <1>8, FirstPartOf
  <2>2. /\ c \in Seq(FillEvent) /\ Len(c) = k
        /\ \A i \in 1..k : c[i] = booked[i]
    <3>1. k \in 0..Len(booked)
      BY <1>6
    <3> QED
      BY <3>1, <1>2, FirstPartOf
  <2>3. /\ e \in Seq(FillEvent) /\ Len(e) = m
        /\ \A i \in 1..m : e[i] = fill_log[i]
    BY <1>2, FirstPartOf
  <2> HIDE DEF u, n, k
  <2>4. k \in 0..Len(u) /\ k + m \in 0..Len(u)
    BY <2>1, <1>3
  <2>5. /\ a \in Seq(FillEvent) /\ Len(a) = k
        /\ \A i \in 1..k : a[i] = u[i]
    BY <2>1, <2>4, FirstPartOf
  <2>6. /\ b \in Seq(FillEvent) /\ Len(b) = m
        /\ \A i \in 1..m : b[i] = u[k + i]
    BY <2>1, <2>4, <1>8, PartOf
  <2>7. Replay(Replay(Opening, a), b) = Replay(Opening, u)
    BY <2>1, <2>4, ReplayInParts
  <2> HIDE DEF a, b, c, e
  <2>8. a = c
    <3>1. \A i \in 1..k : a[i] = c[i]
      BY <2>1, <2>2, <2>5, <1>3
    <3> QED
      BY <3>1, <2>2, <2>5, SeqEqual
  <2>9. b = e
    <3>1. ASSUME NEW i \in 1..m PROVE b[i] = e[i]
      <4>1. k + i \in 1..(k + m) /\ i \in 1..(n - k)
        BY <1>3, <1>8
      <4> QED
        BY <4>1, <2>1, <2>3, <2>6, <1>7
    <3> QED
      BY <3>1, <2>3, <2>6, SeqEqual
  <2>10. checkpoint.totals = Replay(Opening, c)
    BY DEF Sealed, c, k
  <2> QED
    BY <2>7, <2>8, <2>9, <2>10 DEF e, u
<1>11. /\ checkpoint'.fills_sealed = k + m
       /\ checkpoint'.totals = Replay(Opening, SubSeq(booked, 1, k + m))
  BY <1>5, <1>10
<1>12. totals' = Replay(Opening, booked) /\ k + m <= n
  BY <1>3, <1>4, <1>8 DEF Sealed
<1> HIDE DEF n, k
<1> QED
  BY <1>4, <1>9, <1>11, <1>12 DEF Sealed

---------------------------------------------------------------------------
(* The types are kept *)

\* The account keeps its types when it takes a fill.
LEMMA AccountTyped ==
    ASSUME TypeOK, NEW f \in FillEvent, AccountTakes(f),
           fills \subseteq fills', f \in fills'
    PROVE  /\ acct_seen' \in Seq(fills') /\ Len(acct_seen') <= Retained
           /\ acct_applied' \in Nat /\ totals' \in TotalsType
           /\ fill_log' \in Seq(fills') /\ booked' \in Seq(fills')
           /\ checkpoint' \in [fills_sealed : Nat, totals : TotalsType]
<1>1. /\ acct_seen \in Seq(fills') /\ fill_log \in Seq(fills') /\ booked \in Seq(fills')
      /\ Len(acct_seen) <= Retained
      /\ acct_applied \in Nat /\ totals \in TotalsType
      /\ checkpoint \in [fills_sealed : Nat, totals : TotalsType]
  BY SeqMonotonic DEF TypeOK
<1>2. CASE f \in ToSet(acct_seen)
  BY <1>1, <1>2 DEF AccountTakes, acctVars
<1>3. CASE f \notin ToSet(acct_seen)
  <2>1. /\ acct_seen' = Remember(acct_seen, f) /\ acct_applied' = acct_applied + 1
        /\ totals' = Booked(totals, f) /\ fill_log' = Append(fill_log, f)
        /\ booked' = Append(booked, f) /\ checkpoint' = checkpoint
    BY <1>3 DEF AccountTakes
  <2>2. /\ Remember(acct_seen, f) \in Seq(fills')
        /\ Len(Remember(acct_seen, f)) <= Retained
    <3>1. /\ Remember(acct_seen, f) \in Seq(fills')
          /\ Len(Remember(acct_seen, f)) = IF Len(acct_seen) < Retained
                                           THEN Len(acct_seen) + 1 ELSE Retained
      BY <1>1, Remembered
    <3>2. Len(acct_seen) \in Nat /\ Retained \in Nat
      BY <1>1, LedgerAssumption
    <3> QED
      BY <3>1, <3>2
  <2>3. Booked(totals, f) \in TotalsType
    BY <1>1, BookedTyped
  <2>4. Append(fill_log, f) \in Seq(fills') /\ Append(booked, f) \in Seq(fills')
    BY <1>1
  <2>5. Len(acct_seen') <= Retained
    BY <2>1, <2>2
  <2> QED
    BY <2>1, <2>2, <2>3, <2>4, <2>5, <1>1
<1> QED
  BY <1>2, <1>3

\* So does the window of the order manager.
LEMMA SeenTyped ==
    ASSUME TypeOK, NEW f, fills \subseteq fills', f \in fills'
    PROVE  /\ Remember(oms_seen, f) \in Seq(fills')
           /\ Len(Remember(oms_seen, f)) <= Retained
<1>1. oms_seen \in Seq(fills') /\ Len(oms_seen) <= Retained
  BY SeqMonotonic DEF TypeOK
<1>2. /\ Remember(oms_seen, f) \in Seq(fills')
      /\ Len(Remember(oms_seen, f)) = IF Len(oms_seen) < Retained
                                      THEN Len(oms_seen) + 1 ELSE Retained
  BY <1>1, Remembered
<1>3. Len(oms_seen) \in Nat /\ Retained \in Nat
  BY <1>1, LedgerAssumption
<1> QED
  BY <1>2, <1>3

\* The statuses a fill brings an order to.
LEMMA TargetTyped ==
    ASSUME NEW held
    PROVE  TargetOf(held) \in {"FILLED", "PARTIALLY_FILLED"}
BY DEF TargetOf

\* A fresh execution is a fill with a number of its own.
LEMMA FreshFill ==
    ASSUME TypeOK, FillsNumbered, NEW o \in Orders, NEW lots \in 1..Qty, Execute(o, lots)
    PROVE  \E f \in FillEvent :
              /\ f.fill_id = Cardinality(fills) + 1 /\ f.order = o
              /\ f \notin fills /\ fills' = fills \cup {f}
              /\ o \in resident /\ AccountTakes(f)
              /\ order_fills' = [order_fills EXCEPT ![o] = @ \cup {f}]
              /\ status[o] \in {"OPEN", "PARTIALLY_FILLED"}
              /\ status' = [status EXCEPT ![o] = TargetOf(order_fills[o] \cup {f})]
              /\ oms_seen' = Remember(oms_seen, f) /\ oms_applied' = oms_applied + 1
              /\ UNCHANGED <<repeats, resident>>
<1> DEFINE f == [fill_id |-> Cardinality(fills) + 1, order |-> o, lots |-> lots]
<1>1. Cardinality(fills) \in Nat
  BY FS_CardinalityType DEF FillsNumbered
<1>2. Cardinality(fills) + 1 \in 1..MaxFills
  BY <1>1, LedgerAssumption DEF Execute
<1>3. f \in FillEvent
  BY <1>2 DEF FillEvent
<1>4. f \notin fills
  <2>1. \A g \in fills : g.fill_id \in Nat /\ g.fill_id <= Cardinality(fills)
    BY LedgerAssumption DEF FillsNumbered, TypeOK, FillEvent
  <2>2. f.fill_id = Cardinality(fills) + 1
    OBVIOUS
  <2> QED
    BY <2>1, <2>2, <1>1
<1> QED
  BY <1>3, <1>4 DEF Execute

\* A fill delivered again is ignored, or counted and offered to the account.
LEMMA RepeatedFill ==
    ASSUME NEW f \in fills, Redeliver(f)
    PROVE  /\ repeats' = repeats + 1
           /\ UNCHANGED <<fills, order_fills, resident>>
           /\ \/ UNCHANGED <<omsVars, acctVars>>
              \/ /\ f.order \in resident
                 /\ oms_seen' = Remember(oms_seen, f) /\ oms_applied' = oms_applied + 1
                 /\ \/ status' = status
                    \/ /\ CanTransition(status[f.order], TargetOf(order_fills[f.order]))
                       /\ status' = [status EXCEPT ![f.order] =
                                        TargetOf(order_fills[f.order])]
                 /\ UNCHANGED acctVars \/ AccountTakes(f)
<1> DEFINE o == f.order
           target == TargetOf(order_fills[o])
           moves == status[o] # target \/ target = "PARTIALLY_FILLED"
           raises == moves /\ ~CanTransition(status[o], target)
<1>1. repeats' = repeats + 1 /\ fills' = fills
  BY DEF Redeliver
<1>2. CASE OmsRefuses(f)
  BY <1>1, <1>2 DEF Redeliver, omsVars
<1>3. CASE ~OmsRefuses(f)
  <2>1. /\ oms_seen' = Remember(oms_seen, f) /\ oms_applied' = oms_applied + 1
        /\ status' = IF moves /\ ~raises THEN [status EXCEPT ![o] = target] ELSE status
        /\ IF raises THEN UNCHANGED acctVars ELSE AccountTakes(f)
        /\ UNCHANGED <<order_fills, resident>>
    BY <1>3 DEF Redeliver
  <2>2. f.order \in resident
    BY <1>3 DEF OmsRefuses
  <2> HIDE DEF target
  <2>3. \/ status' = status
        \/ CanTransition(status[o], target) /\ status' = [status EXCEPT ![o] = target]
    BY <2>1
  <2>4. UNCHANGED acctVars \/ AccountTakes(f)
    BY <2>1
  <2> QED
    BY <1>1, <2>1, <2>2, <2>3, <2>4 DEF target
<1> QED
  BY <1>2, <1>3

\* Transitions lead to statuses, and none starts from a terminal one.
LEMMA Statuses ==
    /\ \A t : \A s \in OrderStatus : CanTransition(s, t) => t \in OrderStatus
    /\ \A t : \A s \in TERMINAL_STATUSES : ~CanTransition(s, t)
    /\ TERMINAL_STATUSES \subseteq OrderStatus /\ LiveStatuses \subseteq OrderStatus
    /\ Absent \notin TERMINAL_STATUSES
    /\ {"OPEN", "PARTIALLY_FILLED", "FILLED", "CANCELLED", "UNKNOWN"} \subseteq OrderStatus
<1>1. \A t : \A s \in OrderStatus : CanTransition(s, t) => t \in OrderStatus
  BY DEF CanTransition, ORDER_TRANSITIONS, OrderStatus
<1>2. \A t : \A s \in TERMINAL_STATUSES : ~CanTransition(s, t)
  BY DEF CanTransition, ORDER_TRANSITIONS, OrderStatus, TERMINAL_STATUSES
<1> QED
  BY <1>1, <1>2 DEF OrderStatus, TERMINAL_STATUSES, LiveStatuses, Absent

\* Placing, stopping and resolving an order change its status, and nothing
\* that has been executed or booked.
Manages(o) ==
    /\ ~IsTerminal(o)
    /\ \E s \in OrderStatus : status' = [status EXCEPT ![o] = s]
    /\ resident \subseteq resident' /\ resident' \subseteq resident \cup {o}
    /\ UNCHANGED <<fills, repeats, order_fills, oms_seen, oms_applied, acctVars>>

\* So do Place, Stop and ResolveUnknown.
LEMMA OrderManaged ==
    ASSUME NEW o \in Orders, Place(o) \/ Stop(o) \/ ResolveUnknown(o)
    PROVE  Manages(o)
<1>1. CASE Place(o)
  <2>1. status[o] = Absent /\ status' = [status EXCEPT ![o] = "OPEN"]
        /\ resident' = resident \cup {o}
        /\ UNCHANGED <<fills, repeats, order_fills, oms_seen, oms_applied, acctVars>>
    BY <1>1 DEF Place
  <2>2. ~IsTerminal(o) /\ "OPEN" \in OrderStatus
    BY <2>1, Statuses DEF IsTerminal
  <2> QED
    BY <2>1, <2>2 DEF Manages
<1>2. CASE Stop(o)
  <2>1. PICK s \in {"CANCELLED", "UNKNOWN"} : status' = [status EXCEPT ![o] = s]
    BY <1>2 DEF Stop
  <2>2. s \in OrderStatus /\ ~IsTerminal(o)
    BY <1>2, Statuses DEF Stop, IsTerminal, LiveStatuses
  <2>3. UNCHANGED <<fills, repeats, order_fills, resident, oms_seen, oms_applied, acctVars>>
    BY <1>2 DEF Stop
  <2> QED
    BY <2>1, <2>2, <2>3 DEF Manages
<1>3. CASE ResolveUnknown(o)
  <2>1. PICK s \in {"CANCELLED", "OPEN", "PARTIALLY_FILLED"} : status' = [status EXCEPT ![o] = s]
    BY <1>3 DEF ResolveUnknown
  <2>2. s \in OrderStatus /\ ~IsTerminal(o)
    BY <1>3, Statuses DEF ResolveUnknown, IsTerminal, TERMINAL_STATUSES
  <2>3. UNCHANGED <<fills, repeats, order_fills, resident, oms_seen, oms_applied, acctVars>>
    BY <1>3 DEF ResolveUnknown
  <2> QED
    BY <2>1, <2>2, <2>3 DEF Manages
<1> QED
  BY <1>1, <1>2, <1>3

\* The types are kept by every step.
LEMMA TypesKept ==
    ASSUME TypeOK, FillsNumbered, [Next]_vars
    PROVE  TypeOK'
<1> USE DEF TypeOK
<1>1. ASSUME NEW o \in Orders, Manages(o) PROVE TypeOK'
  <2>1. PICK s \in OrderStatus : status' = [status EXCEPT ![o] = s]
    BY <1>1 DEF Manages
  <2>2. status' \in [Orders -> {Absent} \cup OrderStatus] /\ resident' \subseteq Orders
    BY <2>1, <1>1 DEF Manages
  <2> QED
    BY <1>1, <2>2 DEF Manages, acctVars
<1>2. ASSUME NEW o \in Orders, NEW lots \in 1..Qty, Execute(o, lots) PROVE TypeOK'
  <2>1. PICK f \in FillEvent :
           /\ fills' = fills \cup {f} /\ AccountTakes(f)
           /\ order_fills' = [order_fills EXCEPT ![o] = @ \cup {f}]
           /\ status' = [status EXCEPT ![o] = TargetOf(order_fills[o] \cup {f})]
           /\ oms_seen' = Remember(oms_seen, f) /\ oms_applied' = oms_applied + 1
           /\ UNCHANGED <<repeats, resident>>
    BY <1>2, FreshFill
  <2>2. fills' \subseteq FillEvent /\ fills \subseteq fills' /\ f \in fills'
    BY <2>1
  <2>3. order_fills' \in [Orders -> SUBSET fills']
    BY <2>1, <2>2
  <2>4. status' \in [Orders -> {Absent} \cup OrderStatus]
    <3>1. TargetOf(order_fills[o] \cup {f}) \in OrderStatus
      BY TargetTyped, Statuses
    <3> QED
      BY <2>1, <3>1
  <2>5. oms_seen' \in Seq(fills') /\ Len(oms_seen') <= Retained
    BY <2>1, <2>2, SeenTyped
  <2>6. /\ acct_seen' \in Seq(fills') /\ Len(acct_seen') <= Retained
        /\ acct_applied' \in Nat /\ totals' \in TotalsType
        /\ fill_log' \in Seq(fills') /\ booked' \in Seq(fills')
        /\ checkpoint' \in [fills_sealed : Nat, totals : TotalsType]
    BY <2>1, <2>2, AccountTyped
  <2> QED
    BY <2>1, <2>2, <2>3, <2>4, <2>5, <2>6
<1>3. ASSUME NEW f \in fills, Redeliver(f) PROVE TypeOK'
  <2>1. repeats' \in Nat /\ UNCHANGED <<fills, order_fills, resident>>
    BY <1>3, RepeatedFill
  <2>2. f \in FillEvent /\ f \in fills' /\ fills \subseteq fills'
    BY <2>1
  <2>3. status' \in [Orders -> {Absent} \cup OrderStatus]
    <3>1. TargetOf(order_fills[f.order]) \in OrderStatus
      BY TargetTyped, Statuses
    <3>2. \/ status' = status
          \/ status' = [status EXCEPT ![f.order] = TargetOf(order_fills[f.order])]
      BY <1>3, RepeatedFill DEF omsVars
    <3> QED
      BY <3>1, <3>2
  <2>4. oms_applied' \in Nat /\ oms_seen' \in Seq(fills') /\ Len(oms_seen') <= Retained
    <3>1. \/ oms_seen' = oms_seen /\ oms_applied' = oms_applied
          \/ oms_seen' = Remember(oms_seen, f) /\ oms_applied' = oms_applied + 1
      BY <1>3, RepeatedFill DEF omsVars
    <3>2. CASE oms_seen' = oms_seen /\ oms_applied' = oms_applied
      BY <2>1, <3>2
    <3>3. CASE oms_seen' = Remember(oms_seen, f) /\ oms_applied' = oms_applied + 1
      <4>1. oms_seen' \in Seq(fills') /\ Len(oms_seen') <= Retained
        BY <3>3, <2>2, SeenTyped
      <4> QED
        BY <4>1, <3>3
    <3> QED
      BY <3>1, <3>2, <3>3
  <2>5. /\ acct_seen' \in Seq(fills') /\ Len(acct_seen') <= Retained
        /\ acct_applied' \in Nat /\ totals' \in TotalsType
        /\ fill_log' \in Seq(fills') /\ booked' \in Seq(fills')
        /\ checkpoint' \in [fills_sealed : Nat, totals : TotalsType]
    <3>1. CASE UNCHANGED acctVars
      BY <3>1, <2>1 DEF acctVars
    <3>2. CASE AccountTakes(f)
      BY <3>2, <2>2, AccountTyped
    <3> QED
      BY <3>1, <3>2, <1>3, RepeatedFill
  <2> QED
    BY <2>1, <2>3, <2>4, <2>5
<1>4. ASSUME Reconcile PROVE TypeOK'
  <2>1. PICK m \in 0..Len(fill_log) : Seals(m)
    BY <1>4, ReconcileSeals
  <2>2. /\ fill_log' = SubSeq(fill_log, m + 1, Len(fill_log)) /\ resident' \subseteq resident
        /\ checkpoint' = [fills_sealed |-> checkpoint.fills_sealed + m,
                          totals |-> Replay(checkpoint.totals, SubSeq(fill_log, 1, m))]
    BY <2>1 DEF Seals, Unsealed
  <2>3. UNCHANGED <<fills, repeats, status, order_fills, oms_seen,
                    oms_applied, acct_seen, acct_applied, totals, booked>>
    BY <1>4 DEF Reconcile
  <2>4. fill_log' \in Seq(fills)
    <3>1. Len(fill_log) \in 0..Len(fill_log)
      OBVIOUS
    <3> QED
      BY <2>2, <3>1, PartOf
  <2>5. checkpoint' \in [fills_sealed : Nat, totals : TotalsType]
    <3>1. SubSeq(fill_log, 1, m) \in Seq(FillEvent)
      BY LogsOfFills, FirstPartOf
    <3>2. Replay(checkpoint.totals, SubSeq(fill_log, 1, m)) \in TotalsType
      BY <3>1, ReplayTyped
    <3> QED
      BY <2>2, <3>2
  <2> QED
    BY <2>2, <2>3, <2>4, <2>5
<1>5. CASE UNCHANGED vars
  BY <1>5 DEF vars
<1> QED
  BY <1>1, <1>2, <1>3, <1>4, <1>5, OrderManaged DEF Next

---------------------------------------------------------------------------
(* The rest of the invariant is kept *)

\* What a step does to the account: nothing, a fill, or a compaction; a fill
\* that comes a second time has been counted as a repeat.
LEMMA AccountSteps ==
    ASSUME TypeOK, FillsNumbered, [Next]_vars
    PROVE  \/ UNCHANGED acctVars
           \/ \E f \in FillEvent : /\ f \notin ToSet(acct_seen) /\ AccountTakes(f)
                                   /\ f.order \in resident /\ f \in fills'
                                   /\ f \in fills => repeats' # 0
                                   /\ oms_applied' = oms_applied + 1
                                   /\ resident' = resident
           \/ Reconcile
<1>1. CASE \E o \in Orders : Manages(o)
  BY <1>1 DEF Manages
<1>2. ASSUME NEW o \in Orders, NEW lots \in 1..Qty, Execute(o, lots)
      PROVE  \E f \in FillEvent : /\ f \notin ToSet(acct_seen) /\ AccountTakes(f)
                                  /\ f.order \in resident /\ f \in fills'
                                  /\ f \in fills => repeats' # 0
                                  /\ oms_applied' = oms_applied + 1
                                  /\ resident' = resident
  <2>1. PICK f \in FillEvent :
           /\ f.order = o /\ f \notin fills /\ fills' = fills \cup {f}
           /\ o \in resident /\ AccountTakes(f)
           /\ oms_applied' = oms_applied + 1 /\ resident' = resident
    BY <1>2, FreshFill
  <2>2. f \notin ToSet(acct_seen)
    BY <2>1, InLog DEF TypeOK
  <2> QED
    BY <2>1, <2>2
<1>3. ASSUME NEW f \in fills, Redeliver(f), ~ UNCHANGED acctVars
      PROVE  /\ f \in FillEvent /\ f \notin ToSet(acct_seen) /\ AccountTakes(f)
             /\ f.order \in resident /\ f \in fills' /\ repeats' # 0
             /\ oms_applied' = oms_applied + 1 /\ resident' = resident
  <2>1. /\ f.order \in resident /\ oms_applied' = oms_applied + 1 /\ AccountTakes(f)
        /\ fills' = fills /\ resident' = resident /\ repeats' = repeats + 1
    BY <1>3, RepeatedFill
  <2>2. f \notin ToSet(acct_seen)
    BY <2>1, <1>3 DEF AccountTakes
  <2>3. f \in FillEvent /\ repeats' # 0
    BY <2>1 DEF TypeOK
  <2> QED
    BY <2>1, <2>2, <2>3
<1>4. CASE UNCHANGED vars
  BY <1>4 DEF vars, acctVars
<1> QED
  BY <1>1, <1>2, <1>3, <1>4, OrderManaged DEF Next

\* Nothing but a fresh execution changes what has been executed.
LEMMA ExecutionSteps ==
    ASSUME TypeOK, FillsNumbered, [Next]_vars
    PROVE  \/ UNCHANGED <<fills, order_fills>>
           \/ \E f \in FillEvent :
                 /\ f.fill_id = Cardinality(fills) + 1
                 /\ f \notin fills /\ fills' = fills \cup {f}
                 /\ order_fills' = [order_fills EXCEPT ![f.order] = @ \cup {f}]
<1>1. CASE \E o \in Orders : Manages(o)
  BY <1>1 DEF Manages
<1>2. ASSUME NEW o \in Orders, NEW lots \in 1..Qty, Execute(o, lots)
      PROVE  \E f \in FillEvent :
                 /\ f.fill_id = Cardinality(fills) + 1
                 /\ f \notin fills /\ fills' = fills \cup {f}
                 /\ order_fills' = [order_fills EXCEPT ![f.order] = @ \cup {f}]
  BY <1>2, FreshFill
<1>3. CASE \E f \in fills : Redeliver(f)
  BY <1>3, RepeatedFill
<1>4. CASE Reconcile
  BY <1>4 DEF Reconcile
<1>5. CASE UNCHANGED vars
  BY <1>5 DEF vars
<1> QED
  BY <1>1, <1>2, <1>3, <1>4, <1>5, OrderManaged DEF Next

\* A finished order stays finished.
LEMMA FinishedStays ==
    ASSUME TypeOK, FillsNumbered, [Next]_vars, NEW p \in Orders, IsTerminal(p)
    PROVE  IsTerminal(p)'
<1> SUFFICES status'[p] \in TERMINAL_STATUSES
  BY DEF IsTerminal
<1>0. status[p] \in TERMINAL_STATUSES
  BY DEF IsTerminal
<1>1. ASSUME NEW o \in Orders, Manages(o) PROVE status'[p] = status[p]
  <2>1. o # p /\ \E s \in OrderStatus : status' = [status EXCEPT ![o] = s]
    BY <1>1 DEF Manages
  <2> QED
    BY <2>1 DEF TypeOK
<1>2. ASSUME NEW o \in Orders, NEW lots \in 1..Qty, Execute(o, lots)
      PROVE  status'[p] = status[p]
  <2>1. /\ status[o] \in {"OPEN", "PARTIALLY_FILLED"}
        /\ \E s : status' = [status EXCEPT ![o] = s]
    BY <1>2, FreshFill
  <2>2. o # p
    BY <2>1, <1>0 DEF TERMINAL_STATUSES
  <2> QED
    BY <2>1, <2>2 DEF TypeOK
<1>3. ASSUME NEW f \in fills, Redeliver(f) PROVE status'[p] = status[p]
  <2>1. \/ status' = status
        \/ \E s : CanTransition(status[f.order], s) /\ status' = [status EXCEPT ![f.order] = s]
    BY <1>3, RepeatedFill DEF omsVars
  <2>2. \A s : CanTransition(status[f.order], s) => f.order # p
    BY <1>0, Statuses
  <2> QED
    BY <2>1, <2>2 DEF TypeOK
<1>4. CASE Reconcile
  BY <1>4, <1>0 DEF Reconcile
<1>5. CASE UNCHANGED vars
  BY <1>5, <1>0 DEF vars
<1> QED
  BY <1>0, <1>1, <1>2, <1>3, <1>4, <1>5, OrderManaged DEF Next

\* Fills stay numbered and held.
LEMMA FillsKept ==
    ASSUME TypeOK, FillsNumbered, Held, [Next]_vars
    PROVE  FillsNumbered' /\ Held'
<1>1. CASE UNCHANGED <<fills, order_fills>>
  BY <1>1 DEF FillsNumbered, Held
<1>2. ASSUME NEW f \in FillEvent,
             f.fill_id = Cardinality(fills) + 1, f \notin fills, fills' = fills \cup {f},
             order_fills' = [order_fills EXCEPT ![f.order] = @ \cup {f}]
      PROVE  FillsNumbered' /\ Held'
  <2>1. Cardinality(fills) \in Nat /\ IsFiniteSet(fills)
    BY FS_CardinalityType DEF FillsNumbered
  <2>2. IsFiniteSet(fills') /\ Cardinality(fills') = Cardinality(fills) + 1
    BY <2>1, <1>2, FS_AddElement
  <2>3. \A g \in fills' : g.fill_id <= Cardinality(fills) + 1
    <3>1. \A g \in fills : g.fill_id \in Nat /\ g.fill_id <= Cardinality(fills)
      BY LedgerAssumption DEF FillsNumbered, TypeOK, FillEvent
    <3> QED
      BY <3>1, <2>1, <1>2
  <2>4. FillsNumbered'
    BY <2>2, <2>3 DEF FillsNumbered
  <2>5. ASSUME NEW g \in fills' PROVE g \in order_fills'[g.order]
    <3>1. g.order \in Orders /\ g \in FillEvent
      BY <1>2 DEF TypeOK, FillEvent
    <3>2. CASE g = f
      BY <3>1, <3>2, <1>2 DEF TypeOK
    <3>3. CASE g # f
      <4>1. g \in order_fills[g.order]
        BY <3>3, <1>2 DEF Held
      <4>2. order_fills[g.order] \subseteq order_fills'[g.order]
        BY <3>1, <1>2 DEF TypeOK
      <4> QED
        BY <4>1, <4>2
    <3> QED
      BY <3>2, <3>3
  <2>6. Held'
    BY <2>5 DEF Held
  <2> QED
    BY <2>4, <2>6
<1> QED
  BY <1>1, <1>2, ExecutionSteps

\* The account's side of the invariant is kept.
LEMMA AccountKept ==
    ASSUME TypeOK, FillsNumbered, Window, Sealed, RepeatsNeedALongGap, [Next]_vars
    PROVE  Window' /\ Sealed' /\ RepeatsNeedALongGap'
<1>1. CASE UNCHANGED acctVars
  BY <1>1 DEF acctVars, Window, Sealed, RepeatsNeedALongGap
<1>2. ASSUME NEW f \in FillEvent, f \notin ToSet(acct_seen), AccountTakes(f)
      PROVE  Window' /\ Sealed' /\ RepeatsNeedALongGap'
  BY <1>2, WindowBooks, SealedBooks, GapBooks
<1>3. CASE Reconcile
  <2>1. UNCHANGED <<acct_seen, booked>>
    BY <1>3 DEF Reconcile
  <2> QED
    BY <2>1, <1>3, SealedReconciles DEF Window, RepeatsNeedALongGap
<1> QED
  BY <1>1, <1>2, <1>3, AccountSteps

\* The account never counts a fill that the order manager does not.
LEMMA CountSteps ==
    ASSUME TypeOK, FillsNumbered, [Next]_vars
    PROVE  \/ UNCHANGED <<oms_applied, acct_applied>>
           \/ /\ oms_applied' = oms_applied + 1
              /\ acct_applied' = acct_applied \/ acct_applied' = acct_applied + 1
<1>1. \A f : AccountTakes(f) => acct_applied' = acct_applied \/ acct_applied' = acct_applied + 1
  BY DEF acctVars, AccountTakes
<1>2. CASE \E o \in Orders : Manages(o)
  BY <1>2 DEF Manages, acctVars
<1>3. CASE \E o \in Orders : \E lots \in 1..Qty : Execute(o, lots)
  BY <1>3, <1>1, FreshFill
<1>4. CASE \E f \in fills : Redeliver(f)
  BY <1>4, <1>1, RepeatedFill DEF omsVars, acctVars
<1>5. CASE Reconcile
  BY <1>5 DEF Reconcile
<1>6. CASE UNCHANGED vars
  BY <1>6 DEF vars
<1> QED
  BY <1>2, <1>3, <1>4, <1>5, <1>6, OrderManaged DEF Next

\* Only compaction takes orders away.
LEMMA ResidentSteps ==
    ASSUME TypeOK, FillsNumbered, [Next]_vars
    PROVE  resident \subseteq resident' \/ Reconcile
<1>1. CASE \E o \in Orders : Manages(o)
  BY <1>1 DEF Manages
<1>2. CASE \E o \in Orders : \E lots \in 1..Qty : Execute(o, lots)
  BY <1>2, FreshFill
<1>3. CASE \E f \in fills : Redeliver(f)
  BY <1>3, RepeatedFill
<1>4. CASE UNCHANGED vars
  BY <1>4 DEF vars
<1> QED
  BY <1>1, <1>2, <1>3, <1>4, OrderManaged DEF Next

\* The counts of the two books stay in order, and a history without repeats
\* gets none without one.
LEMMA CountedKept ==
    ASSUME TypeOK, FillsNumbered, Counted, [Next]_vars
    PROVE  Counted'
<1>1. ASSUME NEW f \in fills, Redeliver(f) PROVE Counted'
  <2>1. repeats' # 0
    BY <1>1, RepeatedFill DEF TypeOK
  <2>2. acct_applied \in Nat /\ oms_applied \in Nat /\ acct_applied <= oms_applied
    BY DEF TypeOK, Counted
  <2>3. acct_applied' <= oms_applied'
    BY <2>2, CountSteps
  <2> QED
    BY <2>1, <2>3 DEF Counted
<1>2. ASSUME NEW o \in Orders, NEW lots \in 1..Qty, Execute(o, lots) PROVE Counted'
  <2>1. PICK f \in FillEvent :
           /\ f \notin fills /\ AccountTakes(f)
           /\ oms_applied' = oms_applied + 1 /\ repeats' = repeats
    BY <1>2, FreshFill
  <2>2. f \notin ToSet(acct_seen)
    BY <2>1, InLog DEF TypeOK
  <2>3. acct_applied' = acct_applied + 1 /\ booked' = Append(booked, f)
    BY <2>1, <2>2 DEF AccountTakes
  <2>4. acct_applied \in Nat /\ oms_applied \in Nat /\ booked \in Seq(fills)
    BY DEF TypeOK
  <2>5. \A i \in DOMAIN booked : booked[i] # f
    BY <2>1, <2>4
  <2>6. /\ DOMAIN booked' = 1..(Len(booked) + 1) /\ booked'[Len(booked) + 1] = f
        /\ DOMAIN booked = 1..Len(booked) /\ Len(booked) \in Nat
        /\ \A i \in 1..Len(booked) : booked'[i] = booked[i]
    <3>1. booked \in Seq(FillEvent)
      BY LogsOfFills
    <3>2. /\ DOMAIN Append(booked, f) = 1..(Len(booked) + 1)
          /\ Append(booked, f)[Len(booked) + 1] = f
          /\ DOMAIN booked = 1..Len(booked) /\ Len(booked) \in Nat
          /\ \A i \in 1..Len(booked) : Append(booked, f)[i] = booked[i]
      BY <3>1
    <3> QED
      BY <3>2, <2>3
  <2>7. ASSUME repeats' = 0, NEW i \in DOMAIN booked', NEW j \in DOMAIN booked',
               booked'[i] = booked'[j]
        PROVE  i = j
    <3>1. \A a, b \in DOMAIN booked : booked[a] = booked[b] => a = b
      BY <2>1, <2>7 DEF Counted
    <3> DEFINE n == Len(booked)
    <3>2. i \in 1..n \/ i = n + 1
      BY <2>6
    <3>3. j \in 1..n \/ j = n + 1
      BY <2>6
    <3> HIDE DEF n
    <3>4. /\ \A a \in 1..n : booked'[a] = booked[a] /\ booked[a] # f
          /\ booked'[n + 1] = f /\ DOMAIN booked = 1..n
      BY <2>5, <2>6 DEF n
    <3> QED
      BY <2>7, <3>1, <3>2, <3>3, <3>4
  <2>8. acct_applied' <= oms_applied' /\ (repeats' = 0 => acct_applied' = oms_applied')
    BY <2>1, <2>3, <2>4 DEF Counted
  <2> QED
    BY <2>7, <2>8 DEF Counted
<1>3. CASE \E o \in Orders : Manages(o)
  BY <1>3 DEF Manages, acctVars, Counted
<1>4. CASE Reconcile
  BY <1>4 DEF Reconcile, Counted
<1>5. CASE UNCHANGED vars
  BY <1>5 DEF vars, Counted
<1> QED
  BY <1>1, <1>2, <1>3, <1>4, <1>5, OrderManaged DEF Next

\* What is sealed or archived stays done.
LEMMA ArchivedKept ==
    ASSUME TypeOK, FillsNumbered, Held, Sealed, ArchivedOrdersAreDone, [Next]_vars
    PROVE  ArchivedOrdersAreDone'
<1> DEFINE k == checkpoint.fills_sealed
           n == Len(booked)
<1>1. /\ booked \in Seq(FillEvent) /\ fill_log \in Seq(FillEvent)
      /\ \A f \in FillEvent : f.order \in Orders
  BY LogsOfFills DEF FillEvent
<1>2. n \in Nat /\ k \in Nat /\ k <= n
  BY <1>1 DEF TypeOK, Sealed
<1>3. ASSUME NEW i \in 1..k PROVE IsTerminal(booked[i].order)'
  <2>1. IsTerminal(booked[i].order) /\ booked[i].order \in Orders
    BY <1>1, <1>2 DEF ArchivedOrdersAreDone
  <2>2. PICK p \in Orders : p = booked[i].order
    BY <2>1
  <2>3. IsTerminal(p)
    BY <2>1, <2>2
  <2>4. IsTerminal(p)'
    BY <2>3, FinishedStays
  <2>5. booked'[i] = booked[i]
    <3>1. CASE booked' = booked
      BY <3>1
    <3>2. CASE \E f \in FillEvent : booked' = Append(booked, f)
      <4>1. i \in 1..Len(booked)
        BY <1>2
      <4> QED
        BY <3>2, <4>1, <1>1
    <3> QED
      BY <3>1, <3>2, AccountSteps DEF acctVars, AccountTakes, Reconcile
  <2> QED
    BY <2>2, <2>4, <2>5 DEF IsTerminal
<1>4. CASE Reconcile
  <2>1. PICK m \in 0..Len(fill_log) : Seals(m)
    BY <1>4, ReconcileSeals
  <2>2. booked' = booked /\ status' = status
    BY <1>4 DEF Reconcile
  <2>3. /\ \A j \in 1..m : Sealable(fill_log[j])
        /\ fill_log' = SubSeq(fill_log, m + 1, Len(fill_log))
        /\ checkpoint'.fills_sealed = k + m
        /\ resident' = {o \in resident : ~Archivable(o, ToSet(fill_log'))}
    BY <2>1 DEF Seals, Unsealed
  <2>4. /\ Len(fill_log) = n - k /\ \A j \in 1..(n - k) : fill_log[j] = booked[k + j]
    <3>1. n \in 0..Len(booked) /\ k \in 0..n
      BY <1>2
    <3> QED
      BY <3>1, <1>1, PartOf DEF Sealed
  <2>5. ASSUME NEW i \in 1..(k + m) PROVE IsTerminal(booked[i].order)'
    <3>1. CASE i \in 1..k
      BY <3>1, <1>3
    <3>2. CASE i \notin 1..k
      <4> HIDE DEF k, n
      <4>1. i - k \in 1..m /\ i - k \in 1..(n - k) /\ k + (i - k) = i
        BY <3>2, <1>2, <2>4
      <4>2. Sealable(booked[i])
        BY <4>1, <2>3, <2>4
      <4> QED
        BY <4>2, <2>2 DEF Sealable, IsTerminal
    <3> QED
      BY <3>1, <3>2
  <2>6. ASSUME NEW i \in DOMAIN fill_log' PROVE fill_log'[i].order \in resident'
    <3>1. Len(fill_log) \in 0..Len(fill_log) /\ Len(fill_log) \in Nat
      BY <1>1
    <3>2. /\ fill_log' \in Seq(FillEvent) /\ Len(fill_log') = Len(fill_log) - m
          /\ \A j \in 1..(Len(fill_log) - m) : fill_log'[j] = fill_log[m + j]
      <4>1. LET part == SubSeq(fill_log, m + 1, Len(fill_log)) IN
               /\ part \in Seq(FillEvent) /\ Len(part) = Len(fill_log) - m
               /\ \A j \in 1..(Len(fill_log) - m) : part[j] = fill_log[m + j]
        BY <1>1, <3>1, PartOf
      <4> QED
        BY <4>1, <2>3
    <3>3. i \in 1..(Len(fill_log) - m)
      BY <3>2
    <3>4. m + i \in 1..Len(fill_log) /\ m + i \in DOMAIN fill_log
      BY <1>1, <3>1, <3>3
    <3>5. PICK f : f = fill_log[m + i] /\ f = fill_log'[i]
      BY <3>2, <3>3
    <3>6. f \in fills /\ f.order \in resident
      <4>1. fill_log[m + i] \in fills
        BY <3>4 DEF TypeOK
      <4>2. fill_log[m + i].order \in resident
        BY <3>4 DEF ArchivedOrdersAreDone
      <4> QED
        BY <4>1, <4>2, <3>5
    <3>7. f \in order_fills[f.order] /\ f \in ToSet(fill_log')
      BY <3>2, <3>3, <3>5, <3>6 DEF Held, ToSet
    <3>8. ~Archivable(f.order, ToSet(fill_log'))
      BY <3>7 DEF Archivable
    <3> QED
      BY <3>5, <3>6, <3>8, <2>3
  <2> QED
    BY <2>2, <2>3, <2>5, <2>6 DEF ArchivedOrdersAreDone
<1>5. CASE resident \subseteq resident' /\ UNCHANGED acctVars
  BY <1>3, <1>5 DEF ArchivedOrdersAreDone, acctVars
<1>6. ASSUME NEW f \in FillEvent, f \notin ToSet(acct_seen), AccountTakes(f),
             f.order \in resident, resident' = resident
      PROVE  ArchivedOrdersAreDone'
  <2>1. checkpoint' = checkpoint /\ fill_log' = Append(fill_log, f)
    BY <1>6 DEF AccountTakes
  <2>2. ASSUME NEW i \in DOMAIN fill_log' PROVE fill_log'[i].order \in resident
    <3>1. \/ i \in DOMAIN fill_log /\ fill_log'[i] = fill_log[i]
          \/ fill_log'[i] = f
      BY <2>1, <1>1
    <3> QED
      BY <3>1, <1>6 DEF ArchivedOrdersAreDone
  <2> QED
    BY <2>1, <2>2, <1>3, <1>6 DEF ArchivedOrdersAreDone
<1> QED
  BY <1>4, <1>5, <1>6, AccountSteps, ResidentSteps

\* The invariant holds in every state.
THEOREM AlwaysKept == Spec => []Kept
<1>1. Init => Kept
  <2> SUFFICES ASSUME Init PROVE Kept
    OBVIOUS
  <2> USE DEF Init
  <2>1. Opening \in TotalsType
    BY DEF Opening, TotalsType, InitialBalance
  <2>2. TypeOK
    <3>1. <<>> \in Seq(fills) /\ Len(<<>>) = 0 /\ Retained \in Nat
      BY LedgerAssumption
    <3> QED
      BY <2>1, <3>1 DEF TypeOK
  <2>3. FillsNumbered /\ Held
    BY FS_EmptySet DEF FillsNumbered, Held
  <2>4. Window
    BY LedgerAssumption DEF Window
  <2>5. Sealed
    <3>1. SubSeq(<<>>, 0 + 1, 0) = <<>> /\ SubSeq(<<>>, 1, 0) = <<>>
      BY SubSeqEmpty
    <3>2. /\ booked = <<>> /\ fill_log = <<>> /\ Len(booked) = 0 /\ totals = Opening
          /\ checkpoint.fills_sealed = 0 /\ checkpoint.totals = Opening
      OBVIOUS
    <3>3. Replay(Opening, <<>>) = Opening
      BY ReplayNothing
    <3>4. fill_log = SubSeq(booked, checkpoint.fills_sealed + 1, Len(booked))
      BY <3>1, <3>2
    <3>5. checkpoint.totals = Replay(Opening, SubSeq(booked, 1, checkpoint.fills_sealed))
      BY <3>1, <3>2, <3>3
    <3>6. totals = Replay(Opening, booked) /\ checkpoint.fills_sealed <= Len(booked)
      BY <3>2, <3>3
    <3> QED
      BY <3>4, <3>5, <3>6 DEF Sealed
  <2>6. Counted /\ RepeatsNeedALongGap /\ ArchivedOrdersAreDone
    BY DEF Counted, RepeatsNeedALongGap, ArchivedOrdersAreDone
  <2> QED
    BY <2>2, <2>3, <2>4, <2>5, <2>6 DEF Kept
<1>2. Kept /\ [Next]_vars => Kept'
  BY TypesKept, FillsKept, AccountKept, CountedKept, ArchivedKept DEF Kept
<1> QED
  BY <1>1, <1>2, PTL DEF Spec

---------------------------------------------------------------------------
(* What it implies *)

\* Checkpoint and log are together the whole history, whose totals are the
\* account's, and every variable has its type.
THEOREM BooksAlwaysBalance == Spec => []BooksBalance
<1>1. Kept => BooksBalance
  BY DEF Kept, Sealed, BooksBalance
<1> QED
  BY <1>1, AlwaysKept, PTL

\* A fill is booked twice only after Retained others.
THEOREM RepeatsAreFarApart == Spec => []RepeatsNeedALongGap
<1>1. Kept => RepeatsNeedALongGap
  BY DEF Kept
<1> QED
  BY <1>1, AlwaysKept, PTL

\* What is sealed or archived is finished.
THEOREM ArchivingIsSafe == Spec => []ArchivedOrdersAreDone
<1>1. Kept => ArchivedOrdersAreDone
  BY DEF Kept
<1> QED
  BY <1>1, AlwaysKept, PTL

\* Rebuilding from the checkpoint and the log gives the totals, and their fees
\* are those of the checkpoint and one for every entry of the log.
LEMMA Rebuilt ==
    ASSUME TypeOK, Sealed
    PROVE  /\ Replay(checkpoint.totals, fill_log) = totals
           /\ totals.fees = checkpoint.totals.fees + Len(fill_log)
<1>1. booked \in Seq(FillEvent) /\ fill_log \in Seq(FillEvent)
  BY LogsOfFills
<1>2. checkpoint.fills_sealed \in 0..Len(booked) /\ checkpoint.totals \in TotalsType
  BY <1>1 DEF TypeOK, Sealed
<1>3. Replay(checkpoint.totals, fill_log) = totals
  BY <1>1, <1>2, ReplayInParts DEF Sealed
<1>4. Replay(checkpoint.totals, fill_log).fees = checkpoint.totals.fees + Len(fill_log)
  BY <1>1, <1>2, ReplayTyped
<1> QED
  BY <1>3, <1>4

\* A log without repeats has as many fills as entries.
LEMMA LogCounted ==
    ASSUME NEW S, NEW log \in Seq(S),
           \A i, j \in DOMAIN log : log[i] = log[j] => i = j
    PROVE  Cardinality(ToSet(log)) = Len(log)
<1> DEFINE n == Len(log)
<1>1. n \in Nat /\ DOMAIN log = 1..n
  OBVIOUS
<1>2. ToSet(log) = {log[i] : i \in 1..n}
  BY <1>1 DEF ToSet
<1>3. log \in Bijection(1..n, ToSet(log))
  <2>1. log \in [1..n -> ToSet(log)]
    BY <1>1, <1>2
  <2>2. \A i, j \in 1..n : log[i] = log[j] => i = j
    BY <1>1
  <2>3. \A y \in ToSet(log) : \E i \in 1..n : log[i] = y
    BY <1>2
  <2> QED
    BY <2>1, <2>2, <2>3 DEF Bijection, Injection, Surjection, IsInjective
<1>4. ExistsBijection(1..n, ToSet(log))
  BY <1>3 DEF ExistsBijection
<1>5. IsFiniteSet(1..n) /\ Cardinality(1..n) = n
  <2> HIDE DEF n
  <2> QED
    BY <1>1, FS_Interval
<1> QED
  BY <1>4, <1>5, FS_Bijection

\* Without a repeat the books disagree only about orders that a seal has cut.
THEOREM OnlySplitsDisagree == Spec => []OnlySplitsMakeMismatches
<1>1. Kept => OnlySplitsMakeMismatches
  <2> SUFFICES ASSUME Kept, repeats = 0, NEW x \in Mismatches
               PROVE  x \in {"ORDER_STATE_MISMATCH"}
                            \cup (IF \E o \in Orders : Split(o) THEN {"MISSING_FILL"} ELSE {})
    BY DEF OnlySplitsMakeMismatches
  <2> USE DEF Kept
  <2>1. FillsMissing => \E o \in Orders : Split(o)
    <3>1. oms_applied = acct_applied
      BY DEF Counted
    <3>2. SUFFICES ASSUME NEW f \in OmsFills \ LogFills PROVE \E o \in Orders : Split(o)
      BY <3>1 DEF FillsMissing
    <3>3. PICK o \in resident : f \in order_fills[o]
      BY DEF OmsFills
    <3> QED
      BY <3>3 DEF Split, TypeOK
  <2>2. LogFills \subseteq OmsFills
    <3> SUFFICES ASSUME NEW i \in DOMAIN fill_log PROVE fill_log[i] \in OmsFills
      BY DEF LogFills, ToSet
    <3>1. fill_log[i] \in fills /\ fill_log[i].order \in resident
      BY DEF TypeOK, ArchivedOrdersAreDone
    <3> QED
      BY <3>1 DEF Held, OmsFills
  <2>3. Replay(checkpoint.totals, fill_log) = totals
    BY Rebuilt
  <2>4. checkpoint.totals.fees + Fee * Cardinality(LogFills) = totals.fees
    <3>1. \A i, j \in DOMAIN fill_log : fill_log[i] = fill_log[j] => i = j
      <4> DEFINE n == Len(booked)
                 k == checkpoint.fills_sealed
      <4>1. booked \in Seq(FillEvent) /\ fill_log \in Seq(FillEvent) /\ k \in Nat /\ k <= n
        BY LogsOfFills DEF TypeOK, Sealed
      <4>2. n \in 0..Len(booked) /\ k \in 0..n /\ n \in Nat
        BY <4>1
      <4>3. /\ Len(fill_log) = n - k
            /\ \A j \in 1..(n - k) : fill_log[j] = booked[k + j]
        BY <4>1, <4>2, PartOf DEF Sealed
      <4>4. \A i, j \in 1..n : booked[i] = booked[j] => i = j
        BY <4>1 DEF Counted
      <4>5. DOMAIN fill_log = 1..(n - k)
        BY <4>1, <4>3
      <4> HIDE DEF n, k
      <4>6. ASSUME NEW i \in 1..(n - k), NEW j \in 1..(n - k), fill_log[i] = fill_log[j]
            PROVE  i = j
        <5>1. k + i \in 1..n /\ k + j \in 1..n
          BY <4>1, <4>2
        <5>2. booked[k + i] = booked[k + j]
          BY <4>3, <4>6
        <5>3. k + i = k + j
          BY <5>1, <5>2, <4>4
        <5> QED
          BY <5>3, <4>1
      <4> QED
        BY <4>5, <4>6
    <3>2. Cardinality(LogFills) = Len(fill_log)
      BY <3>1, LogsOfFills, LogCounted DEF LogFills
    <3>3. Len(fill_log) \in Nat /\ Fee * Len(fill_log) = Len(fill_log)
      BY LogsOfFills DEF Fee
    <3> QED
      BY <3>2, <3>3, Rebuilt
  <2>5. \/ x = "MISSING_FILL" /\ FillsMissing
        \/ x = "ORDER_STATE_MISMATCH"
    BY <2>2, <2>3, <2>4 DEF Mismatches
  <2> QED
    BY <2>1, <2>5
<1> QED
  BY <1>1, AlwaysKept, PTL

\* A fill that one book has and the other has not is never made good.
THEOREM DivergenceStays == Spec => DivergenceIsForever
<1>1. oms_applied # acct_applied => ~Ok
  BY DEF Ok, Mismatches, FillsMissing, Warnings
<1>2. ASSUME Kept, [Next]_vars, oms_applied # acct_applied
      PROVE  /\ ~Ok /\ ~Ok'
             /\ UNCHANGED checkpoint /\ resident \subseteq resident'
  <2>1. acct_applied \in Nat /\ oms_applied \in Nat /\ acct_applied <= oms_applied
    BY <1>2 DEF Kept, TypeOK, Counted
  <2>2. (oms_applied # acct_applied)'
    BY <1>2, <2>1, CountSteps DEF Kept
  <2>3. ~Reconcile
    BY <1>1, <1>2 DEF Reconcile
  <2>4. UNCHANGED checkpoint
    BY <1>2, <2>3, AccountSteps DEF Kept, acctVars, AccountTakes
  <2>5. ~Ok'
    BY <1>1, <2>2 DEF Ok, Mismatches, FillsMissing, Warnings
  <2> QED
    BY <1>1, <1>2, <2>3, <2>4, <2>5, ResidentSteps DEF Kept
<1>3. Kept /\ [Next]_vars =>
        [oms_applied # acct_applied =>
            /\ ~Ok /\ ~Ok'
            /\ UNCHANGED checkpoint /\ resident \subseteq resident']_vars
  BY <1>2
<1> QED
  BY <1>3, AlwaysKept, PTL DEF Spec, DivergenceIsForever
=============================================================================
