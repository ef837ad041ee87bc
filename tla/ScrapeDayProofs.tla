--------------------------- MODULE ScrapeDayProofs ---------------------------
(* Proofs of the safety properties of ScrapeDay, and that it implements      *)
(* DayFetch, for every set of events and every spread of them over the day,  *)
(* every cap, window, floor and chunk, and any number of failures and        *)
(* repeated units.                                                           *)
EXTENDS ScrapeDay, FiniteSetTheorems, SequenceTheorems, WellFoundedInduction, TLAPS

(* The inductive invariant, in named parts. *)

Seconds == 0..(DayEnd - 1)
Info == [negentropy : {"unprobed", "yes", "no"}, neg_cap : Nat]
Window == {w \in (0..DayEnd) \X (0..DayEnd) : w[1] < w[2]}

\* Every variable keeps its type.
Typed ==
    /\ relay \in [at : [Ids -> Seconds], syncCap : Nat, baseline : BOOLEAN]
    /\ info \in Info /\ saved \in Info
    /\ phase \in {"idle", "sync", "fetch", "synced", "page", "recheck", "paged"}
    /\ stack \in Seq(Window)
    /\ missing \subseteq Ids /\ have \subseteq Ids
    /\ stored \subseteq Ids /\ dropped \subseteq Ids
    /\ synced \in BOOLEAN
    /\ until \in Seconds
    /\ seen \in Nat /\ new \in Nat

\* What a phase says of the other variables.
Phases ==
    /\ phase # "idle" => done = NotDone
    /\ phase # "fetch" => missing = {}
    /\ phase = "synced" => stack = <<>>
    /\ phase = "idle" => ~synced /\ seen = 0 /\ new = 0 /\ stack = <<>>

\* No set was seen that is larger than the relay presents.
Caps == info.neg_cap <= relay.syncCap /\ saved.neg_cap <= relay.syncCap

\* The events of a window, and of a sequence of windows.
InWindow(at, w) == {i \in Ids : w[1] <= at[i] /\ at[i] < w[2]}
InWindows(at, s) == {i \in Ids : \E k \in 1..Len(s) : i \in InWindow(at, s[k])}
OnStack == InWindows(relay.at, stack)

Syncing == phase \in {"sync", "fetch", "synced"}
Paging == phase \in {"page", "recheck"}
Gone == stored \cup dropped

\* An event the sink lacks is in a window still to reconcile, or about to be
\* fetched, or the relay does not show it.
SyncCovers ==
    Syncing /\ Answers /\ SizeTells =>
        \A i \in Ids \ Gone : i \in OnStack \/ i \in missing \/ HiddenFromSync(i)

\* The walk has had all that a page shows of the seconds above its bound.
PagesCover ==
    /\ Paging =>
         /\ have \subseteq Gone
         /\ \A i \in have : relay.at[i] >= until
         /\ \A i \in Ids \ have : relay.at[i] > until => HiddenFromPages(i)
    /\ phase = "paged" => \A i \in Ids \ Gone : HiddenFromPages(i)

\* Windows of the stack do not overlap, so what is counted is not on it.
Ordered(s) == \A j, k \in 1..Len(s) : j < k => s[j][2] <= s[k][1]

Counts ==
    /\ Ordered(stack)
    /\ Syncing =>
         /\ seen + Cardinality(OnStack) <= Cardinality(Ids)
         /\ new + Cardinality(missing) <= seen
         /\ ~synced /\ phase = "sync" => seen = 0 /\ new = 0
    /\ Paging => seen = Cardinality(have) /\ new <= seen
    /\ phase = "paged" => new <= seen /\ seen <= Cardinality(Ids)

DayInv ==
    /\ Typed /\ Phases /\ Caps
    /\ SyncCovers /\ PagesCover /\ Counts
    /\ DoneIsComplete /\ CountedOnce

-----------------------------------------------------------------------------
(* Facts about numbers. *)

\* The smaller and the larger of two numbers.
LEMMA MinOfTwo ==
    ASSUME NEW a \in Int, NEW b \in Int
    PROVE  Min({a, b}) = IF a <= b THEN a ELSE b
<1> DEFINE m == IF a <= b THEN a ELSE b
<1>1. m \in {a, b} /\ \A y \in {a, b} : m <= y
  OBVIOUS
<1>2. \A x \in {a, b} : (\A y \in {a, b} : x <= y) => x = m
  OBVIOUS
<1> HIDE DEF m
<1>3. Min({a, b}) = m
  BY <1>1, <1>2 DEF Min
<1> QED
  BY <1>3 DEF m

LEMMA MaxOfTwo ==
    ASSUME NEW a \in Int, NEW b \in Int
    PROVE  Max({a, b}) = IF a >= b THEN a ELSE b
<1> DEFINE m == IF a >= b THEN a ELSE b
<1>1. m \in {a, b} /\ \A y \in {a, b} : m >= y
  OBVIOUS
<1>2. \A x \in {a, b} : (\A y \in {a, b} : x >= y) => x = m
  OBVIOUS
<1> HIDE DEF m
<1>3. Max({a, b}) = m
  BY <1>1, <1>2 DEF Max
<1> QED
  BY <1>3 DEF m

\* Every set of natural numbers has a least element: induction by the least
\* counterexample.
LEMMA LeastNat ==
    ASSUME NEW T \in SUBSET Nat, T # {}
    PROVE  \E x \in T : \A y \in T : x <= y
<1> DEFINE R == {ss \in Nat \X Nat : ss[1] < ss[2]}
<1>1. IsWellFoundedOn(R, Nat)
  BY NatLessThanWellFounded DEF OpToRel
<1> HIDE DEF R
<1>2. PICK x \in T : \A y \in T : <<y, x>> \notin R
  BY <1>1, WFMin
<1>3. \A y \in T : x <= y
  <2> SUFFICES ASSUME NEW y \in T, y < x PROVE FALSE
    OBVIOUS
  <2>1. <<y, x>> \in Nat \X Nat /\ <<y, x>>[1] = y /\ <<y, x>>[2] = x
    OBVIOUS
  <2>2. <<y, x>> \in R
    BY <2>1 DEF R
  <2> QED
    BY <1>2, <2>2
<1> QED
  BY <1>3

\* A set of seconds has its minimum.
LEMMA MinOfSeconds ==
    ASSUME NEW T \in SUBSET Seconds, T # {}
    PROVE  Min(T) \in T /\ \A y \in T : Min(T) <= y
<1>1. T \in SUBSET Nat
  BY WindowAssumption DEF Seconds
<1>2. \E x \in T : \A y \in T : x <= y
  BY <1>1, LeastNat
<1> QED
  BY <1>2 DEF Min

\* Sets of events are finite.
LEMMA Finite ==
    ASSUME NEW S \in SUBSET Ids
    PROVE  /\ IsFiniteSet(S) /\ Cardinality(S) \in Nat
           /\ \A T \in SUBSET S : Cardinality(T) <= Cardinality(S)
           /\ \A T \in SUBSET S : Cardinality(T) = Cardinality(S) => T = S
BY WindowAssumption, FS_Subset, FS_CardinalityType

\* The events of two sets that share none.
LEMMA Apart ==
    ASSUME NEW S \in SUBSET Ids, NEW T \in SUBSET Ids, S \cap T = {}
    PROVE  Cardinality(S \cup T) = Cardinality(S) + Cardinality(T)
<1>1. IsFiniteSet(S) /\ IsFiniteSet(T) /\ Cardinality(S) \in Nat /\ Cardinality(T) \in Nat
  BY Finite
<1>2. Cardinality(S \cup T) = Cardinality(S) + Cardinality(T) - Cardinality({})
  BY <1>1, FS_Union
<1> QED
  BY <1>1, <1>2, FS_EmptySet

\* A cut answer is full, and holds the newest.
LEMMA NewestFacts ==
    ASSUME NEW S \in SUBSET Ids, NEW cap \in Nat, NEW P \in Newest(S, cap)
    PROVE  /\ P \subseteq S /\ P \subseteq Ids /\ Cardinality(P) \in Nat
           /\ Cardinality(P) <= cap
           /\ P = S \/ Cardinality(P) = cap
           /\ Cardinality(S) <= cap => P = S
           /\ \A p \in P, q \in S \ P : relay.at[q] <= relay.at[p]
<1>1. /\ P \in SUBSET S /\ Cardinality(P) = Min({cap, Cardinality(S)})
      /\ \A p \in P, q \in S \ P : relay.at[q] <= relay.at[p]
  BY DEF Newest, kSubset
<1>2. /\ Cardinality(S) \in Nat /\ Cardinality(P) \in Nat
      /\ Cardinality(P) = Cardinality(S) => P = S
  BY <1>1, Finite
<1>3. Cardinality(P) = IF cap <= Cardinality(S) THEN cap ELSE Cardinality(S)
  BY <1>1, <1>2, MinOfTwo
<1> QED
  BY <1>1, <1>2, <1>3

-----------------------------------------------------------------------------
(* Windows. *)

\* Seconds and the bounds of windows are numbers.
LEMMA Numbers ==
    /\ DayEnd \in Nat \ {0}
    /\ \A t \in Seconds : t \in Int /\ 0 <= t /\ t < DayEnd
    /\ \A w \in Window : w[1] \in Int /\ w[2] \in Int /\ 0 <= w[1] /\ w[1] < w[2] /\ w[2] <= DayEnd
BY WindowAssumption DEF Seconds, Window

\* The last window is taken off.
LEMMA Popped ==
    ASSUME NEW s \in Seq(Window), s # <<>>, Ordered(s), NEW at \in [Ids -> Seconds]
    PROVE  LET w == s[Len(s)]
               r == SubSeq(s, 1, Len(s) - 1)
           IN  /\ w \in Window /\ r \in Seq(Window) /\ Ordered(r)
               /\ \A k \in 1..Len(r) : r[k][2] <= w[1]
               /\ InWindows(at, s) = InWindows(at, r) \cup InWindow(at, w)
               /\ InWindows(at, r) \cap InWindow(at, w) = {}
<1> DEFINE n == Len(s)
           w == s[n]
           r == SubSeq(s, 1, n - 1)
<1>1. n \in Nat \ {0} /\ \A k \in 1..n : s[k] \in Window
  BY EmptySeq, LenProperties, ElementOfSeq
<1>2. r \in Seq(Window) /\ Len(r) = n - 1 /\ \A k \in 1..(n - 1) : r[k] = s[k]
  <2>1. \A k \in 1..(n - 1) : s[k] \in Window
    BY <1>1
  <2>2. /\ r \in Seq(Window)
        /\ Len(r) = IF 1 <= n - 1 THEN n - 1 - 1 + 1 ELSE 0
        /\ \A k \in 1..(n - 1 - 1 + 1) : r[k] = s[1 + k - 1]
    BY <1>1, <2>1, SubSeqProperties
  <2> HIDE DEF n, r
  <2>3. Len(r) = n - 1
    BY <1>1, <2>2
  <2>4. \A k \in 1..(n - 1) : k \in 1..(n - 1 - 1 + 1) /\ 1 + k - 1 = k
    BY <1>1
  <2> QED
    BY <2>2, <2>3, <2>4
<1> HIDE DEF n, r
<1>3. \A k \in 1..(n - 1) : s[k][2] <= w[1]
  BY <1>1 DEF Ordered, n
<1>4. Ordered(r) /\ \A k \in 1..Len(r) : r[k][2] <= w[1]
  BY <1>1, <1>2, <1>3 DEF Ordered, n
<1>5. \A i \in Ids : i \in InWindows(at, s) <=> i \in InWindows(at, r) \/ i \in InWindow(at, w)
  BY <1>1, <1>2 DEF InWindows, n
<1>6. ASSUME NEW i \in InWindows(at, r), i \in InWindow(at, w)
      PROVE  FALSE
  <2>1. PICK k \in 1..(n - 1) : i \in InWindow(at, s[k])
    BY <1>2 DEF InWindows
  <2>2. at[i] \in Int
    BY Numbers DEF InWindows
  <2>3. s[k] \in Window /\ w \in Window
    BY <1>1 DEF n
  <2>4. s[k][2] \in Int /\ w[1] \in Int /\ at[i] < s[k][2] /\ w[1] <= at[i]
    BY <1>6, <2>1, <2>3, Numbers DEF InWindow
  <2> QED
    BY <1>3, <2>2, <2>4
<1> QED
  BY <1>1, <1>2, <1>4, <1>5, <1>6 DEF n, r, InWindow, InWindows

\* The halves of a window take its place.
LEMMA Split ==
    ASSUME NEW r \in Seq(Window), Ordered(r), NEW at \in [Ids -> Seconds],
           NEW w \in Window, \A k \in 1..Len(r) : r[k][2] <= w[1],
           Splittable(w[1], w[2])
    PROVE  LET s == r \o Halves(w[1], w[2])
           IN  /\ s \in Seq(Window) /\ Ordered(s)
               /\ InWindows(at, s) = InWindows(at, r) \cup InWindow(at, w)
<1> DEFINE m == w[1] + (w[2] - w[1]) \div 2
           lo == <<w[1], m>>
           hi == <<m, w[2]>>
           h == <<lo, hi>>
           s == r \o h
<1>1. w[1] \in 0..DayEnd /\ w[2] \in 0..DayEnd /\ w[1] < w[2] /\ DayEnd \in Nat
  BY WindowAssumption DEF Window
<1>2. (w[2] - w[1]) \div 2 \in Int /\ (w[2] - w[1]) \div 2 >= 1
  BY <1>1, WindowAssumption DEF Splittable
<1>3. m \in 0..DayEnd /\ w[1] < m /\ m < w[2]
  BY <1>1, <1>2
<1> HIDE DEF m
<1>4. /\ lo \in Window /\ lo[1] = w[1] /\ lo[2] = m
      /\ hi \in Window /\ hi[1] = m /\ hi[2] = w[2]
  BY <1>1, <1>3 DEF Window
<1> HIDE DEF lo, hi
<1>5. h \in Seq(Window) /\ Len(h) = 2 /\ h[1] = lo /\ h[2] = hi
  BY <1>4
<1> HIDE DEF h
<1>6. Len(r) \in Nat /\ \A k \in 1..Len(r) : r[k] \in Window
  BY LenProperties, ElementOfSeq
<1>7. /\ s \in Seq(Window) /\ Len(s) = Len(r) + 2
      /\ \A k \in 1..Len(r) : s[k] = r[k]
      /\ s[Len(r) + 1] = lo /\ s[Len(r) + 2] = hi
  <2>1. /\ s \in Seq(Window) /\ Len(s) = Len(r) + Len(h)
        /\ \A k \in 1..(Len(r) + Len(h)) :
             s[k] = IF k <= Len(r) THEN r[k] ELSE h[k - Len(r)]
    BY <1>5, ConcatProperties
  <2> HIDE DEF s
  <2> QED
    BY <1>5, <1>6, <2>1
<1> HIDE DEF s
<1>8. Ordered(s)
  <2> SUFFICES ASSUME NEW j \in 1..Len(s), NEW k \in 1..Len(s), j < k
               PROVE  s[j][2] <= s[k][1]
    BY DEF Ordered
  <2>1. CASE k \in 1..Len(r)
    BY <1>6, <1>7, <2>1 DEF Ordered
  <2>2. CASE k = Len(r) + 1
    BY <1>4, <1>6, <1>7, <2>2
  <2>3. CASE k = Len(r) + 2
    <3>1. CASE j = Len(r) + 1
      BY <1>1, <1>3, <1>4, <1>7, <2>3, <3>1
    <3>2. CASE j \in 1..Len(r)
      <4>1. s[j][2] <= w[1] /\ s[j][2] \in Int
        BY <1>6, <1>7, <3>2, Numbers
      <4> QED
        BY <1>1, <1>3, <1>4, <1>7, <2>3, <4>1
    <3> QED
      BY <1>6, <1>7, <2>3, <3>1, <3>2
  <2> QED
    BY <1>6, <1>7, <2>1, <2>2, <2>3
<1>9. InWindow(at, w) = InWindow(at, lo) \cup InWindow(at, hi)
  <2>1. \A i \in Ids : at[i] \in Int
    BY WindowAssumption DEF Seconds
  <2> QED
    BY <1>1, <1>3, <1>4, <2>1 DEF InWindow
<1>10. InWindows(at, s) = InWindows(at, r) \cup InWindow(at, lo) \cup InWindow(at, hi)
  <2>1. \A k \in 1..Len(s) : k \in 1..Len(r) \/ k = Len(r) + 1 \/ k = Len(r) + 2
    BY <1>6, <1>7
  <2>2. \A k \in {Len(r) + 1, Len(r) + 2} : k \in 1..Len(s)
    BY <1>6, <1>7
  <2>3. \A k \in 1..Len(r) : k \in 1..Len(s)
    BY <1>6, <1>7
  <2> QED
    BY <1>7, <2>1, <2>2, <2>3 DEF InWindows, InWindow
<1>11. Halves(w[1], w[2]) = h
  BY DEF Halves, h, lo, hi, m
<1> QED
  BY <1>7, <1>8, <1>9, <1>10, <1>11 DEF s

-----------------------------------------------------------------------------
\* The windows of a day tile it.
LEMMA DayIsTiled ==
    ASSUME NEW at \in [Ids -> Seconds]
    PROVE  /\ DayWindows \in Seq(Window) /\ Ordered(DayWindows)
           /\ InWindows(at, DayWindows) = Ids
<1> DEFINE W == NegWindow
           x == DayEnd + NegWindow - 1
           n == x \div W
           r == x % W
           lo(k) == (k - 1) * W
           hi(k) == Min({k * W, DayEnd})
<1>1. W \in Nat \ {0} /\ DayEnd \in Nat \ {0} /\ x \in Nat /\ x = DayEnd + (W - 1)
  BY WindowAssumption
<1>2. n \in Int /\ r \in 0..(W - 1) /\ x = W * n + r
  BY <1>1
<1> HIDE DEF W, n, r, x
<1>3. \A a, b \in Int : a <= b => a * W <= b * W
  BY <1>1
<1>4. \A a \in Int : a * W \in Int /\ (a - 1) * W = a * W - W /\ a * W = W * a
  BY <1>1
<1>5. DayEnd <= n * W /\ (n - 1) * W < DayEnd
  BY <1>1, <1>2, <1>4
<1>6. n >= 1
  <2> SUFFICES ASSUME n <= 0 PROVE FALSE
    BY <1>2
  <2>1. n * W <= 0 * W /\ 0 * W = 0 /\ n * W \in Int
    BY <1>1, <1>2, <1>3, <1>4
  <2> QED
    BY <1>1, <1>5, <2>1
<1>7. \A k \in Int : hi(k) = IF k * W <= DayEnd THEN k * W ELSE DayEnd
  BY <1>1, <1>4, MinOfTwo
<1> HIDE DEF lo, hi
<1>8. ASSUME NEW k \in 1..n
      PROVE  /\ lo(k) \in 0..DayEnd /\ hi(k) \in 0..DayEnd /\ lo(k) < hi(k)
             /\ lo(k) = k * W - W /\ hi(k) <= k * W
  <2>1. k \in Int /\ 0 <= k - 1 /\ k - 1 <= n - 1 /\ n - 1 \in Int /\ k - 1 \in Int
    BY <1>2
  <2>2. 0 * W <= (k - 1) * W /\ (k - 1) * W <= (n - 1) * W /\ 0 * W = 0
    BY <1>1, <1>3, <2>1
  <2>3. (k - 1) * W \in Int /\ (n - 1) * W \in Int /\ k * W \in Int /\ (k - 1) * W = k * W - W
    BY <1>4, <2>1
  <2>4. lo(k) = (k - 1) * W
    BY DEF lo
  <2>5. hi(k) = IF k * W <= DayEnd THEN k * W ELSE DayEnd
    BY <1>7, <2>1
  <2> QED
    BY <1>1, <1>5, <2>2, <2>3, <2>4, <2>5
<1>9. DayWindows = [k \in 1..n |-> <<lo(k), hi(k)>>]
  BY DEF DayWindows, lo, hi, n, x, W
<1>10. \A k \in 1..n : /\ DayWindows[k] \in Window
                       /\ DayWindows[k][1] = lo(k) /\ DayWindows[k][2] = hi(k)
  <2> SUFFICES ASSUME NEW k \in 1..n
               PROVE  /\ DayWindows[k] \in Window
                      /\ DayWindows[k][1] = lo(k) /\ DayWindows[k][2] = hi(k)
    OBVIOUS
  <2>1. DayWindows[k] = <<lo(k), hi(k)>>
    BY <1>9
  <2>2. <<lo(k), hi(k)>> \in Window
    BY <1>8 DEF Window
  <2> QED
    BY <2>1, <2>2
<1>11. DayWindows \in Seq(Window) /\ Len(DayWindows) = n
  <2>1. n \in Nat
    BY <1>2, <1>6
  <2>2. DayWindows \in [1..n -> Window]
    BY <1>9, <1>10
  <2> QED
    BY <2>1, <2>2
<1> HIDE DEF lo, hi
<1>12. Ordered(DayWindows)
  <2> SUFFICES ASSUME NEW j \in 1..n, NEW k \in 1..n, j < k
               PROVE  hi(j) <= lo(k)
    BY <1>10, <1>11 DEF Ordered
  <2>1. j \in Int /\ k - 1 \in Int /\ j <= k - 1 /\ k \in Int
    BY <1>2
  <2>2. j * W <= (k - 1) * W /\ (k - 1) * W = k * W - W /\ j * W \in Int /\ k * W \in Int
    BY <1>3, <1>4, <2>1
  <2>3. hi(j) <= j * W /\ hi(j) \in Int /\ lo(k) = k * W - W
    BY <1>8
  <2> QED
    BY <1>1, <2>2, <2>3
<1>13. ASSUME NEW i \in Ids
       PROVE  \E k \in 1..n : lo(k) <= at[i] /\ at[i] < hi(k)
  <2> DEFINE t == at[i]
             q == t \div W
             m == t % W
  <2>1. t \in Int /\ 0 <= t /\ t < DayEnd
    BY Numbers
  <2> HIDE DEF t
  <2>2. q \in Int /\ m \in 0..(W - 1) /\ t = W * q + m
    BY <1>1, <2>1
  <2> HIDE DEF q, m
  <2>3. q * W \in Int /\ (q + 1) * W = q * W + W /\ q * W = W * q /\ (q + 1) * W \in Int
    BY <1>1, <2>2
  <2>4. q * W <= t /\ t < (q + 1) * W
    BY <1>1, <2>1, <2>2, <2>3
  <2>5. q >= 0
    <3> SUFFICES ASSUME q + 1 <= 0 PROVE FALSE
      BY <2>2
    <3>1. (q + 1) * W <= 0 * W /\ 0 * W = 0
      BY <1>1, <1>3, <2>2
    <3> QED
      BY <2>1, <2>3, <2>4, <3>1
  <2>6. q < n
    <3> SUFFICES ASSUME n <= q PROVE FALSE
      BY <1>2, <2>2
    <3>1. n * W <= q * W /\ n * W \in Int
      BY <1>2, <1>3, <1>4, <2>2
    <3> QED
      BY <1>1, <1>5, <2>1, <2>3, <2>4, <3>1
  <2>7. q + 1 \in 1..n
    BY <1>2, <2>2, <2>5, <2>6
  <2>8. lo(q + 1) <= t /\ t < hi(q + 1)
    <3>1. lo(q + 1) = (q + 1) * W - W
      BY <1>8, <2>7
    <3>2. hi(q + 1) = IF (q + 1) * W <= DayEnd THEN (q + 1) * W ELSE DayEnd
      BY <1>7, <2>2
    <3> QED
      BY <1>1, <2>1, <2>3, <2>4, <3>1, <3>2
  <2> QED
    BY <2>7, <2>8 DEF t
<1>14. InWindows(at, DayWindows) = Ids
  BY <1>10, <1>11, <1>13 DEF InWindows, InWindow
<1> QED
  BY <1>11, <1>12, <1>14

-----------------------------------------------------------------------------
(* What a cut answer hides. *)

\* The relay's answer to a window is taken from the events of the window.
LEMMA WindowIsAsked ==
    ASSUME Typed, NEW w \in Window
    PROVE  Within(w[1], w[2] - 1) = InWindow(relay.at, w)
<1>1. \A i \in Ids : relay.at[i] \in Int
  BY Numbers DEF Typed
<1>2. w[1] \in Int /\ w[2] \in Int
  BY Numbers
<1> QED
  BY <1>1, <1>2 DEF Within, InWindow

\* An answer that lacks an event is full, and the event is one more.
LEMMA OneMore ==
    ASSUME NEW S \in SUBSET Ids, NEW cap \in Nat, NEW P \in Newest(S, cap),
           NEW i \in S \ P, NEW T \in SUBSET Ids, P \cup {i} \subseteq T
    PROVE  Cardinality(P) = cap /\ Cardinality(T) > cap
<1>1. P \subseteq S /\ Cardinality(P) = cap
  BY NewestFacts
<1>2. IsFiniteSet(P) /\ IsFiniteSet(P \cup {i})
  BY <1>1, Finite
<1>3. Cardinality(P \cup {i}) = cap + 1
  BY <1>1, <1>2, FS_AddElement
<1>4. Cardinality(P \cup {i}) <= Cardinality(T) /\ Cardinality(T) \in Nat
  BY Finite
<1> QED
  BY <1>1, <1>3, <1>4

\* A window that cannot be split and holds more than the relay presents.
LEMMA UnsplitIsHidden ==
    ASSUME Typed, NEW w \in Window, ~Splittable(w[1], w[2]),
           NEW i \in InWindow(relay.at, w),
           Cardinality(InWindow(relay.at, w)) > relay.syncCap
    PROVE  HiddenFromSync(i)
<1> DEFINE b == w[1]
           e == w[2]
           top == b + 2 * Floor - 2
<1>1. b \in Int /\ e \in Int /\ 0 <= b /\ b < e /\ Floor \in Nat \ {0}
  BY Numbers, WindowAssumption
<1>2. i \in Ids /\ relay.at[i] \in Int /\ b <= relay.at[i] /\ relay.at[i] < e
  BY Numbers DEF Typed, InWindow
<1>3. ~((e - b) \div 2 >= Floor)
  BY DEF Splittable
<1> HIDE DEF b, e
<1>4. e - b <= 2 * Floor - 1
  BY <1>1, <1>3
<1>5. b \in 0..relay.at[i] /\ relay.at[i] < b + 2 * Floor - 1
  BY <1>1, <1>2, <1>4
<1>6. InWindow(relay.at, w) \subseteq Within(b, top)
  <2> SUFFICES ASSUME NEW j \in InWindow(relay.at, w) PROVE j \in Within(b, top)
    OBVIOUS
  <2>1. j \in Ids /\ relay.at[j] \in Int /\ b <= relay.at[j] /\ relay.at[j] < e
    BY Numbers DEF Typed, InWindow, b, e
  <2>2. relay.at[j] \in b..top
    BY <1>1, <1>4, <2>1
  <2> QED
    BY <2>1, <2>2 DEF Within
<1>7. Cardinality(Within(b, top)) > relay.syncCap
  <2>1. /\ Within(b, top) \in SUBSET Ids
        /\ Cardinality(Within(b, top)) \in Nat
        /\ Cardinality(InWindow(relay.at, w)) \in Nat
        /\ Cardinality(InWindow(relay.at, w)) <= Cardinality(Within(b, top))
    BY <1>6, Finite DEF Within
  <2>2. relay.syncCap \in Nat
    BY DEF Typed
  <2> QED
    BY <2>1, <2>2
<1> QED
  BY <1>5, <1>7 DEF HiddenFromSync

\* A window that is not split shows all its events the sink lacks, or hides
\* those it does not show.
LEMMA SettledWindow ==
    ASSUME Typed, Caps, Answers, SizeTells, NEW w \in Window,
           NEW shown \in Newest(InWindow(relay.at, w), relay.syncCap),
           NEW remote, remote = shown \ (IF relay.baseline THEN stored ELSE {}),
           ~(Truncated(Cardinality(remote), Max({info.neg_cap, Cardinality(remote)}))
               /\ Splittable(w[1], w[2])),
           NEW i \in InWindow(relay.at, w) \ stored, i \notin remote
    PROVE  HiddenFromSync(i)
<1> DEFINE S == InWindow(relay.at, w)
           n == Cardinality(remote)
<1>1. S \in SUBSET Ids /\ Cardinality(S) \in Nat /\ Cardinality(S) <= Cardinality(Ids)
  BY Finite DEF InWindow
<1>2. relay.syncCap \in Nat /\ relay.baseline \in BOOLEAN /\ NegFloor <= relay.syncCap
  BY DEF Typed, Answers
<1>3. Cardinality(Ids) \in Nat
  BY Finite
<1>4. shown \subseteq S /\ (Cardinality(S) <= relay.syncCap => shown = S)
  BY <1>1, <1>2, NewestFacts
<1>5. i \notin shown /\ ~relay.baseline
  BY <1>1, <1>2, <1>3, <1>4 DEF SizeTells
<1>6. Cardinality(shown) = relay.syncCap /\ Cardinality(S) > relay.syncCap
  BY <1>1, <1>2, <1>4, <1>5, NewestFacts
<1>7. n = relay.syncCap
  BY <1>5, <1>6
<1>8. info.neg_cap \in Nat /\ info.neg_cap <= relay.syncCap /\ NegFloor \in Nat
  BY WindowAssumption DEF Typed, Info, Caps
<1>9. Max({info.neg_cap, n}) = relay.syncCap
  BY <1>2, <1>7, <1>8, MaxOfTwo
<1>10. Max({relay.syncCap, NegFloor}) = relay.syncCap
  BY <1>2, <1>8, MaxOfTwo
<1>11. Truncated(n, Max({info.neg_cap, n}))
  BY <1>2, <1>7, <1>9, <1>10 DEF Truncated
<1> QED
  BY <1>6, <1>11, UnsplitIsHidden

\* A page lies in the seconds that were asked for.
LEMMA PageFacts ==
    ASSUME Typed, NEW page \in Newest(Within(0, until), PageCap)
    PROVE  /\ page \subseteq Ids /\ until \in Int
           /\ \A i \in Ids : relay.at[i] \in Int /\ 0 <= relay.at[i]
           /\ \A i \in page : relay.at[i] <= until
           /\ Within(0, until) = {} => page = {}
           /\ page = {} => \A i \in Ids : relay.at[i] > until
           /\ \A i \in Ids \ page, p \in page : relay.at[i] <= until => relay.at[i] <= relay.at[p]
           /\ page # {} => /\ Oldest(page) \in Seconds
                           /\ \A p \in page : Oldest(page) <= relay.at[p]
                           /\ \E p \in page : Oldest(page) = relay.at[p]
<1>1. \A i \in Ids : relay.at[i] \in Seconds /\ relay.at[i] \in Int /\ 0 <= relay.at[i]
  BY Numbers DEF Typed
<1>2. until \in Int /\ PageCap \in Nat \ {0}
  BY Numbers, WindowAssumption DEF Typed
<1>3. /\ Within(0, until) \in SUBSET Ids
      /\ \A i \in Ids : i \in Within(0, until) <=> relay.at[i] <= until
  BY <1>1, <1>2 DEF Within
<1>4. /\ page \subseteq Within(0, until)
      /\ page = Within(0, until) \/ Cardinality(page) = PageCap
      /\ \A p \in page, q \in Within(0, until) \ page : relay.at[q] <= relay.at[p]
  BY <1>2, <1>3, NewestFacts
<1>5. page = {} => page = Within(0, until)
  BY <1>2, <1>4, FS_EmptySet
<1>6. page # {} => /\ Oldest(page) \in Seconds
                   /\ \A p \in page : Oldest(page) <= relay.at[p]
                   /\ \E p \in page : Oldest(page) = relay.at[p]
  <2> SUFFICES ASSUME page # {}
               PROVE  /\ Oldest(page) \in Seconds
                      /\ \A p \in page : Oldest(page) <= relay.at[p]
                      /\ \E p \in page : Oldest(page) = relay.at[p]
    OBVIOUS
  <2> DEFINE T == {relay.at[p] : p \in page}
  <2>1. T \in SUBSET Seconds /\ T # {}
    BY <1>1, <1>3, <1>4
  <2>2. Min(T) \in T /\ \A y \in T : Min(T) <= y
    BY <2>1, MinOfSeconds
  <2> QED
    BY <2>1, <2>2 DEF Oldest
<1> QED
  BY <1>1, <1>2, <1>3, <1>4, <1>5, <1>6

\* A second of which a full page shows nothing else.
LEMMA CutSecondIsHidden ==
    ASSUME Typed, NEW page \in Newest(Within(0, until), PageCap),
           NEW i \in Ids \ page, relay.at[i] <= until,
           (\A p \in page : relay.at[p] = relay.at[i]) \/ relay.at[i] = 0
    PROVE  HiddenFromPages(i)
<1>1. Within(0, until) \in SUBSET Ids /\ i \in Within(0, until) /\ PageCap \in Nat
  BY PageFacts, WindowAssumption DEF Within
<1>2. page \subseteq Ids
  BY PageFacts
<1>3. CASE \A p \in page : relay.at[p] = relay.at[i]
  <2>1. SameSecond(i) \in SUBSET Ids /\ page \cup {i} \subseteq SameSecond(i)
    BY <1>2, <1>3, PageFacts DEF SameSecond, Within
  <2>2. Cardinality(SameSecond(i)) > PageCap
    BY <1>1, <2>1, OneMore
  <2> QED
    BY <2>2 DEF HiddenFromPages
<1>4. CASE relay.at[i] = 0
  <2>1. Cardinality(Ids) > PageCap
    BY <1>1, <1>2, OneMore
  <2> QED
    BY <1>4, <2>1 DEF HiddenFromPages
<1> QED
  BY <1>3, <1>4

-----------------------------------------------------------------------------
(* The steps of a unit. *)

\* What depends on the relay alone stays.
LEMMA RelayStays ==
    ASSUME relay' = relay
    PROVE  /\ Answers' = Answers /\ SizeTells' = SizeTells
           /\ \A i : HiddenFromSync(i)' = HiddenFromSync(i)
           /\ \A i : HiddenFromPages(i)' = HiddenFromPages(i)
BY DEF Answers, SizeTells, HiddenFromSync, HiddenFromPages, SameSecond, Within

\* As long as the day has no record, nothing is promised of it.
LEMMA OpenDay ==
    ASSUME done' = NotDone
    PROVE  DoneIsComplete' /\ CountedOnce'
BY DEF DoneIsComplete, CountedOnce

\* A unit that is over leaves what it learnt of the relay and what the sink got.
LEMMA UnitOver ==
    ASSUME DayInv, ForgetUnit, relay' = relay, UNCHANGED sinkVars,
           info' \in {info, saved}, saved' \in {info, saved},
           DoneIsComplete', CountedOnce'
    PROVE  DayInv'
<1>1. Typed'
  <2>1. <<>> \in Seq(Window) /\ 0 \in Seconds
    BY EmptySeq, WindowAssumption DEF Seconds
  <2> QED
    BY <2>1 DEF DayInv, Typed, ForgetUnit, sinkVars
<1>2. Phases'
  BY DEF Phases, ForgetUnit
<1>3. Caps'
  BY DEF DayInv, Caps
<1>4. SyncCovers' /\ PagesCover'
  BY DEF SyncCovers, PagesCover, Syncing, Paging, ForgetUnit
<1>5. Counts'
  <2>1. Ordered(<<>>)
    BY DEF Ordered
  <2> QED
    BY <2>1 DEF Counts, Syncing, Paging, ForgetUnit
<1> QED
  BY <1>1, <1>2, <1>3, <1>4, <1>5 DEF DayInv

\* The walk over pages starts with nothing had and nothing counted.
LEMMA WalkStarts ==
    ASSUME DayInv, StartPages, relay' = relay, UNCHANGED sinkVars,
           info' \in Info, info'.neg_cap = info.neg_cap, saved' = saved,
           done' = NotDone, stack' = <<>>, missing' = {}, synced' \in BOOLEAN,
           seen' = 0, new' = 0
    PROVE  DayInv'
<1>1. Typed'
  <2>1. <<>> \in Seq(Window) /\ DayEnd - 1 \in Seconds
    BY EmptySeq, WindowAssumption DEF Seconds
  <2> QED
    BY <2>1 DEF DayInv, Typed, StartPages, sinkVars
<1>2. Phases'
  BY DEF Phases, StartPages
<1>3. Caps'
  BY DEF DayInv, Caps
<1>4. SyncCovers'
  BY DEF SyncCovers, Syncing, StartPages
<1>5. PagesCover'
  <2>1. \A i \in Ids : relay.at[i] \in Int /\ relay.at[i] < DayEnd
    BY Numbers DEF DayInv, Typed
  <2>2. \A i \in Ids : ~(relay'.at[i] > until')
    BY <2>1, Numbers DEF StartPages
  <2> QED
    BY <2>2 DEF PagesCover, Paging, StartPages
<1>6. Counts'
  <2>1. Ordered(<<>>)
    BY DEF Ordered
  <2> QED
    BY <2>1, FS_EmptySet DEF Counts, Syncing, Paging, StartPages
<1> QED
  BY <1>1, <1>2, <1>3, <1>4, <1>5, <1>6, OpenDay DEF DayInv

LEMMA StartUnitStep ==
    ASSUME DayInv, StartUnit
    PROVE  DayInv'
<1>1. CASE info.negentropy = "no"
  <2>1. /\ StartPages /\ relay' = relay /\ UNCHANGED sinkVars
        /\ info' = info /\ saved' = saved /\ done' = NotDone
        /\ stack' = <<>> /\ missing' = {} /\ synced' \in BOOLEAN
        /\ seen' = 0 /\ new' = 0
    BY <1>1 DEF StartUnit, DrawOpen, DayInv, Phases, Typed, countVars
  <2>2. info' \in Info /\ info'.neg_cap = info.neg_cap
    BY <2>1 DEF DayInv, Typed
  <2> QED
    BY <2>1, <2>2, WalkStarts
<1>2. CASE info.negentropy # "no"
  <2>1. /\ phase = "idle" /\ phase' = "sync" /\ stack' = DayWindows
        /\ relay' = relay /\ info' = info /\ saved' = saved /\ done' = NotDone
        /\ missing' = missing /\ synced' = synced /\ until' = until /\ have' = have
        /\ seen' = seen /\ new' = new /\ stored' = stored /\ dropped' = dropped
    BY <1>2 DEF StartUnit, DrawOpen, pageVars, countVars, sinkVars
  <2>2. relay.at \in [Ids -> Seconds]
    BY DEF DayInv, Typed
  <2>3. /\ DayWindows \in Seq(Window) /\ Ordered(DayWindows)
        /\ InWindows(relay.at, DayWindows) = Ids
    BY <2>2, DayIsTiled
  <2> HIDE DEF DayWindows
  <2>4. Typed'
    BY <2>1, <2>3 DEF DayInv, Typed
  <2>5. missing = {} /\ ~synced /\ seen = 0 /\ new = 0
    BY <2>1 DEF DayInv, Phases
  <2>6. Phases' /\ Caps'
    BY <2>1, <2>5 DEF DayInv, Phases, Caps
  <2>7. OnStack' = Ids
    BY <2>1, <2>3 DEF OnStack
  <2>8. SyncCovers' /\ PagesCover'
    BY <2>1, <2>7 DEF SyncCovers, PagesCover, Paging
  <2>9. Counts'
    <3>1. Cardinality(Ids) \in Nat
      BY Finite
    <3> QED
      BY <2>1, <2>3, <2>5, <2>7, <3>1, FS_EmptySet DEF Counts, Paging
  <2> QED
    BY <2>1, <2>4, <2>6, <2>8, <2>9, OpenDay DEF DayInv
<1> QED
  BY <1>1, <1>2

\* The day is recorded: what the phases say becomes what the record says.
LEMMA FinishUnitStep ==
    ASSUME DayInv, FinishUnit
    PROVE  DayInv'
<1>1. /\ phase \in {"synced", "paged"} /\ ForgetUnit /\ relay' = relay
      /\ done' = [path |-> phase, seen |-> seen, new |-> new]
      /\ UNCHANGED sinkVars /\ info' = info /\ saved' = info
  BY DEF FinishUnit
<1>2. /\ done'.path = phase /\ done'.seen = seen /\ done'.new = new
      /\ Gone' = Gone
  BY <1>1 DEF sinkVars, Gone
<1>3. DoneIsComplete'
  <2>1. CASE phase = "paged"
    <3>1. \A i \in Ids \ Gone : HiddenFromPages(i)
      BY <2>1 DEF DayInv, PagesCover
    <3> QED
      BY <1>1, <1>2, <2>1, <3>1, RelayStays DEF DoneIsComplete, Gone
  <2>2. CASE phase = "synced"
    <3>1. OnStack = {} /\ missing = {}
      BY <2>2 DEF DayInv, Phases, OnStack, InWindows
    <3>2. Answers /\ SizeTells => \A i \in Ids \ Gone : HiddenFromSync(i)
      BY <2>2, <3>1 DEF DayInv, SyncCovers, Syncing
    <3> QED
      BY <1>1, <1>2, <2>2, <3>2, RelayStays DEF DoneIsComplete, Gone
  <2> QED
    BY <1>1, <2>1, <2>2
<1>4. CountedOnce'
  <2>1. new <= seen /\ seen <= Cardinality(Ids)
    <3>1. CASE phase = "paged"
      BY <3>1 DEF DayInv, Counts
    <3>2. CASE phase = "synced"
      <4>1. OnStack \in SUBSET Ids /\ missing \in SUBSET Ids
        BY DEF OnStack, InWindows, DayInv, Typed
      <4>2. /\ Cardinality(OnStack) \in Nat /\ Cardinality(missing) \in Nat
            /\ Cardinality(Ids) \in Nat /\ seen \in Nat /\ new \in Nat
        BY <4>1, Finite DEF DayInv, Typed
      <4>3. /\ seen + Cardinality(OnStack) <= Cardinality(Ids)
            /\ new + Cardinality(missing) <= seen
        BY <3>2 DEF DayInv, Counts, Syncing
      <4> QED
        BY <4>2, <4>3
    <3> QED
      BY <1>1, <3>1, <3>2
  <2> QED
    BY <1>2, <2>1 DEF CountedOnce
<1> QED
  BY <1>1, <1>3, <1>4, UnitOver

\* The invariant does not speak of attempts, units and faults.
LEMMA SameState ==
    ASSUME DayInv,
           relay' = relay, info' = info, saved' = saved, phase' = phase,
           stack' = stack, missing' = missing, synced' = synced,
           until' = until, have' = have, seen' = seen, new' = new,
           stored' = stored, dropped' = dropped, done' = done
    PROVE  DayInv'
<1>1. Typed' /\ Phases' /\ Caps'
  BY DEF DayInv, Typed, Phases, Caps
<1>2. OnStack' = OnStack
  BY DEF OnStack
<1>3. SyncCovers' /\ PagesCover'
  BY <1>2, RelayStays DEF DayInv, SyncCovers, PagesCover, Syncing, Paging, Gone
<1>4. Counts' /\ CountedOnce'
  BY <1>2 DEF DayInv, Counts, Syncing, Paging, CountedOnce
<1>5. DoneIsComplete'
  BY RelayStays DEF DayInv, DoneIsComplete
<1> QED
  BY <1>1, <1>3, <1>4, <1>5 DEF DayInv

\* A unit that fails leaves the day as it was.
LEMMA FailUnitStep ==
    ASSUME DayInv, FailUnit, phase # "idle"
    PROVE  DayInv'
<1>1. /\ ForgetUnit /\ relay' = relay /\ UNCHANGED sinkVars
      /\ info' = info /\ saved' = info /\ done' = NotDone
  BY DEF FailUnit, DayInv, Phases
<1> QED
  BY <1>1, OpenDay, UnitOver

LEMMA CancelledStep ==
    ASSUME DayInv, Cancelled
    PROVE  DayInv'
<1>1. /\ ForgetUnit /\ relay' = relay /\ UNCHANGED sinkVars
      /\ info' = saved /\ saved' = saved /\ done' = NotDone
  BY DEF Cancelled, DayInv, Phases
<1> QED
  BY <1>1, OpenDay, UnitOver

\* Nothing was counted before the first window, and nothing is kept of what was
\* counted after it.
LEMMA UnsupportedStep ==
    ASSUME DayInv, Unsupported
    PROVE  DayInv'
<1>1. /\ StartPages /\ relay' = relay /\ UNCHANGED sinkVars
      /\ info' = [info EXCEPT !.negentropy = "no"] /\ saved' = saved
      /\ stack' = <<>> /\ missing' = missing /\ synced' = synced
      /\ phase = "sync" /\ done' = done
      /\ IF synced THEN ResetCounts ELSE UNCHANGED countVars
  BY DEF Unsupported
<1>2. missing = {} /\ done = NotDone /\ synced \in BOOLEAN
  BY <1>1 DEF DayInv, Phases, Typed
<1>3. seen' = 0 /\ new' = 0
  BY <1>1 DEF ResetCounts, countVars, DayInv, Counts, Syncing
<1>4. info' \in Info /\ info'.neg_cap = info.neg_cap
  BY <1>1 DEF DayInv, Typed, Info
<1> QED
  BY <1>1, <1>2, <1>3, <1>4, WalkStarts

LEMMA SyncFailsStep ==
    ASSUME DayInv, SyncFails
    PROVE  DayInv'
<1>1. CASE synced /\ FailUnit
  BY <1>1, FailUnitStep DEF SyncFails
<1>2. CASE ~synced /\ ~FailUnit
  <2>1. /\ StartPages /\ relay' = relay /\ UNCHANGED sinkVars
        /\ info' = info /\ saved' = saved
        /\ stack' = <<>> /\ missing' = missing /\ synced' = synced
        /\ phase = "sync" /\ done' = done /\ UNCHANGED countVars
    BY <1>2 DEF SyncFails
  <2>2. missing = {} /\ done = NotDone /\ synced \in BOOLEAN /\ info \in Info
    BY <2>1 DEF DayInv, Phases, Typed
  <2>3. seen' = 0 /\ new' = 0
    BY <1>2, <2>1 DEF countVars, DayInv, Counts, Syncing
  <2> QED
    BY <2>1, <2>2, <2>3, WalkStarts
<1>3. CASE ~synced /\ FailUnit
  BY <1>3, FailUnitStep DEF SyncFails
<1> QED
  BY <1>1, <1>2, <1>3 DEF SyncFails

\* A step that changes none of the variables the invariant is about but the
\* phase, between two questions for the same page.
LEMMA AskAgain ==
    ASSUME DayInv, Paging, phase' = "recheck",
           UNCHANGED <<relay, info, saved, syncVars, pageVars, countVars, sinkVars, done>>
    PROVE  DayInv'
<1>1. /\ relay' = relay /\ info' = info /\ saved' = saved
      /\ stack' = stack /\ missing' = missing /\ synced' = synced
      /\ until' = until /\ have' = have /\ seen' = seen /\ new' = new
      /\ stored' = stored /\ dropped' = dropped /\ done' = done
  BY DEF syncVars, pageVars, countVars, sinkVars
<1>2. Typed' /\ Caps'
  BY <1>1 DEF DayInv, Typed, Caps
<1>3. Phases'
  BY <1>1 DEF DayInv, Phases, Paging
<1>4. SyncCovers'
  BY DEF SyncCovers, Syncing
<1>5. PagesCover'
  BY <1>1, RelayStays DEF DayInv, PagesCover, Paging, Gone
<1>6. Counts'
  BY <1>1 DEF DayInv, Counts, Syncing, Paging
<1>7. done' = NotDone
  BY <1>1 DEF DayInv, Phases, Paging
<1> QED
  BY <1>2, <1>3, <1>4, <1>5, <1>6, <1>7, OpenDay DEF DayInv

LEMMA EmptyPageStep ==
    ASSUME DayInv, EmptyPage
    PROVE  DayInv'
BY AskAgain DEF EmptyPage, Paging

\* The wait for a rate limit changes nothing but its count.
LEMMA RateLimitedStep ==
    ASSUME DayInv, RateLimited
    PROVE  DayInv'
<1>1. CASE FailUnit
  BY <1>1, FailUnitStep DEF RateLimited, Requesting
<1>2. CASE ~FailUnit
  <2>1. /\ relay' = relay /\ info' = info /\ saved' = saved /\ phase' = phase
        /\ stack' = stack /\ missing' = missing /\ synced' = synced
        /\ until' = until /\ have' = have /\ seen' = seen /\ new' = new
        /\ stored' = stored /\ dropped' = dropped /\ done' = done
    BY <1>2 DEF RateLimited, syncVars, pageVars, countVars, sinkVars
  <2> QED
    BY <2>1, SameState
<1> QED
  BY <1>1, <1>2

LEMMA SyncedAllStep ==
    ASSUME DayInv, SyncedAll
    PROVE  DayInv'
<1>1. /\ relay' = relay /\ info' = info /\ saved' = saved
      /\ phase = "sync" /\ phase' = "synced" /\ stack = <<>>
      /\ stack' = stack /\ missing' = missing /\ synced' = synced
      /\ until' = until /\ have' = have /\ seen' = seen /\ new' = new
      /\ stored' = stored /\ dropped' = dropped /\ done' = done
  BY DEF SyncedAll, syncVars, pageVars, countVars, sinkVars
<1>2. Typed' /\ Caps'
  BY <1>1 DEF DayInv, Typed, Caps
<1>3. Phases'
  BY <1>1 DEF DayInv, Phases
<1>4. OnStack' = OnStack
  BY <1>1 DEF OnStack
<1>5. SyncCovers' /\ PagesCover'
  BY <1>1, <1>4, RelayStays DEF DayInv, SyncCovers, PagesCover, Syncing, Paging, Gone
<1>6. Counts'
  BY <1>1, <1>4 DEF DayInv, Counts, Syncing, Paging
<1>7. done' = NotDone
  BY <1>1 DEF DayInv, Phases
<1> QED
  BY <1>2, <1>3, <1>5, <1>6, <1>7, OpenDay DEF DayInv

LEMMA WindowDoneStep ==
    ASSUME DayInv, WindowDone
    PROVE  DayInv'
<1>1. /\ relay' = relay /\ info' = info /\ saved' = saved
      /\ phase = "fetch" /\ phase' = "sync" /\ missing = {}
      /\ stack' = stack /\ missing' = missing /\ synced' = TRUE
      /\ until' = until /\ have' = have /\ seen' = seen /\ new' = new
      /\ stored' = stored /\ dropped' = dropped /\ done' = done
  BY DEF WindowDone, pageVars, countVars, sinkVars
<1>2. Typed' /\ Caps'
  BY <1>1 DEF DayInv, Typed, Caps
<1>3. Phases'
  BY <1>1 DEF DayInv, Phases
<1>4. OnStack' = OnStack
  BY <1>1 DEF OnStack
<1>5. SyncCovers' /\ PagesCover'
  BY <1>1, <1>4, RelayStays DEF DayInv, SyncCovers, PagesCover, Syncing, Paging, Gone
<1>6. Counts'
  BY <1>1, <1>4 DEF DayInv, Counts, Syncing, Paging
<1>7. done' = NotDone
  BY <1>1 DEF DayInv, Phases
<1> QED
  BY <1>2, <1>3, <1>5, <1>6, <1>7, OpenDay DEF DayInv

\* A window that is split is still to reconcile, in halves.
LEMMA SplitStep ==
    ASSUME DayInv, phase = "sync", stack # <<>>, Splittable(Top[1], Top[2]),
           stack' = Rest \o Halves(Top[1], Top[2]),
           info' \in Info, info'.neg_cap <= relay.syncCap,
           relay' = relay, saved' = saved, phase' = phase,
           missing' = missing, synced' = synced, until' = until, have' = have,
           seen' = seen, new' = new, stored' = stored, dropped' = dropped,
           done' = done
    PROVE  DayInv'
<1>1. stack \in Seq(Window) /\ Ordered(stack) /\ relay.at \in [Ids -> Seconds]
  BY DEF DayInv, Typed, Counts
<1>2. /\ Top \in Window /\ Rest \in Seq(Window) /\ Ordered(Rest)
      /\ \A k \in 1..Len(Rest) : Rest[k][2] <= Top[1]
      /\ InWindows(relay.at, stack) = InWindows(relay.at, Rest) \cup InWindow(relay.at, Top)
  BY <1>1, Popped DEF Top, Rest
<1>3. /\ stack' \in Seq(Window) /\ Ordered(stack')
      /\ InWindows(relay.at, stack') = InWindows(relay.at, Rest) \cup InWindow(relay.at, Top)
  <2> HIDE DEF Top, Rest
  <2> QED
    BY <1>1, <1>2, Split
<1>4. OnStack' = OnStack
  BY <1>2, <1>3 DEF OnStack
<1>5. Typed'
  BY <1>3 DEF DayInv, Typed
<1>6. Phases' /\ Caps'
  BY DEF DayInv, Phases, Caps
<1>7. SyncCovers' /\ PagesCover'
  BY <1>4, RelayStays DEF DayInv, SyncCovers, PagesCover, Syncing, Paging, Gone
<1>8. Counts'
  BY <1>3, <1>4 DEF DayInv, Counts, Syncing, Paging
<1>9. done' = NotDone
  BY DEF DayInv, Phases
<1> QED
  BY <1>5, <1>6, <1>7, <1>8, <1>9, OpenDay DEF DayInv

\* A window that is not split is fetched: what it shows and the sink lacks is
\* counted as seen and asked for.
LEMMA TakeStep ==
    ASSUME DayInv, phase = "sync", stack # <<>>,
           NEW shown \in Newest(InWindow(relay.at, Top), relay.syncCap),
           NEW remote, remote = shown \ (IF relay.baseline THEN stored ELSE {}),
           ~(Truncated(Cardinality(remote), Max({info.neg_cap, Cardinality(remote)}))
               /\ Splittable(Top[1], Top[2])),
           stack' = Rest, seen' = seen + Cardinality(remote), phase' = "fetch",
           missing' \subseteq remote, remote \subseteq Gone' \cup missing',
           dropped \subseteq dropped', dropped' \subseteq Ids,
           info' \in Info, info'.neg_cap <= relay.syncCap,
           relay' = relay, saved' = saved, synced' = synced, until' = until,
           have' = have, new' = new, stored' = stored, done' = done
    PROVE  DayInv'
<1> DEFINE W == InWindow(relay.at, Top)
<1>1. stack \in Seq(Window) /\ Ordered(stack) /\ relay.at \in [Ids -> Seconds]
  BY DEF DayInv, Typed, Counts
<1>2. /\ Top \in Window /\ Rest \in Seq(Window) /\ Ordered(Rest)
      /\ InWindows(relay.at, stack) = InWindows(relay.at, Rest) \cup W
      /\ InWindows(relay.at, Rest) \cap W = {}
  BY <1>1, Popped DEF Top, Rest
<1> HIDE DEF Top, Rest
<1>3. OnStack = OnStack' \cup W /\ OnStack' \cap W = {}
  BY <1>2 DEF OnStack
<1>4. W \subseteq Ids /\ shown \subseteq W /\ remote \subseteq W
  <2>1. W \in SUBSET Ids /\ relay.syncCap \in Nat
    BY DEF InWindow, DayInv, Typed
  <2> HIDE DEF W
  <2>2. shown \in Newest(W, relay.syncCap)
    BY DEF W
  <2>3. shown \subseteq W
    BY <2>1, <2>2, NewestFacts
  <2> QED
    BY <2>1, <2>3
<1>5. /\ OnStack' \subseteq Ids /\ Cardinality(remote) \in Nat /\ Cardinality(W) \in Nat
      /\ Cardinality(remote) <= Cardinality(W)
      /\ Cardinality(missing') \in Nat /\ Cardinality(missing') <= Cardinality(remote)
      /\ Cardinality(OnStack') \in Nat /\ Cardinality(Ids) \in Nat
  <2>1. OnStack' \subseteq Ids
    BY <1>3 DEF OnStack, InWindows
  <2> QED
    BY <1>4, <2>1, Finite
<1>6. Cardinality(OnStack) = Cardinality(OnStack') + Cardinality(W)
  BY <1>3, <1>4, <1>5, Apart
<1>7. missing = {} /\ done = NotDone
  BY DEF DayInv, Phases
<1>8. Typed'
  BY <1>2, <1>4, <1>5 DEF DayInv, Typed
<1>9. Phases' /\ Caps'
  BY <1>7 DEF DayInv, Phases, Caps
<1>10. SyncCovers'
  <2> SUFFICES ASSUME Answers, SizeTells, NEW i \in Ids \ Gone'
               PROVE  i \in OnStack' \/ i \in missing' \/ HiddenFromSync(i)
    BY RelayStays DEF SyncCovers
  <2>1. i \notin Gone /\ i \notin stored
    BY DEF Gone
  <2>2. i \in OnStack \/ HiddenFromSync(i)
    BY <1>7, <2>1 DEF DayInv, SyncCovers, Syncing
  <2>3. CASE i \in W /\ i \notin remote
    BY <1>2, <2>1, <2>3, SettledWindow DEF DayInv
  <2> QED
    BY <1>3, <2>2, <2>3
<1>11. PagesCover'
  BY DEF PagesCover, Paging
<1>12. Counts'
  <2>1. /\ seen + Cardinality(OnStack) <= Cardinality(Ids) /\ new + Cardinality({}) <= seen
        /\ seen \in Nat /\ new \in Nat
    BY <1>7 DEF DayInv, Counts, Syncing, Typed
  <2>2. /\ seen' + Cardinality(OnStack') <= Cardinality(Ids)
        /\ new' + Cardinality(missing') <= seen'
    BY <1>5, <1>6, <2>1, FS_EmptySet
  <2> QED
    BY <1>2, <2>2 DEF Counts, Paging
<1> QED
  BY <1>7, <1>8, <1>9, <1>10, <1>11, <1>12, OpenDay DEF DayInv

LEMMA ReconcileStep ==
    ASSUME DayInv, Reconcile
    PROVE  DayInv'
<1>1. phase = "sync" /\ stack # <<>>
  BY DEF Reconcile
<1>2. Top \in Window
  BY <1>1, Popped DEF DayInv, Typed, Counts, Top
<1>3. Within(Top[1], Top[2] - 1) = InWindow(relay.at, Top)
  BY <1>2, WindowIsAsked DEF DayInv
<1>4. PICK shown \in Newest(InWindow(relay.at, Top), relay.syncCap) :
         LET local == IF relay.baseline THEN stored ELSE {}
             remote == shown \ local
             n == Cardinality(remote)
             cap == Max({info.neg_cap, n})
         IN /\ info' = [negentropy |-> "yes", neg_cap |-> cap]
            /\ \/ /\ Truncated(n, cap) /\ Splittable(Top[1], Top[2])
                  /\ stack' = Rest \o Halves(Top[1], Top[2])
                  /\ UNCHANGED <<phase, missing, seen, dropped, faults>>
               \/ /\ ~(Truncated(n, cap) /\ Splittable(Top[1], Top[2]))
                  /\ stack' = Rest
                  /\ seen' = seen + n
                  /\ phase' = "fetch"
                  /\ \/ /\ missing' = Missing(remote, {})
                        /\ UNCHANGED <<dropped, faults>>
                     \/ \E i \in remote \ stored :
                          /\ Fault
                          /\ missing' = Missing(remote, {i})
                          /\ dropped' = dropped \cup {i}
  BY <1>3 DEF Reconcile
<1>5. /\ relay' = relay /\ saved' = saved /\ synced' = synced /\ until' = until
      /\ have' = have /\ new' = new /\ stored' = stored /\ done' = done
  BY DEF Reconcile, pageVars
<1> HIDE DEF Top, Rest
<1> DEFINE remote == shown \ (IF relay.baseline THEN stored ELSE {})
           n == Cardinality(remote)
           cap == Max({info.neg_cap, n})
<1>6. remote \subseteq Ids /\ n \in Nat /\ n <= relay.syncCap
  <2> DEFINE W == InWindow(relay.at, Top)
  <2>1. W \in SUBSET Ids /\ relay.syncCap \in Nat /\ shown \in Newest(W, relay.syncCap)
    BY DEF InWindow, DayInv, Typed
  <2> HIDE DEF W
  <2>2. shown \subseteq Ids /\ Cardinality(shown) \in Nat /\ Cardinality(shown) <= relay.syncCap
    BY <2>1, NewestFacts
  <2>3. remote \in SUBSET shown /\ remote \in SUBSET Ids
    BY <2>2
  <2>4. n \in Nat /\ n <= Cardinality(shown)
    BY <2>2, <2>3, Finite
  <2> QED
    BY <2>1, <2>2, <2>3, <2>4
<1>7. info' \in Info /\ info'.neg_cap <= relay.syncCap
  <2>1. info.neg_cap \in Nat /\ info.neg_cap <= relay.syncCap /\ relay.syncCap \in Nat
    BY DEF DayInv, Typed, Info, Caps
  <2> HIDE DEF remote, n
  <2>2. cap \in Nat /\ cap <= relay.syncCap
    <3>1. info.neg_cap \in Int /\ n \in Int
      BY <1>6, <2>1
    <3>2. cap = IF info.neg_cap >= n THEN info.neg_cap ELSE n
      BY <3>1, MaxOfTwo
    <3> QED
      BY <1>6, <2>1, <3>2
  <2>3. info' = [negentropy |-> "yes", neg_cap |-> cap]
    BY <1>4 DEF n, remote
  <2> HIDE DEF cap
  <2> QED
    BY <2>2, <2>3 DEF Info
<1>8. CASE Truncated(n, cap) /\ Splittable(Top[1], Top[2])
  <2>1. /\ stack' = Rest \o Halves(Top[1], Top[2])
        /\ UNCHANGED <<phase, missing, seen, dropped, faults>>
    BY <1>4, <1>8
  <2> QED
    BY <1>1, <1>5, <1>7, <1>8, <2>1, SplitStep
<1>9. CASE ~(Truncated(n, cap) /\ Splittable(Top[1], Top[2]))
  <2>1. stack' = Rest /\ seen' = seen + n /\ phase' = "fetch"
    BY <1>4, <1>9
  <2>2. \/ missing' = Missing(remote, {}) /\ dropped' = dropped
        \/ \E i \in remote \ stored : missing' = Missing(remote, {i}) /\ dropped' = dropped \cup {i}
    BY <1>4, <1>9
  <2>3. /\ missing' \subseteq remote /\ remote \subseteq Gone' \cup missing'
        /\ dropped \subseteq dropped' /\ dropped' \subseteq Ids
    <3>1. dropped \subseteq Ids
      BY DEF DayInv, Typed
    <3> HIDE DEF remote
    <3>2. CASE missing' = Missing(remote, {}) /\ dropped' = dropped
      BY <1>5, <3>1, <3>2 DEF Missing, Gone
    <3>3. ASSUME NEW i \in remote \ stored,
                 missing' = Missing(remote, {i}), dropped' = dropped \cup {i}
          PROVE  /\ missing' \subseteq remote /\ remote \subseteq Gone' \cup missing'
                 /\ dropped \subseteq dropped' /\ dropped' \subseteq Ids
      BY <1>5, <1>6, <3>1, <3>3 DEF Missing, Gone
    <3> QED
      BY <2>2, <3>2, <3>3
  <2> HIDE DEF remote, n, cap
  <2>4. remote = shown \ (IF relay.baseline THEN stored ELSE {})
    BY DEF remote
  <2>5. ~(Truncated(Cardinality(remote), Max({info.neg_cap, Cardinality(remote)}))
            /\ Splittable(Top[1], Top[2]))
    BY <1>9 DEF n, cap
  <2>6. seen' = seen + Cardinality(remote)
    BY <2>1 DEF n
  <2> QED
    BY <1>1, <1>5, <1>7, <2>1, <2>3, <2>4, <2>5, <2>6, TakeStep
<1> QED
  BY <1>8, <1>9

\* What the sink is given it has or has given up, and it counts no more as new
\* than it is given.
LEMMA ProcessFacts ==
    ASSUME Typed, NEW events \in SUBSET Ids, Process(events)
    PROVE  /\ stored' \subseteq Ids /\ dropped' \subseteq Ids
           /\ Gone' = Gone \cup events
           /\ new' \in Nat /\ new' <= new + Cardinality(events)
<1>1. /\ \A T \in SUBSET events : Cardinality(T) \in Nat /\ Cardinality(T) <= Cardinality(events)
      /\ Cardinality(events) \in Nat
  BY Finite
<1>2. new \in Nat /\ stored \subseteq Ids /\ dropped \subseteq Ids
  BY DEF Typed
<1>3. CASE /\ stored' = stored \cup events
           /\ new' = new + Cardinality(events \ stored)
           /\ UNCHANGED <<dropped, faults>>
  <2>1. Cardinality(events \ stored) \in Nat /\ Cardinality(events \ stored) <= Cardinality(events)
    BY <1>1
  <2> QED
    BY <1>1, <1>2, <1>3, <2>1 DEF Gone
<1>4. ASSUME NEW i \in events \ stored,
             stored' = stored \cup (events \ {i}),
             new' = new + Cardinality(events \ (stored \cup {i})),
             dropped' = dropped \cup {i}
      PROVE  /\ stored' \subseteq Ids /\ dropped' \subseteq Ids
             /\ Gone' = Gone \cup events
             /\ new' \in Nat /\ new' <= new + Cardinality(events)
  <2>1. /\ Cardinality(events \ (stored \cup {i})) \in Nat
        /\ Cardinality(events \ (stored \cup {i})) <= Cardinality(events)
    BY <1>1
  <2> QED
    BY <1>1, <1>2, <1>4, <2>1 DEF Gone
<1> QED
  BY <1>3, <1>4 DEF Process

\* A chunk is answered in full when the relay can be trusted so far; else the
\* day is not promised to be complete.
LEMMA FetchChunkStep ==
    ASSUME DayInv, FetchChunk
    PROVE  DayInv'
<1>1. /\ relay' = relay /\ info' = info /\ saved' = saved
      /\ phase = "fetch" /\ phase' = "fetch"
      /\ stack' = stack /\ synced' = synced
      /\ until' = until /\ have' = have /\ seen' = seen /\ done' = done
  BY DEF FetchChunk, pageVars
<1>2. PICK ids \in kSubset(Min({Chunk, Cardinality(missing)}), missing) :
         /\ missing' = missing \ ids
         /\ \E events \in Newest(ids, PageCap) : Process(events)
  BY DEF FetchChunk
<1>3. PICK events \in Newest(ids, PageCap) : Process(events)
  BY <1>2
<1>4. /\ ids \subseteq missing /\ ids \subseteq Ids /\ Cardinality(ids) \in Nat
      /\ Cardinality(ids) <= Chunk
  <2>1. ids \in SUBSET missing /\ Cardinality(ids) = Min({Chunk, Cardinality(missing)})
    BY DEF kSubset
  <2>2. Cardinality(missing) \in Nat /\ Chunk \in Nat /\ missing \subseteq Ids
    BY Finite, WindowAssumption DEF DayInv, Typed
  <2>3. Cardinality(ids) = IF Chunk <= Cardinality(missing) THEN Chunk ELSE Cardinality(missing)
    BY <2>1, <2>2, MinOfTwo
  <2> QED
    BY <2>1, <2>2, <2>3
<1>5. /\ events \subseteq ids /\ Cardinality(events) \in Nat
      /\ Cardinality(ids) <= PageCap => events = ids
  <2>1. PageCap \in Nat
    BY WindowAssumption
  <2> QED
    BY <1>4, <2>1, NewestFacts
<1>6. /\ stored' \subseteq Ids /\ dropped' \subseteq Ids /\ Gone' = Gone \cup events
      /\ new' \in Nat /\ new' <= new + Cardinality(events)
  <2>1. events \in SUBSET Ids
    BY <1>4, <1>5
  <2> QED
    BY <1>3, <2>1, ProcessFacts DEF DayInv
<1>7. Typed' /\ Caps'
  BY <1>1, <1>2, <1>6 DEF DayInv, Typed, Caps
<1>8. done' = NotDone
  BY <1>1 DEF DayInv, Phases
<1>9. Phases'
  BY <1>1, <1>8 DEF Phases
<1>10. OnStack' = OnStack
  BY <1>1 DEF OnStack
<1>11. SyncCovers'
  <2> SUFFICES ASSUME Answers, SizeTells, NEW i \in Ids \ Gone'
               PROVE  i \in OnStack \/ i \in missing' \/ HiddenFromSync(i)
    BY <1>1, <1>10, RelayStays DEF SyncCovers
  <2>1. events = ids
    BY <1>4, <1>5, WindowAssumption DEF Answers
  <2>2. i \in OnStack \/ i \in missing \/ HiddenFromSync(i)
    BY <1>1, <1>6 DEF DayInv, SyncCovers, Syncing
  <2> QED
    BY <1>2, <1>6, <2>1, <2>2
<1>12. PagesCover'
  BY <1>1 DEF PagesCover, Paging
<1>13. Counts'
  <2>1. Cardinality(missing) = Cardinality(missing') + Cardinality(ids)
    <3>1. missing' \in SUBSET Ids /\ missing' \cap ids = {} /\ missing' \cup ids = missing
      BY <1>2, <1>4 DEF DayInv, Typed
    <3> QED
      BY <1>4, <3>1, Apart
  <2>2. Cardinality(events) <= Cardinality(ids) /\ Cardinality(missing') \in Nat
    BY <1>2, <1>4, <1>5, Finite DEF DayInv, Typed
  <2>3. /\ new + Cardinality(missing) <= seen /\ new \in Nat /\ seen \in Nat
        /\ seen + Cardinality(OnStack) <= Cardinality(Ids) /\ Ordered(stack)
    BY <1>1 DEF DayInv, Counts, Syncing, Typed
  <2>4. new' + Cardinality(missing') <= seen
    BY <1>4, <1>5, <1>6, <2>1, <2>2, <2>3
  <2> QED
    BY <1>1, <1>10, <2>3, <2>4 DEF Counts, Paging
<1> QED
  BY <1>7, <1>8, <1>9, <1>11, <1>12, <1>13, OpenDay DEF DayInv

-----------------------------------------------------------------------------
(* The walk over pages. *)

\* The walk ends when every event was had or is hidden.
LEMMA WalkEnds ==
    ASSUME DayInv, Paging, phase' = "paged",
           \A i \in Ids \ have' : HiddenFromPages(i),
           have' \subseteq Gone', have' \subseteq Ids,
           seen' = Cardinality(have'), new' \in Nat, new' <= seen',
           stored' \subseteq Ids, dropped' \subseteq Ids,
           until' \in Seconds,
           relay' = relay, info' = info, saved' = saved, stack' = stack,
           missing' = missing, synced' = synced, done' = done
    PROVE  DayInv'
<1>1. /\ Cardinality(have') \in Nat /\ Cardinality(Ids) \in Nat
      /\ Cardinality(have') <= Cardinality(Ids)
  BY Finite
<1>2. missing = {} /\ done' = NotDone
  BY DEF DayInv, Phases, Paging
<1>3. Typed' /\ Caps' /\ Phases'
  BY <1>1, <1>2 DEF DayInv, Typed, Caps, Phases
<1>4. SyncCovers'
  BY DEF SyncCovers, Syncing
<1>5. PagesCover'
  BY RelayStays DEF PagesCover, Paging
<1>6. Counts'
  BY <1>1 DEF DayInv, Counts, Syncing, Paging
<1> QED
  BY <1>2, <1>3, <1>4, <1>5, <1>6, OpenDay DEF DayInv

\* The walk goes on below when every event above the new bound was had or is
\* hidden.
LEMMA WalkGoesOn ==
    ASSUME DayInv, Paging, phase' = "page",
           \A i \in Ids \ have' : relay.at[i] > until' => HiddenFromPages(i),
           \A i \in have' : relay.at[i] >= until',
           have' \subseteq Gone', have' \subseteq Ids,
           seen' = Cardinality(have'), new' \in Nat, new' <= seen',
           stored' \subseteq Ids, dropped' \subseteq Ids,
           until' \in Seconds,
           relay' = relay, info' = info, saved' = saved, stack' = stack,
           missing' = missing, synced' = synced, done' = done
    PROVE  DayInv'
<1>1. Cardinality(have') \in Nat
  BY Finite
<1>2. missing = {} /\ done' = NotDone
  BY DEF DayInv, Phases, Paging
<1>3. Typed' /\ Caps' /\ Phases'
  BY <1>1, <1>2 DEF DayInv, Typed, Caps, Phases
<1>4. SyncCovers'
  BY DEF SyncCovers, Syncing
<1>5. PagesCover'
  BY RelayStays DEF PagesCover, Paging
<1>6. Counts'
  BY DEF DayInv, Counts, Syncing, Paging
<1> QED
  BY <1>2, <1>3, <1>4, <1>5, <1>6, OpenDay DEF DayInv

\* Every page, had for the first time or again, moves the walk as the
\* invariant wants it.
LEMMA HandlePageStep ==
    ASSUME DayInv, Paging, NEW page \in Newest(Within(0, until), PageCap),
           HandlePage(page),
           relay' = relay, info' = info, saved' = saved, stack' = stack,
           missing' = missing, synced' = synced, done' = done
    PROVE  DayInv'
<1>1. /\ page \subseteq Ids /\ until \in Int
      /\ \A i \in Ids : relay.at[i] \in Int /\ 0 <= relay.at[i]
      /\ \A i \in page : relay.at[i] <= until
      /\ page = {} => \A i \in Ids : relay.at[i] > until
      /\ \A i \in Ids \ page, p \in page : relay.at[i] <= until => relay.at[i] <= relay.at[p]
      /\ page # {} => /\ Oldest(page) \in Seconds
                      /\ \A p \in page : Oldest(page) <= relay.at[p]
                      /\ \E p \in page : Oldest(page) = relay.at[p]
  BY PageFacts DEF DayInv
<1>2. /\ have \subseteq Ids /\ have \subseteq Gone /\ \A i \in have : relay.at[i] >= until
      /\ \A i \in Ids \ have : relay.at[i] > until => HiddenFromPages(i)
      /\ seen = Cardinality(have) /\ new <= seen /\ new \in Nat /\ until \in Seconds
      /\ stored \subseteq Ids /\ dropped \subseteq Ids /\ 0 <= until /\ until < DayEnd
      /\ DayEnd \in Nat
  BY Numbers DEF DayInv, PagesCover, Counts, Typed
<1>3. ASSUME NEW i \in Ids \ page, relay.at[i] <= until,
             (\A p \in page : relay.at[p] = relay.at[i]) \/ relay.at[i] = 0
      PROVE  HiddenFromPages(i)
  BY <1>3, CutSecondIsHidden DEF DayInv
<1>4. CASE page = {} /\ EndPages
  <2>1. \A i \in Ids \ have : HiddenFromPages(i)
    BY <1>1, <1>2, <1>4
  <2> QED
    BY <1>2, <1>4, <2>1, WalkEnds DEF EndPages, pageVars, sinkVars, Gone
<1>5. ASSUME page # {}, page \ have = {},
             IF Oldest(page) = until /\ until > 0
             THEN /\ until' = Below(until) /\ phase' = "page" /\ attempt' = 0
                  /\ UNCHANGED <<have, countVars, sinkVars, faults>>
             ELSE EndPages
      PROVE  DayInv'
  <2>1. \A p \in page : relay.at[p] = until
    BY <1>1, <1>2, <1>5
  <2>2. Oldest(page) = until
    BY <1>1, <1>5, <2>1
  <2>3. ASSUME NEW i \in Ids \ have, relay.at[i] >= until
        PROVE  HiddenFromPages(i)
    <3>1. CASE relay.at[i] > until
      BY <1>2, <3>1
    <3>2. CASE relay.at[i] = until
      BY <1>1, <1>3, <1>5, <2>1, <3>2
    <3> QED
      BY <1>1, <2>3, <3>1, <3>2
  <2>4. CASE until > 0
    <3>1. /\ until' = until - 1 /\ phase' = "page" /\ have' = have /\ seen' = seen /\ new' = new
          /\ stored' = stored /\ dropped' = dropped
      BY <1>5, <2>2, <2>4 DEF Below, countVars, sinkVars
    <3>2. until' \in Seconds
      BY <1>2, <2>4, <3>1 DEF Seconds
    <3>3. \A i \in Ids \ have : relay.at[i] > until' => HiddenFromPages(i)
      BY <1>1, <2>3, <3>1
    <3>4. \A i \in have : relay.at[i] >= until'
      BY <1>1, <1>2, <3>1
    <3> QED
      BY <1>2, <3>1, <3>2, <3>3, <3>4, WalkGoesOn DEF Gone
  <2>5. CASE ~(until > 0)
    <3>1. EndPages
      BY <1>5, <2>5
    <3>2. \A i \in Ids \ have : HiddenFromPages(i)
      BY <1>1, <1>2, <2>3, <2>5
    <3> QED
      BY <1>2, <3>1, <3>2, WalkEnds DEF EndPages, pageVars, sinkVars, Gone
  <2> QED
    BY <2>4, <2>5
<1>6. ASSUME page \ have # {}, have' = have \cup page,
             seen' = seen + Cardinality(page \ have), Process(page \ have),
             IF Oldest(page) <= 0 THEN phase' = "paged" /\ UNCHANGED until
                                  ELSE phase' = "page" /\ until' = Oldest(page)
      PROVE  DayInv'
  <2>1. /\ stored' \subseteq Ids /\ dropped' \subseteq Ids
        /\ Gone' = Gone \cup (page \ have)
        /\ new' \in Nat /\ new' <= new + Cardinality(page \ have)
    BY <1>1, <1>6, ProcessFacts DEF DayInv
  <2>2. have' \subseteq Gone' /\ have' \subseteq Ids
    BY <1>1, <1>2, <1>6, <2>1
  <2>3. seen' = Cardinality(have') /\ new' <= seen'
    <3>1. /\ Cardinality(have \cup (page \ have)) = Cardinality(have) + Cardinality(page \ have)
          /\ Cardinality(have) \in Nat /\ Cardinality(page \ have) \in Nat
      BY <1>1, <1>2, Apart, Finite
    <3>2. have' = have \cup (page \ have)
      BY <1>6
    <3>3. seen' = Cardinality(have')
      BY <1>2, <1>6, <3>1, <3>2
    <3>4. new' <= new + Cardinality(page \ have) /\ seen' = seen + Cardinality(page \ have)
      BY <1>6, <2>1
    <3>5. new \in Nat /\ new <= seen /\ seen \in Nat /\ new' \in Nat
      BY <1>2, <2>1, <3>1
    <3> QED
      BY <3>1, <3>3, <3>4, <3>5
  <2>4. /\ Oldest(page) \in Seconds /\ Oldest(page) \in Int
        /\ 0 <= Oldest(page) /\ Oldest(page) <= until
        /\ \A p \in page : Oldest(page) <= relay.at[p]
    BY <1>1, <1>6, Numbers
  <2>5. ASSUME NEW i \in Ids \ have', relay.at[i] > Oldest(page)
        PROVE  HiddenFromPages(i)
    <3>1. relay.at[i] > until
      BY <1>1, <1>6, <2>4, <2>5
    <3> QED
      BY <1>2, <1>6, <3>1
  <2>6. CASE Oldest(page) <= 0
    <3>1. ASSUME NEW i \in Ids \ have' PROVE HiddenFromPages(i)
      <4>1. CASE relay.at[i] = 0
        BY <1>2, <1>3, <1>6, <4>1
      <4>2. CASE relay.at[i] > 0
        BY <2>4, <2>5, <2>6, <4>2
      <4> QED
        BY <1>1, <4>1, <4>2
    <3>2. phase' = "paged" /\ until' = until
      BY <1>6, <2>6
    <3> QED
      BY <1>2, <2>1, <2>2, <2>3, <3>1, <3>2, WalkEnds
  <2>7. CASE ~(Oldest(page) <= 0)
    <3>1. phase' = "page" /\ until' = Oldest(page)
      BY <1>6, <2>7
    <3>2. \A i \in have' : relay.at[i] >= until'
      BY <1>1, <1>2, <1>6, <2>4, <3>1
    <3>3. \A i \in Ids \ have' : relay.at[i] > until' => HiddenFromPages(i)
      BY <2>5, <3>1
    <3> QED
      BY <2>1, <2>2, <2>3, <2>4, <3>1, <3>2, <3>3, WalkGoesOn
  <2> QED
    BY <2>6, <2>7
<1>7. \/ page = {} /\ EndPages
      \/ /\ page # {} /\ page \ have = {}
         /\ IF Oldest(page) = until /\ until > 0
            THEN /\ until' = Below(until) /\ phase' = "page" /\ attempt' = 0
                 /\ UNCHANGED <<have, countVars, sinkVars, faults>>
            ELSE EndPages
      \/ /\ page \ have # {}
         /\ have' = have \cup page
         /\ seen' = seen + Cardinality(page \ have)
         /\ Process(page \ have)
         /\ IF Oldest(page) <= 0
            THEN phase' = "paged" /\ UNCHANGED until
            ELSE phase' = "page" /\ until' = Oldest(page)
  BY DEF HandlePage
<1> QED
  BY <1>4, <1>5, <1>6, <1>7

LEMMA PageStep ==
    ASSUME DayInv, Page
    PROVE  DayInv'
<1>1. /\ relay' = relay /\ info' = info /\ saved' = saved /\ stack' = stack
      /\ missing' = missing /\ synced' = synced /\ done' = done /\ Paging
  BY DEF Page, syncVars, Paging
<1>2. PICK page \in Newest(Within(0, until), PageCap) :
         \/ page = {} /\ until + 1 < DayEnd
            /\ phase' = "recheck" /\ attempt' = 0
            /\ UNCHANGED <<pageVars, countVars, sinkVars, faults>>
         \/ (page # {} \/ until + 1 = DayEnd) /\ HandlePage(page)
  BY DEF Page
<1>3. CASE HandlePage(page)
  BY <1>1, <1>3, HandlePageStep
<1>4. CASE phase' = "recheck" /\ UNCHANGED <<pageVars, countVars, sinkVars>>
  BY <1>1, <1>4, AskAgain DEF syncVars
<1> QED
  BY <1>2, <1>3, <1>4

LEMMA RecheckStep ==
    ASSUME DayInv, Recheck
    PROVE  DayInv'
<1>1. /\ relay' = relay /\ info' = info /\ saved' = saved /\ stack' = stack
      /\ missing' = missing /\ synced' = synced /\ done' = done /\ Paging
  BY DEF Recheck, syncVars, Paging
<1>2. PICK page \in Newest(Within(0, until), PageCap) : HandlePage(page)
  BY DEF Recheck
<1> QED
  BY <1>1, <1>2, HandlePageStep

-----------------------------------------------------------------------------
(* The invariant. *)

LEMMA DayInvInit == Init => DayInv
<1> SUFFICES ASSUME Init PROVE DayInv
  OBVIOUS
<1>1. /\ relay \in [at : [Ids -> Seconds], syncCap : Nat, baseline : BOOLEAN]
      /\ stored \subseteq Ids
  BY WindowAssumption DEF Init, Seconds
<1>2. Typed
  <2>1. Fresh \in Info /\ <<>> \in Seq(Window) /\ 0 \in Seconds
    BY EmptySeq, WindowAssumption DEF Fresh, Info, Seconds
  <2> QED
    BY <1>1, <2>1 DEF Typed, Init
<1>3. Phases
  BY DEF Phases, Init
<1>4. Caps
  BY <1>1 DEF Caps, Init, Fresh
<1>5. SyncCovers /\ PagesCover
  BY DEF SyncCovers, PagesCover, Syncing, Paging, Init
<1>6. Counts
  BY EmptySeq DEF Counts, Ordered, Syncing, Paging, Init
<1>7. DoneIsComplete /\ CountedOnce
  BY DEF DoneIsComplete, CountedOnce, Init
<1> QED
  BY <1>2, <1>3, <1>4, <1>5, <1>6, <1>7 DEF DayInv

LEMMA DayInvStep ==
    ASSUME DayInv, [Next]_vars
    PROVE  DayInv'
<1>1. CASE StartUnit    BY <1>1, StartUnitStep
<1>2. CASE Reconcile    BY <1>2, ReconcileStep
<1>3. CASE SyncedAll    BY <1>3, SyncedAllStep
<1>4. CASE FetchChunk   BY <1>4, FetchChunkStep
<1>5. CASE WindowDone   BY <1>5, WindowDoneStep
<1>6. CASE Page         BY <1>6, PageStep
<1>7. CASE Recheck      BY <1>7, RecheckStep
<1>8. CASE FinishUnit   BY <1>8, FinishUnitStep
<1>9. CASE Unsupported  BY <1>9, UnsupportedStep
<1>10. CASE SyncFails   BY <1>10, SyncFailsStep
<1>11. CASE RateLimited BY <1>11, RateLimitedStep
<1>12. CASE RequestFails
  BY <1>12, FailUnitStep DEF RequestFails, Requesting
<1>13. CASE EmptyPage   BY <1>13, EmptyPageStep
<1>14. CASE TimeOut
  BY <1>14, FailUnitStep DEF TimeOut, Active
<1>15. CASE Cancelled   BY <1>15, CancelledStep
<1>16. CASE UNCHANGED vars
  BY <1>16, SameState DEF vars, syncVars, pageVars, countVars, sinkVars
<1> QED
  BY <1>1, <1>2, <1>3, <1>4, <1>5, <1>6, <1>7, <1>8, <1>9, <1>10, <1>11, <1>12,
     <1>13, <1>14, <1>15, <1>16 DEF Next, UnitStep

LEMMA DayInvHolds == Spec => []DayInv
BY DayInvInit, DayInvStep, PTL DEF Spec

\* A day that is recorded as done has every event the relay can be made to show
\* and the sink did not drop, whatever failed before: by the sync path because
\* every window was reconciled in full or cut where it cannot be split, by the
\* page path because the walk never moves its bound past an event it has not
\* had.
THEOREM RecordedDayIsComplete == Spec => []DoneIsComplete
BY DayInvHolds, PTL DEF DayInv

\* The record of a day counts no event twice: windows of the stack never overlap,
\* and the fall back to pages starts the counts again.
THEOREM RecordedDayCountsOnce == Spec => []CountedOnce
BY DayInvHolds, PTL DEF DayInv

-----------------------------------------------------------------------------
(* ScrapeDay implements DayFetch. *)

\* No step takes an event from the sink, and only the end of a unit records the
\* day.
LEMMA SinkGrows ==
    ASSUME DayInv, [Next]_vars
    PROVE  /\ relay' = relay /\ Gone \subseteq Gone'
           /\ done' = done \/ FinishUnit
<1>1. CASE StartUnit
  BY <1>1 DEF StartUnit, DrawOpen, sinkVars, Gone
<1>2. CASE Reconcile
  <2>1. relay' = relay /\ stored' = stored /\ done' = done
    BY <1>2 DEF Reconcile
  <2>2. dropped \subseteq dropped'
    <3> DEFINE remote(shown) == shown \ (IF relay.baseline THEN stored ELSE {})
    <3>1. dropped' = dropped \/ \E i : dropped' = dropped \cup {i}
      BY <1>2 DEF Reconcile
    <3> QED
      BY <3>1
  <2> QED
    BY <2>1, <2>2 DEF Gone
<1>3. CASE FetchChunk
  <2>1. relay' = relay /\ done' = done
    BY <1>3 DEF FetchChunk
  <2>2. \E events : Process(events)
    BY <1>3 DEF FetchChunk
  <2> QED
    BY <2>1, <2>2 DEF Process, Gone
<1>4. CASE Page \/ Recheck
  <2>1. relay' = relay /\ done' = done
    BY <1>4 DEF Page, Recheck
  <2>2. UNCHANGED sinkVars \/ \E page : HandlePage(page)
    BY <1>4 DEF Page, Recheck
  <2>3. UNCHANGED sinkVars \/ \E events : Process(events)
    BY <2>2 DEF HandlePage, EndPages, sinkVars
  <2> QED
    BY <2>1, <2>3 DEF Process, sinkVars, Gone
<1>5. CASE SyncedAll \/ WindowDone \/ FinishUnit \/ Unsupported \/ SyncFails
             \/ RateLimited \/ RequestFails \/ EmptyPage \/ TimeOut \/ Cancelled
             \/ UNCHANGED vars
  <2>1. relay' = relay /\ UNCHANGED sinkVars
    BY <1>5 DEF SyncedAll, WindowDone, FinishUnit, Unsupported, SyncFails, RateLimited,
                RequestFails, EmptyPage, TimeOut, Cancelled, FailUnit, vars, sinkVars
  <2>2. done' = done \/ FinishUnit
    BY <1>5 DEF SyncedAll, WindowDone, Unsupported, SyncFails, RateLimited,
                RequestFails, EmptyPage, TimeOut, Cancelled, FailUnit, vars
  <2> QED
    BY <2>1, <2>2 DEF sinkVars, Gone
<1> QED
  BY <1>1, <1>2, <1>3, <1>4, <1>5 DEF Next, UnitStep

\* What can be reached of a relay does not change while its day is scraped.
LEMMA ReachableStays ==
    ASSUME relay' = relay
    PROVE  Reachable' = Reachable
BY RelayStays DEF Reachable

\* Every step of the unit is a step of the promise: the sink gains events, or
\* the day is recorded with everything reachable in it.
LEMMA StepRefines ==
    ASSUME DayInv, DayInv', [Next]_vars
    PROVE  [Fetch!Next]_(Fetch!vars)
<1>1. relay' = relay /\ Gone \subseteq Gone' /\ (done' = done \/ FinishUnit)
  BY SinkGrows
<1>2. Reachable' = Reachable
  BY <1>1, ReachableStays
<1>3. CASE done' = done
  <2>1. (done # NotDone)' = (done # NotDone)
    BY <1>3
  <2> QED
    BY <1>1, <1>2, <2>1 DEF Fetch!Next, Fetch!Store, Gone
<1>4. CASE FinishUnit
  <2>1. done = NotDone /\ done' # NotDone /\ UNCHANGED sinkVars
    <3>1. phase \in {"synced", "paged"} /\ done' = [path |-> phase, seen |-> seen, new |-> new]
      BY <1>4 DEF FinishUnit
    <3>2. done'.path = phase /\ NotDone.path = "none"
      BY <3>1 DEF NotDone
    <3> QED
      BY <1>4, <3>1, <3>2 DEF FinishUnit, DayInv, Phases
  <2>2. Reachable \subseteq Gone
    <3>1. \A i \in Ids \ Gone : i \notin Reachable
      BY <1>1, <2>1, RelayStays DEF DayInv, DoneIsComplete, Reachable, Gone, sinkVars
    <3> QED
      BY <3>1 DEF Reachable
  <2>3. (stored \cup dropped)' = stored \cup dropped
    BY <2>1 DEF sinkVars
  <2> QED
    BY <1>2, <2>1, <2>2, <2>3 DEF Fetch!Next, Fetch!Record, Gone
<1> QED
  BY <1>1, <1>3, <1>4

\* The scraper of a day keeps its promise: through all windows, pages, failures
\* and repeated units, the sink only gains events and the day is recorded once,
\* with everything reachable in it.
THEOREM ImplementsDayFetch == Spec => DayIsFetched
<1>1. Init => Fetch!Init
  BY DEF Init, Fetch!Init
<1>2. DayInv /\ DayInv' /\ [Next]_vars => [Fetch!Next]_(Fetch!vars)
  BY StepRefines
<1> QED
  BY <1>1, <1>2, DayInvHolds, PTL DEF Spec, DayIsFetched, Fetch!Spec

=============================================================================
