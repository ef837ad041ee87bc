-------------------------- MODULE ScrapePassProofs --------------------------
(* Proofs of the safety properties of ScrapePass, for every set of relays,   *)
(* every number of slots, block width and backoff, and every interleaving of *)
(* the planner, its tasks, the operator, the clock and the end of the        *)
(* process.                                                                  *)
EXTENDS ScrapePass, FiniteSetTheorems, WellFoundedInduction, TLAPS

(* Facts about numbers. *)

\* The smaller and the larger of two numbers.
LEMMA MinOfTwo ==
    ASSUME NEW a \in Int, NEW b \in Int
    PROVE  Min({a, b}) = IF a <= b THEN a ELSE b
<1> DEFINE m == IF a <= b THEN a ELSE b
<1>1. m \in {a, b} /\ \A y \in {a, b} : m <= y
  OBVIOUS
<1>2. \A x \in {a, b} : (\A y \in {a, b} : x <= y) => x = m
  OBVIOUS
<1> HIDE DEF m
<1>3. Min({a, b}) = m
  BY <1>1, <1>2 DEF Min
<1> QED
  BY <1>3 DEF m

LEMMA MaxOfTwo ==
    ASSUME NEW a \in Int, NEW b \in Int
    PROVE  Max({a, b}) = IF a >= b THEN a ELSE b
<1> DEFINE m == IF a >= b THEN a ELSE b
<1>1. m \in {a, b} /\ \A y \in {a, b} : m >= y
  OBVIOUS
<1>2. \A x \in {a, b} : (\A y \in {a, b} : x >= y) => x = m
  OBVIOUS
<1> HIDE DEF m
<1>3. Max({a, b}) = m
  BY <1>1, <1>2 DEF Max
<1> QED
  BY <1>3 DEF m

\* Every set of natural numbers has a least element: induction by the least
\* counterexample.
LEMMA LeastNat ==
    ASSUME NEW T \in SUBSET Nat, T # {}
    PROVE  \E x \in T : \A y \in T : x <= y
<1> DEFINE R == {ss \in Nat \X Nat : ss[1] < ss[2]}
<1>1. IsWellFoundedOn(R, Nat)
  BY NatLessThanWellFounded DEF OpToRel
<1> HIDE DEF R
<1>2. PICK x \in T : \A y \in T : <<y, x>> \notin R
  BY <1>1, WFMin
<1>3. \A y \in T : x <= y
  <2> SUFFICES ASSUME NEW y \in T, y < x PROVE FALSE
    OBVIOUS
  <2>1. <<y, x>> \in Nat \X Nat /\ <<y, x>>[1] = y /\ <<y, x>>[2] = x
    OBVIOUS
  <2>2. <<y, x>> \in R
    BY <2>1 DEF R
  <2> QED
    BY <1>2, <2>2
<1> QED
  BY <1>3

\* The newest of the days in a range.
LEMMA NewestDay ==
    ASSUME NEW n \in Int, NEW S \in SUBSET (0..n), S # {}
    PROVE  Max(S) \in S /\ \A y \in S : y <= Max(S)
<1> DEFINE T == {k \in Nat : n - k \in S}
<1>1. PICK z \in T : \A y \in T : z <= y
  <2>1. PICK x \in S : TRUE
    OBVIOUS
  <2>2. n - x \in Nat /\ n - (n - x) = x
    OBVIOUS
  <2>3. n - x \in T
    BY <2>1, <2>2
  <2> QED
    BY <2>3, LeastNat
<1>2. \A y \in S : y <= n - z
  <2> SUFFICES ASSUME NEW y \in S PROVE y <= n - z
    OBVIOUS
  <2>1. n - y \in Nat /\ n - (n - y) = y
    OBVIOUS
  <2>2. n - y \in T
    BY <2>1
  <2>3. z <= n - y
    BY <1>1, <2>2
  <2> QED
    BY <2>3
<1>3. n - z \in S
  OBVIOUS
<1> QED
  BY <1>2, <1>3 DEF Max

-----------------------------------------------------------------------------
(* Relay records. *)

\* The limits of a relay record are numbers.
LEMMA LimitTypes ==
    /\ MaxFails \in Nat \ {0} /\ Max({DeadFor, Recheck}) \in Nat
    /\ DeadFor <= Max({DeadFor, Recheck}) /\ Recheck <= Max({DeadFor, Recheck})
<1>1. \A a, b \in Nat \ {0} : a * b \in Nat \ {0}
  OBVIOUS
<1>2. MaxFails \in Nat \ {0}
  BY <1>1, ScrapeAssumption DEF MaxFails
<1> QED
  BY <1>2, ScrapeAssumption, MaxOfTwo

\* The values the code writes into a relay record are within them.
LEMMA FieldTypes ==
    /\ 0 \in 0..MaxFails
    /\ 0 \in 0..BackoffLimit /\ BackoffLimit \in 0..BackoffLimit
    /\ 0 \in Never..DeadFor /\ Never \in Never..DeadFor
    /\ Never \in Never..Max({DeadFor, Recheck})
    /\ DeadFor \in Never..Max({DeadFor, Recheck})
    /\ Recheck \in Never..Max({DeadFor, Recheck})
BY LimitTypes, ScrapeAssumption DEF Never

\* What the code makes of a relay record is a relay record.
LEMMA FreshType == Fresh \in RelayInfo
BY FieldTypes DEF Fresh, RelayInfo

LEMMA NotARelayType == ASSUME NEW i \in RelayInfo PROVE NotARelay(i) \in RelayInfo
BY FieldTypes DEF NotARelay, RelayInfo

LEMMA ReleasedType == ASSUME NEW i \in RelayInfo PROVE Released(i) \in RelayInfo
BY FieldTypes DEF Released, RelayInfo

\* A task that ends well leaves this.
AnsweredInfo(i) == [i EXCEPT !.fails = 0, !.failAge = BackoffLimit, !.dead = Never, !.okAge = 0]

LEMMA AnsweredType == ASSUME NEW i \in RelayInfo PROVE AnsweredInfo(i) \in RelayInfo
BY FieldTypes DEF AnsweredInfo, RelayInfo

LEMMA FailedType == ASSUME NEW i \in RelayInfo PROVE Failed(i) \in RelayInfo
<1>1. Counted(i.fails) \in 0..MaxFails
  <2>1. i.fails \in 0..MaxFails /\ i.fails + 1 \in Int
    BY LimitTypes DEF RelayInfo
  <2> HIDE DEF MaxFails
  <2>2. Min({i.fails + 1, MaxFails}) \in 0..MaxFails
    BY <2>1, MinOfTwo, LimitTypes
  <2> QED
    BY <2>2 DEF Counted
<1> DEFINE f == [i EXCEPT !.fails = Counted(@), !.failAge = 0]
<1>2. f \in RelayInfo
  BY <1>1, FieldTypes DEF RelayInfo
<1>3. [f EXCEPT !.dead = DeadFor] \in RelayInfo
  BY <1>2, FieldTypes DEF RelayInfo
<1> QED
  BY <1>2, <1>3 DEF Failed

LEMMA LaterType ==
    ASSUME NEW m \in Nat, NEW n \in Never..m
    PROVE  Later(n, m) \in Never..m
BY MinOfTwo DEF Later, Never

LEMMA AgedType == ASSUME NEW i \in RelayInfo PROVE Aged(i) \in RelayInfo
<1>1. Later(i.okAge, DeadFor) \in Never..DeadFor
  BY LaterType, ScrapeAssumption DEF RelayInfo
<1>2. Later(i.failAge, BackoffLimit) \in 0..BackoffLimit
  BY MinOfTwo, ScrapeAssumption DEF RelayInfo, Later, Never
<1>3. Sooner(i.dead) \in Never..Max({DeadFor, Recheck})
  BY LimitTypes DEF RelayInfo, Sooner, Never
<1> QED
  BY <1>1, <1>2, <1>3 DEF Aged, RelayInfo

-----------------------------------------------------------------------------
(* Blocks. *)

\* A quotient is below a block exactly when the number is below its days.
LEMMA Quotient ==
    ASSUME NEW a \in Nat, NEW b \in Nat \ {0}
    PROVE  /\ a \div b \in 0..a
           /\ \A c \in Nat : a \div b < c <=> a < c * b
<1> DEFINE q == a \div b
           r == a % b
<1>1. q \in Int /\ r \in 0..(b - 1) /\ a = b * q + r
  OBVIOUS
<1> HIDE DEF q, r
<1>2. q >= 0
  BY <1>1
<1>3. q <= a
  BY <1>1, <1>2
<1>4. ASSUME NEW c \in Nat, q < c PROVE a < c * b
  <2>1. q + 1 <= c
    BY <1>1, <1>4
  <2>2. b * (q + 1) <= b * c
    BY <1>1, <2>1
  <2>3. b * (q + 1) = b * q + b
    BY <1>1
  <2> QED
    BY <1>1, <2>2, <2>3
<1>5. ASSUME NEW c \in Nat, ~(q < c) PROVE ~(a < c * b)
  <2>1. b * c <= b * q
    BY <1>1, <1>5
  <2> QED
    BY <1>1, <2>1
<1> QED
  BY <1>1, <1>2, <1>3, <1>4, <1>5 DEF q

\* A day is in front of block c exactly when its own block is a newer one.
LEMMA InFront ==
    ASSUME NEW t \in Nat, NEW d \in 0..(t - 1), NEW c \in Nat
    PROVE  /\ BlockOf(t, BlockDays, d) \in 0..(t - 1)
           /\ d >= t - c * BlockDays <=> BlockOf(t, BlockDays, d) < c
<1>1. t - 1 - d \in Nat /\ t - 1 - d <= t - 1 /\ BlockDays \in Nat \ {0}
  BY ScrapeAssumption
<1>2. c * BlockDays \in Nat
  BY <1>1
<1>3. /\ (t - 1 - d) \div BlockDays \in 0..(t - 1 - d)
      /\ (t - 1 - d) \div BlockDays < c <=> t - 1 - d < c * BlockDays
  BY <1>1, Quotient
<1>4. t - 1 - d < c * BlockDays <=> d >= t - c * BlockDays
  BY <1>1, <1>2
<1> QED
  BY <1>1, <1>3, <1>4 DEF BlockOf

-----------------------------------------------------------------------------
(* Types. *)

Unit == [url : Urls, info : RelayInfo, day : Days, outdated : BOOLEAN,
         at : {"drawn", "work", "recorded"}]

\* The cut apart, which is a sum over the relays, every variable keeps its type.
Typed ==
    /\ known \subseteq Urls
    /\ info \in [Urls -> RelayInfo]
    /\ days \in [Urls -> [Days -> {"none", "stale", "done"}]]
    /\ today \in 0..MaxToday
    /\ loop \in {"idle", "read", "draw", "check", "spawn"}
    /\ cursor \in [Urls -> 0..Parked]
    /\ DOMAIN targets \subseteq Urls
    /\ \A u \in DOMAIN targets : targets[u] \in RelayInfo
    /\ batch \subseteq Unit /\ units \subseteq Unit
    /\ inFlight \subseteq Urls
    /\ reopened \subseteq Urls \X Days /\ overlooked \subseteq Urls \X Days
    /\ lastAnswer \in [Urls -> Never..DeadFor]
    /\ misjudged \subseteq Urls

\* The scope of a pass is made of known relays.
LEMMA ScopeKnown == Scope \subseteq known
BY DEF Scope, ScrapeTargets, TopByUsageWeight

\* The cursor never leaves the blocks there are, and moves only over days that
\* are done or that the walk could not name.
LEMMA WalkedType ==
    ASSUME Typed, NEW u \in Urls, NEW M
    PROVE  /\ Walked(u, M) \in 0..Parked
           /\ \A d \in OpenRange : InFrontOf(Walked(u, M), d, today) =>
                days[u][d] = "done" \/ Passed(u, d, today) \/ d \in M
<1> DEFINE O == OpenDays(u, M)
<1>1. today \in Nat /\ MaxToday \in Nat /\ today <= MaxToday /\ cursor[u] \in Nat
  BY ScrapeAssumption DEF Typed, Parked
<1>2. ASSUME NEW d \in OpenRange, days[u][d] # "done", d \notin M, d \notin O
      PROVE  Passed(u, d, today)
  <2>1. BlockOf(today, BlockDays, d) < cursor[u]
    <3>1. d \in 0..(today - 1)
      BY <1>2 DEF OpenRange
    <3>2. BlockOf(today, BlockDays, d) \in Nat
      BY <1>1, <3>1, InFront
    <3> QED
      BY <1>1, <1>2, <3>2 DEF OpenDays, Open
  <2> QED
    BY <1>1, <2>1, InFront DEF OpenRange, Passed, InFrontOf
<1>3. CASE O = {}
  <2>1. Walked(u, M) = Parked
    BY <1>3 DEF Walked
  <2> QED
    BY <1>1, <1>2, <1>3, <2>1 DEF Parked
<1>4. CASE O # {}
  <2> DEFINE x == Max(O)
             c == BlockOf(today, BlockDays, x)
  <2>1. x \in 0..(today - 1) /\ \A y \in O : y <= x
    <3>1. O \in SUBSET (0..(today - 1)) /\ today - 1 \in Int
      BY <1>1 DEF OpenDays, OpenRange
    <3> HIDE DEF O
    <3> QED
      BY <1>4, <3>1, NewestDay
  <2>2. Walked(u, M) = c
    BY <1>4 DEF Walked, Newest
  <2> HIDE DEF x
  <2>3. c \in 0..(today - 1) /\ c \in Nat
    BY <1>1, <2>1, InFront
  <2> HIDE DEF c
  <2>4. ASSUME NEW d \in OpenRange, InFrontOf(c, d, today)
        PROVE  d \notin O
    <3>1. d \in 0..(today - 1)
      BY DEF OpenRange
    <3>2. ~(x >= today - c * BlockDays)
      BY <1>1, <2>1, <2>3, InFront DEF c
    <3>3. BlockDays \in Nat /\ c * BlockDays \in Nat
      BY <2>3, ScrapeAssumption
    <3> QED
      BY <1>1, <2>1, <2>4, <3>1, <3>2, <3>3 DEF InFrontOf
  <2> QED
    BY <1>1, <1>2, <2>2, <2>3, <2>4 DEF Parked
<1> QED
  BY <1>3, <1>4

\* A draw, whatever days it could not name, hands out eligible relays, moves
\* cursors as the walk says, and leaves the records alone.
LEMMA DrawFacts ==
    ASSUME Typed, NEW missed, Draw(missed)
    PROVE  /\ cursor' \in [Urls -> 0..Parked]
           /\ \A u \in Urls : cursor'[u] = cursor[u] \/ cursor'[u] = Walked(u, missed[u])
           /\ batch' \subseteq Unit
           /\ \A b \in batch' : Eligible(b.url) /\ (~b.outdated => b.info = info[b.url])
           /\ \A b, c \in batch' : b.url = c.url => b = c
           /\ DOMAIN targets' = {} /\ loop' = "check"
           /\ UNCHANGED <<stateVars, percentile, inFlight, units, history>>
<1>1. PICK drawn \in SUBSET DOMAIN targets, passed \in SUBSET DOMAIN targets :
        /\ \A u \in drawn : Eligible(u)
        /\ cursor' = [u \in Urls |->
                        IF u \in drawn \cup passed THEN Walked(u, missed[u]) ELSE cursor[u]]
        /\ \E day \in [drawn -> Days] :
             batch' = {[url |-> u, info |-> targets[u], day |-> day[u],
                        outdated |-> targets[u] # info[u], at |-> "drawn"] : u \in drawn}
  BY DEF Draw
<1>2. cursor' \in [Urls -> 0..Parked]
  BY <1>1, WalkedType DEF Typed
<1>3. \A u \in Urls : cursor'[u] = cursor[u] \/ cursor'[u] = Walked(u, missed[u])
  BY <1>1
<1>4. PICK day \in [drawn -> Days] :
        batch' = {[url |-> u, info |-> targets[u], day |-> day[u],
                   outdated |-> targets[u] # info[u], at |-> "drawn"] : u \in drawn}
  BY <1>1
<1>5. ASSUME NEW b \in batch'
      PROVE  \E u \in drawn :
               b = [url |-> u, info |-> targets[u], day |-> day[u],
                    outdated |-> targets[u] # info[u], at |-> "drawn"]
  BY <1>4
<1>6. batch' \subseteq Unit
  <2> SUFFICES ASSUME NEW b \in batch' PROVE b \in Unit
    OBVIOUS
  <2>1. PICK u \in drawn : b = [url |-> u, info |-> targets[u], day |-> day[u],
                                outdated |-> targets[u] # info[u], at |-> "drawn"]
    BY <1>5
  <2>2. u \in Urls /\ targets[u] \in RelayInfo /\ day[u] \in Days
    BY DEF Typed
  <2> QED
    BY <2>1, <2>2 DEF Unit
<1>7. ASSUME NEW b \in batch'
      PROVE  Eligible(b.url) /\ (~b.outdated => b.info = info[b.url])
  <2>1. PICK u \in drawn : b = [url |-> u, info |-> targets[u], day |-> day[u],
                                outdated |-> targets[u] # info[u], at |-> "drawn"]
    BY <1>5
  <2>2. b.url = u /\ b.info = targets[u] /\ b.outdated = (targets[u] # info[u])
    BY <2>1
  <2> QED
    BY <1>1, <2>2
<1>8. ASSUME NEW b \in batch', NEW c \in batch', b.url = c.url
      PROVE  b = c
  <2>1. PICK u \in drawn : b = [url |-> u, info |-> targets[u], day |-> day[u],
                                outdated |-> targets[u] # info[u], at |-> "drawn"]
    BY <1>5
  <2>2. PICK v \in drawn : c = [url |-> v, info |-> targets[v], day |-> day[v],
                                outdated |-> targets[v] # info[v], at |-> "drawn"]
    BY <1>5
  <2>3. u = v
    BY <1>8, <2>1, <2>2
  <2> QED
    BY <2>1, <2>2, <2>3
<1>9. DOMAIN targets' = {} /\ loop' = "check"
      /\ UNCHANGED <<stateVars, percentile, inFlight, units, history>>
  BY DEF Draw
<1> QED
  BY <1>2, <1>3, <1>6, <1>7, <1>8, <1>9

\* A task's steps keep the types.
LEMMA TypedTask ==
    ASSUME Typed, NEW u \in units, UnitStep(u)
    PROVE  Typed'
<1> USE DEF Typed, passVars, leftovers
<1>0. /\ u \in Unit /\ u.url \in Urls /\ u.info \in RelayInfo /\ u.day \in Days
      /\ \A k \in {"work", "recorded"} : [u EXCEPT !.at = k] \in Unit
  BY DEF Unit
<1>1. CASE ProbeRejects(u)
  BY <1>0, <1>1, NotARelayType DEF ProbeRejects, LeaveWith, Misjudge
<1>2. CASE UnitRecords(u)
  <2>1. info' \in [Urls -> RelayInfo] /\ misjudged' \subseteq Urls
    BY <1>0, <1>2 DEF UnitRecords, ProbePasses, Misjudge
  <2> QED
    BY <1>0, <1>2, <2>1 DEF UnitRecords
<1>3. CASE UnitSucceeds(u)
  <2>1. info' = [info EXCEPT ![u.url] = AnsweredInfo(u.info)]
    BY <1>3 DEF UnitSucceeds, LeaveWith, AnsweredInfo
  <2> QED
    BY <1>0, <1>3, <2>1, AnsweredType, FieldTypes DEF UnitSucceeds, LeaveWith
<1>4. CASE UnitFails(u)
  BY <1>0, <1>4, FailedType DEF UnitFails, LeaveWith, Misjudge
<1>5. CASE UnitVanishes(u)
  <2>1. info' \in [Urls -> RelayInfo] /\ misjudged' \subseteq Urls
    BY <1>0, <1>5 DEF UnitVanishes, ProbePasses, Misjudge
  <2> QED
    BY <1>0, <1>5, <2>1 DEF UnitVanishes, Leave
<1> QED
  BY <1>1, <1>2, <1>3, <1>4, <1>5 DEF UnitStep

\* The loop keeps the types.
LEMMA TypedLoop ==
    ASSUME Typed, LoopStep
    PROVE  Typed'
<1> USE DEF Typed, passVars, stateVars, leftovers, history
<1>0. 0 \in 0..Parked
  BY ScrapeAssumption DEF Parked
<1>1. CASE StartPass
  BY <1>0, <1>1, ReleasedType DEF StartPass
<1>2. CASE PlanRead
  BY <1>2, ScopeKnown DEF PlanRead
<1>3. CASE PlanDraw
  BY <1>3, DrawFacts DEF PlanDraw, leftovers
<1>4. CASE CheckBatch
  BY <1>0, <1>4 DEF CheckBatch
<1>5. CASE Spawn
  <2>1. PICK b \in batch :
          /\ batch' = batch \ {b}
          /\ inFlight' = inFlight \cup {b.url}
          /\ units' = units \cup {[b EXCEPT !.at = "work"]}
          /\ loop' \in {"read", "spawn"}
    BY <1>5 DEF Spawn
  <2>2. b.url \in Urls /\ [b EXCEPT !.at = "work"] \in Unit
    BY DEF Unit
  <2> QED
    BY <1>5, <2>1, <2>2 DEF Spawn
<1> QED
  BY <1>1, <1>2, <1>3, <1>4, <1>5 DEF LoopStep

\* So do the operator, the clock and the end of the process.
LEMMA TypedOutside ==
    ASSUME Typed,
           Discover \/ ResetDays \/ (\E u \in Urls : ResetRelay(u)) \/ Tick \/ Midnight
             \/ DrawAcrossMidnight \/ Kill
    PROVE  Typed'
<1> USE DEF Typed, passVars, stateVars, leftovers, history
<1>0. 0 \in 0..Parked
  BY ScrapeAssumption DEF Parked
<1>1. CASE Discover
  <2>1. known' \subseteq Urls
    BY <1>1, ScrapeAssumption DEF Discover, Kept
  <2> QED
    BY <1>1, <2>1 DEF Discover
<1>2. CASE ResetDays
  <2>1. PICK urls \in {Urls} \cup {{u} : u \in Urls}, from \in OpenRange, to \in OpenRange :
          LET gone == Matching(urls, from, to) IN
          /\ days' = [u \in Urls |-> [d \in Days |->
                        IF <<u, d>> \in gone THEN "none" ELSE days[u][d]]]
          /\ Reopen(gone, today)
    BY <1>2 DEF ResetDays
  <2>2. days' \in [Urls -> [Days -> {"none", "stale", "done"}]]
    BY <2>1
  <2>3. Matching(urls, from, to) \subseteq Urls \X Days
    <3>1. urls \subseteq Urls
      OBVIOUS
    <3>2. from..to \subseteq Days
      BY ScrapeAssumption DEF OpenRange, Days
    <3> QED
      BY <3>1, <3>2 DEF Matching
  <2>4. reopened' \subseteq Urls \X Days
    BY <2>1, <2>3 DEF Reopen
  <2> QED
    BY <1>2, <2>2, <2>4 DEF ResetDays
<1>3. ASSUME NEW u \in Urls, ResetRelay(u)
      PROVE  Typed'
  BY <1>3, FreshType, FieldTypes DEF ResetRelay, Forgotten
<1>4. CASE Tick
  <2>1. info' \in [Urls -> RelayInfo]
    BY <1>4, AgedType DEF Tick
  <2>2. DOMAIN targets' \subseteq Urls /\ \A u \in DOMAIN targets' : targets'[u] \in RelayInfo
    BY <1>4, AgedType DEF Tick
  <2>3. \A b \in Unit : [b EXCEPT !.info = Aged(@)] \in Unit
    BY AgedType DEF Unit
  <2>4. batch' \subseteq Unit /\ units' \subseteq Unit
    BY <1>4, <2>3 DEF Tick
  <2>5. lastAnswer' \in [Urls -> Never..DeadFor]
    BY <1>4, LaterType, ScrapeAssumption DEF Tick
  <2> QED
    BY <1>4, <2>1, <2>2, <2>4, <2>5 DEF Tick
<1>5. CASE Midnight
  <2>1. today \in Days /\ today + 1 \in 0..MaxToday
    BY <1>5, ScrapeAssumption DEF Midnight, Days
  <2>2. reopened' \subseteq Urls \X Days
    BY <1>5, <2>1 DEF Midnight, Reopen
  <2> QED
    BY <1>5, <2>1, <2>2 DEF Midnight
<1>6. CASE Kill
  BY <1>0, <1>6 DEF Kill
<1>7. CASE DrawAcrossMidnight
  <2>1. PICK missed :
          /\ Draw(missed)
          /\ overlooked' = overlooked \cup
               {p \in Urls \X OpenRange :
                  /\ p[2] \in missed[p[1]] /\ Open(p[1], p[2])
                  /\ InFrontOf(cursor'[p[1]], p[2], today + 1)
                  /\ ~InFrontOf(cursor[p[1]], p[2], today)}
    BY <1>7 DEF DrawAcrossMidnight
  <2>2. /\ today < MaxToday /\ today' = today + 1
        /\ reopened' = reopened \cup
             {p \in Urls \X {today} : InFrontOf(cursor'[p[1]], today, today + 1)}
    BY <1>7 DEF DrawAcrossMidnight
  <2>3. today \in Days /\ today' \in 0..MaxToday /\ OpenRange \subseteq Days
    BY <2>2, ScrapeAssumption DEF Days, OpenRange
  <2>4. overlooked' \subseteq Urls \X Days /\ reopened' \subseteq Urls \X Days
    BY <2>1, <2>2, <2>3
  <2>5. /\ cursor' \in [Urls -> 0..Parked] /\ batch' \subseteq Unit
        /\ DOMAIN targets' = {} /\ loop' = "check"
        /\ UNCHANGED <<stateVars, percentile, inFlight, units, history>>
    BY <2>1, DrawFacts
  <2> QED
    BY <2>3, <2>4, <2>5
<1> QED
  BY <1>1, <1>2, <1>3, <1>4, <1>5, <1>6, <1>7

\* Every step keeps the types.
LEMMA TypedStep == Typed /\ [Next]_vars => Typed'
<1> SUFFICES ASSUME Typed, [Next]_vars PROVE Typed'
  OBVIOUS
<1>1. CASE UNCHANGED vars
  BY <1>1 DEF vars, Typed, passVars, stateVars, leftovers, history
<1> QED
  BY <1>1, TypedTask, TypedLoop, TypedOutside DEF Next

-----------------------------------------------------------------------------
(* A relay's cursor passes only over days that are done. *)

\* The cursor moves in the planner's second look, and back at the start and the
\* end of a pass; a day it has passed opens again only by midnight or by a reset,
\* and both are remembered, as are the days midnight kept a walk from naming.
LEMMA SkippedStep == Typed /\ SkippedIsDone /\ [Next]_vars => SkippedIsDone'
<1> SUFFICES ASSUME Typed, SkippedIsDone, [Next]_vars PROVE SkippedIsDone'
  OBVIOUS
<1> USE DEF SkippedIsDone, LeftOver, Passed, InFrontOf, OpenRange, passVars, stateVars, leftovers, history
<1>0. /\ today \in 0..MaxToday /\ cursor \in [Urls -> 0..Parked] /\ MaxToday \in Nat
      /\ BlockDays \in Nat /\ days \in [Urls -> [Days -> {"none", "stale", "done"}]]
  BY ScrapeAssumption DEF Typed
<1>1. ASSUME UNCHANGED <<days, today, cursor, reopened, overlooked>>
      PROVE  SkippedIsDone'
  BY <1>1
<1>2. ASSUME cursor' = [u \in Urls |-> 0], UNCHANGED today
      PROVE  SkippedIsDone'
  <2>1. ASSUME NEW u \in Urls, NEW d \in 0..(today - 1), d >= today - 0 * BlockDays
        PROVE  FALSE
    BY <1>0, <2>1
  <2> QED
    BY <1>2, <2>1
<1>3. CASE Discover \/ PlanRead \/ Spawn \/ Tick \/ UNCHANGED vars
           \/ \E u \in Urls : ResetRelay(u)
  BY <1>1, <1>3 DEF Discover, PlanRead, Spawn, Tick, vars, ResetRelay
<1>4. CASE StartPass \/ Kill
  BY <1>2, <1>4 DEF StartPass, Kill
<1>5. CASE CheckBatch
  BY <1>1, <1>2, <1>5 DEF CheckBatch
<1>6. CASE PlanDraw
  <2> DEFINE missed == [u \in Urls |-> {}]
  <2>1. UNCHANGED <<days, today, reopened, overlooked>> /\ Draw(missed)
    BY <1>6 DEF PlanDraw, Draw
  <2>2. \A u \in Urls : missed[u] = {}
    OBVIOUS
  <2> HIDE DEF missed
  <2>3. \A u \in Urls : cursor'[u] = cursor[u] \/ cursor'[u] = Walked(u, missed[u])
    BY <2>1, DrawFacts
  <2> SUFFICES ASSUME NEW u \in Urls, NEW d \in OpenRange,
                      d >= today - cursor'[u] * BlockDays
               PROVE  days[u][d] = "done" \/ <<u, d>> \in reopened \cup overlooked
    BY <2>1
  <2>4. CASE cursor'[u] = Walked(u, missed[u])
    BY <2>2, <2>4, WalkedType
  <2>5. CASE cursor'[u] = cursor[u]
    BY <2>5
  <2> QED
    BY <2>3, <2>4, <2>5
<1>10. CASE DrawAcrossMidnight
  <2>1. PICK missed :
          /\ Draw(missed)
          /\ overlooked' = overlooked \cup
               {p \in Urls \X OpenRange :
                  /\ p[2] \in missed[p[1]] /\ Open(p[1], p[2])
                  /\ InFrontOf(cursor'[p[1]], p[2], today + 1)
                  /\ ~InFrontOf(cursor[p[1]], p[2], today)}
    BY <1>10 DEF DrawAcrossMidnight
  <2>2. /\ today' = today + 1
        /\ reopened' = reopened \cup
             {p \in Urls \X {today} : InFrontOf(cursor'[p[1]], today, today + 1)}
    BY <1>10 DEF DrawAcrossMidnight
  <2>3. /\ cursor' \in [Urls -> 0..Parked] /\ days' = days
        /\ \A u \in Urls : cursor'[u] = cursor[u] \/ cursor'[u] = Walked(u, missed[u])
    BY <2>1, DrawFacts
  <2>4. \A u \in Urls : cursor[u] * BlockDays \in Nat /\ cursor'[u] * BlockDays \in Nat
    BY <1>0, <2>3 DEF Parked
  <2> SUFFICES ASSUME NEW u \in Urls, NEW d \in 0..today,
                      d >= (today + 1) - cursor'[u] * BlockDays
               PROVE  days[u][d] = "done" \/ <<u, d>> \in (reopened \cup overlooked)'
    BY <1>0, <2>2, <2>3
  <2>5. CASE d = today
    <3>1. /\ <<u, today>> \in Urls \X {today}
          /\ <<u, today>>[1] = u /\ <<u, today>>[2] = today
      OBVIOUS
    <3> QED
      BY <2>2, <2>5, <3>1
  <2>6. CASE d # today
    <3>1. d \in 0..(today - 1) /\ d >= today - cursor'[u] * BlockDays
      BY <1>0, <2>4, <2>6
    <3>2. CASE d >= today - cursor[u] * BlockDays
      BY <2>1, <2>2, <3>1, <3>2
    <3>3. CASE ~(d >= today - cursor[u] * BlockDays)
      <4>1. cursor'[u] = Walked(u, missed[u])
        BY <2>3, <3>1, <3>3
      <4>2. days[u][d] = "done" \/ d \in missed[u]
        BY <3>1, <3>3, <4>1, WalkedType
      <4>3. /\ <<u, d>> \in Urls \X (0..(today - 1))
            /\ <<u, d>>[1] = u /\ <<u, d>>[2] = d
        BY <3>1
      <4> QED
        BY <2>1, <3>3, <4>2, <4>3 DEF Open
    <3> QED
      BY <3>2, <3>3
  <2> QED
    BY <2>5, <2>6
<1>7. ASSUME NEW u \in units, UnitStep(u)
      PROVE  SkippedIsDone'
  <2>1. CASE UnitRecords(u)
    <3>1. u.url \in Urls /\ u.day \in Days
      BY DEF Typed, Unit
    <3>2. /\ days' = [days EXCEPT ![u.url][u.day] = "done"]
          /\ reopened' = reopened \ {<<u.url, u.day>>}
          /\ overlooked' = overlooked \ {<<u.url, u.day>>}
          /\ cursor' = cursor /\ today' = today
      BY <2>1 DEF UnitRecords
    <3>3. days'[u.url][u.day] = "done"
      BY <1>0, <3>1, <3>2
    <3>4. \A v \in Urls : \A d \in Days :
            v # u.url \/ d # u.day => days'[v][d] = days[v][d]
      BY <1>0, <3>1, <3>2
    <3>5. \A d \in 0..(today - 1) : d \in Days
      BY <1>0 DEF Days
    <3> QED
      BY <3>2, <3>3, <3>4, <3>5
  <2> QED
    BY <1>1, <1>7, <2>1
       DEF UnitStep, ProbeRejects, UnitSucceeds, UnitFails, UnitVanishes
<1>8. CASE ResetDays
  <2>1. PICK gone \in SUBSET (Urls \X Days) :
          /\ days' = [u \in Urls |-> [d \in Days |->
                        IF <<u, d>> \in gone THEN "none" ELSE days[u][d]]]
          /\ reopened' = reopened \cup {p \in gone : p[2] >= today - cursor[p[1]] * BlockDays}
    <3>1. PICK urls \in {Urls} \cup {{u} : u \in Urls}, from \in OpenRange, to \in OpenRange :
            LET gone == Matching(urls, from, to) IN
            /\ days' = [u \in Urls |-> [d \in Days |->
                          IF <<u, d>> \in gone THEN "none" ELSE days[u][d]]]
            /\ Reopen(gone, today)
      BY <1>8 DEF ResetDays
    <3>2. urls \subseteq Urls /\ from..to \subseteq Days
      BY <1>0 DEF Days
    <3>3. Matching(urls, from, to) \in SUBSET (Urls \X Days)
      BY <3>2 DEF Matching
    <3> QED
      BY <3>1, <3>3 DEF Reopen
  <2>2. UNCHANGED <<today, cursor, overlooked>>
    BY <1>8 DEF ResetDays
  <2> SUFFICES ASSUME NEW u \in Urls, NEW d \in 0..(today - 1),
                      d >= today - cursor[u] * BlockDays
               PROVE  days'[u][d] = "done" \/ <<u, d>> \in (reopened \cup overlooked)'
    BY <2>2
  <2>3. d \in Days
    BY <1>0 DEF Days
  <2>4. CASE <<u, d>> \in gone
    BY <2>1, <2>4
  <2>5. CASE <<u, d>> \notin gone
    BY <2>1, <2>2, <2>3, <2>5
  <2> QED
    BY <2>4, <2>5
<1>9. CASE Midnight
  <2>1. /\ today' = today + 1 /\ cursor' = cursor /\ days' = days
        /\ reopened \subseteq reopened' /\ overlooked' = overlooked
        /\ \A u \in Urls : today >= (today + 1) - cursor[u] * BlockDays => <<u, today>> \in reopened'
    <3> DEFINE R == {p \in Urls \X {today} : Passed(p[1], p[2], today + 1)}
    <3>1. /\ today' = today + 1 /\ cursor' = cursor /\ days' = days
          /\ reopened' = reopened \cup R /\ overlooked' = overlooked
      BY <1>9 DEF Midnight, Reopen
    <3>2. ASSUME NEW u \in Urls, today >= (today + 1) - cursor[u] * BlockDays
          PROVE  <<u, today>> \in R
      <4>1. /\ <<u, today>> \in Urls \X {today}
            /\ <<u, today>>[1] = u /\ <<u, today>>[2] = today
        OBVIOUS
      <4> QED
        BY <3>2, <4>1
    <3> HIDE DEF R
    <3> QED
      BY <3>1, <3>2
  <2> SUFFICES ASSUME NEW u \in Urls, NEW d \in 0..today,
                      d >= (today + 1) - cursor[u] * BlockDays
               PROVE  days[u][d] = "done" \/ <<u, d>> \in (reopened \cup overlooked)'
    BY <1>0, <2>1
  <2>2. CASE d = today
    BY <2>1, <2>2
  <2>3. CASE d # today
    <3>1. cursor[u] * BlockDays \in Nat
      BY <1>0 DEF Parked
    <3>2. d \in 0..(today - 1) /\ d >= today - cursor[u] * BlockDays
      BY <1>0, <2>3, <3>1
    <3> QED
      BY <2>1, <3>2
  <2> QED
    BY <2>2, <2>3
<1> QED
  BY <1>3, <1>4, <1>5, <1>6, <1>7, <1>8, <1>9, <1>10 DEF Next, LoopStep

\* The first records, of an older engine or of none.
LEMMA TypedInit == Init => Typed /\ SkippedIsDone
<1> SUFFICES ASSUME Init PROVE Typed /\ SkippedIsDone
  OBVIOUS
<1>1. info \in [Urls -> RelayInfo]
  <2>1. [Fresh EXCEPT !.okAge = 0] \in RelayInfo
    BY FreshType, FieldTypes DEF RelayInfo
  <2>2. [[Fresh EXCEPT !.okAge = 0] EXCEPT !.failAge = BackoffLimit] \in RelayInfo
    BY <2>1, FieldTypes DEF RelayInfo
  <2> QED
    BY <2>2, FreshType DEF Init, DecodeRelayInfo
<1>2. days \in [Urls -> [Days -> {"none", "stale", "done"}]]
  BY DEF Init, DecodeDayDone
<1>3. lastAnswer \in [Urls -> Never..DeadFor]
  BY <1>1 DEF Init, RelayInfo
<1>4. Typed
  <2>1. cursor \in [Urls -> 0..Parked] /\ today \in 0..MaxToday /\ known \subseteq Urls
    BY ScrapeAssumption DEF Init, Parked
  <2>2. /\ batch = {} /\ units = {} /\ DOMAIN targets = {} /\ loop = "idle"
        /\ inFlight = {} /\ reopened = {} /\ overlooked = {} /\ misjudged = {}
    BY DEF Init
  <2> QED
    BY <1>1, <1>2, <1>3, <2>1, <2>2 DEF Typed
<1>5. SkippedIsDone
  <2>1. ASSUME NEW u \in Urls, NEW d \in OpenRange, d >= today - 0 * BlockDays
        PROVE  FALSE
    BY <1>4, <2>1, ScrapeAssumption DEF OpenRange, Typed
  <2> QED
    BY <2>1 DEF SkippedIsDone, Passed, InFrontOf, Init
<1> QED
  BY <1>4, <1>5

\* In every behaviour each day in front of a relay's cursor is done, opened during
\* this pass, or could not be named because midnight fell into the draw: but for
\* that the walk in blocks leaves nothing unscraped behind it.
THEOREM NothingIsSkipped == Spec => []SkippedIsDone
<1>1. Typed /\ SkippedIsDone /\ [Next]_vars => (Typed /\ SkippedIsDone)'
  BY TypedStep, SkippedStep
<1> QED
  BY <1>1, TypedInit, PTL DEF Spec

-----------------------------------------------------------------------------
(* One unit per relay. *)

\* What is drawn is not in flight until it is spawned, and a pass ends only when
\* nothing is.
Alone ==
    /\ \A t, u \in units : t.url = u.url => t = u
    /\ \A u \in units : u.url \in inFlight
    /\ \A b, c \in batch : b.url = c.url => b = c
    /\ \A b \in batch : b.url \notin inFlight
    /\ batch # {} => loop \in {"check", "spawn"}
    /\ loop = "idle" => inFlight = {}

Slots == IsFiniteSet(units) /\ Cardinality(units) <= Concurrency

\* A relay is drawn only when it is not in flight, and stays in flight until its
\* task leaves.
LEMMA AloneStep == Typed /\ Alone /\ [Next]_vars => Alone'
<1> SUFFICES ASSUME Typed, Alone, [Next]_vars PROVE Alone'
  OBVIOUS
<1> USE DEF Alone, passVars, stateVars, leftovers, history
<1>0. batch \subseteq Unit /\ units \subseteq Unit
  BY DEF Typed
<1>1. CASE Discover \/ StartPass \/ PlanRead \/ CheckBatch \/ ResetDays \/ Midnight \/ Kill
           \/ (\E u \in Urls : ResetRelay(u)) \/ UNCHANGED vars
  BY <1>1 DEF Discover, StartPass, PlanRead, CheckBatch, ResetDays, Midnight, Kill,
              ResetRelay, vars
<1>2. CASE PlanDraw \/ DrawAcrossMidnight
  <2>1. PICK missed : Draw(missed)
    BY <1>2 DEF PlanDraw, DrawAcrossMidnight
  <2> QED
    BY <2>1, DrawFacts DEF Eligible, Free
<1>3. CASE Spawn
  <2>1. PICK b \in batch :
          /\ batch' = batch \ {b}
          /\ inFlight' = inFlight \cup {b.url}
          /\ units' = units \cup {[b EXCEPT !.at = "work"]}
          /\ loop' = IF batch = {b} THEN "read" ELSE "spawn"
    BY <1>3 DEF Spawn
  <2>2. [b EXCEPT !.at = "work"].url = b.url
    BY <1>0 DEF Unit
  <2> QED
    BY <2>1, <2>2
<1>4. ASSUME NEW u \in units, UnitStep(u)
      PROVE  Alone'
  <2>1. CASE UnitRecords(u)
    <3> DEFINE v == [u EXCEPT !.at = "recorded"]
    <3>1. v.url = u.url
      BY <1>0 DEF Unit
    <3>2. /\ units' = (units \ {u}) \cup {v}
          /\ UNCHANGED <<inFlight, batch, loop>>
      BY <2>1 DEF UnitRecords
    <3> HIDE DEF v
    <3> QED
      BY <3>1, <3>2
  <2>2. CASE ~UnitRecords(u)
    <3>1. /\ inFlight' = inFlight \ {u.url} /\ units' = units \ {u}
          /\ batch' = batch /\ loop' = loop
      BY <1>4, <2>2 DEF UnitStep, ProbeRejects, UnitSucceeds, UnitFails, UnitVanishes,
                        LeaveWith, Leave
    <3> QED
      BY <3>1
  <2> QED
    BY <2>1, <2>2
<1>5. CASE Tick
  <2> DEFINE aged(b) == [b EXCEPT !.info = Aged(@)]
  <2>1. \A b \in Unit : aged(b).url = b.url
    BY DEF Unit
  <2>2. /\ batch' = {aged(b) : b \in batch} /\ units' = {aged(u) : u \in units}
        /\ inFlight' = inFlight /\ loop' = loop
    BY <1>5 DEF Tick
  <2> HIDE DEF aged
  <2> QED
    BY <1>0, <2>1, <2>2
<1> QED
  BY <1>1, <1>2, <1>3, <1>4, <1>5 DEF Next, LoopStep

\* A unit is spawned only into a free slot.
LEMMA SlotsStep == Slots /\ [Next]_vars => Slots'
<1> SUFFICES ASSUME Slots, [Next]_vars PROVE Slots'
  OBVIOUS
<1> USE DEF Slots, passVars, stateVars, leftovers, history
<1>0. Cardinality(units) \in Nat /\ Concurrency \in Nat \ {0}
  BY FS_CardinalityType, ScrapeAssumption
<1>1. CASE Discover \/ StartPass \/ PlanRead \/ PlanDraw \/ DrawAcrossMidnight
           \/ CheckBatch \/ ResetDays \/ Midnight \/ (\E u \in Urls : ResetRelay(u)) \/ UNCHANGED vars
  BY <1>1 DEF Discover, StartPass, PlanRead, PlanDraw, DrawAcrossMidnight, Draw, CheckBatch,
              ResetDays, Midnight, ResetRelay, vars
<1>2. CASE Kill
  BY <1>0, <1>2, FS_EmptySet DEF Kill
<1>3. CASE Spawn
  <2>1. PICK x : units' = units \cup {x}
    BY <1>3 DEF Spawn
  <2>2. Cardinality(units) < Concurrency
    BY <1>3 DEF Spawn
  <2> QED
    BY <1>0, <2>1, <2>2, FS_AddElement
<1>4. ASSUME NEW u \in units, UnitStep(u)
      PROVE  Slots'
  <2>1. /\ IsFiniteSet(units \ {u})
        /\ Cardinality(units \ {u}) = Cardinality(units) - 1
    BY FS_RemoveElement
  <2>2. CASE UnitRecords(u)
    <3>1. PICK x : units' = (units \ {u}) \cup {x}
      BY <2>2 DEF UnitRecords
    <3> QED
      BY <1>0, <2>1, <3>1, FS_AddElement
  <2>3. CASE ~UnitRecords(u)
    <3>1. units' = units \ {u}
      BY <1>4, <2>3 DEF UnitStep, ProbeRejects, UnitSucceeds, UnitFails, UnitVanishes,
                        LeaveWith
    <3> QED
      BY <1>0, <2>1, <3>1
  <2> QED
    BY <2>2, <2>3
<1>5. CASE Tick
  <2> DEFINE f == [u \in units |-> [u EXCEPT !.info = Aged(@)]]
  <2>1. units' = {f[u] : u \in units}
    BY <1>5 DEF Tick
  <2> HIDE DEF f
  <2>2. f \in Surjection(units, units')
    BY <2>1 DEF Surjection, f
  <2>3. IsFiniteSet(units') /\ Cardinality(units') <= Cardinality(units)
    BY <2>2, FS_Surjection
  <2> QED
    BY <1>0, <2>3, FS_CardinalityType
<1> QED
  BY <1>1, <1>2, <1>3, <1>4, <1>5 DEF Next, LoopStep

\* Nothing is drawn and nothing in flight at the start.
LEMMA AloneInit == Init => Alone
BY DEF Init, Alone

\* In every behaviour no relay has two tasks, and there are never more tasks than
\* slots, however units, replans and kills interleave.
THEOREM UnitsAreAlone == Spec => []OneUnitPerRelay
<1> DEFINE Inv == Typed /\ Alone /\ Slots
<1>1. Init => Inv
  <2>1. Init => Slots
    BY FS_EmptySet, ScrapeAssumption DEF Init, Slots
  <2> QED
    BY <2>1, AloneInit, TypedInit
<1>2. Inv /\ [Next]_vars => Inv'
  BY TypedStep, AloneStep, SlotsStep
<1>3. Inv => OneUnitPerRelay
  BY DEF Alone, Slots, OneUnitPerRelay
<1> QED
  BY <1>1, <1>2, <1>3, PTL DEF Spec

-----------------------------------------------------------------------------
(* A relay that answered recently is not set aside. *)

\* What record i tells of a relay whose last answer is a old: that age, if the
\* operator has not made the engine forget it, and that it is long ago if the
\* relay is set aside.
Tells(i, a) ==
    /\ a = Never \/ i.okAge = a
    /\ i.dead # Never /\ i.isRelay => a = Never \/ a >= DeadFor

\* Every record tells the truth, in the store and in a task's hand, but of the
\* relays whose record an outdated copy has replaced.
Judged ==
    /\ \A u \in Urls \ misjudged : Tells(info[u], lastAnswer[u])
    /\ \A b \in batch \cup units :
         ~b.outdated /\ b.url \notin misjudged => Tells(b.info, lastAnswer[b.url])

JudgedInv == Typed /\ Alone /\ Judged

\* What the code makes of a truthful record is truthful.
LEMMA ReleasedTells ==
    ASSUME NEW i \in RelayInfo, NEW a, Tells(i, a)
    PROVE  Tells(Released(i), a)
BY DEF Tells, Released, RelayInfo

LEMMA NotARelayTells ==
    ASSUME NEW i \in RelayInfo, NEW a, Tells(i, a)
    PROVE  Tells(NotARelay(i), a)
BY DEF Tells, NotARelay, RelayInfo

LEMMA FailedTells ==
    ASSUME NEW i \in RelayInfo, NEW a, Tells(i, a)
    PROVE  Tells(Failed(i), a)
<1> DEFINE f == [i EXCEPT !.fails = Counted(@), !.failAge = 0]
<1>1. f.okAge = i.okAge /\ f.dead = i.dead /\ f.isRelay = i.isRelay
  BY DEF RelayInfo
<1>2. Retires(f) => i.okAge = Never \/ i.okAge >= DeadFor
  BY <1>1 DEF Retires
<1>3. [f EXCEPT !.dead = DeadFor].okAge = i.okAge
  BY DEF RelayInfo
<1> HIDE DEF f
<1>4. CASE Retires(f)
  <2>1. a = Never \/ a >= DeadFor
    BY <1>2, <1>4 DEF Tells
  <2>2. Failed(i) = [f EXCEPT !.dead = DeadFor]
    BY <1>4 DEF Failed, f
  <2> QED
    BY <1>3, <2>1, <2>2 DEF Tells
<1>5. CASE ~Retires(f)
  <2>1. Failed(i) = f
    BY <1>5 DEF Failed, f
  <2> QED
    BY <1>1, <2>1 DEF Tells
<1> QED
  BY <1>4, <1>5

LEMMA AgedTells ==
    ASSUME NEW i \in RelayInfo, NEW a \in Never..DeadFor, Tells(i, a)
    PROVE  Tells(Aged(i), Later(a, DeadFor))
<1>1. /\ Aged(i).okAge = Later(i.okAge, DeadFor) /\ Aged(i).isRelay = i.isRelay
      /\ Aged(i).dead = Sooner(i.dead)
  BY DEF Aged, RelayInfo
<1>2. Sooner(i.dead) # Never => i.dead # Never
  BY DEF Sooner, Never
<1>3. Later(Never, DeadFor) = Never
  BY DEF Later
<1>4. a >= DeadFor /\ a # Never => Later(a, DeadFor) >= DeadFor
  BY MinOfTwo, ScrapeAssumption DEF Later, Never
<1> QED
  BY <1>1, <1>2, <1>3, <1>4 DEF Tells

\* A task writes what the planner read, and nobody else writes its relay's record
\* meanwhile but the operator, who makes the engine forget the answers too.
LEMMA JudgedTask ==
    ASSUME JudgedInv, NEW u \in units, UnitStep(u)
    PROVE  Judged'
<1> USE DEF Judged
<1>0. /\ Typed /\ Alone /\ Judged
      /\ info \in [Urls -> RelayInfo] /\ lastAnswer \in [Urls -> Never..DeadFor]
      /\ misjudged \subseteq Urls /\ u \in Unit /\ u.url \in Urls /\ u.info \in RelayInfo
  BY DEF JudgedInv, Typed, Unit
<1>1. ASSUME NEW i, ~u.outdated /\ u.url \notin misjudged => Tells(i, lastAnswer[u.url]),
             info' = [info EXCEPT ![u.url] = i], Misjudge(u), lastAnswer' = lastAnswer
      PROVE  \A v \in Urls \ misjudged' : Tells(info'[v], lastAnswer'[v])
  BY <1>0, <1>1 DEF Misjudge
<1>2. ASSUME ProbePasses(u), lastAnswer' = lastAnswer
      PROVE  /\ misjudged \subseteq misjudged'
             /\ \A v \in Urls \ misjudged' : Tells(info'[v], lastAnswer'[v])
  BY <1>0, <1>1, <1>2 DEF ProbePasses, Misjudge
<1>3. ASSUME batch' = batch, units' \subseteq units, misjudged \subseteq misjudged',
             lastAnswer' = lastAnswer
      PROVE  \A b \in (batch \cup units)' :
               ~b.outdated /\ b.url \notin misjudged' => Tells(b.info, lastAnswer'[b.url])
  BY <1>0, <1>3
<1>4. CASE ProbeRejects(u)
  BY <1>0, <1>1, <1>3, <1>4, NotARelayTells DEF ProbeRejects, LeaveWith, Misjudge, passVars
<1>5. CASE UnitFails(u)
  BY <1>0, <1>1, <1>3, <1>5, FailedTells DEF UnitFails, LeaveWith, Misjudge, passVars
<1>6. CASE UnitVanishes(u)
  BY <1>2, <1>3, <1>6 DEF UnitVanishes, passVars
<1>7. CASE UnitRecords(u)
  <2> DEFINE v == [u EXCEPT !.at = "recorded"]
  <2>1. v.url = u.url /\ v.info = u.info /\ v.outdated = u.outdated
    BY <1>0 DEF Unit
  <2>2. /\ units' = (units \ {u}) \cup {v} /\ batch' = batch /\ lastAnswer' = lastAnswer
        /\ ProbePasses(u)
    BY <1>7 DEF UnitRecords, passVars
  <2> HIDE DEF v
  <2> QED
    BY <1>0, <1>2, <2>1, <2>2
<1>8. CASE UnitSucceeds(u)
  <2>1. /\ info' = [info EXCEPT ![u.url] = AnsweredInfo(u.info)]
        /\ lastAnswer' = [lastAnswer EXCEPT ![u.url] = 0]
        /\ misjudged' = misjudged \ {u.url}
        /\ units' = units \ {u} /\ batch' = batch
    BY <1>8 DEF UnitSucceeds, LeaveWith, AnsweredInfo, passVars
  <2>2. Tells(AnsweredInfo(u.info), 0)
    BY <1>0 DEF Tells, AnsweredInfo, RelayInfo
  <2>3. \A b \in (batch \cup units)' : b.url # u.url
    BY <1>0, <2>1 DEF Alone
  <2>4. \A b \in batch \cup units : b.url \in Urls
    BY <1>0 DEF Typed, Unit
  <2> QED
    BY <1>0, <2>1, <2>2, <2>3, <2>4
<1> QED
  BY <1>4, <1>5, <1>6, <1>7, <1>8 DEF UnitStep

\* What is drawn is marked outdated if it no longer is the record.
LEMMA JudgedDraw ==
    ASSUME JudgedInv, NEW missed, Draw(missed)
    PROVE  Judged'
<1>1. /\ Typed /\ Judged /\ info \in [Urls -> RelayInfo] /\ units \subseteq Unit
  BY DEF JudgedInv, Typed
<1>2. /\ batch' \subseteq Unit /\ \A b \in batch' : ~b.outdated => b.info = info[b.url]
      /\ UNCHANGED <<info, units, misjudged, lastAnswer>>
  BY <1>1, DrawFacts DEF stateVars, history
<1>3. \A b \in batch' : b.url \in Urls
  BY <1>2 DEF Unit
<1> QED
  BY <1>1, <1>2, <1>3 DEF Judged

\* The loop's steps keep every record truthful.
LEMMA JudgedLoop ==
    ASSUME JudgedInv, LoopStep
    PROVE  Judged'
<1> USE DEF Judged, passVars, stateVars, leftovers, history
<1>0. /\ Typed /\ Alone /\ Judged /\ info \in [Urls -> RelayInfo] /\ known \subseteq Urls
      /\ batch \subseteq Unit /\ units \subseteq Unit /\ DOMAIN targets \subseteq Urls
  BY DEF JudgedInv, Typed
<1>1. CASE StartPass
  <2>1. /\ info' = [u \in Urls |-> IF u \in known THEN Released(info[u]) ELSE info[u]]
        /\ batch' = {} /\ UNCHANGED <<units, misjudged, lastAnswer>>
    BY <1>1 DEF StartPass
  <2> QED
    BY <1>0, <2>1, ReleasedTells
<1>2. CASE PlanRead \/ CheckBatch
  BY <1>0, <1>2 DEF PlanRead, CheckBatch
<1>3. CASE PlanDraw
  BY <1>0, <1>3, JudgedDraw DEF PlanDraw
<1>4. CASE Spawn
  <2>1. PICK b \in batch :
          /\ batch' = batch \ {b} /\ units' = units \cup {[b EXCEPT !.at = "work"]}
    BY <1>4 DEF Spawn
  <2> DEFINE v == [b EXCEPT !.at = "work"]
  <2>2. v.url = b.url /\ v.info = b.info /\ v.outdated = b.outdated
    BY <1>0 DEF Unit
  <2>3. units' = units \cup {v} /\ UNCHANGED <<info, misjudged, lastAnswer>>
    BY <1>4, <2>1 DEF Spawn
  <2> HIDE DEF v
  <2> QED
    BY <1>0, <2>1, <2>2, <2>3
<1> QED
  BY <1>1, <1>2, <1>3, <1>4 DEF LoopStep

\* Time makes every record and every copy of it older alike.
LEMMA JudgedOutside ==
    ASSUME JudgedInv,
           Discover \/ ResetDays \/ (\E u \in Urls : ResetRelay(u)) \/ Tick \/ Midnight
             \/ DrawAcrossMidnight \/ Kill
    PROVE  Judged'
<1> USE DEF Judged, passVars, stateVars, leftovers, history
<1>0. /\ Typed /\ Judged /\ info \in [Urls -> RelayInfo]
      /\ lastAnswer \in [Urls -> Never..DeadFor]
      /\ batch \subseteq Unit /\ units \subseteq Unit
  BY DEF JudgedInv, Typed
<1>1. CASE Discover \/ ResetDays \/ Midnight \/ Kill
  BY <1>0, <1>1 DEF Discover, ResetDays, Midnight, Kill
<1>2. ASSUME NEW u \in Urls, ResetRelay(u)
      PROVE  Judged'
  <2>1. /\ lastAnswer' = [lastAnswer EXCEPT ![u] = Never]
        /\ \A v \in Urls \ {u} : info'[v] = info[v]
        /\ UNCHANGED <<batch, units, misjudged>>
    BY <1>0, <1>2 DEF ResetRelay
  <2>2. \A b \in batch \cup units : b.url \in Urls
    BY <1>0 DEF Unit
  <2>3. \A i : Tells(i, Never)
    BY DEF Tells
  <2> QED
    BY <1>0, <2>1, <2>2, <2>3
<1>3. CASE Tick
  <2> DEFINE aged(b) == [b EXCEPT !.info = Aged(@)]
  <2>1. \A b \in Unit : /\ aged(b).url = b.url /\ aged(b).info = Aged(b.info)
                        /\ aged(b).outdated = b.outdated
                        /\ b.url \in Urls /\ b.info \in RelayInfo
    BY DEF Unit
  <2>2. /\ batch' = {aged(b) : b \in batch} /\ units' = {aged(u) : u \in units}
        /\ info' = [u \in Urls |-> Aged(info[u])]
        /\ lastAnswer' = [u \in Urls |-> Later(lastAnswer[u], DeadFor)]
        /\ misjudged' = misjudged
    BY <1>3 DEF Tick
  <2> HIDE DEF aged
  <2>3. \A u \in Urls \ misjudged' : Tells(info'[u], lastAnswer'[u])
    BY <1>0, <2>2, AgedTells
  <2>4. ASSUME NEW b \in batch \cup units, ~aged(b).outdated, aged(b).url \notin misjudged
        PROVE  Tells(aged(b).info, lastAnswer'[aged(b).url])
    <3>1. Tells(b.info, lastAnswer[b.url]) /\ b.info \in RelayInfo /\ b.url \in Urls
      BY <1>0, <2>1, <2>4
    <3>2. Tells(Aged(b.info), Later(lastAnswer[b.url], DeadFor))
      BY <1>0, <3>1, AgedTells
    <3> QED
      BY <1>0, <2>1, <2>2, <3>1, <3>2
  <2> QED
    BY <2>2, <2>3, <2>4
<1>4. CASE DrawAcrossMidnight
  <2>1. PICK missed : Draw(missed)
    BY <1>4 DEF DrawAcrossMidnight
  <2> QED
    BY <2>1, JudgedDraw
<1> QED
  BY <1>1, <1>2, <1>3, <1>4

\* In every behaviour a relay that answered within dead_for_secs is not set aside
\* for its failures, unless its task wrote a copy the planner had read too early.
THEOREM AnsweringRelayStays == Spec => []RecentAnswerKeepsAlive
<1>1. Init => JudgedInv
  <2>1. Init => Judged
    <3> SUFFICES ASSUME Init PROVE Judged
      OBVIOUS
    <3>1. /\ batch = {} /\ units = {}
          /\ \A u \in Urls : lastAnswer[u] = info[u].okAge /\ info[u].dead = Never
      BY DEF Init, DecodeRelayInfo, Fresh
    <3> QED
      BY <3>1 DEF Judged, Tells
  <2> QED
    BY <2>1, AloneInit, TypedInit DEF JudgedInv
<1>2. JudgedInv /\ [Next]_vars => JudgedInv'
  <2> SUFFICES ASSUME JudgedInv, [Next]_vars PROVE Judged'
    BY TypedStep, AloneStep DEF JudgedInv
  <2>1. CASE UNCHANGED vars
    BY <2>1 DEF JudgedInv, Judged, vars, passVars, stateVars, leftovers, history
  <2> QED
    BY <2>1, JudgedTask, JudgedLoop, JudgedOutside DEF Next
<1>3. JudgedInv => RecentAnswerKeepsAlive
  BY DEF JudgedInv, Judged, Tells, RecentAnswerKeepsAlive
<1> QED
  BY <1>1, <1>2, <1>3, PTL DEF Spec
=============================================================================
