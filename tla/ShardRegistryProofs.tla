------------------------- MODULE ShardRegistryProofs ------------------------
(***************************************************************************)
(* Proofs about ShardRegistry: the reader cache, lookups beside a changing *)
(* cache, and what a search returns.                                       *)
(***************************************************************************)
EXTENDS ShardRegistry, FiniteSetTheorems, SequenceTheorems, WellFoundedInduction, TLAPS

-----------------------------------------------------------------------------
(* The operators on the cache.                                             *)

\* t is q with place at moved behind the others.
Moved(t, q, n, at) ==
    \A i \in 1..n : t[i] = IF i < at THEN q[i] ELSE IF i < n THEN q[i + 1] ELSE q[at]

\* Moving one place of a list to its end keeps the list's elements.
LEMMA MoveLast ==
    ASSUME NEW S, NEW q \in Seq(S), NEW at \in 1..Len(q), NEW t \in Seq(S),
           Len(t) = Len(q), IsInjective(q), Moved(t, q, Len(q), at)
    PROVE  IsInjective(t) /\ ToSet(t) = ToSet(q)
<1> DEFINE n == Len(q)
<1>0. n \in Nat /\ DOMAIN q = 1..n /\ DOMAIN t = 1..n /\ at \in 1..n /\ Moved(t, q, n, at)
  OBVIOUS
<1> HIDE DEF n
<1> DEFINE from(i) == IF i < at THEN i ELSE IF i < n THEN i + 1 ELSE at
           to(i) == IF i < at THEN i ELSE IF i > at THEN i - 1 ELSE n
<1>1. \A i \in 1..n : from(i) \in 1..n /\ t[i] = q[from(i)] /\ to(from(i)) = i
  BY <1>0 DEF Moved
<1>2. \A i \in 1..n : to(i) \in 1..n /\ from(to(i)) = i
  BY <1>0
<1> HIDE DEF from, to
<1>3. IsInjective(t)
  <2> SUFFICES ASSUME NEW i \in 1..n, NEW j \in 1..n, t[i] = t[j] PROVE i = j
    BY <1>0 DEF IsInjective
  <2>1. from(i) = from(j)
    BY <1>0, <1>1 DEF IsInjective
  <2> QED
    BY <1>1, <2>1
<1>4. \A i \in 1..n : q[i] = t[to(i)]
  BY <1>1, <1>2
<1>5. ToSet(t) \subseteq ToSet(q)
  BY <1>0, <1>1 DEF ToSet
<1>6. ToSet(q) \subseteq ToSet(t)
  BY <1>0, <1>2, <1>4 DEF ToSet
<1> QED
  BY <1>3, <1>5, <1>6

\* What a sequence with a place removed and an element added is.
LEMMA RemovedAndAppended ==
    ASSUME NEW S, NEW q \in Seq(S), NEW at \in 1..Len(q), NEW m \in S
    PROVE  LET t == Append(RemoveAt(q, at), m)
           IN  /\ t \in Seq(S) /\ Len(t) = Len(q)
               /\ \A i \in 1..Len(q) :
                     t[i] = IF i < at THEN q[i] ELSE IF i < Len(q) THEN q[i + 1] ELSE m
<1> DEFINE n == Len(q)
           a == SubSeq(q, 1, at - 1)
           b == SubSeq(q, at + 1, n)
           ab == a \o b
<1>1. n \in Nat /\ at \in Nat /\ 1 <= at /\ at <= n /\ \A i \in 1..n : q[i] \in S
  OBVIOUS
<1>2. a \in Seq(S) /\ Len(a) = at - 1 /\ \A i \in 1..(at - 1) : a[i] = q[i]
  BY <1>1, SubSeqProperties
<1>3. b \in Seq(S) /\ Len(b) = n - at /\ \A i \in 1..(n - at) : b[i] = q[at + i]
  BY <1>1, SubSeqProperties
<1> HIDE DEF a, b
<1>4. /\ ab \in Seq(S) /\ Len(ab) = Len(a) + Len(b)
      /\ \A i \in 1..(Len(a) + Len(b)) : ab[i] = IF i <= Len(a) THEN a[i] ELSE b[i - Len(a)]
  BY <1>2, <1>3, ConcatProperties
<1>5. RemoveAt(q, at) = ab
  BY DEF RemoveAt, a, b
<1> HIDE DEF ab, n
<1>6. Len(ab) = n - 1 /\ \A i \in 1..(n - 1) : ab[i] = IF i < at THEN q[i] ELSE q[i + 1]
  <2>1. Len(ab) = n - 1
    BY <1>1, <1>2, <1>3, <1>4
  <2>2. ASSUME NEW i \in 1..(n - 1)
        PROVE  ab[i] = IF i < at THEN q[i] ELSE q[i + 1]
    <3>1. ab[i] = IF i <= at - 1 THEN a[i] ELSE b[i - (at - 1)]
      BY <1>1, <1>2, <1>3, <1>4
    <3>2. i < at => i \in 1..(at - 1)
      BY <1>1
    <3>3. ~(i < at) => i - (at - 1) \in 1..(n - at) /\ at + (i - (at - 1)) = i + 1
      BY <1>1
    <3> QED
      BY <1>1, <1>2, <1>3, <3>1, <3>2, <3>3
  <2> QED
    BY <2>1, <2>2
<1> DEFINE t == Append(ab, m)
<1>7. /\ t \in Seq(S) /\ Len(t) = Len(ab) + 1
      /\ \A i \in 1..Len(ab) : t[i] = ab[i]
      /\ t[Len(ab) + 1] = m
  BY <1>4, AppendProperties
<1> HIDE DEF t
<1>8. t \in Seq(S) /\ Len(t) = n
  BY <1>1, <1>6, <1>7
<1>9. ASSUME NEW i \in 1..n
      PROVE  t[i] = IF i < at THEN q[i] ELSE IF i < n THEN q[i + 1] ELSE m
  <2>1. CASE i < n
    <3>1. i \in 1..(n - 1)
      BY <1>1, <2>1
    <3> QED
      BY <1>6, <1>7, <2>1, <3>1
  <2>2. CASE i = n
    BY <1>1, <1>6, <1>7, <2>2
  <2> QED
    BY <1>1, <2>1, <2>2
<1> QED
  BY <1>5, <1>8, <1>9 DEF t, n

\* A used reader is in the cache once, last.
LEMMA TouchFacts ==
    ASSUME NEW S, NEW q \in Seq(S), NEW m \in S, IsInjective(q)
    PROVE  /\ Touch(q, m) \in Seq(S)
           /\ IsInjective(Touch(q, m))
           /\ ToSet(Touch(q, m)) = ToSet(q) \cup {m}
           /\ Len(Touch(q, m)) = IF m \in ToSet(q) THEN Len(q) ELSE Len(q) + 1
<1> DEFINE t == Touch(q, m)
<1>1. CASE m \notin ToSet(q)
  <2>1. t = Append(q, m) /\ Len(t) = Len(q) + 1 /\ t \in Seq(S)
    BY <1>1 DEF Touch
  <2>2. DOMAIN q = 1..Len(q) /\ DOMAIN t = 1..(Len(q) + 1)
    BY <2>1
  <2>3. t[Len(q) + 1] = m /\ \A i \in 1..Len(q) : t[i] = q[i]
    BY <2>1
  <2>4. \A i \in 1..Len(q) : q[i] # m
    BY <1>1, <2>2 DEF ToSet
  <2>5. IsInjective(t)
    BY <2>2, <2>3, <2>4 DEF IsInjective
  <2>6. ToSet(t) = ToSet(q) \cup {m}
    BY <2>2, <2>3 DEF ToSet
  <2> QED
    BY <1>1, <2>1, <2>5, <2>6
<1>2. CASE m \in ToSet(q)
  <2> DEFINE at == CHOOSE i \in DOMAIN q : q[i] = m
             n == Len(q)
  <2>1. at \in 1..n /\ q[at] = m
    BY <1>2 DEF ToSet
  <2>2. t = Append(RemoveAt(q, at), m)
    BY <1>2 DEF Touch
  <2> HIDE DEF at, t
  <2>3. /\ t \in Seq(S) /\ Len(t) = n
        /\ \A i \in 1..n : t[i] = IF i < at THEN q[i] ELSE IF i < n THEN q[i + 1] ELSE m
    BY <2>1, <2>2, RemovedAndAppended
  <2>4. Moved(t, q, Len(q), at)
    BY <2>1, <2>3 DEF Moved
  <2>5. IsInjective(t) /\ ToSet(t) = ToSet(q)
    BY <2>1, <2>3, <2>4, MoveLast
  <2>6. m \in ToSet(q)
    BY <1>2
  <2> QED
    BY <1>2, <2>3, <2>5, <2>6 DEF t
<1> QED
  BY <1>1, <1>2

\* Eviction leaves the last MaxOpen readers.
LEMMA EvictFacts ==
    ASSUME NEW S, NEW q \in Seq(S), IsInjective(q)
    PROVE  /\ EvictToCapacity(q) \in Seq(S)
           /\ IsInjective(EvictToCapacity(q))
           /\ ToSet(EvictToCapacity(q)) \subseteq ToSet(q)
           /\ Len(EvictToCapacity(q)) <= MaxOpen
           /\ q # <<>> => EvictToCapacity(q) # <<>>
<1> DEFINE t == EvictToCapacity(q)
<1>0. MaxOpen \in Nat \ {0}
  BY RegistryConstants
<1>1. CASE Len(q) <= MaxOpen
  BY <1>0, <1>1 DEF EvictToCapacity
<1>2. CASE Len(q) > MaxOpen
  <2>1. t = SubSeq(q, Len(q) - MaxOpen + 1, Len(q))
    BY <1>0, <1>2 DEF EvictToCapacity
  <2>2. t \in Seq(S) /\ Len(t) = MaxOpen
    BY <1>0, <1>2, <2>1
  <2>3. DOMAIN q = 1..Len(q) /\ DOMAIN t = 1..MaxOpen
    BY <2>2
  <2>4. \A i \in 1..MaxOpen : t[i] = q[i + Len(q) - MaxOpen] /\ i + Len(q) - MaxOpen \in 1..Len(q)
    BY <1>0, <1>2, <2>1
  <2> HIDE DEF t
  <2>5. IsInjective(t)
    <3> SUFFICES ASSUME NEW i \in 1..MaxOpen, NEW j \in 1..MaxOpen, t[i] = t[j]
                 PROVE  i = j
      BY <2>3 DEF IsInjective
    <3>1. \A x, y \in 1..Len(q) : q[x] = q[y] => x = y
      BY <2>3 DEF IsInjective
    <3>2. i + Len(q) - MaxOpen = j + Len(q) - MaxOpen
      BY <2>4, <3>1
    <3> QED
      BY <1>0, <3>2
  <2>6. ToSet(t) \subseteq ToSet(q)
    BY <2>3, <2>4 DEF ToSet
  <2>7. t # <<>>
    BY <1>0, <2>2
  <2> QED
    BY <1>0, <2>2, <2>5, <2>6, <2>7 DEF t
<1> QED
  BY <1>0, <1>1, <1>2

\* A cache that has no month twice has as many months as places.
LEMMA InjectiveCount ==
    ASSUME NEW S, NEW q \in Seq(S), IsInjective(q)
    PROVE  IsFiniteSet(ToSet(q)) /\ Cardinality(ToSet(q)) = Len(q)
<1>1. DOMAIN q = 1..Len(q) /\ Len(q) \in Nat
  OBVIOUS
<1>2. IsFiniteSet(1..Len(q)) /\ Cardinality(1..Len(q)) = Len(q)
  BY <1>1, FS_Interval
<1>3. q \in [1..Len(q) -> ToSet(q)]
  BY <1>1 DEF ToSet
<1>4. q \in Bijection(1..Len(q), ToSet(q))
  BY <1>1, <1>3 DEF Bijection, Injection, Surjection, ToSet
<1> QED
  BY <1>2, <1>4, FS_Bijection DEF ExistsBijection

-----------------------------------------------------------------------------
(* Sorting by counting.                                                    *)

\* The elements ahead of another under a strict order differ in number, so
\* listing the elements of a finite set by that number misses none.
LEMMA RanksCover ==
    ASSUME NEW S, IsFiniteSet(S), NEW ahead \in [S -> SUBSET S],
           \A a \in S : a \notin ahead[a],
           \A a, b \in S : a \in ahead[b] => ahead[a] \subseteq ahead[b],
           \A a, b \in S : a = b \/ a \in ahead[b] \/ b \in ahead[a]
    PROVE  /\ \A i \in 1..Cardinality(S) :
                 \E a \in S : Cardinality(ahead[a]) = i - 1 /\ \A b \in S :
                    Cardinality(ahead[b]) = i - 1 => b = a
           /\ \A a \in S : Cardinality(ahead[a]) \in 0..(Cardinality(S) - 1)
           /\ \A a, b \in S : a \in ahead[b] => Cardinality(ahead[a]) < Cardinality(ahead[b])
<1> DEFINE n == Cardinality(S)
           rank == [a \in S |-> Cardinality(ahead[a]) + 1]
<1>1. n \in Nat
  BY FS_CardinalityType
<1>2. ASSUME NEW a \in S
      PROVE  IsFiniteSet(ahead[a]) /\ Cardinality(ahead[a]) \in 0..(n - 1)
  <2>1. IsFiniteSet(S \ {a}) /\ Cardinality(S \ {a}) = n - 1
    BY FS_RemoveElement
  <2>2. ahead[a] \in SUBSET (S \ {a})
    OBVIOUS
  <2>3. IsFiniteSet(ahead[a]) /\ Cardinality(ahead[a]) <= n - 1
    BY <2>1, <2>2, FS_Subset
  <2> QED
    BY <1>1, <2>3, FS_CardinalityType
<1>3. ASSUME NEW a \in S, NEW b \in S, a \in ahead[b]
      PROVE  Cardinality(ahead[a]) < Cardinality(ahead[b])
  <2>1. ahead[a] \in SUBSET ahead[b] /\ ahead[a] # ahead[b]
    BY <1>3
  <2>2. Cardinality(ahead[a]) <= Cardinality(ahead[b]) /\ Cardinality(ahead[a]) # Cardinality(ahead[b])
    BY <1>2, <2>1, FS_Subset
  <2> QED
    BY <1>2, <2>2
<1>4. \A a, b \in S : Cardinality(ahead[a]) = Cardinality(ahead[b]) => a = b
  BY <1>2, <1>3
<1>5. rank \in [S -> 1..n]
  BY <1>1, <1>2
<1>6. rank \in Injection(S, 1..n)
  BY <1>2, <1>4, <1>5 DEF Injection, IsInjective
<1>7. IsFiniteSet(1..n) /\ Cardinality(1..n) = n
  BY <1>1, FS_Interval
<1>8. rank \in Surjection(S, 1..n)
  BY <1>6, <1>7, FS_Injection
<1>9. ASSUME NEW i \in 1..n
      PROVE  \E a \in S : Cardinality(ahead[a]) = i - 1
  <2>1. PICK a \in S : rank[a] = i
    BY <1>8 DEF Surjection
  <2> QED
    BY <1>2, <2>1
<1> QED
  BY <1>2, <1>3, <1>4, <1>9

\* Descending lists every element of the set, and nothing else.
LEMMA DescendingCovers ==
    ASSUME NEW S \in SUBSET Nat, IsFiniteSet(S)
    PROVE  /\ Descending(S) \in Seq(S)
           /\ ToSet(Descending(S)) = S
<1> DEFINE n == Cardinality(S)
           A(a) == {b \in S : b > a}
           ahead == [a \in S |-> A(a)]
           q == Descending(S)
<1>1. n \in Nat
  BY FS_CardinalityType
<1>2. \A a, b \in S : b \in A(a) <=> b > a
  OBVIOUS
<1>3. \A a \in S : A(a) \subseteq S
  OBVIOUS
<1>4. q = [i \in 1..n |-> CHOOSE a \in S : Cardinality(A(a)) = i - 1]
  BY DEF Descending
<1> HIDE DEF A, q
<1>5. ahead \in [S -> SUBSET S] /\ \A a \in S : ahead[a] = A(a)
  BY <1>3
<1> HIDE DEF ahead
<1>6. \A a \in S : a \notin ahead[a]
  BY <1>2, <1>5
<1>7. \A a, b \in S : a \in ahead[b] => ahead[a] \subseteq ahead[b]
  <2> SUFFICES ASSUME NEW a \in S, NEW b \in S, a \in ahead[b], NEW c \in ahead[a]
               PROVE  c \in ahead[b]
    OBVIOUS
  <2>1. c \in S /\ a > b /\ c > a
    BY <1>2, <1>3, <1>5
  <2>2. a \in Nat /\ b \in Nat /\ c \in Nat
    BY <2>1
  <2>3. c > b
    BY <2>1, <2>2
  <2> QED
    BY <1>2, <1>5, <2>1, <2>3
<1>8. \A a, b \in S : a = b \/ a \in ahead[b] \/ b \in ahead[a]
  BY <1>2, <1>5
<1>9. \A i \in 1..n :
         \E a \in S : Cardinality(ahead[a]) = i - 1 /\ \A b \in S :
            Cardinality(ahead[b]) = i - 1 => b = a
  BY <1>5, <1>6, <1>7, <1>8, RanksCover
<1>10. \A i \in 1..n :
         \E a \in S : Cardinality(A(a)) = i - 1 /\ \A b \in S :
            Cardinality(A(b)) = i - 1 => b = a
  BY <1>5, <1>9
<1>11. \A i \in 1..n : q[i] \in S
  BY <1>4, <1>10
<1>12. q \in Seq(S) /\ DOMAIN q = 1..n
  <2>1. DOMAIN q = 1..n
    BY <1>4
  <2> HIDE DEF n
  <2>2. q \in [1..n -> S]
    BY <1>4, <1>11, <2>1
  <2> QED
    BY <1>1, <2>1, <2>2, SeqDef
<1>13. ToSet(q) \subseteq S
  BY <1>11, <1>12 DEF ToSet
<1>14. ASSUME NEW a \in S
      PROVE  a \in ToSet(q)
  <2>1. IsFiniteSet(S \ {a}) /\ Cardinality(S \ {a}) = n - 1 /\ A(a) \in SUBSET (S \ {a})
    BY <1>2, <1>3, FS_RemoveElement
  <2>2. Cardinality(A(a)) <= n - 1 /\ Cardinality(A(a)) \in Nat
    BY <2>1, FS_Subset, FS_CardinalityType
  <2> DEFINE i == Cardinality(A(a)) + 1
  <2>3. i \in 1..n /\ Cardinality(A(a)) = i - 1
    BY <1>1, <2>2
  <2>4. q[i] = a
    BY <1>4, <1>10, <2>3
  <2> QED
    BY <1>12, <2>3, <2>4 DEF ToSet
<1> QED
  BY <1>12, <1>13, <1>14 DEF q

-----------------------------------------------------------------------------
(* The invariant: types, and what the cache and the open readers hold.     *)

Filters == UNION {FiltersOf[s] : s \in Searchers}
Plans == {Plan(f, e, FromTimestamp(Now)) : f \in Filters, e \in Nat}
Worker == [pc : {"idle", "opening"}, shard : Int, snap : SUBSET Docs]

\* The sets of a request's fields, named so that a proof opens one at a time.
FilterSet(s) == FiltersOf[s] \cup {NoFilter}
DocSets == SUBSET Docs
PlanSet == Plans \cup {NoPlan}
WorkerSet(s) == [WorkersOf[s] -> Worker]
Results == Seq(Docs)

Request(s) ==
    [pc : {"idle", "anchor", "rediscover", "insert", "plan", "fan", "done"},
     filter : FilterSet(s), known : Nat, anchor : DocSets, plan : PlanSet, next : Nat \ {0},
     worker : WorkerSet(s), hits : DocSets, result : Results, due : DocSets]

\* Months have a directory before they have an index, and an index before they
\* have documents; whatever no discovery has missed is not older than earliest.
DiskOK ==
    /\ dirs \subseteq Months /\ metas \subseteq dirs /\ unseen \subseteq dirs
    /\ committed \in [Months -> SUBSET Docs]
    /\ \A m \in Months : \A d \in committed[m] : MonthOf(d) = m /\ m \in metas
    /\ earliest \in Nat
    /\ \A m \in dirs \ unseen : earliest <= m

\* A cached reader is on an index and behind its commits; there is one a month.
CacheOK ==
    /\ lru \in Seq(Months) /\ IsInjective(lru) /\ Len(lru) <= MaxOpen
    /\ snap \in [Months -> SUBSET Docs]
    /\ \A m \in Months : snap[m] \subseteq committed[m]

SearchOK ==
    /\ DOMAIN search = Searchers
    /\ \A s \in Searchers : /\ search[s] \in Request(s)
                            /\ search[s].pc # "idle" => search[s].filter \in FiltersOf[s]

\* A reader being opened is on an index and behind its commits.  Only a running
\* fan-out no wider than the cache opens one to keep.
OpensRight(s) ==
    LET r == search[s] IN
    /\ r.pc = "insert" => r.known \in metas /\ r.anchor \subseteq committed[r.known]
    /\ \A w \in WorkersOf[s] : r.worker[w].pc = "opening" =>
          /\ r.pc = "fan" /\ Len(r.plan.shards) <= MaxOpen
          /\ r.worker[w].shard \in metas
          /\ r.worker[w].snap \subseteq committed[r.worker[w].shard]
    /\ r.pc = "fan" => r.plan \in Plans
OpeningOK == \A s \in Searchers : OpensRight(s)

CacheInv == DiskOK /\ CacheOK /\ SearchOK /\ OpeningOK

\* Every non-empty set of natural numbers has a least element, and Min is it.
LEMMA MinFacts ==
    ASSUME NEW T \in SUBSET Nat, T # {}
    PROVE  Min(T) \in T /\ \A y \in T : Min(T) <= y
<1> DEFINE R == {ss \in Nat \X Nat : ss[1] < ss[2]}
<1>1. IsWellFoundedOn(R, Nat)
  BY NatLessThanWellFounded DEF OpToRel
<1>2. \A x, y \in Nat : y < x => <<y, x>> \in R
  OBVIOUS
<1> HIDE DEF R
<1>3. PICK x \in T : \A y \in T : <<y, x>> \notin R
  BY <1>1, WFMin
<1>4. \A y \in T : x <= y
  <2> SUFFICES ASSUME NEW y \in T, y < x PROVE FALSE
    OBVIOUS
  <2>1. <<y, x>> \in R
    BY <1>2
  <2> QED
    BY <1>3, <2>1
<1> QED
  BY <1>4 DEF Min

\* A reading of the directories finds the oldest one.
LEMMA DiscoverFacts ==
    ASSUME DiskOK
    PROVE  /\ Discover(dirs) \in Nat
           /\ \A m \in dirs : Discover(dirs) <= m
<1>1. dirs \in SUBSET Nat
  BY RegistryConstants DEF DiskOK
<1> QED
  BY <1>1, MinFacts DEF Discover, DiskOK

\* Putting an open reader into the cache.
LEMMA PutFacts ==
    ASSUME DiskOK, CacheOK, NEW m \in Months, NEW sn \in SUBSET Docs,
           sn \subseteq committed[m], PutReader(m, sn), UNCHANGED disk
    PROVE  /\ CacheOK'
           /\ lru' # <<>>
           /\ ToSet(lru') \subseteq Cached \cup {m}
           /\ \A x \in ToSet(lru') : snap'[x] = IF x = m /\ m \notin Cached THEN sn ELSE snap[x]
<1>1. /\ Touch(lru, m) \in Seq(Months) /\ IsInjective(Touch(lru, m))
      /\ ToSet(Touch(lru, m)) = Cached \cup {m}
      /\ Len(Touch(lru, m)) = IF m \in Cached THEN Len(lru) ELSE Len(lru) + 1
  BY TouchFacts DEF CacheOK, Cached
<1>2. Touch(lru, m) # <<>>
  BY <1>1 DEF ToSet, Cached
<1>3. /\ Inserted(lru, m) \in Seq(Months) /\ IsInjective(Inserted(lru, m))
      /\ ToSet(Inserted(lru, m)) \subseteq Cached \cup {m}
      /\ Len(Inserted(lru, m)) <= MaxOpen /\ Inserted(lru, m) # <<>>
  BY <1>1, <1>2, EvictFacts DEF Inserted
<1>4. /\ lru' \in Seq(Months) /\ IsInjective(lru') /\ Len(lru') <= MaxOpen /\ lru' # <<>>
      /\ ToSet(lru') \subseteq Cached \cup {m}
  BY <1>1, <1>2, <1>3 DEF PutReader, CacheOK
<1>5. ToSet(lru') \subseteq Months
  BY <1>4 DEF ToSet
<1>6. snap' = [x \in Months |-> IF x \notin ToSet(lru') THEN {}
                               ELSE IF x = m /\ m \notin Cached THEN sn ELSE snap[x]]
  BY DEF PutReader
<1>7. snap' \in [Months -> SUBSET Docs] /\ \A x \in Months : snap'[x] \subseteq committed[x]
  BY <1>6 DEF CacheOK
<1>8. \A x \in ToSet(lru') : snap'[x] = IF x = m /\ m \notin Cached THEN sn ELSE snap[x]
  BY <1>5, <1>6
<1> QED
  BY <1>4, <1>7, <1>8 DEF CacheOK, disk

-----------------------------------------------------------------------------
(* Numbers.                                                                *)

\* The greater and the lesser of two.
LEMMA TwoFacts ==
    ASSUME NEW a \in Int, NEW b \in Int
    PROVE  /\ Max({a, b}) = IF a >= b THEN a ELSE b
           /\ Min({a, b}) = IF a <= b THEN a ELSE b
<1> DEFINE hi == IF a >= b THEN a ELSE b
           lo == IF a <= b THEN a ELSE b
<1>1. hi \in {a, b} /\ \A y \in {a, b} : hi >= y
  OBVIOUS
<1>2. \A x \in {a, b} : (\A y \in {a, b} : x >= y) => x = hi
  OBVIOUS
<1>3. lo \in {a, b} /\ \A y \in {a, b} : lo <= y
  OBVIOUS
<1>4. \A x \in {a, b} : (\A y \in {a, b} : x <= y) => x = lo
  OBVIOUS
<1> HIDE DEF hi, lo
<1>5. Max({a, b}) = hi
  BY <1>1, <1>2 DEF Max
<1>6. Min({a, b}) = lo
  BY <1>3, <1>4 DEF Min
<1> QED
  BY <1>5, <1>6 DEF hi, lo

\* A request asks for at least one hit.
LEMMA LimitFacts ==
    ASSUME NEW s \in Searchers, NEW f \in FiltersOf[s]
    PROVE  Limit(f) \in Nat \ {0}
<1>1. MaxLimit \in Nat \ {0}
  BY QueryPlanConstants
<1>2. CASE f.limit = None
  <2>1. Min({50, MaxLimit}) = IF 50 <= MaxLimit THEN 50 ELSE MaxLimit
    BY <1>1, TwoFacts
  <2> QED
    BY <1>1, <1>2, <2>1 DEF Limit, ClampLimit
<1>3. CASE f.limit # None
  <2>1. f.limit \subseteq Nat
    BY RegistryConstants
  <2>2. The(f.limit) \in Nat
    BY <1>3, <2>1 DEF None, The
  <2> DEFINE x == Max({The(f.limit), 1})
  <2>3. x \in Nat \ {0}
    BY <2>2, TwoFacts
  <2> HIDE DEF x
  <2>4. Min({x, MaxLimit}) = IF x <= MaxLimit THEN x ELSE MaxLimit
    BY <1>1, <2>3, TwoFacts
  <2> QED
    BY <1>1, <1>3, <2>3, <2>4 DEF Limit, ClampLimit, x
<1> QED
  BY <1>2, <1>3

\* What a document is ranked by.
Key(f, d) == RankKey(f, Document[d], Now)

\* Ranks are numbers.
LEMMA KeyFacts ==
    ASSUME NEW f, NEW d \in Docs
    PROVE  /\ Key(f, d) \in Nat
           /\ RecencyBoost(Event[d].created_at, Now) \in Nat
           /\ f.search # None => Key(f, d) = Composite(Document[d], Now)
<1> DEFINE t == Event[d].created_at
           w == Event[d].wot
           b == Event[d].bm25
           doc == Document[d]
<1>1. t \in Nat /\ w \in Nat /\ b \in Nat
  BY RegistryConstants
<1>2. doc.created_at = t /\ doc.wot = w /\ doc.bm25 = b
  BY DEF Document, ToDocument
<1> HIDE DEF t, w, b, doc
<1>3. HalfLife \in Nat /\ FutureSkew \in Nat /\ WotWeight \in Nat /\ RecencyWeight \in Nat /\ Now \in Nat
  BY QueryPlanConstants, RegistryConstants
<1>4. RecencyBoost(t, Now) \in Nat
  <2> DEFINE x == Max({Now - t, 0})
             y == HalfLife - x
  <2>1. x \in Nat
    BY <1>1, <1>3, TwoFacts
  <2> HIDE DEF x
  <2>2. y \in Int
    BY <1>3, <2>1
  <2> HIDE DEF y
  <2>3. Max({y, 0}) \in Nat
    BY <2>2, TwoFacts
  <2> QED
    BY <2>3 DEF RecencyBoost, x, y
<1>5. Composite(doc, Now) \in Nat
  <2> DEFINE rb == RecencyBoost(t, Now)
  <2>1. Composite(doc, Now) = b * (2 * HalfLife + WotWeight * HalfLife * w + 2 * RecencyWeight * rb)
    BY <1>2 DEF Composite
  <2>2. rb \in Nat
    BY <1>4
  <2> HIDE DEF rb
  <2>3. WotWeight * HalfLife * w \in Nat /\ 2 * RecencyWeight * rb \in Nat /\ 2 * HalfLife \in Nat
    BY <1>1, <1>3, <2>2
  <2>4. 2 * HalfLife + WotWeight * HalfLife * w + 2 * RecencyWeight * rb \in Nat
    BY <2>3
  <2> QED
    BY <1>1, <2>1, <2>4
<1>6. Key(f, d) = IF f.search # None THEN Composite(doc, Now) ELSE t
  BY <1>2 DEF Key, RankKey, doc
<1> QED
  BY <1>1, <1>4, <1>5, <1>6 DEF t, doc

-----------------------------------------------------------------------------
(* Months and plans.                                                       *)

\* Months follow each other as times do.
LEMMA MonthFacts ==
    /\ \A t \in Nat : FromTimestamp(t) \in Nat
    /\ \A t, u \in Nat : t <= u => FromTimestamp(t) <= FromTimestamp(u)
<1>1. MonthLen \in Nat /\ MonthLen > 0
  BY QueryPlanConstants
<1>2. ASSUME NEW t \in Nat
      PROVE  FromTimestamp(t) \in Nat
  BY <1>1 DEF FromTimestamp
<1>3. ASSUME NEW t \in Nat, NEW u \in Nat, t <= u
      PROVE  FromTimestamp(t) <= FromTimestamp(u)
  BY <1>1, <1>3 DEF FromTimestamp
<1> QED
  BY <1>2, <1>3

\* Where a range starts.
StartOf(since, e) == IF since = None THEN e ELSE FromTimestamp(The(since))

\* q has every number from a to b.
HasAll(q, a, b) == \A m \in Nat : a <= m /\ m <= b => \E i \in 1..Len(q) : q[i] = m

\* The shards of a range are the months from the first to the last, in order.
LEMMA ShardsFacts ==
    ASSUME NEW since \in SUBSET Nat, NEW until \in SUBSET Nat, NEW e \in Nat, NEW c \in Nat
    PROVE  LET q == ShardsInRange(since, until, e, c)
               start == StartOf(since, e)
           IN  /\ q \in Seq(Int) /\ start \in Nat /\ LastShard(until, c) \in Nat
               /\ HasAll(q, start, LastShard(until, c))
<1> DEFINE start == StartOf(since, e)
           end == LastShard(until, c)
           q == ShardsInRange(since, until, e, c)
           n == IF end < start THEN 0 ELSE end - start + 1
<1>1. start \in Nat
  <2>1. since # None => The(since) \in Nat
    BY DEF None, The
  <2> QED
    BY <2>1, MonthFacts DEF StartOf
<1>2. end \in Nat
  <2>1. CASE until = None
    BY <2>1 DEF LastShard
  <2>2. CASE until # None
    <3>1. The(until) \in Nat
      BY <2>2 DEF None, The
    <3>2. Max({The(until) - 1, 0}) \in Nat
      BY <3>1, TwoFacts
    <3> QED
      BY <2>2, <3>2, MonthFacts DEF LastShard
  <2> QED
    BY <2>1, <2>2
<1>3. q = [i \in 1..(end - start + 1) |-> start + i - 1]
  BY DEF ShardsInRange, StartOf
<1> HIDE DEF start, end, q
<1>4. n \in Nat /\ 1..(end - start + 1) = 1..n
  BY <1>1, <1>2
<1>5. q = [i \in 1..n |-> start + i - 1]
  BY <1>3, <1>4
<1> HIDE DEF n
<1>6. q \in [1..n -> Int]
  BY <1>1, <1>4, <1>5
<1>7. q \in Seq(Int) /\ Len(q) = n
  BY <1>4, <1>6, SeqDef, LenProperties
<1>8. ASSUME NEW m \in Nat, start <= m, m <= end
      PROVE  \E i \in 1..Len(q) : q[i] = m
  <2>1. m - start + 1 \in 1..n
    BY <1>1, <1>2, <1>8 DEF n
  <2>2. q[m - start + 1] = start + (m - start + 1) - 1
    BY <1>5, <2>1
  <2>3. q[m - start + 1] = m
    BY <1>1, <1>8, <2>2
  <2> QED
    BY <1>7, <2>1, <2>3
<1> QED
  BY <1>1, <1>2, <1>7, <1>8 DEF start, end, q, HasAll

\* A plan's bounds do not depend on where it starts, and its shards are listed.
LEMMA PlanFacts ==
    ASSUME NEW s \in Searchers, NEW f \in FiltersOf[s], NEW e \in Nat
    PROVE  LET p == Plan(f, e, FromTimestamp(Now))
           IN  /\ p.since \in SUBSET Nat /\ p.until \in SUBSET Nat
               /\ p.shards = ShardsInRange(p.since, p.until, e, FromTimestamp(Now))
               /\ p.shards \in Seq(Int)
<1> DEFINE p == Plan(f, e, FromTimestamp(Now))
           p0 == Plan(f, 0, 0)
<1>1. p.since = p0.since /\ p.until = p0.until
  BY DEF Plan
<1>2. p.shards = ShardsInRange(p.since, p.until, e, FromTimestamp(Now))
  BY DEF Plan
<1> HIDE DEF p, p0
<1>3. p0.since \in SUBSET Nat /\ p0.until \in SUBSET Nat
  BY RegistryConstants DEF p0
<1>4. FromTimestamp(Now) \in Nat
  BY MonthFacts, RegistryConstants
<1>5. p.since \in SUBSET Nat /\ p.until \in SUBSET Nat
  BY <1>1, <1>3
<1>6. ShardsInRange(p.since, p.until, e, FromTimestamp(Now)) \in Seq(Int)
  BY <1>4, <1>5, ShardsFacts
<1> QED
  BY <1>2, <1>5, <1>6 DEF p

-----------------------------------------------------------------------------
(* Merging hits.                                                           *)

\* The sorted hits are the hits, each once, the best first.
LEMMA OrderedFacts ==
    ASSUME NEW f, NEW S \in SUBSET Docs, NEW q \in Ordered(f, S)
    PROVE  /\ IsFiniteSet(S) /\ q \in Seq(S) /\ Len(q) = Cardinality(S)
           /\ IsInjective(q) /\ ToSet(q) = S
           /\ \A i, j \in 1..Len(q) : i < j => Key(f, q[i]) >= Key(f, q[j])
<1> DEFINE n == Cardinality(S)
           A(d) == {e \in S : Key(f, e) > Key(f, d) \/ (Key(f, e) = Key(f, d) /\ e < d)}
<1>1. IsFiniteSet(S) /\ n \in Nat
  BY RegistryConstants, FS_Subset, FS_CardinalityType
<1>2. IsFiniteSet(1..n) /\ Cardinality(1..n) = n
  BY <1>1, FS_Interval
<1>3. CASE f.search = None
  <2>1. q = [i \in 1..n |-> CHOOSE d \in S : Cardinality(A(d)) = i - 1]
    BY <1>3 DEF Ordered, Key
  <2>2. \A d, e \in S : e \in A(d) <=> Key(f, e) > Key(f, d) \/ (Key(f, e) = Key(f, d) /\ e < d)
    OBVIOUS
  <2>3. \A d \in S : Key(f, d) \in Nat /\ d \in Nat
    BY KeyFacts, RegistryConstants
  <2>4. \A d \in S : A(d) \subseteq S
    OBVIOUS
  <2> HIDE DEF A, n
  <2> DEFINE ahead == [d \in S |-> A(d)]
  <2>5. ahead \in [S -> SUBSET S] /\ \A d \in S : ahead[d] = A(d)
    BY <2>4
  <2> HIDE DEF ahead
  <2>6. \A a \in S : a \notin ahead[a]
    BY <2>2, <2>3, <2>5
  <2>7. \A a, b \in S : a \in ahead[b] => ahead[a] \subseteq ahead[b]
    <3> SUFFICES ASSUME NEW a \in S, NEW b \in S, a \in ahead[b], NEW c \in ahead[a]
                 PROVE  c \in ahead[b]
      OBVIOUS
    <3>1. c \in S
      BY <2>5
    <3>2. \/ Key(f, a) > Key(f, b) \/ (Key(f, a) = Key(f, b) /\ a < b)
      BY <2>2, <2>5
    <3>3. \/ Key(f, c) > Key(f, a) \/ (Key(f, c) = Key(f, a) /\ c < a)
      BY <2>2, <2>5, <3>1
    <3>4. Key(f, c) > Key(f, b) \/ (Key(f, c) = Key(f, b) /\ c < b)
      <4>1. /\ Key(f, a) \in Nat /\ Key(f, b) \in Nat /\ Key(f, c) \in Nat
            /\ a \in Nat /\ b \in Nat /\ c \in Nat
        BY <2>3, <3>1
      <4> QED
        BY <3>2, <3>3, <4>1
    <3> QED
      BY <2>2, <2>5, <3>1, <3>4
  <2>8. \A a, b \in S : a = b \/ a \in ahead[b] \/ b \in ahead[a]
    BY <2>2, <2>3, <2>5
  <2>9. /\ \A i \in 1..n :
              \E a \in S : Cardinality(ahead[a]) = i - 1 /\ \A b \in S :
                 Cardinality(ahead[b]) = i - 1 => b = a
        /\ \A a \in S : Cardinality(ahead[a]) \in 0..(n - 1)
        /\ \A a, b \in S : a \in ahead[b] => Cardinality(ahead[a]) < Cardinality(ahead[b])
    BY <1>1, <2>5, <2>6, <2>7, <2>8, RanksCover DEF n
  <2>10. \A i \in 1..n : q[i] \in S /\ Cardinality(A(q[i])) = i - 1
    BY <2>1, <2>5, <2>9
  <2>11. q \in [1..n -> S]
    BY <2>1, <2>10
  <2>12. q \in Seq(S) /\ Len(q) = n /\ DOMAIN q = 1..n
    BY <1>1, <2>11, SeqDef, LenProperties DEF n
  <2>13. IsInjective(q)
    <3> SUFFICES ASSUME NEW i \in 1..n, NEW j \in 1..n, q[i] = q[j] PROVE i = j
      BY <2>12 DEF IsInjective
    <3>1. i - 1 = j - 1
      BY <2>10
    <3> QED
      BY <3>1
  <2>14. ToSet(q) \subseteq S
    BY <2>10, <2>12 DEF ToSet
  <2>15. S \subseteq ToSet(q)
    <3> SUFFICES ASSUME NEW a \in S PROVE a \in ToSet(q)
      OBVIOUS
    <3> DEFINE i == Cardinality(ahead[a]) + 1
    <3>1. i \in 1..n /\ Cardinality(ahead[a]) = i - 1
      BY <1>1, <2>9 DEF n
    <3>2. Cardinality(ahead[q[i]]) = i - 1 /\ q[i] \in S
      BY <2>5, <2>10, <3>1
    <3>3. q[i] = a
      BY <2>9, <3>1, <3>2
    <3> QED
      BY <2>12, <3>1, <3>3 DEF ToSet
  <2>16. ASSUME NEW i \in 1..n, NEW j \in 1..n, i < j
         PROVE  Key(f, q[i]) >= Key(f, q[j])
    <3>1. q[i] \in S /\ q[j] \in S /\ Cardinality(ahead[q[i]]) = i - 1 /\ Cardinality(ahead[q[j]]) = j - 1
      BY <2>5, <2>10
    <3>2. q[j] \notin ahead[q[i]] /\ q[i] # q[j]
      BY <2>9, <2>16, <3>1
    <3>3. q[i] \in A(q[j])
      BY <2>5, <2>8, <3>1, <3>2
    <3> QED
      BY <2>2, <2>3, <3>1, <3>3
  <2> QED
    BY <1>1, <2>12, <2>13, <2>14, <2>15, <2>16 DEF n
<1>4. CASE f.search # None
  <2>1. /\ q \in [1..n -> S]
        /\ \A i, j \in DOMAIN q : i < j => Key(f, q[i]) >= Key(f, q[j])
        /\ Cardinality(ToSet(q)) = Len(q)
    BY <1>4 DEF Ordered, Key
  <2> HIDE DEF n
  <2>2. q \in Seq(S) /\ Len(q) = n /\ DOMAIN q = 1..n
    BY <1>1, <2>1, SeqDef, LenProperties DEF n
  <2>3. ToSet(q) \in SUBSET S
    BY <2>1, <2>2 DEF ToSet
  <2>4. ToSet(q) = S
    BY <1>1, <2>1, <2>2, <2>3, FS_Subset DEF n
  <2>5. q \in Surjection(1..n, S)
    BY <2>1, <2>2, <2>4 DEF Surjection, ToSet
  <2>6. q \in Injection(1..n, S)
    BY <1>2, <2>5, FS_SurjSameCardinalityImpliesInj DEF n
  <2> QED
    BY <1>1, <2>1, <2>2, <2>4, <2>6 DEF Injection, n
<1> QED
  BY <1>3, <1>4

\* The elements of S that are no worse than d.
AtLeast(S, key, d) == {e \in S : key[e] >= key[d]}

\* The first h numbers are h.
LEMMA CountTo ==
    ASSUME NEW h \in Nat
    PROVE  IsFiniteSet(1..h) /\ Cardinality(1..h) = h
  BY FS_Interval

\* q is the first L of the n elements of S that o lists by their keys.
FirstOf(q, k, L, o, n, S, key) ==
    /\ S \in SUBSET Docs /\ IsFiniteSet(S) /\ key \in [Docs -> Nat]
    /\ o \in Seq(S) /\ n \in Nat /\ Len(o) = n /\ n = Cardinality(S) /\ ToSet(o) = S
    /\ \A i, j \in 1..n : i < j => key[o[i]] >= key[o[j]]
    /\ L \in Nat \ {0} /\ k \in Nat /\ k = IF L <= n THEN L ELSE n
    /\ q \in Seq(S) /\ Len(q) = k /\ \A i \in 1..k : q[i] = o[i]

\* What the first L of a list sorted by key promise of what they leave out.
LEMMA FirstOnes ==
    ASSUME NEW q, NEW k, NEW L, NEW o, NEW n, NEW S, NEW key, FirstOf(q, k, L, o, n, S, key)
    PROVE  /\ \A i, j \in 1..k : i < j => key[q[i]] >= key[q[j]]
           /\ \A d \in S : d \notin ToSet(q) => k = L /\ \A i \in 1..k : key[q[i]] >= key[d]
           /\ \A d \in Docs : Cardinality(AtLeast(S, key, d)) >= L =>
                 k = L /\ \A i \in 1..k : key[q[i]] >= key[d]
<1>0. /\ S \in SUBSET Docs /\ IsFiniteSet(S) /\ key \in [Docs -> Nat]
      /\ o \in Seq(S) /\ n \in Nat /\ Len(o) = n /\ n = Cardinality(S) /\ ToSet(o) = S
      /\ \A i, j \in 1..n : i < j => key[o[i]] >= key[o[j]]
      /\ L \in Nat \ {0} /\ k \in Nat /\ k = IF L <= n THEN L ELSE n
      /\ q \in Seq(S) /\ Len(q) = k /\ \A i \in 1..k : q[i] = o[i]
  BY DEF FirstOf
<1> USE <1>0
<1>1. k <= n /\ DOMAIN o = 1..n /\ DOMAIN q = 1..k
  OBVIOUS
<1>2. \A i \in 1..n : o[i] \in S /\ o[i] \in Docs /\ key[o[i]] \in Nat
  BY <1>1 DEF ToSet
<1>3. \A i \in 1..k : i \in 1..n
  BY <1>1
<1>4. \A i, j \in 1..k : i < j => key[q[i]] >= key[q[j]]
  BY <1>3
<1>5. ASSUME NEW d \in S, d \notin ToSet(q)
      PROVE  k = L /\ \A i \in 1..k : key[q[i]] >= key[d]
  <2>1. PICK j \in 1..n : o[j] = d
    BY <1>1 DEF ToSet
  <2>2. j > k
    <3> SUFFICES ASSUME j <= k PROVE FALSE
      BY <2>1
    <3>1. j \in 1..k /\ q[j] = d
      BY <2>1
    <3> QED
      BY <1>1, <1>5, <3>1 DEF ToSet
  <2>3. k = L
    BY <2>1, <2>2
  <2>4. \A i \in 1..k : i < j /\ key[o[i]] >= key[o[j]]
    BY <1>3, <2>1, <2>2
  <2> QED
    BY <2>1, <2>3, <2>4
<1>6. ASSUME NEW d \in Docs, Cardinality(AtLeast(S, key, d)) >= L
      PROVE  k = L /\ \A i \in 1..k : key[q[i]] >= key[d]
  <2> DEFINE B == AtLeast(S, key, d)
  <2>1. \A e : e \in B <=> e \in S /\ key[e] >= key[d]
    BY DEF AtLeast
  <2>2. Cardinality(B) >= L
    BY <1>6
  <2> HIDE DEF B
  <2>3. IsFiniteSet(B) /\ Cardinality(B) \in Nat /\ Cardinality(B) <= n
    <3>1. B \in SUBSET S
      BY <2>1
    <3> QED
      BY <3>1, FS_Subset, FS_CardinalityType
  <2>4. k = L
    BY <2>2, <2>3
  <2>5. ASSUME NEW i \in 1..k, ~(key[q[i]] >= key[d])
        PROVE  FALSE
    <3> DEFINE pos == [b \in B |-> CHOOSE j \in 1..n : o[j] = b]
    <3>1. ASSUME NEW b \in B
          PROVE  pos[b] \in 1..n /\ o[pos[b]] = b
      <4>1. \E j \in 1..n : o[j] = b
        BY <1>1, <2>1 DEF ToSet
      <4> QED
        BY <4>1
    <3>2. pos = [b \in B |-> pos[b]]
      OBVIOUS
    <3> HIDE DEF pos
    <3>3. i \in 1..n /\ i \in Nat /\ i >= 1 /\ i <= L /\ q[i] = o[i]
      BY <1>3, <2>4
    <3>4. ~(key[o[i]] >= key[d]) /\ key[o[i]] \in Nat /\ key[d] \in Nat
      BY <1>2, <2>5, <3>3
    <3>5. ASSUME NEW b \in B
          PROVE  pos[b] \in 1..(i - 1)
      <4>1. pos[b] \in 1..n /\ key[o[pos[b]]] >= key[d] /\ key[o[pos[b]]] \in Nat
        BY <1>2, <2>1, <3>1
      <4>2. pos[b] # i
        BY <3>4, <4>1
      <4>3. ~(pos[b] > i)
        <5> SUFFICES ASSUME pos[b] > i PROVE FALSE
          OBVIOUS
        <5>1. key[o[i]] >= key[o[pos[b]]]
          BY <3>3, <4>1
        <5> QED
          BY <3>4, <4>1, <5>1
      <4> QED
        BY <3>3, <4>1, <4>2, <4>3
    <3>6. pos \in [B -> 1..(i - 1)]
      BY <3>2, <3>5
    <3>7. pos \in Injection(B, 1..(i - 1))
      <4> SUFFICES ASSUME NEW a \in B, NEW b \in B, pos[a] = pos[b] PROVE a = b
        BY <3>6 DEF Injection, IsInjective
      <4> QED
        BY <3>1
    <3>8. IsFiniteSet(1..(i - 1)) /\ Cardinality(1..(i - 1)) = i - 1
      <4> DEFINE h == i - 1
      <4>1. h \in Nat
        BY <3>3
      <4> HIDE DEF h
      <4>2. IsFiniteSet(1..h) /\ Cardinality(1..h) = h
        BY <4>1, CountTo
      <4> QED
        BY <4>2 DEF h
    <3>9. Cardinality(B) <= i - 1
      BY <3>7, <3>8, FS_Injection
    <3> QED
      BY <2>2, <2>3, <3>3, <3>9
  <2> QED
    BY <2>4, <2>5
<1> QED
  BY <1>4, <1>5, <1>6

\* Enough hits of S are no worse than d.
Outdone(f, S, d) == Cardinality({e \in S : Key(f, e) >= Key(f, d)}) >= Limit(f)

\* What the first hits of the order promise of those they leave out.
LEMMA MergedFacts ==
    ASSUME NEW s \in Searchers, NEW f \in FiltersOf[s], NEW S \in SUBSET Docs,
           NEW o \in Ordered(f, S)
    PROVE  LET q == SubSeq(o, 1, Min({Limit(f), Len(o)}))
           IN  /\ q \in Seq(Docs) /\ ToSet(q) \subseteq S
               /\ \A i, j \in DOMAIN q : i < j => Key(f, q[i]) >= Key(f, q[j])
               /\ \A d \in Docs : d \notin ToSet(q) /\ (d \in S \/ Outdone(f, S, d)) =>
                     Len(q) = Limit(f) /\ \A e \in ToSet(q) : Key(f, e) >= Key(f, d)
<1> DEFINE n == Len(o)
           L == Limit(f)
           k == Min({L, n})
           key == [d \in Docs |-> Key(f, d)]
           p == SubSeq(o, 1, k)
<1>1. /\ IsFiniteSet(S) /\ o \in Seq(S) /\ n = Cardinality(S) /\ ToSet(o) = S
      /\ \A i, j \in 1..n : i < j => Key(f, o[i]) >= Key(f, o[j])
  BY OrderedFacts
<1>2. n \in Nat /\ DOMAIN o = 1..n
  BY <1>1, LenProperties
<1>3. L \in Nat \ {0}
  BY LimitFacts
<1>4. key \in [Docs -> Nat] /\ \A d \in Docs : key[d] = Key(f, d)
  BY KeyFacts
<1> HIDE DEF n, L, key
<1>5. k \in Nat /\ k <= n /\ k = IF L <= n THEN L ELSE n
  <2>1. L \in Int /\ n \in Int
    BY <1>2, <1>3
  <2>2. Min({L, n}) = IF L <= n THEN L ELSE n
    BY <2>1, TwoFacts
  <2> QED
    BY <1>2, <1>3, <2>2
<1> HIDE DEF k
<1>6. \A i \in 1..k : o[i] \in S
  BY <1>1, <1>2, <1>5 DEF ToSet
<1>7. /\ p \in Seq(S)
      /\ Len(p) = IF 1 <= k THEN k - 1 + 1 ELSE 0
      /\ \A i \in 1..(k - 1 + 1) : p[i] = o[1 + i - 1]
  BY <1>1, <1>2, <1>5, <1>6, SubSeqProperties DEF n
<1> HIDE DEF p
<1>8. p \in Seq(S) /\ Len(p) = k /\ \A i \in 1..k : p[i] = o[i]
  BY <1>5, <1>7
<1>9. \A i, j \in 1..n : i < j => key[o[i]] >= key[o[j]]
  <2>1. \A i \in 1..n : o[i] \in Docs /\ key[o[i]] = Key(f, o[i])
    BY <1>1, <1>2, <1>4 DEF ToSet
  <2> QED
    BY <1>1, <2>1
<1>11. Len(o) = n /\ o \in Seq(S) /\ n = Cardinality(S) /\ IsFiniteSet(S) /\ ToSet(o) = S
  BY <1>1 DEF n
<1>17. FirstOf(p, k, L, o, n, S, key)
  BY <1>2, <1>3, <1>4, <1>5, <1>8, <1>9, <1>11 DEF FirstOf
<1>10. /\ \A i, j \in 1..k : i < j => key[p[i]] >= key[p[j]]
       /\ \A d \in S : d \notin ToSet(p) => k = L /\ \A i \in 1..k : key[p[i]] >= key[d]
       /\ \A d \in Docs : Cardinality(AtLeast(S, key, d)) >= L =>
             k = L /\ \A i \in 1..k : key[p[i]] >= key[d]
  BY <1>17, FirstOnes
<1>12. DOMAIN p = 1..k /\ (\A i \in 1..k : p[i] \in S /\ p[i] \in Docs)
  BY <1>6, <1>8
<1>13. p \in Seq(Docs) /\ ToSet(p) \subseteq S
  BY <1>8, <1>12, SeqMonotonic DEF ToSet
<1>14. \A i, j \in DOMAIN p : i < j => Key(f, p[i]) >= Key(f, p[j])
  BY <1>4, <1>10, <1>12
<1>15. ASSUME NEW d \in Docs, d \notin ToSet(p), d \in S \/ Outdone(f, S, d)
       PROVE  k = L /\ \A i \in 1..k : key[p[i]] >= key[d]
  <2>1. CASE d \in S
    BY <1>10, <1>15, <2>1
  <2>2. CASE Outdone(f, S, d)
    <3>1. {e \in S : Key(f, e) >= Key(f, d)} = AtLeast(S, key, d)
      BY <1>4 DEF AtLeast
    <3>2. Cardinality(AtLeast(S, key, d)) >= L
      BY <2>2, <3>1 DEF Outdone, L
    <3> QED
      BY <1>10, <3>2
  <2> QED
    BY <1>15, <2>1, <2>2
<1>16. \A d \in Docs : d \notin ToSet(p) /\ (d \in S \/ Outdone(f, S, d)) =>
             Len(p) = L /\ \A e \in ToSet(p) : Key(f, e) >= Key(f, d)
  BY <1>4, <1>8, <1>12, <1>15 DEF ToSet
<1> HIDE DEF p
<1> QED
  BY <1>13, <1>14, <1>16 DEF L, p, k, n

-----------------------------------------------------------------------------
(* What each step of a search changes.                                     *)

\* Of the requests a step touches only that of s.
OnlyOf(s) ==
    /\ DOMAIN search' = Searchers
    /\ \A t \in Searchers \ {s} : search'[t] = search[t]
    /\ search'[s] \in Request(s)

\* A step of s that leaves its plan and what it has found alone.
SameWork(s) ==
    LET r == search[s]
        p == search'[s]
    IN p.worker = r.worker /\ p.next = r.next /\ p.hits = r.hits /\ p.result = r.result

\* A search begins: nothing but its filter, its anchor to be and its debts change.
LEMMA BeginDoes ==
    ASSUME SearchOK, DiskOK, NEW s \in Searchers, Begin(s)
    PROVE  /\ OnlyOf(s) /\ SameWork(s)
           /\ search[s].pc = "idle" /\ search'[s].pc = "anchor"
           /\ search'[s].filter \in FiltersOf[s] /\ search'[s].known = earliest
           /\ search'[s].due = DueNow
           /\ search'[s].plan = search[s].plan /\ search'[s].anchor = search[s].anchor
<1>1. PICK f \in FiltersOf[s] :
         /\ search[s].pc = "idle"
         /\ search' = [search EXCEPT ![s].pc = "anchor", ![s].filter = f, ![s].known = earliest,
                                     ![s].due = DueNow]
  BY Zenon DEF Begin
<1> DEFINE r == search[s]
           du == DueNow
           p == [r EXCEPT !.pc = "anchor", !.filter = f, !.known = earliest, !.due = du]
<1>2. search'[s] = p /\ DOMAIN search' = Searchers /\ \A t \in Searchers \ {s} : search'[t] = search[t]
  BY <1>1 DEF SearchOK
<1>3. r \in Request(s) /\ f \in FilterSet(s) /\ earliest \in Nat /\ du \in DocSets
  BY DEF SearchOK, FilterSet, DiskOK, DueNow, DocSets
<1> HIDE DEF r, du
<1>4. p \in Request(s)
  BY <1>3 DEF Request
<1>5. /\ p.pc = "anchor" /\ p.filter = f /\ p.known = earliest /\ p.due = du
      /\ p.worker = r.worker /\ p.next = r.next /\ p.hits = r.hits /\ p.result = r.result
      /\ p.plan = r.plan /\ p.anchor = r.anchor
  BY <1>3 DEF Request
<1> HIDE DEF p
<1>6. SameWork(s)
  BY <1>2, <1>5 DEF SameWork, r
<1> QED
  BY <1>1, <1>2, <1>4, <1>5, <1>6 DEF OnlyOf, r, du

\* An open reader is the anchor, or the oldest known shard, or there is none.
LEMMA AnchorDoes ==
    ASSUME SearchOK, DiskOK, NEW s \in Searchers, Anchor(s)
    PROVE  /\ OnlyOf(s) /\ SameWork(s)
           /\ search[s].pc = "anchor"
           /\ search'[s].filter = search[s].filter /\ search'[s].known = search[s].known
           /\ search'[s].due = search[s].due /\ search'[s].plan = search[s].plan
           /\ \/ lru # <<>> /\ search'[s].pc = "plan"
              \/ /\ search[s].known \in metas /\ search'[s].pc = "insert"
                 /\ search'[s].anchor = committed[search[s].known]
              \/ lru = <<>> /\ search[s].known \notin metas /\ search'[s].pc = "rediscover"
<1> DEFINE r == search[s]
           c == committed[search[s].known]
<1>1. r \in Request(s) /\ r.pc = "anchor"
  BY DEF SearchOK, Anchor
<1>2. CASE lru # <<>>
  <2>1. /\ search'[s] = [r EXCEPT !.pc = "plan"] /\ DOMAIN search' = Searchers
        /\ \A t \in Searchers \ {s} : search'[t] = search[t]
    BY <1>2 DEF SearchOK, Anchor
  <2> HIDE DEF r
  <2>2. search'[s] \in Request(s)
    BY <1>1, <2>1 DEF Request
  <2>3. /\ search'[s].pc = "plan" /\ search'[s].filter = r.filter /\ search'[s].known = r.known
        /\ search'[s].due = r.due /\ search'[s].plan = r.plan /\ search'[s].worker = r.worker
        /\ search'[s].next = r.next /\ search'[s].hits = r.hits /\ search'[s].result = r.result
    BY <1>1, <2>1 DEF Request
  <2> QED
    BY <1>1, <1>2, <2>1, <2>2, <2>3 DEF OnlyOf, SameWork, r
<1>3. CASE lru = <<>> /\ search[s].known \in metas
  <2>1. /\ search'[s] = [r EXCEPT !.pc = "insert", !.anchor = c] /\ DOMAIN search' = Searchers
        /\ \A t \in Searchers \ {s} : search'[t] = search[t]
    BY <1>3 DEF SearchOK, Anchor
  <2>2. c \in DocSets
    BY <1>3 DEF DiskOK, DocSets
  <2> HIDE DEF r, c
  <2>3. search'[s] \in Request(s)
    BY <1>1, <2>1, <2>2 DEF Request
  <2>4. /\ search'[s].pc = "insert" /\ search'[s].filter = r.filter /\ search'[s].known = r.known
        /\ search'[s].due = r.due /\ search'[s].plan = r.plan /\ search'[s].worker = r.worker
        /\ search'[s].next = r.next /\ search'[s].hits = r.hits /\ search'[s].result = r.result
        /\ search'[s].anchor = c
    BY <1>1, <2>1 DEF Request
  <2> QED
    BY <1>1, <1>3, <2>1, <2>3, <2>4 DEF OnlyOf, SameWork, r, c
<1>4. CASE lru = <<>> /\ search[s].known \notin metas
  <2>1. /\ search'[s] = [r EXCEPT !.pc = "rediscover"] /\ DOMAIN search' = Searchers
        /\ \A t \in Searchers \ {s} : search'[t] = search[t]
    BY <1>4 DEF SearchOK, Anchor
  <2> HIDE DEF r
  <2>2. search'[s] \in Request(s)
    BY <1>1, <2>1 DEF Request
  <2>3. /\ search'[s].pc = "rediscover" /\ search'[s].filter = r.filter /\ search'[s].known = r.known
        /\ search'[s].due = r.due /\ search'[s].plan = r.plan /\ search'[s].worker = r.worker
        /\ search'[s].next = r.next /\ search'[s].hits = r.hits /\ search'[s].result = r.result
    BY <1>1, <2>1 DEF Request
  <2> QED
    BY <1>1, <1>4, <2>1, <2>2, <2>3 DEF OnlyOf, SameWork, r
<1> QED
  BY <1>2, <1>3, <1>4

\* A second look at the disk finds an anchor or ends the search.
LEMMA RediscoverDoes ==
    ASSUME SearchOK, DiskOK, NEW s \in Searchers, Rediscover(s)
    PROVE  /\ OnlyOf(s) /\ SameWork(s)
           /\ search[s].pc = "rediscover"
           /\ search'[s].filter = search[s].filter
           /\ search'[s].due = search[s].due /\ search'[s].plan = search[s].plan
           /\ \/ search'[s].pc \in {"plan", "done"}
              \/ /\ search'[s].known \in metas /\ search'[s].pc = "insert"
                 /\ search'[s].anchor = committed[search'[s].known]
<1> DEFINE r == search[s]
           e == Discover(dirs)
           c == committed[e]
<1>1. r \in Request(s) /\ r.pc = "rediscover"
  BY DEF SearchOK, Rediscover
<1>2. e \in Nat
  BY DiscoverFacts
<1>3. CASE e \in Cached \/ e \notin metas
  <2>1. PICK v \in {"plan", "done"} :
        /\ search'[s] = [r EXCEPT !.pc = v] /\ DOMAIN search' = Searchers
        /\ \A t \in Searchers \ {s} : search'[t] = search[t]
    BY <1>3 DEF SearchOK, Rediscover
  <2> HIDE DEF r
  <2>2. search'[s] \in Request(s)
    BY <1>1, <2>1 DEF Request
  <2>3. /\ search'[s].pc = v /\ search'[s].filter = r.filter
        /\ search'[s].due = r.due /\ search'[s].plan = r.plan /\ search'[s].worker = r.worker
        /\ search'[s].next = r.next /\ search'[s].hits = r.hits /\ search'[s].result = r.result
    BY <1>1, <2>1 DEF Request
  <2> QED
    BY <1>1, <2>1, <2>2, <2>3 DEF OnlyOf, SameWork, r
<1>4. CASE e \notin Cached /\ e \in metas
  <2>1. /\ search'[s] = [r EXCEPT !.pc = "insert", !.known = e, !.anchor = c]
        /\ DOMAIN search' = Searchers /\ \A t \in Searchers \ {s} : search'[t] = search[t]
    BY <1>4 DEF SearchOK, Rediscover
  <2>2. c \in DocSets
    BY <1>4 DEF DiskOK, DocSets
  <2> HIDE DEF r, c, e
  <2>3. search'[s] \in Request(s)
    BY <1>1, <1>2, <2>1, <2>2 DEF Request
  <2>4. /\ search'[s].pc = "insert" /\ search'[s].filter = r.filter /\ search'[s].known = e
        /\ search'[s].due = r.due /\ search'[s].plan = r.plan /\ search'[s].worker = r.worker
        /\ search'[s].next = r.next /\ search'[s].hits = r.hits /\ search'[s].result = r.result
        /\ search'[s].anchor = c
    BY <1>1, <2>1 DEF Request
  <2> QED
    BY <1>1, <1>4, <2>1, <2>3, <2>4 DEF OnlyOf, SameWork, r, c
<1> QED
  BY <1>3, <1>4

\* The anchor's reader is in the cache: the search plans.
LEMMA InsertAnchorDoes ==
    ASSUME SearchOK, NEW s \in Searchers, InsertAnchor(s)
    PROVE  /\ OnlyOf(s) /\ SameWork(s)
           /\ search[s].pc = "insert" /\ search'[s].pc = "plan"
           /\ search'[s].filter = search[s].filter
           /\ search'[s].due = search[s].due /\ search'[s].plan = search[s].plan
<1> DEFINE r == search[s]
<1>1. r \in Request(s) /\ r.pc = "insert"
  BY DEF SearchOK, InsertAnchor
<1>2. /\ search'[s] = [r EXCEPT !.pc = "plan", !.anchor = {}] /\ DOMAIN search' = Searchers
      /\ \A t \in Searchers \ {s} : search'[t] = search[t]
  BY DEF SearchOK, InsertAnchor
<1> HIDE DEF r
<1>3. {} \in DocSets
  BY DEF DocSets
<1>4. search'[s] \in Request(s)
  BY <1>1, <1>2, <1>3 DEF Request
<1>5. /\ search'[s].pc = "plan" /\ search'[s].filter = r.filter
      /\ search'[s].due = r.due /\ search'[s].plan = r.plan /\ search'[s].worker = r.worker
      /\ search'[s].next = r.next /\ search'[s].hits = r.hits /\ search'[s].result = r.result
  BY <1>1, <1>2 DEF Request
<1> QED
  BY <1>1, <1>2, <1>4, <1>5 DEF OnlyOf, SameWork, r

\* The plan starts at the oldest shard known when it is made.
LEMMA PlanSearchDoes ==
    ASSUME SearchOK, DiskOK, NEW s \in Searchers, PlanSearch(s), search[s].filter \in FiltersOf[s]
    PROVE  /\ OnlyOf(s) /\ SameWork(s)
           /\ search[s].pc = "plan" /\ search'[s].pc = "fan"
           /\ search'[s].filter = search[s].filter /\ search'[s].due = search[s].due
           /\ search'[s].plan = Plan(search[s].filter, earliest, FromTimestamp(Now))
<1> DEFINE r == search[s]
           pl == Plan(search[s].filter, earliest, FromTimestamp(Now))
<1>1. r \in Request(s) /\ r.pc = "plan"
  BY DEF SearchOK, PlanSearch
<1>2. /\ search'[s] = [r EXCEPT !.pc = "fan", !.plan = pl] /\ DOMAIN search' = Searchers
      /\ \A t \in Searchers \ {s} : search'[t] = search[t]
  BY DEF SearchOK, PlanSearch
<1>3. pl \in PlanSet
  BY DEF PlanSet, Plans, Filters, DiskOK
<1> HIDE DEF r, pl
<1>4. search'[s] \in Request(s)
  BY <1>1, <1>2, <1>3 DEF Request
<1>5. /\ search'[s].pc = "fan" /\ search'[s].filter = r.filter /\ search'[s].plan = pl
      /\ search'[s].due = r.due /\ search'[s].worker = r.worker
      /\ search'[s].next = r.next /\ search'[s].hits = r.hits /\ search'[s].result = r.result
  BY <1>1, <1>2 DEF Request
<1> QED
  BY <1>1, <1>2, <1>4, <1>5 DEF OnlyOf, SameWork, r, pl

\* Only months have cached readers.
LEMMA CachedMonths ==
    ASSUME CacheOK
    PROVE  Cached \subseteq Months
  BY DEF CacheOK, Cached, ToSet

\* Every plan lists its shards.
LEMMA PlansFacts ==
    ASSUME NEW p \in Plans
    PROVE  p.shards \in Seq(Int) /\ Len(p.shards) \in Nat
<1>1. PICK f \in Filters, e \in Nat : p = Plan(f, e, FromTimestamp(Now))
  BY DEF Plans
<1>2. PICK s \in Searchers : f \in FiltersOf[s]
  BY DEF Filters
<1> QED
  BY <1>1, <1>2, PlanFacts, LenProperties

\* A step of s in its fan-out.
Working(s) ==
    LET r == search[s]
        p == search'[s]
    IN r.pc = "fan" /\ p.filter = r.filter /\ p.due = r.due

\* What a worker's claim of a shard does: it is searched at once, or its reader
\* is being opened, or there is no such shard.
LEMMA TakeDoes ==
    ASSUME CacheInv, NEW s \in Searchers, NEW w \in WorkersOf[s], Take(s, w)
    PROVE  LET r == search[s]
               p == search'[s]
               id == r.plan.shards[r.next]
               sn == IF id \in Cached THEN snap[id] ELSE committed[id]
               k == [pc |-> "opening", shard |-> id, snap |-> committed[id]]
           IN  /\ OnlyOf(s) /\ Working(s) /\ p.pc = "fan" /\ p.plan = r.plan /\ p.result = r.result
               /\ r.worker[w].pc = "idle"
               /\ r.next \in 1..Len(r.plan.shards) /\ p.next = r.next + 1
               /\ lru' = lru \/ (id \in Cached /\ lru' = Touch(lru, id))
               /\ \/ /\ id \in metas \cup Cached /\ p.worker = r.worker
                     /\ \E h \in SearchOne(r, sn) : p.hits = r.hits \cup h
                  \/ /\ id \in metas \ Cached /\ Len(r.plan.shards) <= MaxOpen
                     /\ p.worker = [r.worker EXCEPT ![w] = k] /\ p.hits = r.hits
                  \/ /\ id \notin metas \cup Cached /\ p.worker = r.worker /\ p.hits = r.hits
<1> DEFINE r == search[s]
           p == search'[s]
           id == r.plan.shards[r.next]
           sn == IF id \in Cached THEN snap[id] ELSE committed[id]
           k == [pc |-> "opening", shard |-> id, snap |-> committed[id]]
           L == Len(r.plan.shards)
<1>1. r \in Request(s) /\ r.pc = "fan" /\ r.worker[w].pc = "idle" /\ r.plan \in Plans
  <2>1. search[s].pc = "fan" /\ search[s].worker[w].pc = "idle"
    BY Zenon DEF Take
  <2> QED
    BY <2>1 DEF CacheInv, SearchOK, OpeningOK, OpensRight
<1>2. r.next \in Nat \ {0} /\ r.hits \in DocSets /\ r.worker \in WorkerSet(s)
  BY <1>1 DEF Request
<1>3. L \in Nat /\ r.plan.shards \in Seq(Int)
  BY <1>1, PlansFacts
<1>4. r.next <= L /\ r.next \in 1..L /\ id \in Int
  <2>1. r.next <= L
    BY Zenon DEF Take
  <2> QED
    BY <1>2, <1>3, <2>1
<1>5. MaxOpen \in Nat /\ Months \subseteq Nat
  BY RegistryConstants
<1>6. CacheMisses(r) <=> L > MaxOpen
  BY DEF CacheMisses
<1>7. lru' = lru \/ (id \in Cached /\ lru' = Touch(lru, id))
  BY Zenon DEF Take
<1>8. CASE /\ id \in metas \cup Cached
           /\ \E h \in SearchOne(r, sn) :
                 search' = [search EXCEPT ![s].next = @ + 1, ![s].hits = @ \cup h]
  <2>1. PICK h \in SearchOne(r, sn) :
           search' = [search EXCEPT ![s].next = @ + 1, ![s].hits = @ \cup h]
    BY Zenon, <1>8
  <2>2. p = [r EXCEPT !.next = @ + 1, !.hits = @ \cup h] /\ DOMAIN search' = Searchers
        /\ \A t \in Searchers \ {s} : search'[t] = search[t]
    BY <2>1 DEF CacheInv, SearchOK
  <2>3. id \in metas \cup Cached
    BY <1>8
  <2>4. sn \in SUBSET Docs
    <3> HIDE DEF id
    <3>1. id \in Months
      BY <2>3, CachedMonths DEF CacheInv, DiskOK
    <3> QED
      BY <3>1 DEF CacheInv, DiskOK, CacheOK
  <2>5. h \subseteq sn
    BY Zenon DEF SearchOne, Best
  <2>7. p = [r EXCEPT !.next = r.next + 1, !.hits = r.hits \cup h]
    BY <2>2
  <2> HIDE DEF r, p, sn, id, L
  <2>6. r.hits \cup h \in DocSets /\ r.next + 1 \in Nat \ {0}
    BY <1>2, <2>4, <2>5 DEF DocSets
  <2>8. p \in Request(s)
    BY <1>1, <2>6, <2>7 DEF Request
  <2>9. /\ p.pc = "fan" /\ p.plan = r.plan /\ p.result = r.result /\ p.filter = r.filter
        /\ p.due = r.due /\ p.next = r.next + 1 /\ p.worker = r.worker /\ p.hits = r.hits \cup h
    BY <1>1, <2>7 DEF Request
  <2>10. OnlyOf(s)
    BY <2>2, <2>8 DEF OnlyOf, p
  <2>11. Working(s)
    BY <1>1, <2>9 DEF Working, p, r
  <2> QED
    BY Zenon, <1>1, <1>4, <1>7, <1>8, <2>9, <2>10, <2>11 DEF r, p, sn, id, L
<1>9. CASE /\ id \in metas \ Cached /\ L <= MaxOpen
           /\ search' = [search EXCEPT ![s].next = @ + 1, ![s].worker[w] = k]
  <2>1. p = [r EXCEPT !.next = r.next + 1, !.worker = [r.worker EXCEPT ![w] = k]]
        /\ DOMAIN search' = Searchers /\ \A t \in Searchers \ {s} : search'[t] = search[t]
    BY <1>9 DEF CacheInv, SearchOK
  <2>2. k \in Worker
    <3>1. committed[id] \in SUBSET Docs
      BY <1>9 DEF CacheInv, DiskOK
    <3> QED
      BY <1>4, <3>1 DEF Worker
  <2> DEFINE ws == [r.worker EXCEPT ![w] = k]
  <2>3. ws \in WorkerSet(s) /\ r.next + 1 \in Nat \ {0}
    BY <1>2, <2>2 DEF WorkerSet
  <2>4. p = [r EXCEPT !.next = r.next + 1, !.worker = ws]
    BY <2>1
  <2> HIDE DEF r, p, id, L, k, ws
  <2>5. p \in Request(s)
    BY <1>1, <2>3, <2>4 DEF Request
  <2>6. /\ p.pc = "fan" /\ p.plan = r.plan /\ p.result = r.result /\ p.filter = r.filter
        /\ p.due = r.due /\ p.next = r.next + 1 /\ p.worker = ws /\ p.hits = r.hits
    BY <1>1, <2>4 DEF Request
  <2>7. OnlyOf(s)
    BY <2>1, <2>5 DEF OnlyOf, p
  <2>8. Working(s)
    BY <1>1, <2>6 DEF Working, p, r
  <2> QED
    BY Zenon, <1>1, <1>4, <1>7, <1>9, <2>6, <2>7, <2>8 DEF r, p, id, L, k, ws
<1>10. CASE /\ id \notin metas \cup Cached
            /\ search' = [search EXCEPT ![s].next = @ + 1]
  <2>1. p = [r EXCEPT !.next = r.next + 1]
        /\ DOMAIN search' = Searchers /\ \A t \in Searchers \ {s} : search'[t] = search[t]
    BY <1>10 DEF CacheInv, SearchOK
  <2>2. r.next + 1 \in Nat \ {0}
    BY <1>2
  <2> HIDE DEF r, p, id, L
  <2>3. p \in Request(s)
    BY <1>1, <2>1, <2>2 DEF Request
  <2>4. /\ p.pc = "fan" /\ p.plan = r.plan /\ p.result = r.result /\ p.filter = r.filter
        /\ p.due = r.due /\ p.next = r.next + 1 /\ p.worker = r.worker /\ p.hits = r.hits
    BY <1>1, <2>1 DEF Request
  <2>5. OnlyOf(s)
    BY <2>1, <2>3 DEF OnlyOf, p
  <2>6. Working(s)
    BY <1>1, <2>4 DEF Working, p, r
  <2> QED
    BY <1>1, <1>4, <1>7, <1>10, <2>4, <2>5, <2>6 DEF r, p, id, L
<1>11. \/ /\ id \in Cached
          /\ \E h \in SearchOne(r, snap[id]) :
                search' = [search EXCEPT ![s].next = @ + 1, ![s].hits = @ \cup h]
       \/ /\ id \notin Cached /\ id \in metas
          /\ \E h \in SearchOne(r, committed[id]) :
                search' = [search EXCEPT ![s].next = @ + 1, ![s].hits = @ \cup h]
       \/ /\ id \notin Cached /\ id \in metas /\ ~CacheMisses(r)
          /\ search' = [search EXCEPT ![s].next = @ + 1, ![s].worker[w] = k]
       \/ /\ id \notin Cached /\ id \notin metas
          /\ search' = [search EXCEPT ![s].next = @ + 1]
  BY Zenon DEF Take
<1>12. ~CacheMisses(r) => L <= MaxOpen
  BY <1>3, <1>5, <1>6
<1> HIDE DEF L
<1> QED
  BY Zenon, <1>8, <1>9, <1>10, <1>11, <1>12

\* A worker's reader is open.
LEMMA PutDoes ==
    ASSUME CacheInv, NEW s \in Searchers, NEW w \in WorkersOf[s], Put(s, w)
    PROVE  LET r == search[s]
               p == search'[s]
               k == r.worker[w]
           IN  /\ OnlyOf(s) /\ Working(s) /\ p.pc = "fan" /\ p.plan = r.plan /\ p.result = r.result
               /\ k.pc = "opening" /\ k.shard \in metas /\ k.snap \subseteq committed[k.shard]
               /\ Len(r.plan.shards) <= MaxOpen
               /\ p.next = r.next /\ p.worker = [r.worker EXCEPT ![w] = IdleWorker]
               /\ \E h \in SearchOne(r, Preferred(k.shard, k.snap)) : p.hits = r.hits \cup h
<1> DEFINE r == search[s]
           p == search'[s]
           k == r.worker[w]
           ws == [r.worker EXCEPT ![w] = IdleWorker]
           sn == Preferred(k.shard, k.snap)
<1>1. /\ r \in Request(s) /\ k.pc = "opening" /\ r.pc = "fan"
      /\ k.shard \in metas /\ k.snap \subseteq committed[k.shard] /\ Len(r.plan.shards) <= MaxOpen
  BY DEF CacheInv, SearchOK, OpeningOK, OpensRight, Put
<1>2. r.hits \in DocSets /\ r.worker \in WorkerSet(s)
  BY <1>1 DEF Request
<1>3. PICK h \in SearchOne(r, sn) :
         search' = [search EXCEPT ![s].worker[w] = IdleWorker, ![s].hits = @ \cup h]
  BY Zenon DEF Put
<1>4. p = [r EXCEPT !.worker = ws, !.hits = r.hits \cup h]
      /\ DOMAIN search' = Searchers /\ \A t \in Searchers \ {s} : search'[t] = search[t]
  BY <1>3 DEF CacheInv, SearchOK
<1>5. ws \in WorkerSet(s)
  BY <1>2 DEF WorkerSet, Worker, IdleWorker
<1>6. k.shard \in Months /\ committed[k.shard] \subseteq Docs /\ snap[k.shard] \subseteq Docs
  BY <1>1 DEF CacheInv, DiskOK, CacheOK
<1>7. sn \subseteq Docs
  BY <1>1, <1>6 DEF Preferred
<1>8. h \subseteq sn
  BY DEF SearchOne, Best
<1>9. r.hits \cup h \in DocSets
  BY <1>2, <1>7, <1>8 DEF DocSets
<1> HIDE DEF r, p, k, ws, sn
<1>10. p \in Request(s)
  BY <1>1, <1>4, <1>5, <1>9 DEF Request
<1>11. /\ p.pc = "fan" /\ p.plan = r.plan /\ p.result = r.result /\ p.filter = r.filter
       /\ p.due = r.due /\ p.next = r.next /\ p.worker = ws /\ p.hits = r.hits \cup h
  BY <1>1, <1>4 DEF Request
<1>12. OnlyOf(s)
  BY <1>4, <1>10 DEF OnlyOf, p
<1>13. Working(s)
  BY <1>1, <1>11 DEF Working, p, r
<1> QED
  BY <1>1, <1>3, <1>11, <1>12, <1>13 DEF r, p, k, ws, sn

\* The hits are merged when every worker is done.
LEMMA FinishDoes ==
    ASSUME CacheInv, NEW s \in Searchers, Finish(s)
    PROVE  LET r == search[s]
               p == search'[s]
           IN  /\ OnlyOf(s) /\ Working(s) /\ p.pc = "done" /\ p.worker = r.worker
               /\ r.next > Len(r.plan.shards)
               /\ \A w \in WorkersOf[s] : r.worker[w].pc = "idle"
               /\ r.hits \in SUBSET Docs
               /\ \E o \in Ordered(r.filter, r.hits) :
                     p.result = SubSeq(o, 1, Min({Limit(r.filter), Len(o)}))
<1> DEFINE r == search[s]
           p == search'[s]
<1>1. /\ r \in Request(s) /\ r.pc = "fan" /\ r.filter \in FiltersOf[s]
      /\ r.next > Len(r.plan.shards) /\ \A w \in WorkersOf[s] : r.worker[w].pc = "idle"
  BY DEF CacheInv, SearchOK, Finish
<1>2. r.hits \in DocSets
  BY <1>1 DEF Request
<1>3. PICK q \in Merged(r) :
         search' = [search EXCEPT ![s].pc = "done", ![s].result = q, ![s].hits = {},
                                  ![s].next = 1, ![s].known = 0, ![s].plan = NoPlan]
  BY Zenon DEF Finish
<1>4. PICK o \in Ordered(r.filter, r.hits) : q = SubSeq(o, 1, Min({Limit(r.filter), Len(o)}))
  BY DEF Merged
<1>5. q \in Results
  BY <1>1, <1>2, <1>4, MergedFacts DEF Results, DocSets
<1> DEFINE v == [r EXCEPT !.pc = "done", !.result = q, !.hits = {}]
           u == [v EXCEPT !.next = 1, !.known = 0, !.plan = NoPlan]
<1>6. p = u
      /\ DOMAIN search' = Searchers /\ \A t \in Searchers \ {s} : search'[t] = search[t]
  BY <1>3 DEF CacheInv, SearchOK
<1>7. NoPlan \in PlanSet /\ {} \in DocSets
  BY DEF PlanSet, DocSets
<1> HIDE DEF r, p
<1>8. u \in Request(s)
  <2>1. v \in Request(s)
    BY <1>1, <1>5, <1>7 DEF Request
  <2> HIDE DEF v
  <2> DEFINE x == [v EXCEPT !.next = 1]
             y == [x EXCEPT !.known = 0]
  <2>2. x \in Request(s)
    BY <2>1 DEF Request
  <2> HIDE DEF x
  <2>3. y \in Request(s)
    BY <2>2 DEF Request
  <2>4. u = [y EXCEPT !.plan = NoPlan]
    BY DEF x
  <2> HIDE DEF y, u
  <2> QED
    BY <1>7, <2>3, <2>4 DEF Request
<1>9. u.pc = "done" /\ u.result = q /\ u.filter = r.filter /\ u.due = r.due /\ u.worker = r.worker
  BY <1>1 DEF Request
<1> HIDE DEF u
<1>10. OnlyOf(s)
  BY <1>6, <1>8 DEF OnlyOf, p
<1>11. Working(s)
  BY <1>1, <1>6, <1>9 DEF Working, p, r
<1> QED
  BY <1>1, <1>2, <1>4, <1>6, <1>9, <1>10, <1>11 DEF r, p, DocSets

-----------------------------------------------------------------------------
(* The cache through every step.                                           *)

\* A touch keeps the cache's readers.
LEMMA TouchKeeps ==
    ASSUME CacheOK, UNCHANGED <<disk, snap>>,
           lru' = lru \/ \E id \in Cached : lru' = Touch(lru, id)
    PROVE  CacheOK' /\ Cached' = Cached /\ (lru # <<>> => lru' # <<>>)
<1>1. CASE lru' = lru
  BY <1>1 DEF CacheOK, Cached, disk
<1>2. CASE \E id \in Cached : lru' = Touch(lru, id)
  <2>1. PICK id \in Cached : lru' = Touch(lru, id)
    BY <1>2
  <2>2. id \in Months /\ lru \in Seq(Months) /\ IsInjective(lru) /\ id \in ToSet(lru)
    BY CachedMonths DEF CacheOK, Cached
  <2>3. /\ lru' \in Seq(Months) /\ IsInjective(lru')
        /\ ToSet(lru') = ToSet(lru) \cup {id} /\ Len(lru') = Len(lru)
    BY <2>1, <2>2, TouchFacts
  <2>4. Cached' = Cached
    BY <2>2, <2>3 DEF Cached
  <2>5. CacheOK'
    BY <2>3 DEF CacheOK, disk
  <2>6. lru # <<>> => lru' # <<>>
    BY <2>2, <2>3
  <2> QED
    BY <2>4, <2>5, <2>6
<1> QED
  BY <1>1, <1>2

\* A step of s that leaves the disk alone keeps the requests right if it keeps
\* that of s right.
LEMMA OthersStay ==
    ASSUME SearchOK, OpeningOK, NEW s \in Searchers, OnlyOf(s), UNCHANGED disk,
           search'[s].filter \in FiltersOf[s], OpensRight(s)'
    PROVE  SearchOK' /\ OpeningOK'
<1>1. SearchOK'
  BY DEF SearchOK, OnlyOf
<1>2. ASSUME NEW t \in Searchers \ {s}
      PROVE  OpensRight(t)'
  <2>1. search'[t] = search[t] /\ OpensRight(t)
    BY DEF OnlyOf, OpeningOK
  <2> QED
    BY <2>1 DEF OpensRight, disk
<1>3. OpeningOK'
  BY <1>2 DEF OpeningOK
<1> QED
  BY <1>1, <1>3

\* What is cached, opened and asked for is right when the server starts.
LEMMA CacheInit == Init => CacheInv
<1> SUFFICES ASSUME Init PROVE CacheInv
  OBVIOUS
<1>1. DiskOK
  <2>1. /\ dirs = DOMAIN Settled /\ metas = DOMAIN Settled /\ unseen = {}
        /\ committed = [m \in Months |-> IF m \in DOMAIN Settled THEN Settled[m] ELSE {}]
        /\ earliest = IF DOMAIN Settled = {} THEN Genesis ELSE Min(DOMAIN Settled)
    BY DEF Init
  <2>2. /\ DOMAIN Settled \subseteq Months /\ Months \subseteq Nat /\ Genesis \in Nat
        /\ \A m \in DOMAIN Settled : \A d \in Settled[m] :
              d \in Docs /\ FromTimestamp(Event[d].created_at) = m
    BY RegistryConstants
  <2>3. committed \in [Months -> SUBSET Docs]
    BY <2>1, <2>2
  <2>4. \A m \in Months : \A d \in committed[m] : MonthOf(d) = m /\ m \in metas
    BY <2>1, <2>2 DEF MonthOf
  <2>5. DOMAIN Settled \in SUBSET Nat
    BY <2>2
  <2>6. earliest \in Nat /\ \A m \in dirs : earliest <= m
    BY <2>1, <2>2, <2>5, MinFacts
  <2> QED
    BY <2>1, <2>2, <2>3, <2>4, <2>6 DEF DiskOK
<1>2. CacheOK
  <2>1. lru = <<>> /\ snap = [m \in Months |-> {}]
    BY DEF Init
  <2>2. MaxOpen \in Nat
    BY RegistryConstants
  <2>3. lru \in Seq(Months) /\ IsInjective(lru) /\ Len(lru) <= MaxOpen
    BY <2>1, <2>2 DEF IsInjective
  <2> QED
    BY <2>1, <2>3 DEF CacheOK
<1>3. ASSUME NEW s \in Searchers
      PROVE  search[s] \in Request(s) /\ search[s].pc = "idle"
             /\ \A w \in WorkersOf[s] : search[s].worker[w].pc = "idle"
  <2> DEFINE ws == [w \in WorkersOf[s] |-> IdleWorker]
  <2>1. search[s] = NoSearch(s)
    BY DEF Init
  <2>2. /\ ws \in WorkerSet(s) /\ {} \in DocSets /\ NoPlan \in PlanSet /\ NoFilter \in FilterSet(s)
        /\ <<>> \in Results
    BY DEF WorkerSet, Worker, IdleWorker, DocSets, PlanSet, FilterSet, Results
  <2>3. \A w \in WorkersOf[s] : ws[w].pc = "idle"
    BY DEF IdleWorker
  <2> HIDE DEF ws
  <2>4. search[s] = [pc |-> "idle", filter |-> NoFilter, known |-> 0, anchor |-> {}, plan |-> NoPlan,
                     next |-> 1, worker |-> ws, hits |-> {}, result |-> <<>>, due |-> {}]
    BY <2>1 DEF NoSearch, ws
  <2> QED
    BY <2>2, <2>3, <2>4 DEF Request
<1>4. SearchOK
  BY <1>3 DEF SearchOK, Init
<1>5. OpeningOK
  BY <1>3 DEF OpeningOK, OpensRight
<1> QED
  BY <1>1, <1>2, <1>4, <1>5 DEF CacheInv

\* A step of one search.
LEMMA SearchStep ==
    ASSUME CacheInv, NEW s \in Searchers,
           \/ Begin(s) \/ Anchor(s) \/ Rediscover(s) \/ InsertAnchor(s) \/ PlanSearch(s) \/ Finish(s)
           \/ \E w \in WorkersOf[s] : Take(s, w) \/ Put(s, w)
    PROVE  CacheInv'
<1>0. /\ DiskOK /\ CacheOK /\ SearchOK /\ OpeningOK /\ OpensRight(s)
      /\ search[s] \in Request(s)
      /\ search[s].pc # "idle" => search[s].filter \in FiltersOf[s]
  BY DEF CacheInv, SearchOK, OpeningOK
<1>1. ASSUME UNCHANGED <<disk, earliest, unseen>>
      PROVE  DiskOK'
  BY <1>0, <1>1 DEF DiskOK, disk
<1>2. ASSUME UNCHANGED <<disk, cache>>
      PROVE  CacheOK'
  BY <1>0, <1>2 DEF CacheOK, disk, cache
<1>3. CASE Begin(s)
  <2>1. UNCHANGED <<disk, earliest, cache, get, unseen>>
    BY Zenon, <1>3 DEF Begin
  <2>2. OpensRight(s)'
    BY <1>0, <1>3, <2>1, BeginDoes DEF OpensRight, SameWork, disk
  <2>3. SearchOK' /\ OpeningOK'
    BY <1>0, <1>3, <2>1, <2>2, BeginDoes, OthersStay
  <2> QED
    BY <1>1, <1>2, <2>1, <2>3 DEF CacheInv
<1>4. CASE Anchor(s)
  <2>1. UNCHANGED <<disk, earliest, cache, get, unseen>>
    BY Zenon, <1>4 DEF Anchor
  <2>2. OpensRight(s)'
    BY <1>0, <1>4, <2>1, AnchorDoes DEF OpensRight, SameWork, disk
  <2>3. search'[s].filter \in FiltersOf[s] /\ OnlyOf(s)
    BY <1>0, <1>4, AnchorDoes
  <2>4. SearchOK' /\ OpeningOK'
    BY <1>0, <2>1, <2>2, <2>3, OthersStay
  <2> QED
    BY <1>1, <1>2, <2>1, <2>4 DEF CacheInv
<1>5. CASE Rediscover(s)
  <2>1. UNCHANGED disk /\ UNCHANGED snap /\ earliest' = Discover(dirs) /\ unseen' = {}
        /\ (lru' = lru \/ \E id \in Cached : lru' = Touch(lru, id))
    BY <1>5 DEF Rediscover, cache
  <2>2. OpensRight(s)'
    BY <1>0, <1>5, <2>1, RediscoverDoes DEF OpensRight, SameWork, disk
  <2>3. search'[s].filter \in FiltersOf[s] /\ OnlyOf(s)
    BY <1>0, <1>5, RediscoverDoes
  <2>4. SearchOK' /\ OpeningOK'
    BY <1>0, <2>1, <2>2, <2>3, OthersStay
  <2>5. CacheOK'
    BY <1>0, <2>1, TouchKeeps
  <2>6. DiskOK'
    BY <1>0, <2>1, DiscoverFacts DEF DiskOK, disk
  <2> QED
    BY <2>4, <2>5, <2>6 DEF CacheInv
<1>6. CASE InsertAnchor(s)
  <2>1. /\ UNCHANGED <<disk, earliest, get, unseen>>
        /\ PutReader(search[s].known, search[s].anchor) /\ search[s].pc = "insert"
    BY Zenon, <1>6 DEF InsertAnchor
  <2>2. OpensRight(s)'
    BY <1>0, <1>6, <2>1, InsertAnchorDoes DEF OpensRight, SameWork, disk
  <2>3. search'[s].filter \in FiltersOf[s] /\ OnlyOf(s)
    BY <1>0, <1>6, InsertAnchorDoes
  <2>4. SearchOK' /\ OpeningOK'
    BY <1>0, <2>1, <2>2, <2>3, OthersStay
  <2>5. search[s].known \in Months /\ search[s].anchor \subseteq committed[search[s].known]
    BY <1>0, <2>1 DEF OpensRight, DiskOK
  <2>6. search[s].anchor \in SUBSET Docs
    BY <1>0, <2>5 DEF DiskOK
  <2>7. CacheOK'
    BY <1>0, <2>1, <2>5, <2>6, PutFacts
  <2> QED
    BY <1>1, <2>1, <2>4, <2>7 DEF CacheInv
<1>7. CASE PlanSearch(s)
  <2>1. UNCHANGED <<disk, earliest, cache, get, unseen>> /\ search[s].pc = "plan"
    BY Zenon, <1>7 DEF PlanSearch
  <2>2. search'[s].filter \in FiltersOf[s] /\ OnlyOf(s)
    BY <1>0, <1>7, <2>1, PlanSearchDoes
  <2>3. search'[s].plan \in Plans
    <3>1. search'[s].plan = Plan(search[s].filter, earliest, FromTimestamp(Now))
      BY <1>0, <1>7, <2>1, PlanSearchDoes
    <3>2. search[s].filter \in Filters /\ earliest \in Nat
      BY <1>0, <2>1 DEF Filters, DiskOK
    <3> QED
      BY <3>1, <3>2 DEF Plans
  <2>4. OpensRight(s)'
    <3>1. \A w \in WorkersOf[s] : search'[s].worker[w].pc # "opening"
      BY <1>0, <1>7, <2>1, PlanSearchDoes DEF OpensRight, SameWork
    <3>2. search'[s].pc = "fan"
      BY <1>0, <1>7, <2>1, PlanSearchDoes
    <3> QED
      BY <2>3, <3>1, <3>2 DEF OpensRight
  <2>5. SearchOK' /\ OpeningOK'
    BY <1>0, <2>1, <2>2, <2>4, OthersStay
  <2> QED
    BY <1>1, <1>2, <2>1, <2>5 DEF CacheInv
<1>8. CASE Finish(s)
  <2>1. UNCHANGED <<disk, earliest, cache, get, unseen>>
    BY Zenon, <1>8 DEF Finish
  <2>2. OpensRight(s)'
    BY <1>8, FinishDoes DEF OpensRight
  <2>3. search'[s].filter \in FiltersOf[s] /\ OnlyOf(s)
    BY <1>0, <1>8, FinishDoes DEF Working
  <2>4. SearchOK' /\ OpeningOK'
    BY <1>0, <2>1, <2>2, <2>3, OthersStay
  <2> QED
    BY <1>1, <1>2, <2>1, <2>4 DEF CacheInv
<1>9. ASSUME NEW w \in WorkersOf[s], Take(s, w)
      PROVE  CacheInv'
  <2> DEFINE r == search[s]
             p == search'[s]
             id == r.plan.shards[r.next]
             k == [pc |-> "opening", shard |-> id, snap |-> committed[id]]
  <2>1. UNCHANGED <<disk, earliest, snap, get, unseen>>
    BY Zenon, <1>9 DEF Take
  <2>2. /\ OnlyOf(s) /\ r.pc = "fan" /\ p.pc = "fan" /\ p.plan = r.plan /\ p.filter = r.filter
        /\ lru' = lru \/ (id \in Cached /\ lru' = Touch(lru, id))
        /\ \/ p.worker = r.worker
           \/ /\ id \in metas /\ Len(r.plan.shards) <= MaxOpen
              /\ p.worker = [r.worker EXCEPT ![w] = k]
    BY <1>9, TakeDoes DEF Working
  <2>3. DOMAIN r.worker = WorkersOf[s]
    BY <1>0 DEF Request, WorkerSet
  <2>4. /\ r.plan \in Plans
        /\ \A v \in WorkersOf[s] : r.worker[v].pc = "opening" =>
             /\ Len(r.plan.shards) <= MaxOpen /\ r.worker[v].shard \in metas
             /\ r.worker[v].snap \subseteq committed[r.worker[v].shard]
    BY <1>0, <2>2 DEF OpensRight
  <2>5. k.pc = "opening" /\ k.shard = id /\ k.snap = committed[id]
    OBVIOUS
  <2> HIDE DEF r, p, id, k
  <2>6. ASSUME NEW v \in WorkersOf[s], p.worker[v].pc = "opening"
        PROVE  /\ Len(r.plan.shards) <= MaxOpen /\ p.worker[v].shard \in metas
               /\ p.worker[v].snap \subseteq committed[p.worker[v].shard]
    <3>1. CASE p.worker[v] = r.worker[v]
      BY <2>4, <2>6, <3>1
    <3>2. CASE p.worker[v] # r.worker[v]
      <4>1. /\ id \in metas /\ Len(r.plan.shards) <= MaxOpen
            /\ p.worker[v] = k
        BY <2>2, <2>3, <3>2
      <4> QED
        BY <2>5, <4>1
    <3> QED
      BY <3>1, <3>2
  <2>7. OpensRight(s)'
    BY <2>1, <2>2, <2>4, <2>6 DEF OpensRight, p, disk
  <2>8. SearchOK' /\ OpeningOK'
    <3>1. search'[s].filter \in FiltersOf[s]
      BY <1>0, <2>2 DEF p, r
    <3> QED
      BY <1>0, <2>1, <2>2, <2>7, <3>1, OthersStay
  <2>9. CacheOK'
    BY <1>0, <2>1, <2>2, TouchKeeps
  <2> QED
    BY <1>1, <2>1, <2>8, <2>9 DEF CacheInv
<1>10. ASSUME NEW w \in WorkersOf[s], Put(s, w)
       PROVE  CacheInv'
  <2> DEFINE r == search[s]
             p == search'[s]
             k == r.worker[w]
  <2>1. UNCHANGED <<disk, earliest, get, unseen>> /\ PutReader(k.shard, k.snap)
    BY Zenon, <1>10 DEF Put
  <2>2. /\ OnlyOf(s) /\ r.pc = "fan" /\ p.pc = "fan" /\ p.plan = r.plan /\ p.filter = r.filter
        /\ p.worker = [r.worker EXCEPT ![w] = IdleWorker]
        /\ k.shard \in metas /\ k.snap \subseteq committed[k.shard]
    BY <1>10, PutDoes DEF Working
  <2>3. DOMAIN r.worker = WorkersOf[s]
    BY <1>0 DEF Request, WorkerSet
  <2>4. /\ r.plan \in Plans
        /\ \A v \in WorkersOf[s] : r.worker[v].pc = "opening" =>
             /\ Len(r.plan.shards) <= MaxOpen /\ r.worker[v].shard \in metas
             /\ r.worker[v].snap \subseteq committed[r.worker[v].shard]
    BY <1>0, <2>2 DEF OpensRight
  <2>5. k.shard \in Months
    BY <1>0, <2>2 DEF DiskOK
  <2>6. k.snap \in SUBSET Docs
    <3>1. committed[k.shard] \subseteq Docs
      BY <1>0, <2>5 DEF DiskOK
    <3> QED
      BY <2>2, <3>1
  <2> HIDE DEF r, p, k
  <2>7. CacheOK'
    BY <1>0, <2>1, <2>2, <2>5, <2>6, PutFacts
  <2>8. \A v \in WorkersOf[s] : p.worker[v].pc = "opening" => p.worker[v] = r.worker[v]
    BY <2>2, <2>3 DEF IdleWorker
  <2>9. OpensRight(s)'
    BY <2>1, <2>2, <2>4, <2>8 DEF OpensRight, p, disk
  <2>10. SearchOK' /\ OpeningOK'
    <3>1. search'[s].filter \in FiltersOf[s]
      BY <1>0, <2>2 DEF p, r
    <3> QED
      BY <1>0, <2>1, <2>2, <2>9, <3>1, OthersStay
  <2> QED
    BY <1>1, <2>1, <2>7, <2>10 DEF CacheInv
<1> QED
  BY <1>3, <1>4, <1>5, <1>6, <1>7, <1>8, <1>9, <1>10

\* A step of the rest of the node.
LEMMA NodeStep ==
    ASSUME CacheInv,
           \/ \E g \in Getters : BeginGet(g) \/ Look(g)
           \/ \E m \in Months : MakeDir(m) \/ MakeIndex(m) \/ Reload(m)
           \/ \E d \in Docs : Commit(d)
           \/ Stats
    PROVE  /\ CacheInv' /\ UNCHANGED <<lru, search>>
           /\ metas \subseteq metas'
           /\ \A m \in Months : committed[m] \subseteq committed'[m]
           /\ \A m \in Months : snap'[m] = snap[m] \/ snap'[m] = committed[m]
           /\ \A m \in dirs \ unseen : m \notin unseen'
<1>0. /\ DiskOK /\ CacheOK /\ SearchOK /\ OpeningOK
      /\ dirs \subseteq Months /\ metas \subseteq dirs /\ unseen \subseteq dirs
      /\ committed \in [Months -> SUBSET Docs] /\ snap \in [Months -> SUBSET Docs]
      /\ earliest \in Nat
  BY DEF CacheInv, DiskOK, CacheOK
<1>1. ASSUME UNCHANGED <<lru, search>>, metas \subseteq metas',
             \A m \in Months : committed[m] \subseteq committed'[m]
      PROVE  SearchOK' /\ OpeningOK'
  <2>1. SearchOK'
    BY <1>0, <1>1 DEF SearchOK
  <2>2. ASSUME NEW s \in Searchers
        PROVE  OpensRight(s)'
    <3>1. OpensRight(s) /\ search' = search /\ metas \subseteq Months
      BY <1>0, <1>1 DEF OpeningOK
    <3> QED
      BY <1>1, <3>1 DEF OpensRight
  <2> QED
    BY <2>1, <2>2 DEF OpeningOK
<1>2. ASSUME NEW g \in Getters, BeginGet(g)
      PROVE  /\ CacheInv' /\ UNCHANGED <<disk, cache, search>> /\ unseen' = {}
  <2>1. UNCHANGED <<disk, cache, search>> /\ unseen' = {} /\ earliest' = Discover(dirs)
    BY <1>2 DEF BeginGet
  <2>2. DiskOK'
    BY <1>0, <2>1, DiscoverFacts DEF DiskOK, disk
  <2>3. CacheOK'
    BY <1>0, <2>1 DEF CacheOK, disk, cache
  <2> QED
    BY <1>1, <2>1, <2>2, <2>3 DEF CacheInv, disk, cache
<1>3. ASSUME Stats
      PROVE  /\ CacheInv' /\ UNCHANGED <<disk, cache, search>> /\ unseen' = {}
  <2>1. UNCHANGED <<disk, cache, search>> /\ unseen' = {} /\ earliest' = Discover(dirs)
    BY <1>3 DEF Stats
  <2>2. DiskOK'
    BY <1>0, <2>1, DiscoverFacts DEF DiskOK, disk
  <2>3. CacheOK'
    BY <1>0, <2>1 DEF CacheOK, disk, cache
  <2> QED
    BY <1>1, <2>1, <2>2, <2>3 DEF CacheInv, disk, cache
<1>4. ASSUME NEW g \in Getters, Look(g)
      PROVE  CacheInv' /\ UNCHANGED <<disk, cache, search, unseen>>
  <2>1. UNCHANGED <<disk, earliest, cache, search, unseen>>
    BY Zenon, <1>4 DEF Look
  <2>2. DiskOK'
    BY <1>0, <2>1 DEF DiskOK, disk
  <2>3. CacheOK'
    BY <1>0, <2>1 DEF CacheOK, disk, cache
  <2> QED
    BY <1>1, <2>1, <2>2, <2>3 DEF CacheInv, disk, cache
<1>5. ASSUME NEW m \in Months, MakeDir(m)
      PROVE  /\ CacheInv' /\ UNCHANGED <<metas, committed, cache, search>>
             /\ unseen' = unseen \cup {m} /\ m \notin dirs
  <2>1. /\ UNCHANGED <<metas, committed, earliest, cache, search>> /\ m \notin dirs
        /\ dirs' = dirs \cup {m} /\ unseen' = unseen \cup {m}
    BY <1>5 DEF MakeDir
  <2>2. DiskOK'
    BY <1>0, <2>1 DEF DiskOK
  <2>3. CacheOK'
    BY <1>0, <2>1 DEF CacheOK, cache
  <2> QED
    BY <1>1, <2>1, <2>2, <2>3 DEF CacheInv, cache
<1>6. ASSUME NEW m \in Months, MakeIndex(m)
      PROVE  /\ CacheInv' /\ UNCHANGED <<committed, cache, search, unseen>>
             /\ metas \subseteq metas'
  <2>1. /\ UNCHANGED <<dirs, committed, earliest, cache, search, unseen>> /\ m \in dirs
        /\ metas' = metas \cup {m}
    BY <1>6 DEF MakeIndex
  <2>2. DiskOK'
    BY <1>0, <2>1 DEF DiskOK
  <2>3. CacheOK'
    BY <1>0, <2>1 DEF CacheOK, cache
  <2> QED
    BY <1>1, <2>1, <2>2, <2>3 DEF CacheInv, cache
<1>7. ASSUME NEW m \in Months, Reload(m)
      PROVE  /\ CacheInv' /\ UNCHANGED <<disk, lru, search, unseen>>
             /\ \A x \in Months : snap'[x] = snap[x] \/ snap'[x] = committed[x]
  <2>1. /\ UNCHANGED <<disk, earliest, lru, search, unseen>>
        /\ snap' = [snap EXCEPT ![m] = committed[m]]
    BY <1>7 DEF Reload
  <2>2. DiskOK'
    BY <1>0, <2>1 DEF DiskOK, disk
  <2>3. /\ snap' \in [Months -> SUBSET Docs]
        /\ \A x \in Months : snap'[x] = snap[x] \/ snap'[x] = committed[x]
    BY <1>0, <2>1
  <2>4. CacheOK'
    BY <1>0, <2>1, <2>3 DEF CacheOK, disk
  <2> QED
    BY <1>1, <2>1, <2>2, <2>3, <2>4 DEF CacheInv, disk
<1>8. ASSUME NEW d \in Docs, Commit(d)
      PROVE  /\ CacheInv' /\ UNCHANGED <<metas, cache, search, unseen>>
             /\ \A x \in Months : committed[x] \subseteq committed'[x]
  <2> DEFINE m == MonthOf(d)
  <2>1. /\ UNCHANGED <<dirs, metas, earliest, cache, search, unseen>> /\ m \in metas
        /\ committed' = [committed EXCEPT ![m] = @ \cup {d}]
    BY <1>8 DEF Commit
  <2>2. committed' \in [Months -> SUBSET Docs]
        /\ \A x \in Months : committed'[x] = IF x = m THEN committed[x] \cup {d} ELSE committed[x]
    BY <1>0, <2>1
  <2>3. \A x \in Months : \A c \in committed'[x] : MonthOf(c) = x /\ x \in metas
    BY <1>0, <2>1, <2>2 DEF DiskOK
  <2> HIDE DEF m
  <2>4. DiskOK'
    BY <1>0, <2>1, <2>2, <2>3 DEF DiskOK
  <2>5. CacheOK'
    BY <1>0, <2>1, <2>2 DEF CacheOK, cache
  <2> QED
    BY <1>1, <2>1, <2>2, <2>4, <2>5 DEF CacheInv, cache
<1> QED
  BY <1>2, <1>3, <1>4, <1>5, <1>6, <1>7, <1>8 DEF disk, cache

\* What every step keeps.
LEMMA CacheStep == CacheInv /\ [Next]_vars => CacheInv'
<1> SUFFICES ASSUME CacheInv, [Next]_vars PROVE CacheInv'
  OBVIOUS
<1>1. CASE UNCHANGED vars
  <2>1. UNCHANGED <<disk, earliest, cache, search, get, unseen>>
    BY <1>1 DEF vars
  <2>2. DiskOK' /\ CacheOK' /\ SearchOK'
    BY <2>1 DEF CacheInv, DiskOK, CacheOK, SearchOK, disk, cache
  <2>3. OpeningOK'
    BY <2>1 DEF CacheInv, OpeningOK, OpensRight, disk
  <2> QED
    BY <2>2, <2>3 DEF CacheInv
<1>2. CASE Next
  BY <1>2, SearchStep, NodeStep DEF Next
<1> QED
  BY <1>1, <1>2

\* Whatever threads do with readers, the cache and what is being opened for it
\* stay right (registry.rs: shard, put, evict).
THEOREM CacheStays == Spec => []CacheInv
<1>1. Init => CacheInv
  BY CacheInit
<1>2. CacheInv /\ [Next]_vars => CacheInv'
  BY CacheStep
<1> QED
  BY <1>1, <1>2, PTL DEF Spec

\* Two threads that open a reader at the same time and put it into the cache
\* one after the other never make it larger than MAX_OPEN_SHARD_READERS, nor
\* hold two readers of a shard.
THEOREM CacheBounded == Spec => []CacheIsBounded
<1>1. CacheInv => CacheIsBounded
  <2> SUFFICES ASSUME CacheInv PROVE CacheIsBounded
    OBVIOUS
  <2>1. lru \in Seq(Months) /\ IsInjective(lru) /\ Len(lru) <= MaxOpen
    BY DEF CacheInv, CacheOK
  <2>2. Cardinality(Cached) = Len(lru)
    BY <2>1, InjectiveCount DEF Cached
  <2> QED
    BY <2>1, <2>2 DEF CacheIsBounded
<1> QED
  BY <1>1, CacheStays, PTL

\* The action WideScanEvictsNothing allows.
EvictsForNarrow ==
    \A m \in Cached \ ToSet(lru') :
       \E s \in Searchers :
          /\ search'[s] # search[s]
          /\ search[s].pc = "insert" \/ Len(search[s].plan.shards) <= MaxOpen

\* A reader leaves the cache only for an anchor or for a plan that fits into
\* it: a scan of every shard never evicts one (registry.rs: shard_uncached).
THEOREM WideScanKeepsCache == Spec => WideScanEvictsNothing
<1>1. ASSUME CacheInv, [Next]_vars
      PROVE  EvictsForNarrow
  <2>1. ASSUME Cached \subseteq ToSet(lru')
        PROVE  EvictsForNarrow
    BY <2>1 DEF EvictsForNarrow
  <2>2. ASSUME UNCHANGED lru
        PROVE  EvictsForNarrow
    BY <2>1, <2>2 DEF Cached
  <2>3. /\ CacheOK /\ DiskOK /\ SearchOK
    BY <1>1 DEF CacheInv
  <2>4. ASSUME NEW s \in Searchers, \/ Begin(s) \/ Anchor(s) \/ PlanSearch(s) \/ Finish(s)
        PROVE  EvictsForNarrow
    <3>1. UNCHANGED cache
      <4>1. CASE Begin(s)
        BY Zenon, <4>1 DEF Begin
      <4>2. CASE Anchor(s)
        BY Zenon, <4>2 DEF Anchor
      <4>3. CASE PlanSearch(s)
        BY Zenon, <4>3 DEF PlanSearch
      <4>4. CASE Finish(s)
        BY Zenon, <4>4 DEF Finish
      <4> QED
        BY <2>4, <4>1, <4>2, <4>3, <4>4
    <3> QED
      BY <2>2, <3>1 DEF cache
  <2>5. ASSUME NEW s \in Searchers, Rediscover(s)
        PROVE  EvictsForNarrow
    <3>1. UNCHANGED <<disk, snap>> /\ (lru' = lru \/ \E id \in Cached : lru' = Touch(lru, id))
      BY <2>5 DEF Rediscover, cache
    <3> QED
      BY <2>1, <2>3, <3>1, TouchKeeps DEF Cached
  <2>6. ASSUME NEW s \in Searchers, InsertAnchor(s)
        PROVE  EvictsForNarrow
    BY <2>3, <2>6, InsertAnchorDoes DEF EvictsForNarrow
  <2>7. ASSUME NEW s \in Searchers, NEW w \in WorkersOf[s], Take(s, w)
        PROVE  EvictsForNarrow
    <3>1. UNCHANGED <<disk, snap>>
      BY Zenon, <2>7 DEF Take
    <3>2. lru' = lru \/ \E id \in Cached : lru' = Touch(lru, id)
      BY <1>1, <2>7, TakeDoes
    <3> QED
      BY <2>1, <2>3, <3>1, <3>2, TouchKeeps DEF Cached
  <2>8. ASSUME NEW s \in Searchers, NEW w \in WorkersOf[s], Put(s, w)
        PROVE  EvictsForNarrow
    <3>1. /\ search[s].worker[w].pc = "opening" /\ Len(search[s].plan.shards) <= MaxOpen
          /\ search'[s].worker = [search[s].worker EXCEPT ![w] = IdleWorker]
      BY <1>1, <2>8, PutDoes
    <3>2. DOMAIN search[s].worker = WorkersOf[s]
      BY <2>3 DEF SearchOK, Request, WorkerSet
    <3>3. search'[s] # search[s]
      BY <3>1, <3>2 DEF IdleWorker
    <3> QED
      BY <3>1, <3>3 DEF EvictsForNarrow
  <2>9. CASE UNCHANGED vars
    BY <2>2, <2>9 DEF vars, cache
  <2>10. ASSUME \/ \E g \in Getters : BeginGet(g) \/ Look(g)
                \/ \E m \in Months : MakeDir(m) \/ MakeIndex(m) \/ Reload(m)
                \/ \E d \in Docs : Commit(d)
                \/ Stats
         PROVE  EvictsForNarrow
    BY <1>1, <2>2, <2>10, NodeStep
  <2> QED
    BY <1>1, <2>4, <2>5, <2>6, <2>7, <2>8, <2>9, <2>10 DEF Next
<1>2. WideScanEvictsNothing <=> [][EvictsForNarrow]_vars
  BY PTL DEF WideScanEvictsNothing, EvictsForNarrow
<1> QED
  BY <1>1, <1>2, CacheStays, PTL DEF Spec

-----------------------------------------------------------------------------
(* Settled documents stay settled.                                         *)

\* What a request r of s is opening of d's month holds d.
Holds(r, s, d) ==
    LET m == MonthOf(d)
    IN /\ r.pc = "insert" /\ r.known = m => d \in r.anchor
       /\ \A w \in WorkersOf[s] :
             r.worker[w].pc = "opening" /\ r.worker[w].shard = m => d \in r.worker[w].snap
HasIt(s, d) == Holds(search[s], s, d)

\* IsSettled, a quantifier for each part of Opening.
SettledAt(d) ==
    LET m == MonthOf(d)
    IN /\ m \in Months /\ d \in committed[m]
       /\ m \in Cached => d \in snap[m]
       /\ \A s \in Searchers : HasIt(s, d)

\* Opening, of any state of the requests.
OpeningIn(sch) ==
    {<<sch[s].known, sch[s].anchor>> : s \in {t \in Searchers : sch[t].pc = "insert"}}
      \cup {<<sch[p[1]].worker[p[2]].shard, sch[p[1]].worker[p[2]].snap>> :
               p \in {q \in Threads : sch[q[1]].worker[q[2]].pc = "opening"}}

\* The openers of a month hold d if each request's do.
LEMMA OpenersHold ==
    ASSUME NEW sch, NEW d
    PROVE  (\A o \in OpeningIn(sch) : o[1] = MonthOf(d) => d \in o[2]) <=> \A s \in Searchers : Holds(sch[s], s, d)
<1> DEFINE m == MonthOf(d)
           O == OpeningIn(sch)
<1>1. ASSUME NEW o, o \in O
      PROVE  \E s \in Searchers :
                \/ sch[s].pc = "insert" /\ o = <<sch[s].known, sch[s].anchor>>
                \/ \E w \in WorkersOf[s] : /\ sch[s].worker[w].pc = "opening"
                                           /\ o = <<sch[s].worker[w].shard, sch[s].worker[w].snap>>
  BY <1>1 DEF OpeningIn, Threads
<1>2. ASSUME NEW s \in Searchers, sch[s].pc = "insert"
      PROVE  <<sch[s].known, sch[s].anchor>> \in O
  BY <1>2 DEF OpeningIn
<1>3. ASSUME NEW s \in Searchers, NEW w \in WorkersOf[s], sch[s].worker[w].pc = "opening"
      PROVE  <<sch[s].worker[w].shard, sch[s].worker[w].snap>> \in O
  <2>1. <<s, w>> \in Threads
    BY DEF Threads
  <2>2. <<s, w>> \in {q \in Threads : sch[q[1]].worker[q[2]].pc = "opening"}
    BY <1>3, <2>1
  <2> QED
    BY <2>2 DEF OpeningIn
<1> HIDE DEF m, O
<1>4. ASSUME \A s \in Searchers : Holds(sch[s], s, d), NEW o \in O, o[1] = m
      PROVE  d \in o[2]
  <2>1. PICK s \in Searchers :
           \/ sch[s].pc = "insert" /\ o = <<sch[s].known, sch[s].anchor>>
           \/ \E w \in WorkersOf[s] : /\ sch[s].worker[w].pc = "opening"
                                      /\ o = <<sch[s].worker[w].shard, sch[s].worker[w].snap>>
    BY <1>1
  <2>2. Holds(sch[s], s, d)
    BY <1>4
  <2> QED
    BY <1>4, <2>1, <2>2 DEF Holds, m
<1>5. ASSUME \A o \in O : o[1] = m => d \in o[2], NEW s \in Searchers
      PROVE  Holds(sch[s], s, d)
  <2>1. ASSUME sch[s].pc = "insert", sch[s].known = m
        PROVE  d \in sch[s].anchor
    <3>1. <<sch[s].known, sch[s].anchor>> \in O
      BY <1>2, <2>1
    <3> QED
      BY <1>5, <2>1, <3>1
  <2>2. ASSUME NEW w \in WorkersOf[s], sch[s].worker[w].pc = "opening", sch[s].worker[w].shard = m
        PROVE  d \in sch[s].worker[w].snap
    <3>1. <<sch[s].worker[w].shard, sch[s].worker[w].snap>> \in O
      BY <1>3, <2>2
    <3> QED
      BY <1>5, <2>2, <3>1
  <2> QED
    BY <2>1, <2>2 DEF Holds, m
<1> QED
  BY <1>4, <1>5 DEF m, O

\* SettledAt is IsSettled.
LEMMA SettledIs ==
    ASSUME NEW d
    PROVE  /\ IsSettled(d) <=> SettledAt(d)
           /\ IsSettled(d)' <=> SettledAt(d)'
<1>1. Opening = OpeningIn(search) /\ Opening' = OpeningIn(search')
  BY DEF Opening, OpeningIn
<1>2. (\A o \in Opening : o[1] = MonthOf(d) => d \in o[2]) <=> \A s \in Searchers : HasIt(s, d)
  BY <1>1, OpenersHold DEF HasIt
<1>3. (\A o \in Opening' : o[1] = MonthOf(d) => d \in o[2]) <=> \A s \in Searchers : HasIt(s, d)'
  <2>1. \A s \in Searchers : HasIt(s, d)' <=> Holds(search'[s], s, d)
    BY DEF HasIt, Holds
  <2>2. (\A o \in OpeningIn(search') : o[1] = MonthOf(d) => d \in o[2])
           <=> \A s \in Searchers : Holds(search'[s], s, d)
    BY OpenersHold
  <2> QED
    BY <1>1, <2>1, <2>2
<1> QED
  BY <1>2, <1>3 DEF IsSettled, SettledAt

\* A step of s leaves d settled if the cache and s do.
LEMMA SettledByOne ==
    ASSUME NEW d, SettledAt(d), NEW s \in Searchers, OnlyOf(s), UNCHANGED disk,
           MonthOf(d) \in Cached' => d \in snap'[MonthOf(d)],
           HasIt(s, d)'
    PROVE  SettledAt(d)'
<1>1. ASSUME NEW t \in Searchers \ {s}
      PROVE  HasIt(t, d)'
  <2>1. search'[t] = search[t] /\ HasIt(t, d)
    BY DEF OnlyOf, SettledAt
  <2> QED
    BY <2>1 DEF HasIt, Holds
<1> QED
  BY <1>1 DEF SettledAt, disk

\* What is put into the cache for d's month holds d.
LEMMA SettledPut ==
    ASSUME CacheInv, NEW d, SettledAt(d), NEW k \in Months, NEW sn \in SUBSET Docs,
           sn \subseteq committed[k], PutReader(k, sn), UNCHANGED disk,
           k = MonthOf(d) => d \in sn
    PROVE  /\ MonthOf(d) \in Cached' => d \in snap'[MonthOf(d)]
           /\ k = MonthOf(d) => d \in Preferred(k, sn)
<1>1. /\ ToSet(lru') \subseteq Cached \cup {k}
      /\ \A x \in ToSet(lru') : snap'[x] = IF x = k /\ k \notin Cached THEN sn ELSE snap[x]
  BY PutFacts DEF CacheInv
<1> QED
  BY <1>1 DEF SettledAt, Cached, Preferred

\* A document that every reader has, every reader keeps: no step puts an older
\* snapshot of its shard into the cache, or into a request.
LEMMA SettledStays ==
    ASSUME CacheInv, [Next]_vars, NEW d, SettledAt(d)
    PROVE  SettledAt(d)'
<1> DEFINE m == MonthOf(d)
<1>0. /\ DiskOK /\ CacheOK /\ SearchOK /\ OpeningOK
      /\ m \in Months /\ d \in committed[m] /\ (m \in Cached => d \in snap[m])
      /\ \A s \in Searchers : HasIt(s, d)
      /\ snap \in [Months -> SUBSET Docs] /\ metas \subseteq Months
  BY DEF CacheInv, SettledAt, CacheOK, DiskOK
<1> HIDE DEF m
<1>1. ASSUME NEW s \in Searchers, UNCHANGED <<disk, snap>>, OnlyOf(s),
             lru' = lru \/ \E id \in Cached : lru' = Touch(lru, id), HasIt(s, d)'
      PROVE  SettledAt(d)'
  <2>1. m \in Cached' => d \in snap'[m]
    BY <1>0, <1>1, TouchKeeps
  <2> QED
    BY <1>1, <2>1, SettledByOne DEF m
<1>2. CASE UNCHANGED vars
  BY <1>2 DEF SettledAt, HasIt, Holds, Cached, vars, disk, cache
<1>3. ASSUME NEW s \in Searchers, Begin(s)
      PROVE  SettledAt(d)'
  <2>1. UNCHANGED <<disk, cache>>
    BY Zenon, <1>3 DEF Begin
  <2>2. HasIt(s, d)'
    BY <1>0, <1>3, BeginDoes DEF HasIt, Holds, SameWork
  <2> QED
    BY <1>0, <1>1, <1>3, <2>1, <2>2, BeginDoes DEF cache
<1>4. ASSUME NEW s \in Searchers, Anchor(s)
      PROVE  SettledAt(d)'
  <2>1. UNCHANGED <<disk, cache>>
    BY Zenon, <1>4 DEF Anchor
  <2>2. HasIt(s, d)'
    BY <1>0, <1>4, AnchorDoes DEF HasIt, Holds, SameWork, m
  <2> QED
    BY <1>0, <1>1, <1>4, <2>1, <2>2, AnchorDoes DEF cache
<1>5. ASSUME NEW s \in Searchers, Rediscover(s)
      PROVE  SettledAt(d)'
  <2>1. UNCHANGED <<disk, snap>> /\ (lru' = lru \/ \E id \in Cached : lru' = Touch(lru, id))
    BY <1>5 DEF Rediscover, cache
  <2>2. HasIt(s, d)'
    BY <1>0, <1>5, RediscoverDoes DEF HasIt, Holds, SameWork, m
  <2> QED
    BY <1>0, <1>1, <1>5, <2>1, <2>2, RediscoverDoes
<1>6. ASSUME NEW s \in Searchers, InsertAnchor(s)
      PROVE  SettledAt(d)'
  <2>1. /\ UNCHANGED disk /\ search[s].pc = "insert"
        /\ PutReader(search[s].known, search[s].anchor)
    BY Zenon, <1>6 DEF InsertAnchor
  <2>2. HasIt(s, d)'
    BY <1>0, <1>6, InsertAnchorDoes DEF HasIt, Holds, SameWork
  <2>3. /\ search[s].known \in Months /\ search[s].anchor \subseteq committed[search[s].known]
        /\ search[s].anchor \in SUBSET Docs
    BY <1>0, <2>1 DEF OpeningOK, OpensRight, DiskOK
  <2>4. search[s].known = m => d \in search[s].anchor
    BY <1>0, <2>1 DEF HasIt, Holds, m
  <2>5. m \in Cached' => d \in snap'[m]
    BY <2>1, <2>3, <2>4, SettledPut DEF m
  <2> QED
    BY <1>0, <1>6, <2>1, <2>2, <2>5, SettledByOne, InsertAnchorDoes DEF m
<1>7. ASSUME NEW s \in Searchers, PlanSearch(s)
      PROVE  SettledAt(d)'
  <2>1. UNCHANGED <<disk, cache>> /\ search[s].pc = "plan"
    BY Zenon, <1>7 DEF PlanSearch
  <2>2. search[s].filter \in FiltersOf[s]
    BY <1>0, <2>1 DEF SearchOK
  <2>3. HasIt(s, d)'
    BY <1>0, <1>7, <2>2, PlanSearchDoes DEF HasIt, Holds, SameWork
  <2> QED
    BY <1>0, <1>1, <1>7, <2>1, <2>2, <2>3, PlanSearchDoes DEF cache
<1>8. ASSUME NEW s \in Searchers, Finish(s)
      PROVE  SettledAt(d)'
  <2>1. UNCHANGED <<disk, cache>>
    BY Zenon, <1>8 DEF Finish
  <2>2. HasIt(s, d)'
    BY <1>8, FinishDoes DEF HasIt, Holds
  <2> QED
    BY <1>0, <1>1, <1>8, <2>1, <2>2, FinishDoes DEF cache
<1>9. ASSUME NEW s \in Searchers, NEW w \in WorkersOf[s], Take(s, w)
      PROVE  SettledAt(d)'
  <2> DEFINE r == search[s]
             p == search'[s]
             id == r.plan.shards[r.next]
             k == [pc |-> "opening", shard |-> id, snap |-> committed[id]]
  <2>1. UNCHANGED <<disk, snap>>
    BY Zenon, <1>9 DEF Take
  <2>2. /\ OnlyOf(s) /\ p.pc = "fan"
        /\ lru' = lru \/ (id \in Cached /\ lru' = Touch(lru, id))
        /\ p.worker = r.worker \/ p.worker = [r.worker EXCEPT ![w] = k]
    BY <1>9, TakeDoes
  <2>3. DOMAIN r.worker = WorkersOf[s]
    BY <1>0 DEF SearchOK, Request, WorkerSet
  <2>4. k.shard = m => d \in k.snap
    BY <1>0
  <2>5. \A v \in WorkersOf[s] : r.worker[v].pc = "opening" /\ r.worker[v].shard = m => d \in r.worker[v].snap
    BY <1>0 DEF HasIt, Holds, m
  <2> HIDE DEF r, p, id, k
  <2>6. \A v \in WorkersOf[s] : p.worker[v] = r.worker[v] \/ p.worker[v] = k
    BY <2>2, <2>3
  <2>7. HasIt(s, d)'
    BY <2>2, <2>4, <2>5, <2>6 DEF HasIt, Holds, p, m
  <2>8. lru' = lru \/ \E x \in Cached : lru' = Touch(lru, x)
    BY <2>2
  <2> QED
    BY <1>1, <2>1, <2>2, <2>7, <2>8
<1>10. ASSUME NEW s \in Searchers, NEW w \in WorkersOf[s], Put(s, w)
       PROVE  SettledAt(d)'
  <2> DEFINE r == search[s]
             p == search'[s]
             k == r.worker[w]
  <2>1. UNCHANGED disk /\ PutReader(k.shard, k.snap)
    BY Zenon, <1>10 DEF Put
  <2>2. /\ OnlyOf(s) /\ p.pc = "fan" /\ p.worker = [r.worker EXCEPT ![w] = IdleWorker]
        /\ k.pc = "opening" /\ k.shard \in metas /\ k.snap \subseteq committed[k.shard]
    BY <1>10, PutDoes
  <2>3. DOMAIN r.worker = WorkersOf[s]
    BY <1>0 DEF SearchOK, Request, WorkerSet
  <2>4. \A v \in WorkersOf[s] : r.worker[v].pc = "opening" /\ r.worker[v].shard = m => d \in r.worker[v].snap
    BY <1>0 DEF HasIt, Holds, m
  <2>5. k.shard = m => d \in k.snap
    BY <2>2, <2>4
  <2>6. k.shard \in Months /\ k.snap \in SUBSET Docs
    BY <1>0, <2>2 DEF DiskOK
  <2> HIDE DEF r, p, k
  <2>7. m \in Cached' => d \in snap'[m]
    BY <2>1, <2>2, <2>5, <2>6, SettledPut DEF m
  <2>8. \A v \in WorkersOf[s] : p.worker[v].pc = "opening" => p.worker[v] = r.worker[v]
    BY <2>2, <2>3 DEF IdleWorker
  <2>9. HasIt(s, d)'
    BY <2>2, <2>4, <2>8 DEF HasIt, Holds, p, m
  <2> QED
    BY <2>1, <2>2, <2>7, <2>9, SettledByOne DEF m
<1>11. ASSUME \/ \E g \in Getters : BeginGet(g) \/ Look(g)
              \/ \E x \in Months : MakeDir(x) \/ MakeIndex(x) \/ Reload(x)
              \/ \E e \in Docs : Commit(e)
              \/ Stats
       PROVE  SettledAt(d)'
  <2>1. /\ UNCHANGED <<lru, search>>
        /\ \A x \in Months : committed[x] \subseteq committed'[x]
        /\ \A x \in Months : snap'[x] = snap[x] \/ snap'[x] = committed[x]
    BY <1>11, NodeStep
  <2>2. ASSUME NEW s \in Searchers
        PROVE  HasIt(s, d)'
    BY <1>0, <2>1 DEF HasIt, Holds
  <2>3. Cached' = Cached
    BY <2>1 DEF Cached
  <2> QED
    BY <1>0, <2>1, <2>2, <2>3 DEF SettledAt, m
<1> QED
  BY <1>2, <1>3, <1>4, <1>5, <1>6, <1>7, <1>8, <1>9, <1>10, <1>11 DEF Next

-----------------------------------------------------------------------------
(* Lookups.                                                                *)

\* A lookup asks every shard that is on disk or open.
LEMMA OrderCovers ==
    ASSUME DiskOK, CacheOK
    PROVE  LookupOrder \in Seq(Nat) /\ dirs \subseteq ToSet(LookupOrder)
<1> DEFINE A == AllShardIds \cap Cached
           B == AllShardIds \ Cached
           a == Descending(A)
           b == Descending(B)
<1>1. AllShardIds \in SUBSET Nat /\ IsFiniteSet(AllShardIds)
  <2>1. AllShardIds \in SUBSET Months
    BY CachedMonths DEF AllShardIds, DiskOK
  <2>2. Months \in SUBSET Nat /\ IsFiniteSet(Months)
    BY RegistryConstants
  <2> QED
    BY <2>1, <2>2, FS_Subset
<1>2. A \in SUBSET Nat /\ IsFiniteSet(A) /\ B \in SUBSET Nat /\ IsFiniteSet(B)
  BY <1>1, FS_Subset
<1>3. dirs \subseteq A \cup B
  BY DEF AllShardIds
<1>4. LookupOrder = a \o b
  BY DEF LookupOrder
<1> HIDE DEF A, B
<1>5. a \in Seq(A) /\ ToSet(a) = A /\ b \in Seq(B) /\ ToSet(b) = B
  BY <1>2, DescendingCovers
<1> HIDE DEF a, b
<1>6. a \in Seq(Nat) /\ b \in Seq(Nat)
  BY <1>2, <1>5, SeqMonotonic
<1> DEFINE ab == a \o b
<1>7. /\ ab \in Seq(Nat) /\ Len(ab) = Len(a) + Len(b)
      /\ \A i \in 1..(Len(a) + Len(b)) : ab[i] = IF i <= Len(a) THEN a[i] ELSE b[i - Len(a)]
  BY <1>6, ConcatProperties
<1> HIDE DEF ab
<1>8. /\ Len(a) \in Nat /\ Len(b) \in Nat /\ DOMAIN a = 1..Len(a) /\ DOMAIN b = 1..Len(b)
      /\ DOMAIN ab = 1..(Len(a) + Len(b))
  BY <1>6, <1>7, LenProperties
<1>9. A \subseteq ToSet(ab)
  <2> SUFFICES ASSUME NEW x \in A PROVE x \in ToSet(ab)
    OBVIOUS
  <2>1. PICK i \in 1..Len(a) : a[i] = x
    BY <1>5, <1>8 DEF ToSet
  <2>2. i \in 1..(Len(a) + Len(b)) /\ ab[i] = x
    BY <1>7, <1>8, <2>1
  <2> QED
    BY <1>8, <2>2 DEF ToSet
<1>10. B \subseteq ToSet(ab)
  <2> SUFFICES ASSUME NEW x \in B PROVE x \in ToSet(ab)
    OBVIOUS
  <2>1. PICK i \in 1..Len(b) : b[i] = x
    BY <1>5, <1>8 DEF ToSet
  <2> DEFINE j == Len(a) + i
  <2>2. j \in 1..(Len(a) + Len(b)) /\ ~(j <= Len(a)) /\ j - Len(a) = i
    BY <1>8
  <2>3. ab[j] = x
    BY <1>7, <2>1, <2>2
  <2> QED
    BY <1>8, <2>2, <2>3 DEF ToSet
<1> QED
  BY <1>3, <1>4, <1>7, <1>9, <1>10 DEF ab

Lookup == {"pc", "id", "order", "found", "due"}

\* A lookup that owes its caller a document has yet to ask the document's shard.
LookRight(g) ==
    LET k == get[g]
    IN /\ DOMAIN k = Lookup
       /\ k.pc = "look" => k.order \in Seq(Nat)
       /\ k.pc = "look" /\ k.due => \E d : k.id = {d} /\ SettledAt(d) /\ MonthOf(d) \in ToSet(k.order)
       /\ k.pc = "done" /\ k.due => k.found

GetInv == DOMAIN get = Getters /\ \A g \in Getters : LookRight(g)

\* The rest of a list holds what is not its head.
LEMMA TailFacts ==
    ASSUME NEW q \in Seq(Nat), q # <<>>
    PROVE  Tail(q) \in Seq(Nat) /\ \A x \in ToSet(q) : x = Head(q) \/ x \in ToSet(Tail(q))
<1>1. Tail(q) \in Seq(Nat) /\ Len(Tail(q)) = Len(q) - 1 /\ Len(q) \in Nat /\ Len(q) >= 1
  OBVIOUS
<1>2. DOMAIN q = 1..Len(q) /\ DOMAIN Tail(q) = 1..(Len(q) - 1)
  BY <1>1
<1>3. \A i \in 1..(Len(q) - 1) : Tail(q)[i] = q[i + 1]
  OBVIOUS
<1>4. ASSUME NEW x \in ToSet(q), x # Head(q)
      PROVE  x \in ToSet(Tail(q))
  <2>1. PICK i \in 1..Len(q) : q[i] = x
    BY <1>2 DEF ToSet
  <2>2. i # 1
    BY <1>4, <2>1
  <2>3. i - 1 \in 1..(Len(q) - 1) /\ (i - 1) + 1 = i
    BY <1>1, <2>2
  <2>4. Tail(q)[i - 1] = x
    BY <1>3, <2>1, <2>3
  <2> QED
    BY <1>2, <2>3, <2>4 DEF ToSet
<1> QED
  BY <1>1, <1>4

\* No lookup owes anything when the server starts.
LEMMA GetInit == Init => GetInv
  BY DEF Init, GetInv, LookRight, Lookup, NoGet

\* A lookup that begins asks the document's shard, if its document is settled.
LEMMA BeginGetKeeps ==
    ASSUME CacheInv, [Next]_vars, GetInv, NEW g \in Getters, BeginGet(g)
    PROVE  GetInv'
<1>1. PICK d \in Wanted :
         get' = [get EXCEPT ![g] = [pc |-> "look", id |-> Some(d), order |-> LookupOrder,
                                    found |-> FALSE, due |-> IsSettled(d)]]
  BY Zenon DEF BeginGet
<1> DEFINE k == [pc |-> "look", id |-> Some(d), order |-> LookupOrder,
                 found |-> FALSE, due |-> IsSettled(d)]
           o == LookupOrder
           i == Some(d)
<1>2. o \in Seq(Nat) /\ dirs \subseteq ToSet(o) /\ i = {d}
  BY OrderCovers DEF CacheInv, Some
<1>3. k.pc = "look" /\ k.id = i /\ k.order = o /\ (k.due <=> IsSettled(d)) /\ DOMAIN k = Lookup
  BY DEF Lookup
<1>4. get'[g] = k /\ DOMAIN get' = Getters /\ \A h \in Getters \ {g} : get'[h] = get[h]
  BY <1>1 DEF GetInv
<1> HIDE DEF k, o, i
<1>5. ASSUME k.due
      PROVE  SettledAt(d) /\ MonthOf(d) \in ToSet(o)
  <2>1. SettledAt(d)
    BY <1>3, <1>5, SettledIs
  <2>2. MonthOf(d) \in dirs
    BY <2>1 DEF CacheInv, DiskOK, SettledAt
  <2> QED
    BY <1>2, <2>1, <2>2
<1>6. LookRight(g)'
  <2>1. k.due => SettledAt(d)' /\ MonthOf(d) \in ToSet(o)
    BY <1>5, SettledStays
  <2> QED
    BY <1>2, <1>3, <1>4, <2>1 DEF LookRight
<1>7. ASSUME NEW h \in Getters \ {g}
      PROVE  LookRight(h)'
  <2>1. get'[h] = get[h] /\ LookRight(h)
    BY <1>4 DEF GetInv
  <2>2. \A e : SettledAt(e) => SettledAt(e)'
    BY SettledStays
  <2> QED
    BY <2>1, <2>2 DEF LookRight
<1> QED
  BY <1>4, <1>6, <1>7 DEF GetInv

\* A lookup that asks the document's shard finds it there, whether a cached
\* reader or the shard itself answers.
LEMMA LookKeeps ==
    ASSUME CacheInv, [Next]_vars, GetInv, NEW g \in Getters, Look(g)
    PROVE  GetInv'
<1> DEFINE k == get[g]
           p == get'[g]
           id == Head(k.order)
           sn == IF id \in Cached THEN snap[id] ELSE IF id \in metas THEN committed[id] ELSE {}
<1>1. /\ k.pc = "look"
      /\ IF k.order = <<>> THEN get' = [get EXCEPT ![g].pc = "done"]
         ELSE IF k.id \subseteq sn THEN get' = [get EXCEPT ![g].pc = "done", ![g].found = TRUE,
                                                           ![g].order = <<>>]
         ELSE get' = [get EXCEPT ![g].order = Tail(@)]
  BY Zenon DEF Look
<1>2. /\ DOMAIN k = Lookup /\ k.order \in Seq(Nat)
      /\ k.due => \E d : k.id = {d} /\ SettledAt(d) /\ MonthOf(d) \in ToSet(k.order)
  BY <1>1 DEF GetInv, LookRight
<1>3. \A e : SettledAt(e) => SettledAt(e)'
  BY SettledStays
<1>4. DOMAIN get' = Getters /\ \A h \in Getters \ {g} : get'[h] = get[h]
  BY <1>1 DEF GetInv
<1>5. ASSUME NEW d, SettledAt(d), MonthOf(d) = id
      PROVE  d \in sn
  BY <1>5 DEF SettledAt, CacheInv, DiskOK
<1>6. LookRight(g)'
  <2>1. CASE k.order = <<>>
    <3>1. p = [k EXCEPT !.pc = "done"]
      BY <1>1, <2>1 DEF GetInv
    <3>2. ~k.due
      BY <1>2, <2>1 DEF ToSet
    <3> HIDE DEF k, p
    <3>3. DOMAIN p = Lookup /\ p.pc = "done" /\ (p.due <=> k.due)
      BY <1>2, <3>1 DEF Lookup
    <3> QED
      BY <3>2, <3>3 DEF LookRight, p
  <2>2. CASE k.order # <<>> /\ k.id \subseteq sn
    <3>1. p = [k EXCEPT !.pc = "done", !.found = TRUE, !.order = <<>>]
      BY <1>1, <2>2 DEF GetInv
    <3> HIDE DEF k, p
    <3>2. DOMAIN p = Lookup /\ p.pc = "done" /\ p.found = TRUE
      BY <1>2, <3>1 DEF Lookup
    <3> QED
      BY <3>2 DEF LookRight, p
  <2>3. CASE k.order # <<>> /\ ~(k.id \subseteq sn)
    <3>1. p = [k EXCEPT !.order = Tail(k.order)]
      BY <1>1, <2>3 DEF GetInv
    <3>2. Tail(k.order) \in Seq(Nat) /\ \A x \in ToSet(k.order) : x = id \/ x \in ToSet(Tail(k.order))
      BY <1>2, <2>3, TailFacts
    <3> DEFINE tl == Tail(k.order)
    <3> HIDE DEF k, p, sn, id, tl
    <3>3. DOMAIN p = Lookup /\ p.pc = "look" /\ (p.due <=> k.due) /\ p.id = k.id /\ p.order = tl
      BY <1>1, <1>2, <3>1 DEF Lookup, tl
    <3>4. ASSUME p.due
          PROVE  \E d : p.id = {d} /\ SettledAt(d)' /\ MonthOf(d) \in ToSet(p.order)
      <4>1. PICK d : k.id = {d} /\ SettledAt(d) /\ MonthOf(d) \in ToSet(k.order)
        BY <1>2, <3>3, <3>4
      <4>2. MonthOf(d) # id
        BY <1>5, <2>3, <4>1
      <4> QED
        BY <1>3, <3>2, <3>3, <4>1, <4>2 DEF tl
    <3> QED
      BY <3>2, <3>3, <3>4 DEF LookRight, p, tl
  <2> QED
    BY <2>1, <2>2, <2>3
<1>7. ASSUME NEW h \in Getters \ {g}
      PROVE  LookRight(h)'
  <2>1. get'[h] = get[h] /\ LookRight(h)
    BY <1>4 DEF GetInv
  <2> QED
    BY <1>3, <2>1 DEF LookRight
<1> QED
  BY <1>4, <1>6, <1>7 DEF GetInv

\* No other step touches a lookup.
LEMMA GetStep == CacheInv /\ GetInv /\ [Next]_vars => GetInv'
<1> SUFFICES ASSUME CacheInv, GetInv, [Next]_vars PROVE GetInv'
  OBVIOUS
<1>1. ASSUME get' = get
      PROVE  GetInv'
  <2>1. \A e : SettledAt(e) => SettledAt(e)'
    BY SettledStays
  <2>2. ASSUME NEW g \in Getters
        PROVE  LookRight(g)'
    <3>1. LookRight(g)
      BY DEF GetInv
    <3> QED
      BY <1>1, <2>1, <3>1 DEF LookRight
  <2> QED
    BY <1>1, <2>2 DEF GetInv
<1>2. CASE UNCHANGED vars
  BY <1>1, <1>2 DEF vars
<1>3. ASSUME NEW s \in Searchers, Begin(s)
      PROVE  get' = get
  BY Zenon, <1>3 DEF Begin
<1>4. ASSUME NEW s \in Searchers, Anchor(s)
      PROVE  get' = get
  BY Zenon, <1>4 DEF Anchor
<1>5. ASSUME NEW s \in Searchers, Rediscover(s)
      PROVE  get' = get
  BY Zenon, <1>5 DEF Rediscover
<1>6. ASSUME NEW s \in Searchers, InsertAnchor(s)
      PROVE  get' = get
  BY Zenon, <1>6 DEF InsertAnchor
<1>7. ASSUME NEW s \in Searchers, PlanSearch(s)
      PROVE  get' = get
  BY Zenon, <1>7 DEF PlanSearch
<1>8. ASSUME NEW s \in Searchers, Finish(s)
      PROVE  get' = get
  BY Zenon, <1>8 DEF Finish
<1>9. ASSUME NEW s \in Searchers, NEW w \in WorkersOf[s], Take(s, w)
      PROVE  get' = get
  BY Zenon, <1>9 DEF Take
<1>10. ASSUME NEW s \in Searchers, NEW w \in WorkersOf[s], Put(s, w)
       PROVE  get' = get
  BY Zenon, <1>10 DEF Put
<1>11. ASSUME NEW m \in Months, MakeDir(m) \/ MakeIndex(m) \/ Reload(m)
       PROVE  get' = get
  BY <1>11 DEF MakeDir, MakeIndex, Reload
<1>12. ASSUME NEW d \in Docs, Commit(d)
       PROVE  get' = get
  BY <1>12 DEF Commit
<1>13. ASSUME Stats
       PROVE  get' = get
  BY <1>13 DEF Stats
<1> QED
  BY <1>1, <1>2, <1>3, <1>4, <1>5, <1>6, <1>7, <1>8, <1>9, <1>10, <1>11, <1>12, <1>13,
     BeginGetKeeps, LookKeeps DEF Next

\* A lookup finds every document that all readers had when it started, though
\* readers are evicted and reloaded between the shards it asks
\* (registry.rs: get_event over all_shard_ids).
THEOREM LookupFindsCommitted == Spec => []GetFindsCommitted
<1>1. Init => GetInv
  BY GetInit
<1>2. CacheInv /\ GetInv /\ [Next]_vars => GetInv'
  BY GetStep
<1>3. GetInv => GetFindsCommitted
  BY DEF GetInv, LookRight, GetFindsCommitted
<1> QED
  BY <1>1, <1>2, <1>3, CacheStays, PTL DEF Spec

-----------------------------------------------------------------------------
(* What a search owes.                                                     *)

\* What a plan selects does not depend on where it starts.
LEMMA SelectsFacts ==
    ASSUME NEW f, NEW e, NEW c, NEW doc
    PROVE  Selects(Plan(f, e, c), doc) <=> Selects(Plan(f, 0, 0), doc)
<1> DEFINE p == Plan(f, e, c)
           p0 == Plan(f, 0, 0)
<1>1. p.words = p0.words /\ p.clauses = p0.clauses /\ p.since = p0.since /\ p.until = p0.until
  BY DEF Plan
<1> HIDE DEF p, p0
<1>2. Selects(p, doc) <=> Selects(p0, doc)
  BY <1>1 DEF Selects, InRange
<1> QED
  BY <1>2 DEF p, p0

\* The bound the planner parses is the one the filter asks for.
LEMMA UntilFacts ==
    ASSUME NEW s \in Searchers, NEW f \in FiltersOf[s], NEW e, NEW c
    PROVE  Plan(f, e, c).until = Until(f)
<1> DEFINE B(t) == Bound(t, "until")
<1>1. \A t, u \in f.search : t = u
  BY RegistryConstants
<1>2. Plan(f, e, c).until = Or(B(IF f.search = None THEN <<>> ELSE The(f.search)), f.until)
  BY DEF Plan, ParseSearchString
<1>3. Until(f) = UNION {Or(B(t), f.until) : t \in Or(f.search, {<<>>})}
  BY DEF Until
<1> HIDE DEF B
<1>4. CASE f.search = None
  <2>1. Or(f.search, {<<>>}) = {<<>>}
    BY <1>4 DEF Or
  <2> QED
    BY <1>2, <1>3, <1>4, <2>1
<1>5. CASE f.search # None
  <2>1. The(f.search) \in f.search
    BY <1>5 DEF The, None
  <2> DEFINE t == The(f.search)
  <2> HIDE DEF t
  <2>2. Or(f.search, {<<>>}) = {t}
    BY <1>1, <1>5, <2>1 DEF Or, t
  <2>3. UNION {Or(B(u), f.until) : u \in {t}} = Or(B(t), f.until)
    OBVIOUS
  <2> QED
    BY <1>2, <1>3, <1>5, <2>2, <2>3 DEF t
<1> QED
  BY <1>4, <1>5

\* A plan from e visits the month of a document it selects, if that is not
\* older than e.
LEMMA PlanCovers ==
    ASSUME NEW s \in Searchers, NEW f \in FiltersOf[s], NEW e \in Nat, NEW d \in Docs,
           e <= MonthOf(d), InScope(f, Event[d]),
           Selects(Plan(f, e, FromTimestamp(Now)), Document[d])
    PROVE  LET p == Plan(f, e, FromTimestamp(Now))
           IN  \E i \in 1..Len(p.shards) : p.shards[i] = MonthOf(d)
<1> DEFINE p == Plan(f, e, FromTimestamp(Now))
           since == p.since
           until == p.until
           c == FromTimestamp(Now)
           t == Event[d].created_at
           m == MonthOf(d)
<1>1. since \in SUBSET Nat /\ until \in SUBSET Nat /\ p.shards = ShardsInRange(since, until, e, c)
  BY PlanFacts
<1>2. c \in Nat /\ t \in Nat /\ m \in Nat /\ m = FromTimestamp(t)
  BY MonthFacts, RegistryConstants DEF MonthOf
<1>3. (\A x \in since : t >= x) /\ (\A x \in until : t < x)
  <2>1. Document[d].created_at = t
    BY DEF Document, ToDocument
  <2>2. InRange(p, Document[d])
    BY DEF Selects
  <2> QED
    BY <2>1, <2>2 DEF InRange
<1>4. until = None => m <= c
  <2>1. until = Until(f)
    BY UntilFacts
  <2> QED
    BY <2>1 DEF InScope, MonthOf
<1>5. e <= m
  OBVIOUS
<1> HIDE DEF p, since, until, c, t, m
<1> DEFINE start == StartOf(since, e)
           end == LastShard(until, c)
<1>6. start <= m
  <2>1. CASE since = None
    BY <1>5, <2>1 DEF StartOf
  <2>2. CASE since # None
    <3>1. The(since) \in since
      BY <2>2 DEF The, None
    <3>2. The(since) \in Nat /\ The(since) <= t
      BY <1>1, <1>2, <1>3, <3>1
    <3> QED
      BY <1>2, <2>2, <3>2, MonthFacts DEF StartOf
  <2> QED
    BY <2>1, <2>2
<1>7. m <= end
  <2>1. CASE until = None
    BY <1>4, <2>1 DEF LastShard
  <2>2. CASE until # None
    <3>1. The(until) \in until
      BY <2>2 DEF The, None
    <3> DEFINE u == The(until)
               v == Max({u - 1, 0})
    <3>2. u \in Nat /\ t < u
      BY <1>1, <1>3, <3>1
    <3> HIDE DEF u
    <3>3. v \in Nat /\ t <= v
      BY <1>2, <3>2, TwoFacts
    <3>4. end = FromTimestamp(v)
      BY <2>2 DEF LastShard, u
    <3> HIDE DEF v
    <3> QED
      BY <1>2, <3>3, <3>4, MonthFacts
  <2> QED
    BY <2>1, <2>2
<1> DEFINE q == ShardsInRange(since, until, e, c)
<1>8. HasAll(q, start, end)
  BY <1>1, <1>2, ShardsFacts
<1> HIDE DEF start, end, q
<1>9. \E i \in 1..Len(q) : q[i] = m
  BY <1>2, <1>6, <1>7, <1>8 DEF HasAll
<1> QED
  BY <1>1, <1>9 DEF p, q, m, since, until, c

\* Of the documents a shard is searched for, one that is no hit is outdone.
LEMMA BestFacts ==
    ASSUME NEW s \in Searchers, NEW f \in FiltersOf[s], NEW S \in SUBSET Docs, NEW h \in Best(f, S)
    PROVE  /\ h \subseteq S
           /\ \A d \in S : d \in h \/ Outdone(f, h, d)
<1> DEFINE L == Limit(f)
           n == Cardinality(S)
<1>1. /\ h \in SUBSET S /\ Cardinality(h) = Min({L, n})
      /\ \A d \in h, e \in S \ h : Key(f, d) >= Key(f, e)
  BY DEF Best, Key
<1>2. IsFiniteSet(S) /\ n \in Nat /\ L \in Nat \ {0}
  BY RegistryConstants, FS_Subset, FS_CardinalityType, LimitFacts
<1> HIDE DEF L
<1>3. ASSUME NEW d \in S, d \notin h
      PROVE  Outdone(f, h, d)
  <2>1. {e \in h : Key(f, e) >= Key(f, d)} = h
    BY <1>1, <1>3
  <2>2. IsFiniteSet(S \ {d}) /\ Cardinality(S \ {d}) = n - 1
    BY <1>2, FS_RemoveElement
  <2>3. h \in SUBSET (S \ {d})
    BY <1>1, <1>3
  <2>4. Cardinality(h) <= n - 1
    BY <2>2, <2>3, FS_Subset
  <2> DEFINE k == Cardinality(h)
  <2> HIDE DEF n, k
  <2>5. k = IF L <= n THEN L ELSE n
    <3>1. k = Min({L, n})
      BY <1>1 DEF k, n
    <3>2. L \in Int /\ n \in Int
      BY <1>2
    <3> QED
      BY <3>1, <3>2, TwoFacts
  <2>6. k = L
    BY <1>2, <2>4, <2>5 DEF k
  <2> QED
    BY <1>2, <2>1, <2>6 DEF Outdone, L, k
<1> QED
  BY <1>1, <1>3

\* More hits outdo no less.
LEMMA OutdoneGrows ==
    ASSUME NEW s \in Searchers, NEW f \in FiltersOf[s], NEW S \in SUBSET Docs, NEW T \in SUBSET Docs,
           S \subseteq T, NEW d, Outdone(f, S, d)
    PROVE  Outdone(f, T, d)
<1> DEFINE A == {e \in S : Key(f, e) >= Key(f, d)}
           B == {e \in T : Key(f, e) >= Key(f, d)}
<1>1. A \in SUBSET B /\ B \in SUBSET Docs
  OBVIOUS
<1>2. Cardinality(A) >= Limit(f)
  BY DEF Outdone
<1> HIDE DEF A, B
<1>3. IsFiniteSet(Docs)
  BY RegistryConstants
<1>4. IsFiniteSet(B) /\ IsFiniteSet(A)
  BY <1>1, <1>3, FS_Subset
<1>5. Cardinality(A) <= Cardinality(B) /\ Cardinality(A) \in Nat /\ Cardinality(B) \in Nat
  BY <1>1, <1>4, FS_Subset, FS_CardinalityType
<1>6. Limit(f) \in Nat
  BY LimitFacts
<1>7. Cardinality(B) >= Limit(f)
  BY <1>2, <1>5, <1>6
<1> QED
  BY <1>7 DEF Outdone, B

\* A document the filter f is planned to select, and one in the months a
\* search with it looks at.
Selected(f, d) == Selects(Plan(f, 0, 0), Document[d])
Relevant(f, d) == Selected(f, d) /\ InScope(f, Event[d])

\* A hit is selected and committed.
GoodHit(f, d) == d \in Docs /\ Selected(f, d) /\ MonthOf(d) \in Months /\ d \in committed[MonthOf(d)]

\* The hits H have d, or enough that are no worse.
Found(f, H, d) == d \in H \/ Outdone(f, H, d)

\* The shard of d has yet to be claimed, or its reader is being opened.
Ahead(s, r, d) ==
    \/ \E i \in r.next..Len(r.plan.shards) : r.plan.shards[i] = MonthOf(d)
    \/ \E w \in WorkersOf[s] : r.worker[w].pc = "opening" /\ r.worker[w].shard = MonthOf(d)

\* What a search that began knew of stays settled in a shard that is no
\* younger than the oldest known one.
Owing(r) == \A d \in r.due : SettledAt(d) /\ MonthOf(d) \notin unseen

\* A search that owes something finds an anchor to plan with.
Anchored(r) ==
    /\ r.pc = "anchor" /\ r.due # {} => lru # <<>> \/ r.known \in metas
    /\ r.pc = "rediscover" => r.due = {}

\* Before its fan-out a search has found nothing, and till its end it has no
\* result.
Fresh(r) ==
    /\ r.pc \in {"idle", "anchor", "rediscover", "insert", "plan"} => r.hits = {} /\ r.next = 1
    /\ r.pc # "done" => r.result = <<>>

\* A running fan-out has good hits only, and has found or is to find what it
\* owes.
FanRight(s, r) == r.pc = "fan" =>
    /\ \E e \in Nat : r.plan = Plan(r.filter, e, FromTimestamp(Now))
    /\ \A d \in r.hits : GoodHit(r.filter, d)
    /\ \A d \in r.due : Relevant(r.filter, d) => Ahead(s, r, d) \/ Found(r.filter, r.hits, d)

\* The result of a search is good, sorted, and misses only for better ones.
DoneRight(r) == r.pc = "done" =>
    LET q == r.result
        f == r.filter
    IN /\ \A d \in ToSet(q) : GoodHit(f, d)
       /\ \A i, j \in DOMAIN q : i < j => Key(f, q[i]) >= Key(f, q[j])
       /\ \A d \in r.due \ ToSet(q) : Relevant(f, d) =>
             Len(q) = Limit(f) /\ \A e \in ToSet(q) : Key(f, e) >= Key(f, d)

SearchRight(s) ==
    LET r == search[s] IN Owing(r) /\ Anchored(r) /\ Fresh(r) /\ FanRight(s, r) /\ DoneRight(r)

\* What steps never take back.
Monotone ==
    /\ metas \subseteq metas'
    /\ \A m \in Months : committed[m] \subseteq committed'[m]
    /\ lru # <<>> => lru' # <<>>
    /\ \A m \in dirs \ unseen : m \notin unseen'

\* Shards, documents and readers stay, and a directory once seen is seen.
LEMMA StepsAreMonotone ==
    ASSUME CacheInv, [Next]_vars
    PROVE  Monotone
<1>0. DiskOK /\ CacheOK /\ SearchOK /\ OpeningOK
  BY DEF CacheInv
<1>1. ASSUME UNCHANGED disk, unseen' = unseen \/ unseen' = {}, lru # <<>> => lru' # <<>>
      PROVE  Monotone
  BY <1>1 DEF Monotone, disk
<1>2. CASE UNCHANGED vars
  BY <1>1, <1>2 DEF vars, disk, cache
<1>3. ASSUME NEW s \in Searchers, \/ Begin(s) \/ Anchor(s) \/ PlanSearch(s) \/ Finish(s)
      PROVE  Monotone
  <2>1. CASE Begin(s)
    <3>1. UNCHANGED <<disk, cache, unseen>>
      BY Zenon, <2>1 DEF Begin
    <3> QED
      BY <1>1, <3>1 DEF cache
  <2>2. CASE Anchor(s)
    <3>1. UNCHANGED <<disk, cache, unseen>>
      BY Zenon, <2>2 DEF Anchor
    <3> QED
      BY <1>1, <3>1 DEF cache
  <2>3. CASE PlanSearch(s)
    <3>1. UNCHANGED <<disk, cache, unseen>>
      BY Zenon, <2>3 DEF PlanSearch
    <3> QED
      BY <1>1, <3>1 DEF cache
  <2>4. CASE Finish(s)
    <3>1. UNCHANGED <<disk, cache, unseen>>
      BY Zenon, <2>4 DEF Finish
    <3> QED
      BY <1>1, <3>1 DEF cache
  <2> QED
    BY <1>3, <2>1, <2>2, <2>3, <2>4
<1>4. ASSUME NEW s \in Searchers, Rediscover(s)
      PROVE  Monotone
  <2>1. UNCHANGED <<disk, snap>> /\ unseen' = {} /\ (lru' = lru \/ \E id \in Cached : lru' = Touch(lru, id))
    BY <1>4 DEF Rediscover, cache
  <2> QED
    BY <1>0, <1>1, <2>1, TouchKeeps
<1>5. ASSUME NEW s \in Searchers, InsertAnchor(s)
      PROVE  Monotone
  <2>1. /\ UNCHANGED <<disk, unseen>> /\ search[s].pc = "insert"
        /\ PutReader(search[s].known, search[s].anchor)
    BY Zenon, <1>5 DEF InsertAnchor
  <2>2. /\ search[s].known \in Months /\ search[s].anchor \subseteq committed[search[s].known]
        /\ search[s].anchor \in SUBSET Docs
    BY <1>0, <2>1 DEF OpeningOK, OpensRight, DiskOK
  <2>3. lru' # <<>>
    BY <1>0, <2>1, <2>2, PutFacts
  <2> QED
    BY <1>1, <2>1, <2>3
<1>6. ASSUME NEW s \in Searchers, NEW w \in WorkersOf[s], Take(s, w)
      PROVE  Monotone
  <2>1. UNCHANGED <<disk, snap, unseen>>
    BY Zenon, <1>6 DEF Take
  <2>2. lru' = lru \/ \E id \in Cached : lru' = Touch(lru, id)
    BY <1>6, TakeDoes
  <2> QED
    BY <1>0, <1>1, <2>1, <2>2, TouchKeeps
<1>7. ASSUME NEW s \in Searchers, NEW w \in WorkersOf[s], Put(s, w)
      PROVE  Monotone
  <2> DEFINE k == search[s].worker[w]
  <2>1. UNCHANGED <<disk, unseen>> /\ PutReader(k.shard, k.snap)
    BY Zenon, <1>7 DEF Put
  <2>2. k.shard \in metas /\ k.snap \subseteq committed[k.shard]
    BY <1>7, PutDoes
  <2>3. k.shard \in Months /\ k.snap \in SUBSET Docs
    BY <1>0, <2>2 DEF DiskOK
  <2>4. lru' # <<>>
    BY <1>0, <2>1, <2>2, <2>3, PutFacts
  <2> QED
    BY <1>1, <2>1, <2>4
<1>8. ASSUME \/ \E g \in Getters : BeginGet(g) \/ Look(g)
             \/ \E m \in Months : MakeDir(m) \/ MakeIndex(m) \/ Reload(m)
             \/ \E d \in Docs : Commit(d)
             \/ Stats
      PROVE  Monotone
  BY <1>8, NodeStep DEF Monotone
<1> QED
  BY <1>2, <1>3, <1>4, <1>5, <1>6, <1>7, <1>8 DEF Next

\* A search goes on owing what it owed, and what was a good hit is one.
LEMMA DebtsStay ==
    ASSUME CacheInv, [Next]_vars
    PROVE  /\ \A d : SettledAt(d) /\ MonthOf(d) \notin unseen => SettledAt(d)' /\ MonthOf(d) \notin unseen'
           /\ \A f, d : GoodHit(f, d) => GoodHit(f, d)'
<1>1. Monotone
  BY StepsAreMonotone
<1>2. ASSUME NEW d, SettledAt(d), MonthOf(d) \notin unseen
      PROVE  SettledAt(d)' /\ MonthOf(d) \notin unseen'
  <2>1. SettledAt(d)'
    BY <1>2, SettledStays
  <2>2. MonthOf(d) \in dirs \ unseen
    BY <1>2 DEF SettledAt, CacheInv, DiskOK
  <2> QED
    BY <1>1, <2>1, <2>2 DEF Monotone
<1>3. ASSUME NEW f, NEW d, GoodHit(f, d)
      PROVE  GoodHit(f, d)'
  BY <1>1, <1>3 DEF GoodHit, Monotone
<1> QED
  BY <1>2, <1>3

\* Steps of others leave a search right.
LEMMA StaysRight ==
    ASSUME CacheInv, [Next]_vars, NEW s \in Searchers, SearchRight(s), search'[s] = search[s]
    PROVE  SearchRight(s)'
<1> DEFINE r == search[s]
<1>1. Owing(r)'
  BY DebtsStay DEF SearchRight, Owing
<1>2. Anchored(r)'
  BY StepsAreMonotone DEF SearchRight, Anchored, Monotone
<1>3. Fresh(r)'
  BY DEF SearchRight, Fresh
<1>4. FanRight(s, r)'
  <2>1. FanRight(s, r)
    BY DEF SearchRight
  <2>2. \A d : Ahead(s, r, d) => Ahead(s, r, d)'
    BY DEF Ahead
  <2> QED
    BY <2>1, <2>2, DebtsStay DEF FanRight
<1>5. DoneRight(r)'
  <2>1. DoneRight(r)
    BY DEF SearchRight
  <2> QED
    BY <2>1, DebtsStay DEF DoneRight
<1> QED
  BY <1>1, <1>2, <1>3, <1>4, <1>5 DEF SearchRight

\* A search is right after a step if the state p it is then in is.
LEMMA RightAfter ==
    ASSUME NEW s, NEW p, search'[s] = p,
           Owing(p)', Anchored(p)', Fresh(p), FanRight(s, p)', DoneRight(p)'
    PROVE  SearchRight(s)'
<1> DEFINE r == search[s]
<1>1. Owing(r)'
  BY DEF Owing
<1>2. Anchored(r)'
  BY DEF Anchored
<1>3. Fresh(r)'
  BY DEF Fresh
<1>4. FanRight(s, r)'
  BY DEF FanRight, Ahead
<1>5. DoneRight(r)'
  BY DEF DoneRight
<1> QED
  BY <1>1, <1>2, <1>3, <1>4, <1>5 DEF SearchRight

\* A search that begins owes what is settled then.
LEMMA BeginRight ==
    ASSUME CacheInv, [Next]_vars, NEW s \in Searchers, SearchRight(s), Begin(s)
    PROVE  SearchRight(s)'
<1> DEFINE r == search[s]
<1>0. PICK p : p = search'[s]
  OBVIOUS
<1>1. /\ p.hits = r.hits /\ p.next = r.next /\ p.result = r.result
      /\ r.pc = "idle" /\ p.pc = "anchor" /\ p.known = earliest /\ p.due = DueNow
  BY <1>0, BeginDoes DEF CacheInv, SameWork
<1>2. UNCHANGED <<metas, lru>>
  BY Zenon DEF Begin, disk, cache
<1>3. \A d \in p.due : SettledAt(d)' /\ MonthOf(d) \notin unseen'
  <2> SUFFICES ASSUME NEW d \in DueNow PROVE SettledAt(d)' /\ MonthOf(d) \notin unseen'
    BY <1>1
  <2>1. IsSettled(d) /\ MonthOf(d) \notin unseen
    BY DEF DueNow
  <2>2. SettledAt(d)
    BY <2>1, SettledIs
  <2> QED
    BY <2>1, <2>2, DebtsStay
<1>4. p.due # {} => lru # <<>> \/ earliest \in metas
  BY <1>1 DEF DueNow
<1>5. Fresh(r)
  BY DEF SearchRight
<1> HIDE DEF r
<1>6. Owing(p)' /\ Anchored(p)' /\ Fresh(p)
  BY <1>1, <1>2, <1>3, <1>4, <1>5 DEF Owing, Anchored, Fresh
<1>7. FanRight(s, p)' /\ DoneRight(p)'
  BY <1>1 DEF FanRight, DoneRight
<1> QED
  BY <1>0, <1>6, <1>7, RightAfter

\* A search that finds an anchor owes what it owed; one that finds none owes
\* nothing.
LEMMA AnchorRight ==
    ASSUME CacheInv, [Next]_vars, NEW s \in Searchers, SearchRight(s),
           Anchor(s) \/ Rediscover(s) \/ InsertAnchor(s)
    PROVE  SearchRight(s)'
<1> DEFINE r == search[s]
<1>0. PICK p : p = search'[s]
  OBVIOUS
<1>1. /\ p.hits = r.hits /\ p.next = r.next /\ p.result = r.result /\ p.due = r.due
      /\ r.pc \in {"anchor", "rediscover", "insert"}
      /\ p.pc \in {"rediscover", "insert", "plan", "done"}
      /\ p.pc = "rediscover" => lru = <<>> /\ r.known \notin metas /\ r.pc = "anchor"
      /\ p.pc = "done" => r.pc = "rediscover"
  <2>1. CASE Anchor(s)
    BY <2>1, <1>0, AnchorDoes DEF CacheInv, SameWork
  <2>2. CASE Rediscover(s)
    BY <2>2, <1>0, RediscoverDoes DEF CacheInv, SameWork
  <2>3. CASE InsertAnchor(s)
    BY <2>3, <1>0, InsertAnchorDoes DEF CacheInv, SameWork
  <2> QED
    BY <2>1, <2>2, <2>3
<1>2. Owing(r) /\ Anchored(r) /\ Fresh(r)
  BY DEF SearchRight
<1>3. p.hits = {} /\ p.next = 1 /\ p.result = <<>>
  BY <1>1, <1>2 DEF Fresh
<1>4. p.pc \in {"rediscover", "done"} => p.due = {}
  BY <1>1, <1>2 DEF Anchored
<1> HIDE DEF r
<1>5. Owing(p)'
  BY <1>1, <1>2, DebtsStay DEF Owing
<1>6. Anchored(p)' /\ Fresh(p) /\ FanRight(s, p)'
  BY <1>1, <1>3, <1>4 DEF Anchored, Fresh, FanRight
<1>7. DoneRight(p)'
  BY <1>3, <1>4 DEF DoneRight, ToSet
<1> QED
  BY <1>0, <1>5, <1>6, <1>7, RightAfter

\* The plan of a search visits the shards of what it owes.
LEMMA PlanRight ==
    ASSUME CacheInv, [Next]_vars, NEW s \in Searchers, SearchRight(s), PlanSearch(s)
    PROVE  SearchRight(s)'
<1> DEFINE r == search[s]
           f == r.filter
           c == FromTimestamp(Now)
<1>0. PICK p : p = search'[s]
  OBVIOUS
<1>1. search[s].pc = "plan"
  BY Zenon DEF PlanSearch
<1>2. f \in FiltersOf[s] /\ r \in Request(s)
  BY <1>1 DEF CacheInv, SearchOK
<1>3. /\ p.hits = r.hits /\ p.next = r.next /\ p.result = r.result /\ p.due = r.due
      /\ p.pc = "fan" /\ p.filter = f /\ p.plan = Plan(f, earliest, c)
  BY <1>0, <1>2, PlanSearchDoes DEF CacheInv, SameWork
<1>4. Owing(r) /\ Fresh(r)
  BY DEF SearchRight
<1>5. p.hits = {} /\ p.next = 1 /\ p.result = <<>>
  BY <1>1, <1>3, <1>4 DEF Fresh
<1>6. r.due \subseteq Docs /\ earliest \in Nat
  BY <1>2 DEF Request, DocSets, CacheInv, DiskOK
<1>7. ASSUME NEW d \in r.due, Relevant(f, d)
      PROVE  Ahead(s, p, d)
  <2>1. d \in Docs /\ SettledAt(d) /\ MonthOf(d) \notin unseen
    BY <1>4, <1>6, <1>7 DEF Owing
  <2>2. earliest <= MonthOf(d)
    BY <2>1 DEF SettledAt, CacheInv, DiskOK
  <2>3. InScope(f, Event[d]) /\ Selects(Plan(f, earliest, c), Document[d])
    BY <1>7, SelectsFacts DEF Relevant, Selected
  <2> DEFINE q == Plan(f, earliest, c)
  <2>4. \E i \in 1..Len(q.shards) : q.shards[i] = MonthOf(d)
    BY <1>2, <1>6, <2>1, <2>2, <2>3, PlanCovers
  <2> HIDE DEF q
  <2>5. p.plan = q
    BY <1>3 DEF q
  <2> QED
    BY <1>5, <2>4, <2>5 DEF Ahead
<1> HIDE DEF r
<1>8. Owing(p)'
  BY <1>3, <1>4, DebtsStay DEF Owing
<1>9. Anchored(p)' /\ Fresh(p) /\ DoneRight(p)'
  BY <1>3, <1>5 DEF Anchored, Fresh, DoneRight
<1>10. FanRight(s, p)'
  <2>1. \E e \in Nat : p.plan = Plan(p.filter, e, c)
    BY <1>3, <1>6
  <2> HIDE DEF f, c
  <2>2. \A d \in p.due : Relevant(p.filter, d) => Ahead(s, p, d)
    BY <1>3, <1>7
  <2> QED
    BY <1>5, <2>1, <2>2 DEF FanRight, c
<1> QED
  BY <1>0, <1>8, <1>9, <1>10, RightAfter

\* The hits h of a shard read at sn, added to H, are good, have what is
\* relevant at sn, and keep what H has found.
Adds(f, H, h, sn) ==
    /\ \A d \in h : GoodHit(f, d)
    /\ \A d \in sn : Relevant(f, d) => Found(f, H \cup h, d)
    /\ \A d \in Docs : Found(f, H, d) => Found(f, H \cup h, d)

\* What a claimed shard adds to the hits.
LEMMA FoundIn ==
    ASSUME CacheInv, NEW s \in Searchers, SearchRight(s), search[s].pc = "fan",
           NEW m \in Months, NEW sn \in SUBSET Docs, sn \subseteq committed[m],
           NEW h \in SearchOne(search[s], sn)
    PROVE  Adds(search[s].filter, search[s].hits, h, sn)
<1> DEFINE r == search[s]
           f == r.filter
           H == r.hits
           c == FromTimestamp(Now)
<1>1. f \in FiltersOf[s] /\ H \in SUBSET Docs
  BY DEF CacheInv, SearchOK, Request, DocSets
<1>2. PICK e \in Nat : r.plan = Plan(f, e, c)
  BY DEF SearchRight, FanRight
<1> DEFINE S == {d \in sn : Selects(r.plan, Document[d])}
<1>3. h \in Best(f, S)
  BY DEF SearchOne
<1>4. \A d \in sn : d \in S <=> Selected(f, d)
  BY <1>2, SelectsFacts DEF Selected
<1>5. S \in SUBSET Docs /\ S \subseteq sn
  OBVIOUS
<1> HIDE DEF r, f, H, c, S
<1>6. h \subseteq S /\ \A d \in S : d \in h \/ Outdone(f, h, d)
  BY <1>1, <1>3, <1>5, BestFacts
<1>7. \A d \in sn : MonthOf(d) = m
  BY DEF CacheInv, DiskOK
<1>8. \A d \in h : GoodHit(f, d)
  BY <1>4, <1>5, <1>6, <1>7 DEF GoodHit
<1> DEFINE T == H \cup h
<1>9. T \in SUBSET Docs /\ h \in SUBSET Docs /\ h \subseteq T /\ H \subseteq T
  BY <1>1, <1>5, <1>6
<1> HIDE DEF T
<1>10. \A d : Outdone(f, h, d) => Outdone(f, T, d)
  BY <1>1, <1>9, OutdoneGrows
<1>11. \A d : Outdone(f, H, d) => Outdone(f, T, d)
  BY <1>1, <1>9, OutdoneGrows
<1>12. \A d \in sn : Relevant(f, d) => Found(f, T, d)
  BY <1>4, <1>6, <1>9, <1>10 DEF Relevant, Found
<1>13. \A d \in Docs : Found(f, H, d) => Found(f, T, d)
  BY <1>9, <1>11 DEF Found
<1> QED
  BY <1>8, <1>12, <1>13 DEF Adds, T, f, H, r

\* A claimed shard is searched, or being opened, or has nothing that is owed.
LEMMA TakeRight ==
    ASSUME CacheInv, [Next]_vars, NEW s \in Searchers, SearchRight(s), NEW w \in WorkersOf[s], Take(s, w)
    PROVE  SearchRight(s)'
<1>0. PICK p : p = search'[s]
  OBVIOUS
<1> DEFINE r == search[s]
           f == p.filter
           n == Len(r.plan.shards)
           id == r.plan.shards[r.next]
           sn == IF id \in Cached THEN snap[id] ELSE committed[id]
           k == [pc |-> "opening", shard |-> id, snap |-> committed[id]]
<1>1. /\ r.pc = "fan" /\ r.filter = f /\ p.due = r.due
      /\ p.pc = "fan" /\ p.plan = r.plan /\ p.result = r.result
      /\ r.worker[w].pc = "idle" /\ r.next \in 1..n /\ p.next = r.next + 1
      /\ \/ /\ id \in metas \cup Cached /\ p.worker = r.worker
            /\ \E h \in SearchOne(r, sn) : p.hits = r.hits \cup h
         \/ /\ id \in metas \ Cached
            /\ p.worker = [r.worker EXCEPT ![w] = k] /\ p.hits = r.hits
         \/ /\ id \notin metas \cup Cached /\ p.worker = r.worker /\ p.hits = r.hits
  BY <1>0, TakeDoes DEF Working
<1>2. Owing(r) /\ Fresh(r) /\ FanRight(s, r)
  BY DEF SearchRight
<1>3. r.due \subseteq Docs /\ DOMAIN r.worker = WorkersOf[s]
  BY DEF CacheInv, SearchOK, Request, WorkerSet, DocSets
<1>4. k.pc = "opening" /\ k.shard = id
  OBVIOUS
<1>5. id \in metas \cup Cached => id \in Months
  BY CachedMonths DEF CacheInv, DiskOK
<1>6. ASSUME id \in metas \cup Cached
      PROVE  sn \in SUBSET Docs /\ sn \subseteq committed[id]
  BY <1>5, <1>6 DEF CacheInv, DiskOK, CacheOK
<1>7. ASSUME NEW d \in r.due, MonthOf(d) = id
      PROVE  id \in metas \cup Cached /\ d \in sn
  <2>1. SettledAt(d)
    BY <1>2 DEF Owing
  <2> QED
    BY <1>7, <2>1 DEF SettledAt, CacheInv, DiskOK
<1>8. \A d : GoodHit(f, d) => GoodHit(f, d)'
  BY DebtsStay
<1>9. ASSUME NEW h \in SearchOne(r, sn), id \in metas \cup Cached
      PROVE  Adds(f, r.hits, h, sn)
  <2> HIDE DEF sn, id
  <2>1. Adds(r.filter, r.hits, h, sn)
    BY <1>1, <1>5, <1>6, <1>9, FoundIn
  <2> QED
    BY <1>1, <2>1
<1> HIDE DEF r, f, n, id, sn, k
<1>10. Owing(p)'
  BY <1>1, <1>2, DebtsStay DEF Owing
<1>11. /\ \E e \in Nat : r.plan = Plan(f, e, FromTimestamp(Now))
       /\ \A d \in r.hits : GoodHit(f, d)
       /\ \A d \in r.due : Relevant(f, d) => Ahead(s, r, d) \/ Found(f, r.hits, d)
       /\ r.result = <<>>
  BY <1>1, <1>2 DEF FanRight, Fresh, f
<1>12. Anchored(p)' /\ Fresh(p) /\ DoneRight(p)'
  BY <1>1, <1>11 DEF Anchored, Fresh, DoneRight
<1>13. ASSUME NEW d, d \in p.hits
       PROVE  GoodHit(f, d)'
  <2>1. GoodHit(f, d)
    BY <1>1, <1>9, <1>11, <1>13 DEF Adds
  <2> QED
    BY <1>8, <2>1
<1>14. ASSUME NEW d \in r.due, Found(f, r.hits, d)
       PROVE  Found(f, p.hits, d)
  <2>1. d \in Docs
    BY <1>3
  <2> QED
    BY <1>1, <1>9, <1>14, <2>1 DEF Adds
<1>15. ASSUME NEW d \in r.due, Relevant(f, d), Ahead(s, r, d)
       PROVE  Ahead(s, p, d) \/ Found(f, p.hits, d)
  <2>1. CASE MonthOf(d) = id
    <3>1. id \in metas \cup Cached /\ d \in sn
      BY <1>7, <2>1
    <3>2. CASE \E h \in SearchOne(r, sn) : p.hits = r.hits \cup h
      BY <1>9, <1>15, <3>1, <3>2 DEF Adds
    <3>3. CASE p.worker = [r.worker EXCEPT ![w] = k]
      <4>1. p.worker[w] = k
        BY <1>3, <3>3
      <4> QED
        BY <1>4, <2>1, <4>1 DEF Ahead
    <3> QED
      BY <1>1, <3>1, <3>2, <3>3
  <2>2. CASE \E i \in r.next..n : r.plan.shards[i] = MonthOf(d) /\ MonthOf(d) # id
    <3>1. PICK i \in r.next..n : r.plan.shards[i] = MonthOf(d) /\ MonthOf(d) # id
      BY <2>2
    <3>2. i # r.next
      BY <3>1 DEF id
    <3>3. n = Len(p.plan.shards) /\ p.plan.shards[i] = MonthOf(d)
      BY <1>1, <3>1 DEF n
    <3>4. r.next \in Nat /\ p.next = r.next + 1
      BY <1>1
    <3>5. i \in p.next..n
      BY <3>1, <3>2, <3>4
    <3> QED
      BY <3>3, <3>5 DEF Ahead
  <2>3. CASE \E v \in WorkersOf[s] : r.worker[v].pc = "opening" /\ r.worker[v].shard = MonthOf(d)
    <3>1. PICK v \in WorkersOf[s] : r.worker[v].pc = "opening" /\ r.worker[v].shard = MonthOf(d)
      BY <2>3
    <3>2. v # w
      BY <1>1, <3>1
    <3>3. p.worker[v] = r.worker[v]
      BY <1>1, <1>3, <3>2
    <3> QED
      BY <3>1, <3>3 DEF Ahead
  <2> QED
    BY <1>15, <2>1, <2>2, <2>3 DEF Ahead, n
<1>16. FanRight(s, p)'
  BY <1>1, <1>11, <1>13, <1>14, <1>15 DEF FanRight, f
<1> QED
  BY <1>0, <1>10, <1>12, <1>16, RightAfter

\* A reader that was being opened is searched, or the one another thread put
\* into the cache meanwhile; both have what is owed.
LEMMA PutRight ==
    ASSUME CacheInv, [Next]_vars, NEW s \in Searchers, SearchRight(s), NEW w \in WorkersOf[s], Put(s, w)
    PROVE  SearchRight(s)'
<1>0. PICK p : p = search'[s]
  OBVIOUS
<1> DEFINE r == search[s]
           f == p.filter
           k == r.worker[w]
           sn == Preferred(k.shard, k.snap)
<1>1. /\ r.pc = "fan" /\ r.filter = f /\ p.due = r.due
      /\ p.pc = "fan" /\ p.plan = r.plan /\ p.result = r.result
      /\ k.pc = "opening" /\ k.shard \in metas /\ k.snap \subseteq committed[k.shard]
      /\ p.next = r.next /\ p.worker = [r.worker EXCEPT ![w] = IdleWorker]
      /\ \E h \in SearchOne(r, sn) : p.hits = r.hits \cup h
  BY <1>0, PutDoes DEF Working
<1>2. Owing(r) /\ Fresh(r) /\ FanRight(s, r)
  BY DEF SearchRight
<1>3. r.due \subseteq Docs /\ DOMAIN r.worker = WorkersOf[s]
  BY DEF CacheInv, SearchOK, Request, WorkerSet, DocSets
<1>4. k.shard \in Months
  BY <1>1 DEF CacheInv, DiskOK
<1>5. sn \in SUBSET Docs /\ sn \subseteq committed[k.shard]
  BY <1>1, <1>4 DEF CacheInv, DiskOK, CacheOK, Preferred
<1>6. ASSUME NEW d \in r.due, MonthOf(d) = k.shard
      PROVE  d \in sn
  <2>1. SettledAt(d)
    BY <1>2 DEF Owing
  <2> QED
    BY <1>1, <1>6, <2>1 DEF SettledAt, HasIt, Holds, Preferred
<1>7. \A d : GoodHit(f, d) => GoodHit(f, d)'
  BY DebtsStay
<1>8. ASSUME NEW h \in SearchOne(r, sn)
      PROVE  Adds(f, r.hits, h, sn)
  <2> HIDE DEF sn, k
  <2>1. Adds(r.filter, r.hits, h, sn)
    BY <1>1, <1>4, <1>5, FoundIn
  <2> QED
    BY <1>1, <2>1
<1> HIDE DEF r, f, k, sn
<1>9. Owing(p)'
  BY <1>1, <1>2, DebtsStay DEF Owing
<1>10. /\ \E e \in Nat : r.plan = Plan(f, e, FromTimestamp(Now))
       /\ \A d \in r.hits : GoodHit(f, d)
       /\ \A d \in r.due : Relevant(f, d) => Ahead(s, r, d) \/ Found(f, r.hits, d)
       /\ r.result = <<>>
  BY <1>1, <1>2 DEF FanRight, Fresh, f
<1>11. Anchored(p)' /\ Fresh(p) /\ DoneRight(p)'
  BY <1>1, <1>10 DEF Anchored, Fresh, DoneRight
<1>12. ASSUME NEW d, d \in p.hits
       PROVE  GoodHit(f, d)'
  <2>1. GoodHit(f, d)
    BY <1>1, <1>8, <1>10, <1>12 DEF Adds
  <2> QED
    BY <1>7, <2>1
<1>13. ASSUME NEW d \in r.due, Found(f, r.hits, d)
       PROVE  Found(f, p.hits, d)
  <2>1. d \in Docs
    BY <1>3
  <2> QED
    BY <1>1, <1>8, <1>13, <2>1 DEF Adds
<1>14. ASSUME NEW d \in r.due, Relevant(f, d), Ahead(s, r, d)
       PROVE  Ahead(s, p, d) \/ Found(f, p.hits, d)
  <2>1. CASE MonthOf(d) = k.shard
    <3>1. d \in sn
      BY <1>6, <2>1
    <3> QED
      BY <1>1, <1>8, <1>14, <3>1 DEF Adds
  <2>2. CASE \E i \in r.next..Len(r.plan.shards) : r.plan.shards[i] = MonthOf(d)
    BY <1>1, <2>2 DEF Ahead
  <2>3. CASE \E v \in WorkersOf[s] : /\ r.worker[v].pc = "opening" /\ r.worker[v].shard = MonthOf(d)
                                     /\ MonthOf(d) # k.shard
    <3>1. PICK v \in WorkersOf[s] : /\ r.worker[v].pc = "opening" /\ r.worker[v].shard = MonthOf(d)
                                    /\ MonthOf(d) # k.shard
      BY <2>3
    <3>2. v # w
      BY <3>1 DEF k
    <3>3. p.worker[v] = r.worker[v]
      BY <1>1, <1>3, <3>2
    <3> QED
      BY <3>1, <3>3 DEF Ahead
  <2> QED
    BY <1>14, <2>1, <2>2, <2>3 DEF Ahead
<1>15. FanRight(s, p)'
  BY <1>1, <1>10, <1>12, <1>13, <1>14 DEF FanRight, f
<1> QED
  BY <1>0, <1>9, <1>11, <1>15, RightAfter

\* q has the best of S, sorted, and every d of S or outdone by it that q
\* misses is missing for better ones.
Merges(f, S, q) ==
    /\ q \in Seq(Docs) /\ ToSet(q) \subseteq S
    /\ \A i, j \in DOMAIN q : i < j => Key(f, q[i]) >= Key(f, q[j])
    /\ \A d \in Docs : d \notin ToSet(q) /\ (d \in S \/ Outdone(f, S, d)) =>
          Len(q) = Limit(f) /\ \A e \in ToSet(q) : Key(f, e) >= Key(f, d)

\* MergedFacts, for the sequence q it is about.
LEMMA MergedIs ==
    ASSUME NEW s \in Searchers, NEW f \in FiltersOf[s], NEW S \in SUBSET Docs,
           NEW o \in Ordered(f, S), NEW q, q = SubSeq(o, 1, Min({Limit(f), Len(o)}))
    PROVE  Merges(f, S, q)
<1> DEFINE t == SubSeq(o, 1, Min({Limit(f), Len(o)}))
<1>1. Merges(f, S, t)
  BY MergedFacts DEF Merges
<1> QED
  BY <1>1

\* When no shard is ahead, all that is owed has been found, and the merge
\* drops it only for better hits.
LEMMA FinishRight ==
    ASSUME CacheInv, [Next]_vars, NEW s \in Searchers, SearchRight(s), Finish(s)
    PROVE  SearchRight(s)'
<1>0. PICK p : p = search'[s]
  OBVIOUS
<1> DEFINE r == search[s]
           f == p.filter
           H == r.hits
<1>1. /\ r.pc = "fan" /\ r.filter = f /\ p.due = r.due /\ p.pc = "done"
      /\ r.next > Len(r.plan.shards) /\ \A w \in WorkersOf[s] : r.worker[w].pc = "idle"
      /\ H \in SUBSET Docs
      /\ \E o \in Ordered(r.filter, H) : p.result = SubSeq(o, 1, Min({Limit(r.filter), Len(o)}))
  BY <1>0, FinishDoes DEF Working
<1>2. Owing(r) /\ FanRight(s, r)
  BY DEF SearchRight
<1>3. r.due \subseteq Docs /\ f \in FiltersOf[s] /\ r.next \in Nat /\ r.plan \in Plans
  BY <1>1 DEF CacheInv, SearchOK, OpeningOK, OpensRight, Request, DocSets
<1> DEFINE q == p.result
<1>4. PICK o \in Ordered(r.filter, H) : q = SubSeq(o, 1, Min({Limit(r.filter), Len(o)}))
  BY <1>1
<1>5. Owing(p)'
  BY <1>1, <1>2, DebtsStay DEF Owing
<1>6. \A d : GoodHit(f, d) => GoodHit(f, d)'
  BY DebtsStay
<1> HIDE DEF r, f, H, q
<1>7. Merges(f, H, q)
  <2>1. r.filter \in FiltersOf[s]
    BY <1>1, <1>3
  <2>2. Merges(r.filter, H, q)
    BY <1>1, <1>4, <2>1, MergedIs
  <2> QED
    BY <1>1, <2>2
<1>8. /\ q \in Seq(Docs) /\ ToSet(q) \subseteq H
      /\ \A i, j \in DOMAIN q : i < j => Key(f, q[i]) >= Key(f, q[j])
      /\ \A d \in Docs : d \notin ToSet(q) /\ (d \in H \/ Outdone(f, H, d)) =>
            Len(q) = Limit(f) /\ \A e \in ToSet(q) : Key(f, e) >= Key(f, d)
  BY <1>7 DEF Merges
<1>9. /\ \A d \in H : GoodHit(f, d)
      /\ \A d \in r.due : Relevant(f, d) => Ahead(s, r, d) \/ Found(f, H, d)
  BY <1>1, <1>2 DEF FanRight, H
<1>10. \A d : ~Ahead(s, r, d)
  <2>1. Len(r.plan.shards) \in Nat
    BY <1>3, PlansFacts
  <2>2. r.next..Len(r.plan.shards) = {}
    BY <1>1, <1>3, <2>1
  <2> QED
    BY <1>1, <2>2 DEF Ahead
<1>11. \A d \in r.due \ ToSet(q) : Relevant(f, d) =>
          Len(q) = Limit(f) /\ \A e \in ToSet(q) : Key(f, e) >= Key(f, d)
  BY <1>3, <1>8, <1>9, <1>10 DEF Found
<1>12. \A d \in ToSet(q) : GoodHit(f, d)'
  BY <1>6, <1>8, <1>9
<1>13. DoneRight(p)'
  BY <1>1, <1>8, <1>11, <1>12 DEF DoneRight, f, q
<1>14. Anchored(p)' /\ Fresh(p) /\ FanRight(s, p)'
  BY <1>1 DEF Anchored, Fresh, FanRight
<1> QED
  BY <1>0, <1>5, <1>13, <1>14, RightAfter

SearchInv == \A s \in Searchers : SearchRight(s)

\* No search owes anything when the server starts.
LEMMA SearchInvInit == Init => SearchInv
<1> SUFFICES ASSUME Init, NEW s \in Searchers PROVE SearchRight(s)
  BY DEF SearchInv
<1>1. /\ search[s].pc = "idle" /\ search[s].due = {} /\ search[s].hits = {}
      /\ search[s].next = 1 /\ search[s].result = <<>>
  BY DEF Init, NoSearch
<1> QED
  BY <1>1 DEF SearchRight, Owing, Anchored, Fresh, FanRight, DoneRight

\* Every step leaves every search right: its own by the lemma on the step, the
\* others by StaysRight.
LEMMA SearchInvStep == CacheInv /\ SearchInv /\ [Next]_vars => SearchInv'
<1> SUFFICES ASSUME CacheInv, SearchInv, [Next]_vars, NEW t \in Searchers PROVE SearchRight(t)'
  BY DEF SearchInv
<1>1. \A s \in Searchers : SearchRight(s)
  BY DEF SearchInv
<1>2. ASSUME search' = search
      PROVE  SearchRight(t)'
  BY <1>1, <1>2, StaysRight
<1>3. ASSUME NEW s \in Searchers, OnlyOf(s), SearchRight(s)'
      PROVE  SearchRight(t)'
  <2>1. CASE t = s
    BY <1>3, <2>1
  <2>2. CASE t # s
    <3>1. search'[t] = search[t]
      BY <1>3, <2>2 DEF OnlyOf
    <3> QED
      BY <1>1, <3>1, StaysRight
  <2> QED
    BY <2>1, <2>2
<1>4. ASSUME NEW s \in Searchers, Begin(s)
      PROVE  SearchRight(t)'
  BY <1>1, <1>3, <1>4, BeginRight, BeginDoes DEF CacheInv
<1>5. ASSUME NEW s \in Searchers, Anchor(s) \/ Rediscover(s) \/ InsertAnchor(s)
      PROVE  SearchRight(t)'
  <2>1. OnlyOf(s)
    BY <1>5, AnchorDoes, RediscoverDoes, InsertAnchorDoes DEF CacheInv
  <2> QED
    BY <1>1, <1>3, <1>5, <2>1, AnchorRight
<1>6. ASSUME NEW s \in Searchers, PlanSearch(s)
      PROVE  SearchRight(t)'
  <2>1. search[s].pc = "plan"
    BY Zenon, <1>6 DEF PlanSearch
  <2>2. search[s].filter \in FiltersOf[s]
    BY <2>1 DEF CacheInv, SearchOK
  <2>3. OnlyOf(s)
    BY <1>6, <2>2, PlanSearchDoes DEF CacheInv
  <2> QED
    BY <1>1, <1>3, <1>6, <2>3, PlanRight
<1>7. ASSUME NEW s \in Searchers, Finish(s)
      PROVE  SearchRight(t)'
  BY <1>1, <1>3, <1>7, FinishRight, FinishDoes
<1>8. ASSUME NEW s \in Searchers, NEW w \in WorkersOf[s], Take(s, w)
      PROVE  SearchRight(t)'
  BY <1>1, <1>3, <1>8, TakeRight, TakeDoes
<1>9. ASSUME NEW s \in Searchers, NEW w \in WorkersOf[s], Put(s, w)
      PROVE  SearchRight(t)'
  BY <1>1, <1>3, <1>9, PutRight, PutDoes
<1>10. ASSUME \/ \E g \in Getters : BeginGet(g) \/ Look(g)
              \/ \E m \in Months : MakeDir(m) \/ MakeIndex(m) \/ Reload(m)
              \/ \E d \in Docs : Commit(d)
              \/ Stats
       PROVE  SearchRight(t)'
  BY <1>2, <1>10, NodeStep
<1>11. CASE UNCHANGED vars
  BY <1>2, <1>11 DEF vars
<1> QED
  BY <1>4, <1>5, <1>6, <1>7, <1>8, <1>9, <1>10, <1>11 DEF Next

\* Whatever threads, other searches, the writer and the cache do meanwhile, a
\* search keeps what it owes ahead of it or found (registry.rs: search).
THEOREM SearchStaysRight == Spec => []SearchInv
<1>1. Init => SearchInv
  BY SearchInvInit
<1>2. CacheInv /\ SearchInv /\ [Next]_vars => SearchInv'
  BY SearchInvStep
<1> QED
  BY <1>1, <1>2, CacheStays, PTL DEF Spec

\* If plans select what filters ask for, a finished search returns only
\* documents that were asked for, the best first, and misses one that every
\* reader had when it started only for better ones (registry.rs: search,
\* query.rs: plan).
THEOREM SearchReturnsAskedFor ==
    ASSUME PlanningIsExact
    PROVE  Spec => []SearchIsExact
<1>1. CacheInv /\ SearchInv => SearchIsExact
  <2> SUFFICES ASSUME CacheInv, SearchInv, NEW s \in Searchers, search[s].pc = "done"
               PROVE  LET f == search[s].filter
                          q == search[s].result
                      IN /\ \A d \in ToSet(q) : d \in Wants[f] /\ d \in committed[MonthOf(d)]
                         /\ \A i, j \in DOMAIN q : i < j => Key(f, q[i]) >= Key(f, q[j])
                         /\ \A d \in (search[s].due \cap Wants[f]) \ ToSet(q) :
                               InScope(f, Event[d]) =>
                                   Len(q) = Limit(f) /\ \A e \in ToSet(q) : Key(f, e) >= Key(f, d)
    BY DEF SearchIsExact, Key
  <2> DEFINE f == search[s].filter
             q == search[s].result
  <2>1. f \in FiltersOf[s]
    BY DEF CacheInv, SearchOK
  <2>2. \A d : d \in Wants[f] <=> d \in Docs /\ AskedFor(f, Event[d])
    BY <2>1 DEF Wants
  <2>3. \A d \in Docs : Selected(f, d) <=> AskedFor(f, Event[d])
    BY <2>1 DEF PlanningIsExact, Selected
  <2>4. DoneRight(search[s])
    BY DEF SearchInv, SearchRight
  <2> HIDE DEF f, q
  <2>5. /\ \A d \in ToSet(q) : GoodHit(f, d)
        /\ \A i, j \in DOMAIN q : i < j => Key(f, q[i]) >= Key(f, q[j])
        /\ \A d \in search[s].due \ ToSet(q) : Relevant(f, d) =>
              Len(q) = Limit(f) /\ \A e \in ToSet(q) : Key(f, e) >= Key(f, d)
    BY <2>4 DEF DoneRight, f, q
  <2>6. \A d \in ToSet(q) : d \in Wants[f] /\ d \in committed[MonthOf(d)]
    BY <2>2, <2>3, <2>5 DEF GoodHit
  <2>7. \A d \in (search[s].due \cap Wants[f]) \ ToSet(q) :
           InScope(f, Event[d]) =>
               Len(q) = Limit(f) /\ \A e \in ToSet(q) : Key(f, e) >= Key(f, d)
    BY <2>2, <2>3, <2>5 DEF Relevant
  <2> QED
    BY <2>5, <2>6, <2>7 DEF f, q
<1> QED
  BY <1>1, CacheStays, SearchStaysRight, PTL

\* A score grows with the boost.
LEMMA BoostCounts ==
    ASSUME NEW b \in Nat, b > 0, NEW x \in Nat, NEW y \in Nat, y > 0
    PROVE  b * x < b * (x + y)
<1>1. b * (x + y) = b * x + b * y
  OBVIOUS
<1>2. b * y >= 1 /\ b * x \in Nat /\ b * y \in Nat
  OBVIOUS
<1> QED
  BY <1>1, <1>2

\* If recency counts, an event dated past the skew of clocks is never ranked
\* above one of the last HalfLife with the same words and trust (scoring.rs:
\* recency_boost, "pinning yourself to the top").
THEOREM FutureDatedLoses ==
    ASSUME RecencyCounts
    PROVE  Spec => []FutureDatedNeverWins
<1>1. CacheInv /\ SearchInv => FutureDatedNeverWins
  <2> SUFFICES ASSUME CacheInv, SearchInv, NEW s \in Searchers,
                      NEW i \in DOMAIN search[s].result, NEW j \in DOMAIN search[s].result,
                      search[s].filter.search # None, i < j,
                      Event[search[s].result[i]].bm25 = Event[search[s].result[j]].bm25,
                      Event[search[s].result[i]].wot = Event[search[s].result[j]].wot,
                      Event[search[s].result[i]].created_at > Now + FutureSkew,
                      Event[search[s].result[j]].created_at \in (Now - HalfLife + 1)..(Now + FutureSkew)
               PROVE  FALSE
    BY DEF FutureDatedNeverWins
  <2> DEFINE f == search[s].filter
             q == search[s].result
             x == q[i]
             y == q[j]
  <2>1. q \in Seq(Docs) /\ x \in Docs /\ y \in Docs
    BY DEF CacheInv, SearchOK, Request, Results
  <2>2. Key(f, x) >= Key(f, y)
    <3>1. search[s].pc = "done"
      <4>1. q # <<>>
        OBVIOUS
      <4> QED
        BY <4>1 DEF SearchInv, SearchRight, Fresh
    <3> QED
      BY <3>1 DEF SearchInv, SearchRight, DoneRight
  <2>3. Key(f, x) = Composite(Document[x], Now) /\ Key(f, y) = Composite(Document[y], Now)
    BY <2>1, KeyFacts
  <2> DEFINE b == Event[x].bm25
             w == Event[x].wot
             t == Event[y].created_at
             u == Event[x].created_at
             rb == RecencyBoost(t, Now)
             base == 2 * HalfLife + WotWeight * HalfLife * w
             extra == 2 * RecencyWeight * rb
  <2>4. /\ Document[x].bm25 = b /\ Document[x].wot = w /\ Document[x].created_at = u
        /\ Document[y].bm25 = b /\ Document[y].wot = w /\ Document[y].created_at = t
    BY <2>1 DEF Document, ToDocument
  <2>5. /\ b \in Nat /\ b > 0 /\ w \in Nat /\ t \in Nat /\ u \in Nat
        /\ u > Now + FutureSkew /\ t <= Now + FutureSkew /\ Now - HalfLife + 1 <= t
        /\ RecencyWeight > 0
    <3>1. b \in Nat /\ w \in Nat /\ t \in Nat /\ u \in Nat
      BY <2>1, RegistryConstants
    <3>2. b > 0 /\ RecencyWeight > 0
      BY <2>1 DEF RecencyCounts
    <3> DEFINE lo == Now - HalfLife + 1
               hi == Now + FutureSkew
    <3>3. lo \in Int /\ hi \in Int
      BY QueryPlanConstants, RegistryConstants
    <3>4. u > hi /\ t \in lo..hi
      OBVIOUS
    <3> HIDE DEF lo, hi
    <3>5. u > hi /\ t <= hi /\ lo <= t
      BY <3>1, <3>3, <3>4
    <3> QED
      BY <3>1, <3>2, <3>5 DEF lo, hi
  <2>6. /\ HalfLife \in Nat \ {0} /\ FutureSkew \in Nat /\ WotWeight \in Nat /\ RecencyWeight \in Nat
        /\ Now \in Nat
    BY QueryPlanConstants, RegistryConstants
  <2> HIDE DEF x, y, b, w, t, u, f, q
  <2>7. RecencyBoost(u, Now) = 0
    BY <2>5 DEF RecencyBoost
  <2>8. rb \in Nat /\ rb > 0
    <3> DEFINE age == Max({Now - t, 0})
               left == HalfLife - age
    <3>1. age \in Int /\ age < HalfLife
      <4>1. Now - t \in Int
        BY <2>5, <2>6
      <4> DEFINE z == Now - t
      <4>2. z < HalfLife
        BY <2>5, <2>6
      <4> HIDE DEF z
      <4>3. Max({z, 0}) = IF z >= 0 THEN z ELSE 0
        BY <4>1, TwoFacts DEF z
      <4> QED
        BY <2>6, <4>1, <4>2, <4>3 DEF z
    <3> HIDE DEF age
    <3>2. left \in Int /\ left > 0
      BY <2>6, <3>1
    <3> HIDE DEF left
    <3>3. Max({left, 0}) = left
      BY <3>2, TwoFacts
    <3>4. rb = Max({left, 0})
      BY <2>5, <2>6 DEF RecencyBoost, left, age
    <3> QED
      BY <3>2, <3>3, <3>4
  <2>9. Key(f, x) = b * base
    BY <2>3, <2>4, <2>5, <2>6, <2>7 DEF Composite
  <2>10. Key(f, y) = b * (base + extra)
    BY <2>3, <2>4 DEF Composite
  <2> HIDE DEF rb
  <2>11. WotWeight * HalfLife * w \in Nat /\ 2 * HalfLife \in Nat
    BY <2>5, <2>6
  <2>12. base \in Nat
    BY <2>11
  <2>13. extra \in Nat /\ extra > 0
    BY <2>5, <2>6, <2>8
  <2> HIDE DEF base, extra
  <2>14. b * base < b * (base + extra)
    BY <2>5, <2>12, <2>13, BoostCounts
  <2>15. b * base \in Nat /\ b * (base + extra) \in Nat
    BY <2>5, <2>12, <2>13
  <2> QED
    BY <2>2, <2>9, <2>10, <2>14, <2>15
<1> QED
  BY <1>1, CacheStays, SearchStaysRight, PTL

=============================================================================
