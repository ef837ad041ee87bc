----------------------------- MODULE NodeProofs -----------------------------
(***************************************************************************)
(* Proofs about the writer node's one thread: Reports, the analyses it     *)
(* folds events into with what it streams and publishes, for every set of  *)
(* scenarios and every clock; and WriterNode, the channel it is fed by and *)
(* the commits it makes.                                                   *)
(***************************************************************************)
EXTENDS Reports, WriterNode, FiniteSetTheorems, TLAPS

-----------------------------------------------------------------------------
(* The invariant on resident state and stores.                             *)

IsMap(f) == f = [x \in DOMAIN f |-> f[x]]

\* A bucket of activity: two sums of sats, the number of zaps, events by kind.
Bucket(b) ==
    /\ IsMap(b) /\ {"sent", "received", "zap_count"} \subseteq DOMAIN b
    /\ b["zap_count"] \in Nat
    /\ \A k \in DOMAIN b \ {"zap_count"} : b[k] \in Count
ActivityOK(s) ==
    /\ s = [days |-> s.days, dirty |-> s.dirty]
    /\ IsMap(s.days) /\ s.dirty \subseteq DOMAIN s.days
    /\ \A d \in DOMAIN s.days : Bucket(s.days[d])

\* Sketches by bucket, finite each.
Sketches(m) == IsMap(m) /\ \A b \in DOMAIN m : IsMap(m[b]) /\ IsFiniteSet(DOMAIN m[b])
ActiveOK(s) ==
    /\ s = [all |-> s.all, trusted |-> s.trusted, dirty |-> s.dirty]
    /\ IsMap(s.all) /\ IsMap(s.trusted) /\ IsMap(s.dirty)
    /\ DOMAIN s.all = DOMAIN Scales /\ DOMAIN s.trusted = DOMAIN Scales /\ DOMAIN s.dirty = DOMAIN Scales
    /\ \A k \in DOMAIN Scales :
          Sketches(s.all[k]) /\ Sketches(s.trusted[k]) /\ s.dirty[k] \subseteq DOMAIN s.all[k]

\* Numbers of new users; a bucket without any is not kept.
NewOK(s) ==
    /\ s = [tally |-> s.tally, dirty |-> s.dirty]
    /\ IsMap(s.tally) /\ IsMap(s.dirty)
    /\ DOMAIN s.tally = DOMAIN FirstScales /\ DOMAIN s.dirty = DOMAIN FirstScales
    /\ \A k \in DOMAIN FirstScales :
          IsMap(s.tally[k]) /\ \A b \in DOMAIN s.tally[k] : s.tally[k][b] \in Nat \ {0}

\* Counters by client.
ClientOK(s) ==
    /\ s = [data |-> s.data, dirty |-> s.dirty]
    /\ IsMap(s.data) /\ s.dirty \subseteq DOMAIN s.data
    /\ \A c \in DOMAIN s.data :
          /\ IsMap(s.data[c]) /\ DOMAIN NoClient \subseteq DOMAIN s.data[c]
          /\ \A x \in DOMAIN s.data[c] : s.data[c][x] \in Nat

CountsOK(c) == IsMap(c) /\ \A pk \in DOMAIN c : c[pk] \in Nat

MemOK(m) ==
    /\ IsMap(m) /\ DOMAIN m = Names
    /\ ActivityOK(m["activity"]) /\ ActiveOK(m["active_users"]) /\ NewOK(m["new_users"])
    /\ ClientOK(m["client_tags"]) /\ CountsOK(m["follow_graph"])

\* The stores on disk.
GraphOK(g) ==
    /\ IsMap(g) /\ IsFiniteSet(DOMAIN g)
    /\ \A a \in DOMAIN g : g[a].at \in Nat /\ g[a].follows \in Seq(DOMAIN Hash)
FirstOK(f) == IsMap(f) /\ IsFiniteSet(DOMAIN f) /\ \A a \in DOMAIN f : f[a] \in Nat

TypesOK ==
    /\ scenario \in Scenarios
    /\ MemOK(mem) /\ saved = [mem |-> saved.mem, consumed |-> saved.consumed] /\ MemOK(saved.mem)
    /\ GraphOK(graph) /\ FirstOK(first)

\* The follower counts are those of the lists; the tallies are those of the
\* first-seen times.
CountsMatch(c, g) == \A pk \in DOMAIN c \cup Followed(g) : At(c, pk, 0) = Followers(g, pk)
FirstIn(f, k, b) == {a \in DOMAIN f : Start(f[a], FirstScales[k]) = b}
TallyMatches(t, f) == \A k \in DOMAIN FirstScales : \A b : At(t[k], b, 0) = Cardinality(FirstIn(f, k, b))

\* A checkpoint that no store has left behind agrees with the stores too, or
\* has no counts, which are then derived; without counts in memory it has none.
TallyInv ==
    /\ mem["follow_graph"] = << >> /\ "graph" \notin unsaved => saved.mem["follow_graph"] = << >>
    /\ "graph" \notin torn => CountsMatch(mem["follow_graph"], graph)
    /\ "graph" \notin torn \cup unsaved =>
          saved.mem["follow_graph"] = << >> \/ CountsMatch(saved.mem["follow_graph"], graph)
    /\ "first" \notin torn => TallyMatches(mem["new_users"].tally, first)
    /\ "first" \notin torn \cup unsaved => TallyMatches(saved.mem["new_users"].tally, first)

-----------------------------------------------------------------------------
(* The invariant on published reports: what is not to be patched is as in  *)
(* the snapshot, what is to be patched only gains keys.                    *)

\* An object a patch may be put on: no key of it is missing from the next one.
Grows(old, new) == IsMap(old) /\ DOMAIN old \subseteq DOMAIN new

ActivityFits(r, s) ==
    /\ Grows(r, s.days)
    /\ \A d \in DOMAIN s.days : IF d \in s.dirty THEN d \in DOMAIN r => Grows(r[d], s.days[d])
                                                 ELSE d \in DOMAIN r /\ r[d] = s.days[d]
ActiveFits(r, s) ==
    /\ IsMap(r) /\ DOMAIN r = DOMAIN Scales
    /\ \A k \in DOMAIN Scales :
          /\ Grows(r[k], s.all[k])
          /\ \A b \in DOMAIN s.all[k] \ s.dirty[k] : b \in DOMAIN r[k] /\ r[k][b] = BucketAt(s, k, b)
NewFits(r, s) ==
    /\ IsMap(r) /\ DOMAIN r = DOMAIN FirstScales
    /\ \A k \in DOMAIN FirstScales :
          /\ IsMap(r[k])
          /\ \A b \in (DOMAIN r[k] \cup DOMAIN s.tally[k]) \ s.dirty[k] :
                b \in DOMAIN r[k] /\ b \in DOMAIN s.tally[k] /\ r[k][b] = s.tally[k][b]
ClientFits(r, s) ==
    /\ Grows(r, s.data)
    /\ \A c \in DOMAIN s.data : IF c \in s.dirty THEN c \in DOMAIN r => Grows(r[c], s.data[c])
                                                 ELSE c \in DOMAIN r /\ r[c] = s.data[c]
Fits(r, m) ==
    /\ ActivityFits(r["activity"], m["activity"]) /\ ActiveFits(r["active_users"], m["active_users"])
    /\ NewFits(r["new_users"], m["new_users"]) /\ ClientFits(r["client_tags"], m["client_tags"])

StoreInv == IsMap(store) /\ DOMAIN store = Names /\ (~unpublished => Fits(store, mem))

-----------------------------------------------------------------------------
(* Maps, saturating numbers, the empty map.                                *)

\* The map without keys.
LEMMA EmptyMap ==
    /\ DOMAIN << >> = {} /\ IsMap(<< >>)
    /\ \A f : IsMap(f) /\ DOMAIN f = {} => f = << >>
<1>1. DOMAIN << >> = {}
  OBVIOUS
<1>2. [x \in {} |-> << >>[x]] = << >>
  OBVIOUS
<1>3. ASSUME NEW f, IsMap(f), DOMAIN f = {}
      PROVE  f = << >>
  BY <1>1, <1>2, <1>3 DEF IsMap
<1> QED
  BY <1>1, <1>2, <1>3 DEF IsMap

\* Two maps with the same keys and values.
LEMMA SameMap ==
    ASSUME NEW f, NEW g, IsMap(f), IsMap(g), DOMAIN f = DOMAIN g,
           \A x \in DOMAIN f : f[x] = g[x]
    PROVE  f = g
BY DEF IsMap

\* Saturation at zero.
LEMMA Floor0Facts ==
    ASSUME NEW n \in Int
    PROVE  Floor0(n) = (IF n >= 0 THEN n ELSE 0) /\ Floor0(n) \in Nat
<1> DEFINE hi == IF n >= 0 THEN n ELSE 0
           top(x) == x \in {0, n} /\ \A y \in {0, n} : x >= y
<1>1. hi \in {0, n} /\ \A y \in {0, n} : hi >= y
  OBVIOUS
<1>2. \A x : top(x) => x = hi
  OBVIOUS
<1>3. Max({0, n}) = CHOOSE x \in {0, n} : \A y \in {0, n} : x >= y
  BY DEF Max
<1>4. Max({0, n}) = hi
  BY <1>1, <1>2, <1>3
<1> QED
  BY <1>4 DEF Floor0

-----------------------------------------------------------------------------
(* Counting followers.                                                     *)

\* The places of a key in a list are finitely many.
LEMMA PlacesFinite ==
    ASSUME NEW S, NEW list \in Seq(S), NEW pk
    PROVE  /\ IsFiniteSet(Places(list, pk)) /\ Cardinality(Places(list, pk)) \in Nat
           /\ pk \notin ToSet(list) => Cardinality(Places(list, pk)) = 0
<1>1. DOMAIN list = 1..Len(list) /\ Len(list) \in Nat
  OBVIOUS
<1>2. IsFiniteSet(1..Len(list))
  BY <1>1, FS_Interval
<1>3. IsFiniteSet(Places(list, pk))
  BY <1>1, <1>2, FS_Subset DEF Places
<1>4. Cardinality(Places(list, pk)) \in Nat
  BY <1>3, FS_CardinalityType
<1>5. ASSUME pk \notin ToSet(list) PROVE Cardinality(Places(list, pk)) = 0
  <2>1. Places(list, pk) = {}
    BY <1>5 DEF Places, ToSet
  <2> QED
    BY <2>1, FS_EmptySet
<1> QED
  BY <1>3, <1>4, <1>5

\* Where a key is listed: by whom, and at which place.
Edges(g, pk) == UNION {{a} \X Places(g[a].follows, pk) : a \in DOMAIN g}

\* There are finitely many such edges.
LEMMA EdgesFinite ==
    ASSUME NEW g, GraphOK(g), NEW pk
    PROVE  /\ IsFiniteSet(Edges(g, pk)) /\ Followers(g, pk) = Cardinality(Edges(g, pk))
           /\ Followers(g, pk) \in Nat
<1> DEFINE part(a) == {a} \X Places(g[a].follows, pk)
           parts == {part(a) : a \in DOMAIN g}
           f == [a \in DOMAIN g |-> part(a)]
<1>1. \A a \in DOMAIN g : IsFiniteSet(part(a))
  <2> SUFFICES ASSUME NEW a \in DOMAIN g PROVE IsFiniteSet(part(a))
    OBVIOUS
  <2>1. IsFiniteSet(Places(g[a].follows, pk))
    BY PlacesFinite DEF GraphOK
  <2> QED
    BY <2>1, FS_Singleton, FS_Product
<1> HIDE DEF part
<1>2. f \in Surjection(DOMAIN g, parts)
  BY DEF Surjection
<1>3. IsFiniteSet(parts)
  BY <1>2, FS_Surjection DEF GraphOK
<1>4. \A T \in parts : IsFiniteSet(T)
  BY <1>1
<1> HIDE DEF parts
<1>5. IsFiniteSet(UNION parts)
  BY <1>3, <1>4, FS_UNION
<1>6. Edges(g, pk) = UNION parts
  BY DEF Edges, parts, part
<1>7. Followers(g, pk) = Cardinality(Edges(g, pk))
  BY DEF Followers, Edges
<1> QED
  BY <1>5, <1>6, <1>7, FS_CardinalityType

\* A pair is an edge if its author's list has the key at its place.
LEMMA EdgeIn ==
    ASSUME NEW g, NEW pk, NEW e
    PROVE  e \in Edges(g, pk) <=> \E a \in DOMAIN g : \E i \in Places(g[a].follows, pk) : e = <<a, i>>
BY DEF Edges

\* Who is in no list has no follower.
LEMMA NoFollower ==
    ASSUME NEW g, GraphOK(g), NEW pk, pk \notin Followed(g)
    PROVE  Followers(g, pk) = 0
<1>1. \A a \in DOMAIN g : Places(g[a].follows, pk) = {}
  BY DEF Followed, Places, ToSet
<1>2. Edges(g, pk) = {}
  BY <1>1 DEF Edges
<1> QED
  BY <1>2, EdgesFinite, FS_EmptySet

\* What a map of counts says of every key.
LEMMA MatchAll ==
    ASSUME NEW g, GraphOK(g), NEW c, CountsMatch(c, g), NEW pk
    PROVE  At(c, pk, 0) = Followers(g, pk)
<1>1. CASE pk \in DOMAIN c \cup Followed(g)
  BY <1>1 DEF CountsMatch
<1>2. CASE pk \notin DOMAIN c \cup Followed(g)
  BY <1>2, NoFollower DEF At
<1> QED
  BY <1>1, <1>2

\* The places in the list that the author had.
Before(g, a, pk) == IF a \in DOMAIN g THEN Cardinality(Places(g[a].follows, pk)) ELSE 0

\* A new list takes the author's old places away and adds its own.
LEMMA FollowersOfPut ==
    ASSUME NEW g, GraphOK(g), NEW a, NEW v, v.follows \in Seq(DOMAIN Hash), v.at \in Nat, NEW pk
    PROVE  /\ GraphOK(Put(g, a, v))
           /\ Before(g, a, pk) \in Nat /\ Before(g, a, pk) <= Followers(g, pk)
           /\ Followers(Put(g, a, v), pk) =
                 Followers(g, pk) - Before(g, a, pk) + Cardinality(Places(v.follows, pk))
<1> DEFINE h == Put(g, a, v)
           now == {a} \X Places(v.follows, pk)
           was == IF a \in DOMAIN g THEN {a} \X Places(g[a].follows, pk) ELSE {}
           all == Edges(g, pk)
<1>1. /\ IsMap(h) /\ DOMAIN h = DOMAIN g \cup {a} /\ h[a] = v
      /\ \A x \in DOMAIN g \ {a} : h[x] = g[x]
  BY DEF Put, IsMap
<1>2. GraphOK(h)
  <2>1. IsFiniteSet(DOMAIN h)
    BY <1>1, FS_AddElement DEF GraphOK
  <2>2. \A x \in DOMAIN h : h[x].at \in Nat /\ h[x].follows \in Seq(DOMAIN Hash)
    BY <1>1 DEF GraphOK
  <2> QED
    BY <1>1, <2>1, <2>2 DEF GraphOK
<1>3. IsFiniteSet(now) /\ Cardinality(now) = Cardinality(Places(v.follows, pk))
      /\ Cardinality(now) \in Nat
  <2>1. IsFiniteSet(Places(v.follows, pk)) /\ Cardinality(Places(v.follows, pk)) \in Nat
    BY PlacesFinite
  <2>2. IsFiniteSet({a}) /\ Cardinality({a}) = 1
    BY FS_Singleton
  <2>3. IsFiniteSet(now) /\ Cardinality(now) = 1 * Cardinality(Places(v.follows, pk))
    BY <2>1, <2>2, FS_Product
  <2> QED
    BY <2>1, <2>3
<1>4. IsFiniteSet(was) /\ Cardinality(was) = Before(g, a, pk) /\ Before(g, a, pk) \in Nat
  <2>1. CASE a \in DOMAIN g
    <3>1. IsFiniteSet(Places(g[a].follows, pk)) /\ Cardinality(Places(g[a].follows, pk)) \in Nat
      BY <2>1, PlacesFinite DEF GraphOK
    <3>2. IsFiniteSet({a}) /\ Cardinality({a}) = 1
      BY FS_Singleton
    <3>3. /\ IsFiniteSet({a} \X Places(g[a].follows, pk))
          /\ Cardinality({a} \X Places(g[a].follows, pk)) = 1 * Cardinality(Places(g[a].follows, pk))
      BY <3>1, <3>2, FS_Product
    <3> QED
      BY <2>1, <3>1, <3>3 DEF Before
  <2>2. CASE a \notin DOMAIN g
    BY <2>2, FS_EmptySet DEF Before
  <2> QED
    BY <2>1, <2>2
<1>5. IsFiniteSet(all) /\ Followers(g, pk) = Cardinality(all) /\ Cardinality(all) \in Nat
  BY EdgesFinite
<1>6. was \subseteq all
  BY DEF Edges
<1>7. Edges(h, pk) = (all \ was) \cup now
  <2> HIDE DEF h
  <2>1. ASSUME NEW x, NEW i PROVE <<x, i>> \in Edges(h, pk) <=> <<x, i>> \in (all \ was) \cup now
    <3>1. CASE x = a
      BY <1>1, <3>1, EdgeIn
    <3>2. CASE x # a
      BY <1>1, <3>2, EdgeIn
    <3> QED
      BY <3>1, <3>2
  <2>2. \A e \in Edges(h, pk) : \E x, i : e = <<x, i>>
    BY EdgeIn
  <2>3. \A e \in (all \ was) \cup now : \E x, i : e = <<x, i>>
    BY EdgeIn
  <2> QED
    BY <2>1, <2>2, <2>3
<1>8. (all \ was) \cap now = {}
  BY EdgeIn
<1>9. Cardinality(all \ was) = Cardinality(all) - Cardinality(was) /\ IsFiniteSet(all \ was)
      /\ Cardinality(was) <= Cardinality(all)
  <2>1. all \cap was = was
    BY <1>6
  <2> HIDE DEF all, was
  <2>2. IsFiniteSet(all \ was) /\ Cardinality(all \ was) = Cardinality(all) - Cardinality(all \cap was)
    BY <1>5, FS_Difference
  <2>3. Cardinality(was) <= Cardinality(all)
    BY <1>5, <1>6, FS_Subset
  <2> QED
    BY <2>1, <2>2, <2>3
<1>10. Cardinality(Edges(h, pk)) = Cardinality(all \ was) + Cardinality(now)
  <2> HIDE DEF all, was, now, h
  <2>1. Cardinality((all \ was) \cup now)
        = Cardinality(all \ was) + Cardinality(now) - Cardinality((all \ was) \cap now)
    BY <1>3, <1>9, FS_Union
  <2>2. Cardinality((all \ was) \cap now) = 0
    BY <1>8, FS_EmptySet
  <2>3. Cardinality(all \ was) \in Nat /\ Cardinality(now) \in Nat
    BY <1>3, <1>9, FS_CardinalityType
  <2> QED
    BY <1>7, <2>1, <2>2, <2>3
<1>11. Followers(h, pk) = Cardinality(Edges(h, pk))
  BY <1>2, EdgesFinite
<1> HIDE DEF h, was, now, all
<1> QED
  BY <1>2, <1>3, <1>4, <1>5, <1>9, <1>10, <1>11 DEF h

\* What an applied delta leaves of a count.
LEMMA DeltaAt ==
    ASSUME NEW c, CountsOK(c), NEW q \in Seq(DOMAIN Hash), NEW d \in {-1, 1}, NEW pk
    PROVE  /\ CountsOK(ApplyDelta(c, q, d))
           /\ At(ApplyDelta(c, q, d), pk, 0) = Floor0(At(c, pk, 0) + d * Cardinality(Places(q, pk)))
           /\ At(c, pk, 0) \in Nat
<1> DEFINE val(x) == At(c, x, 0) + d * Cardinality(Places(q, x))
           keys == DOMAIN c \cup ToSet(q)
<1>1. ASSUME NEW x
      PROVE  /\ At(c, x, 0) \in Nat /\ Cardinality(Places(q, x)) \in Nat
             /\ val(x) \in Int /\ Floor0(val(x)) \in Nat
  <2>1. At(c, x, 0) \in Nat
    BY DEF At, CountsOK
  <2>2. Cardinality(Places(q, x)) \in Nat
    BY PlacesFinite
  <2>3. val(x) \in Int
    BY <2>1, <2>2
  <2> QED
    BY <2>1, <2>2, <2>3, Floor0Facts
<1>2. ApplyDelta(c, q, d) = [x \in keys |-> Floor0(val(x))]
  BY DEF ApplyDelta
<1>3. CASE pk \in keys
  BY <1>1, <1>2, <1>3 DEF CountsOK, IsMap, At
<1>4. CASE pk \notin keys
  <2>1. At(c, pk, 0) = 0 /\ Cardinality(Places(q, pk)) = 0
    BY <1>4, PlacesFinite DEF At
  <2>2. Floor0(val(pk)) = 0
    BY <2>1, Floor0Facts
  <2>3. At(ApplyDelta(c, q, d), pk, 0) = 0
    BY <1>2, <1>4 DEF At
  <2> QED
    BY <1>1, <1>2, <2>2, <2>3 DEF CountsOK, IsMap
<1> QED
  BY <1>3, <1>4

\* A contact list keeps the types of counts and lists, and no count is dropped,
\* whatever calls of the store fail (follow_graph.rs: observe).
LEMMA FollowsTypes ==
    ASSUME NEW c, CountsOK(c), NEW g, GraphOK(g), NEW ev, IsEvent(ev), NEW failing
    PROVE  LET f == ObserveFollows([counts |-> c, graph |-> g], ev, failing)
           IN  CountsOK(f.counts) /\ GraphOK(f.graph) /\ (f.counts = << >> => c = << >>)
<1> DEFINE a == ev.author
           v == [at |-> ev.at, follows |-> ev.p]
           less == IF "get" \in failing THEN c ELSE Supersede(c, g, a)
           more == ApplyDelta(less, ev.p, 1)
           h == Put(g, a, v)
           nothing == ev.kind # "contacts" \/ "created_at" \in failing \/ NotNewer(g, ev)
           f == ObserveFollows([counts |-> c, graph |-> g], ev, failing)
<1>0. ev.p \in Seq(DOMAIN Hash) /\ ev.at \in Nat
  BY DEF IsEvent
<1>1. f = IF nothing THEN [counts |-> c, graph |-> g]
          ELSE [counts |-> more, graph |-> IF "put" \in failing THEN g ELSE h]
  BY DEF ObserveFollows
<1>2. CountsOK(less) /\ DOMAIN c \subseteq DOMAIN less
  <2>1. CASE "get" \in failing \/ a \notin DOMAIN g
    BY <2>1 DEF Supersede
  <2>2. CASE "get" \notin failing /\ a \in DOMAIN g
    <3>1. g[a].follows \in Seq(DOMAIN Hash)
      BY <2>2 DEF GraphOK
    <3>2. less = ApplyDelta(c, g[a].follows, -1)
      BY <2>2 DEF Supersede
    <3>3. DOMAIN c \subseteq DOMAIN ApplyDelta(c, g[a].follows, -1)
      BY DEF ApplyDelta
    <3> QED
      BY <3>1, <3>2, <3>3, DeltaAt
  <2> QED
    BY <2>1, <2>2
<1> HIDE DEF less
<1>3. CountsOK(more) /\ DOMAIN less \subseteq DOMAIN more
  <2>1. CountsOK(more)
    BY <1>0, <1>2, DeltaAt
  <2>2. DOMAIN less \subseteq DOMAIN more
    BY DEF ApplyDelta
  <2> QED
    BY <2>1, <2>2
<1>4. v.follows \in Seq(DOMAIN Hash) /\ v.at \in Nat
  BY <1>0
<1> HIDE DEF v, more
<1>5. GraphOK(h)
  BY <1>4, FollowersOfPut
<1>6. more = << >> => c = << >>
  BY <1>2, <1>3, EmptyMap DEF CountsOK
<1> HIDE DEF h, nothing, f
<1>7. CountsOK(f.counts) /\ GraphOK(f.graph) /\ (f.counts = << >> => c = << >>)
  BY <1>1, <1>3, <1>5, <1>6
<1> QED
  BY <1>7 DEF f

\* Counts that match the lists match them after a contact list, when no call of
\* the store fails (follow_graph.rs: observe).
LEMMA FollowsMatch ==
    ASSUME NEW c, CountsOK(c), NEW g, GraphOK(g), NEW ev, IsEvent(ev), CountsMatch(c, g)
    PROVE  LET f == ObserveFollows([counts |-> c, graph |-> g], ev, {})
           IN  CountsMatch(f.counts, f.graph)
<1> DEFINE a == ev.author
           v == [at |-> ev.at, follows |-> ev.p]
           less == Supersede(c, g, a)
           more == ApplyDelta(less, ev.p, 1)
           h == Put(g, a, v)
           stale == ev.kind # "contacts" \/ NotNewer(g, ev)
           f == ObserveFollows([counts |-> c, graph |-> g], ev, {})
<1>0. ev.p \in Seq(DOMAIN Hash) /\ ev.at \in Nat
  BY DEF IsEvent
<1>1. f = IF stale THEN [counts |-> c, graph |-> g] ELSE [counts |-> more, graph |-> h]
  BY DEF ObserveFollows
<1>2. ASSUME NEW pk
      PROVE  /\ CountsOK(less)
             /\ At(less, pk, 0) = (IF a \in DOMAIN g THEN Floor0(At(c, pk, 0) - Before(g, a, pk))
                                                      ELSE At(c, pk, 0))
             /\ At(less, pk, 0) \in Nat
  <2>1. CASE a \in DOMAIN g
    <3>1. g[a].follows \in Seq(DOMAIN Hash)
      BY <2>1 DEF GraphOK
    <3>2. less = ApplyDelta(c, g[a].follows, -1)
      BY <2>1 DEF Supersede
    <3>3. /\ CountsOK(less) /\ At(c, pk, 0) \in Nat
          /\ At(less, pk, 0) = Floor0(At(c, pk, 0) + (-1) * Cardinality(Places(g[a].follows, pk)))
      BY <3>1, <3>2, DeltaAt
    <3>4. Cardinality(Places(g[a].follows, pk)) \in Nat
      BY <3>1, PlacesFinite
    <3>5. At(c, pk, 0) + (-1) * Cardinality(Places(g[a].follows, pk)) = At(c, pk, 0) - Before(g, a, pk)
      BY <2>1, <3>3, <3>4 DEF Before
    <3>6. At(less, pk, 0) \in Nat
      BY <3>3 DEF CountsOK, At
    <3> QED
      BY <2>1, <3>3, <3>5, <3>6
  <2>2. CASE a \notin DOMAIN g
    BY <2>2 DEF Supersede, CountsOK, At
  <2> QED
    BY <2>1, <2>2
<1> HIDE DEF less
<1>3. ASSUME NEW pk
      PROVE  /\ CountsOK(more)
             /\ At(more, pk, 0) = At(less, pk, 0) + Cardinality(Places(ev.p, pk))
  <2>1. CountsOK(less) /\ At(less, pk, 0) \in Nat
    BY <1>2
  <2>2. /\ CountsOK(more)
        /\ At(more, pk, 0) = Floor0(At(less, pk, 0) + 1 * Cardinality(Places(ev.p, pk)))
    BY <1>0, <2>1, DeltaAt
  <2>3. Cardinality(Places(ev.p, pk)) \in Nat
    BY <1>0, PlacesFinite
  <2>4. Floor0(At(less, pk, 0) + 1 * Cardinality(Places(ev.p, pk)))
        = At(less, pk, 0) + Cardinality(Places(ev.p, pk))
    BY <2>1, <2>3, Floor0Facts
  <2> QED
    BY <2>2, <2>4
<1>4. v.follows \in Seq(DOMAIN Hash) /\ v.at \in Nat /\ v.follows = ev.p
  BY <1>0
<1> HIDE DEF v, more
<1>5. ASSUME NEW pk
      PROVE  /\ GraphOK(h) /\ Before(g, a, pk) \in Nat /\ Before(g, a, pk) <= Followers(g, pk)
             /\ Followers(h, pk) = Followers(g, pk) - Before(g, a, pk) + Cardinality(Places(ev.p, pk))
  BY <1>4, FollowersOfPut
<1> HIDE DEF h
<1>6. CountsMatch(more, h)
  <2> SUFFICES ASSUME NEW pk PROVE At(more, pk, 0) = Followers(h, pk)
    BY DEF CountsMatch
  <2>1. At(c, pk, 0) = Followers(g, pk) /\ Followers(g, pk) \in Nat
    BY MatchAll, EdgesFinite
  <2>2. At(less, pk, 0) = Followers(g, pk) - Before(g, a, pk)
    <3>1. CASE a \in DOMAIN g
      <4>1. Floor0(Followers(g, pk) - Before(g, a, pk)) = Followers(g, pk) - Before(g, a, pk)
        BY <1>5, <2>1, Floor0Facts
      <4> QED
        BY <1>2, <2>1, <3>1, <4>1
    <3>2. CASE a \notin DOMAIN g
      BY <1>2, <2>1, <3>2 DEF Before
    <3> QED
      BY <3>1, <3>2
  <2> QED
    BY <1>3, <1>5, <2>2
<1>7. CASE stale
  BY <1>1, <1>7
<1>8. CASE ~stale
  BY <1>1, <1>6, <1>8
<1> QED
  BY <1>7, <1>8

\* A part of a store is a store.
LEMMA PartOfStore ==
    ASSUME NEW f, NEW part \in SUBSET DOMAIN f
    PROVE  /\ GraphOK(f) => GraphOK(Restrict(f, part))
           /\ FirstOK(f) => FirstOK(Restrict(f, part))
           /\ IsMap(f) => Restrict(f, DOMAIN f) = f
<1>1. /\ IsMap(Restrict(f, part)) /\ DOMAIN Restrict(f, part) = part
      /\ \A x \in part : Restrict(f, part)[x] = f[x]
  BY DEF Restrict, IsMap
<1>2. IsFiniteSet(DOMAIN f) => IsFiniteSet(part)
  BY FS_Subset
<1>3. IsMap(f) => Restrict(f, DOMAIN f) = f
  BY DEF Restrict, IsMap
<1> QED
  BY <1>1, <1>2, <1>3 DEF GraphOK, FirstOK

\* Counts derived from all the lists match them, those from a part are marked
\* torn (follow_graph.rs: attach).
LEMMA AttachMatches ==
    ASSUME NEW c, CountsOK(c), NEW g, GraphOK(g), NEW read \in SUBSET DOMAIN g, NEW t
    PROVE  /\ CountsOK(AttachFollows(c, g, read)) /\ (AttachFollows(c, g, read) = << >> => c = << >>)
           /\ "first" \in TornByAttach(t, c, g, read) <=> "first" \in t
           /\ "graph" \notin TornByAttach(t, c, g, read) => c = << >> \/ "graph" \notin t
           /\ /\ "graph" \notin TornByAttach(t, c, g, read)
              /\ "graph" \notin t => c = << >> \/ CountsMatch(c, g)
              => CountsMatch(AttachFollows(c, g, read), g)
<1>1. CASE c = << >>
  <2> DEFINE part == Restrict(g, read)
  <2>1. AttachFollows(c, g, read) = [pk \in Followed(part) |-> Followers(part, pk)]
    BY <1>1 DEF AttachFollows, CountsOf
  <2>2. GraphOK(part) /\ (read = DOMAIN g => part = g)
    BY PartOfStore DEF GraphOK
  <2> HIDE DEF part
  <2>3. \A pk : Followers(part, pk) \in Nat
    BY <2>2, EdgesFinite
  <2>4. CountsOK(AttachFollows(c, g, read)) /\ CountsMatch(AttachFollows(c, g, read), part)
    BY <2>1, <2>3 DEF CountsOK, CountsMatch, IsMap, At
  <2>5. "graph" \notin TornByAttach(t, c, g, read) => read = DOMAIN g
    BY <1>1 DEF TornByAttach
  <2> QED
    BY <1>1, <2>2, <2>4, <2>5 DEF TornByAttach
<1>2. CASE c # << >>
  BY <1>2 DEF AttachFollows, TornByAttach
<1> QED
  BY <1>1, <1>2

\* No counts match no lists.
LEMMA EmptyMatches == CountsOK(<< >>) /\ GraphOK(<< >>) /\ CountsMatch(<< >>, << >>)
<1>1. GraphOK(<< >>)
  BY EmptyMap, FS_EmptySet DEF GraphOK
<1>2. Followed(<< >>) = {}
  BY EmptyMap DEF Followed
<1> QED
  BY <1>1, <1>2, EmptyMap DEF CountsOK, CountsMatch

-----------------------------------------------------------------------------
(* Counting new users.                                                     *)

\* What a shift leaves of the tallies: only the bucket of its time changes,
\* and that one is to be patched.
LEMMA ShiftFacts ==
    ASSUME NEW s, NewOK(s), NEW at, NEW d \in {-1, 1}, NEW k \in DOMAIN FirstScales
    PROVE  LET t == Shift(s, at, d)
               here == Start(at, FirstScales[k])
           IN  /\ NewOK(t)
               /\ t.dirty[k] = s.dirty[k] \cup {here}
               /\ \A b : b # here => /\ b \in DOMAIN t.tally[k] <=> b \in DOMAIN s.tally[k]
                                     /\ b \in DOMAIN t.tally[k] => t.tally[k][b] = s.tally[k][b]
               /\ At(t.tally[k], here, 0) = Floor0(At(s.tally[k], here, 0) + d)
               /\ At(s.tally[k], here, 0) \in Nat
<1> DEFINE t == Shift(s, at, d)
           st(j) == Start(at, FirstScales[j])
           num(j) == Floor0(At(s.tally[j], st(j), 0) + d)
           less(j) == [x \in DOMAIN s.tally[j] \ {st(j)} |-> s.tally[j][x]]
           more(j) == Put(s.tally[j], st(j), num(j))
           next(j) == IF num(j) = 0 THEN less(j) ELSE more(j)
<1>1. t = [tally |-> [j \in DOMAIN FirstScales |-> next(j)],
           dirty |-> [j \in DOMAIN FirstScales |-> s.dirty[j] \cup {st(j)}]]
  BY DEF Shift
<1>2. ASSUME NEW j \in DOMAIN FirstScales
      PROVE  At(s.tally[j], st(j), 0) \in Nat /\ num(j) \in Nat
  <2>1. At(s.tally[j], st(j), 0) \in Nat
    BY DEF At, NewOK
  <2> QED
    BY <2>1, Floor0Facts
<1>3. ASSUME NEW j \in DOMAIN FirstScales
      PROVE  /\ IsMap(next(j)) /\ \A b \in DOMAIN next(j) : next(j)[b] \in Nat \ {0}
             /\ \A b : b # st(j) => /\ b \in DOMAIN next(j) <=> b \in DOMAIN s.tally[j]
                                    /\ b \in DOMAIN next(j) => next(j)[b] = s.tally[j][b]
             /\ At(next(j), st(j), 0) = num(j)
  <2>1. /\ IsMap(s.tally[j]) /\ \A b \in DOMAIN s.tally[j] : s.tally[j][b] \in Nat \ {0}
        /\ num(j) \in Nat
    BY <1>2 DEF NewOK
  <2> HIDE DEF st, num
  <2>2. CASE num(j) = 0
    <3>1. next(j) = less(j)
      BY <2>2
    <3> QED
      BY <2>1, <2>2, <3>1 DEF IsMap, At
  <2>3. CASE num(j) # 0
    <3>1. next(j) = more(j)
      BY <2>3
    <3> QED
      BY <2>1, <2>3, <3>1 DEF IsMap, At, Put
  <2> QED
    BY <2>2, <2>3
<1> HIDE DEF next, num, st
<1>4. NewOK(t)
  BY <1>1, <1>3 DEF NewOK, IsMap
<1>5. t.tally[k] = next(k) /\ t.dirty[k] = s.dirty[k] \cup {st(k)}
  BY <1>1
<1> HIDE DEF t
<1>6. /\ NewOK(t) /\ t.dirty[k] = s.dirty[k] \cup {st(k)}
      /\ \A b : b # st(k) => /\ b \in DOMAIN t.tally[k] <=> b \in DOMAIN s.tally[k]
                             /\ b \in DOMAIN t.tally[k] => t.tally[k][b] = s.tally[k][b]
      /\ At(t.tally[k], st(k), 0) = num(k)
      /\ At(s.tally[k], st(k), 0) \in Nat
  BY <1>2, <1>3, <1>4, <1>5
<1> QED
  BY <1>6 DEF t, st, num

\* The authors first seen in a bucket, after one author's time is set.
LEMMA FirstInPut ==
    ASSUME NEW f, FirstOK(f), NEW a, NEW at \in Nat, NEW k \in DOMAIN FirstScales, NEW b
    PROVE  LET was == IF a \in DOMAIN f /\ Start(f[a], FirstScales[k]) = b THEN 1 ELSE 0
               is == IF Start(at, FirstScales[k]) = b THEN 1 ELSE 0
           IN  /\ FirstOK(Put(f, a, at))
               /\ Cardinality(FirstIn(f, k, b)) \in Nat /\ Cardinality(FirstIn(f, k, b)) >= was
               /\ Cardinality(FirstIn(Put(f, a, at), k, b)) = Cardinality(FirstIn(f, k, b)) - was + is
<1> DEFINE h == Put(f, a, at)
           S == FirstIn(f, k, b)
           rest == S \ {a}
<1>1. /\ IsMap(h) /\ DOMAIN h = DOMAIN f \cup {a} /\ h[a] = at
      /\ \A x \in DOMAIN f \ {a} : h[x] = f[x]
  BY DEF Put, IsMap
<1>2. FirstOK(h)
  <2>1. IsFiniteSet(DOMAIN h)
    BY <1>1, FS_AddElement DEF FirstOK
  <2> QED
    BY <1>1, <2>1 DEF FirstOK
<1>3. IsFiniteSet(S) /\ Cardinality(S) \in Nat
  <2>1. S \subseteq DOMAIN f
    BY DEF FirstIn
  <2>2. IsFiniteSet(S)
    BY <2>1, FS_Subset DEF FirstOK
  <2> QED
    BY <2>2, FS_CardinalityType
<1>4. a \in S <=> a \in DOMAIN f /\ Start(f[a], FirstScales[k]) = b
  BY DEF FirstIn
<1>5. FirstIn(h, k, b) = IF Start(at, FirstScales[k]) = b THEN rest \cup {a} ELSE rest
  <2> HIDE DEF h
  <2>1. \A x : x \in FirstIn(h, k, b) <=> x \in DOMAIN h /\ Start(h[x], FirstScales[k]) = b
    BY DEF FirstIn
  <2>2. \A x : x \in rest <=> x \in DOMAIN f /\ Start(f[x], FirstScales[k]) = b /\ x # a
    BY DEF FirstIn
  <2> HIDE DEF rest
  <2> QED
    BY <1>1, <2>1, <2>2
<1> HIDE DEF S, h
<1>6. /\ IsFiniteSet(rest)
      /\ Cardinality(rest) = IF a \in S THEN Cardinality(S) - 1 ELSE Cardinality(S)
      /\ Cardinality(rest) \in Nat
  BY <1>3, FS_RemoveElement, FS_CardinalityType
<1>7. a \notin rest
  OBVIOUS
<1> HIDE DEF rest
<1>8. Cardinality(rest \cup {a}) = Cardinality(rest) + 1
  BY <1>6, <1>7, FS_AddElement
<1>9. Cardinality(S) >= IF a \in S THEN 1 ELSE 0
  BY <1>3, <1>6
<1>10. Cardinality(FirstIn(h, k, b)) = Cardinality(rest) + IF Start(at, FirstScales[k]) = b THEN 1 ELSE 0
  BY <1>5, <1>6, <1>8
<1> QED
  BY <1>2, <1>3, <1>4, <1>6, <1>9, <1>10 DEF S, h

\* An event keeps the types of the tallies and of the first-seen times, whatever
\* calls of the store fail (new_users.rs: observe).
LEMMA FirstTypes ==
    ASSUME NEW s, NewOK(s), NEW f, FirstOK(f), NEW ev, IsEvent(ev), NEW failing
    PROVE  LET u == ObserveFirst([new |-> s, first |-> f], ev, failing)
           IN  NewOK(u.new) /\ FirstOK(u.first)
<1> DEFINE prev == IF "get" \in failing THEN Null ELSE At(f, ev.author, Null)
           moved == IF prev = Null THEN s ELSE Shift(s, prev, -1)
           t == Shift(moved, ev.at, 1)
           h == Put(f, ev.author, ev.at)
           u == ObserveFirst([new |-> s, first |-> f], ev, failing)
<1>0. "daily" \in DOMAIN FirstScales /\ ev.at \in Nat
  BY DEF FirstScales, IsEvent
<1>1. u = [new |-> s, first |-> f] \/ u = [new |-> t, first |-> IF "put" \in failing THEN f ELSE h]
  BY DEF ObserveFirst
<1>2. NewOK(moved)
  <2> HIDE DEF prev
  <2>1. NewOK(Shift(s, prev, -1))
    BY <1>0, ShiftFacts
  <2> QED
    BY <2>1
<1> HIDE DEF moved
<1>3. NewOK(t)
  BY <1>0, <1>2, ShiftFacts
<1>4. FirstOK(h)
  BY <1>0, FirstInPut
<1> HIDE DEF t, h, u
<1>5. NewOK(u.new) /\ FirstOK(u.first)
  BY <1>1, <1>3, <1>4
<1> QED
  BY <1>5 DEF u

\* An event leaves the tallies those of the first-seen times, when no call of the
\* store fails (new_users.rs: observe).
LEMMA FirstMatches ==
    ASSUME NEW s, NewOK(s), NEW f, FirstOK(f), NEW ev, IsEvent(ev), TallyMatches(s.tally, f)
    PROVE  LET u == ObserveFirst([new |-> s, first |-> f], ev, {})
           IN  TallyMatches(u.new.tally, u.first)
<1> DEFINE a == ev.author
           prev == At(f, a, Null)
           moved == IF prev = Null THEN s ELSE Shift(s, prev, -1)
           t == Shift(moved, ev.at, 1)
           h == Put(f, a, ev.at)
           u == ObserveFirst([new |-> s, first |-> f], ev, {})
           skip == UsesThrowawayKey(ev) \/ (prev # Null /\ prev <= ev.at)
<1>1. u = IF skip THEN [new |-> s, first |-> f] ELSE [new |-> t, first |-> h]
  BY DEF ObserveFirst
<1>2. prev # Null <=> a \in DOMAIN f
  BY AnalysesConstants DEF At, FirstOK
<1>3. a \in DOMAIN f => prev = f[a]
  BY DEF At
<1>4. ev.at \in Nat
  BY DEF IsEvent
<1> HIDE DEF prev
<1>5. ASSUME NEW k \in DOMAIN FirstScales
      PROVE  /\ NewOK(moved)
             /\ \A b : At(moved.tally[k], b, 0) = IF a \in DOMAIN f /\ b = Start(f[a], FirstScales[k])
                                                  THEN Floor0(At(s.tally[k], b, 0) - 1)
                                                  ELSE At(s.tally[k], b, 0)
  <2>1. CASE a \in DOMAIN f
    <3>0. moved = Shift(s, f[a], -1)
      BY <1>2, <1>3, <2>1
    <3> DEFINE here == Start(f[a], FirstScales[k])
    <3>1. /\ NewOK(moved)
          /\ \A b : b # here => /\ b \in DOMAIN moved.tally[k] <=> b \in DOMAIN s.tally[k]
                                /\ b \in DOMAIN moved.tally[k] => moved.tally[k][b] = s.tally[k][b]
          /\ At(moved.tally[k], here, 0) = Floor0(At(s.tally[k], here, 0) + (-1))
          /\ At(s.tally[k], here, 0) \in Nat
      BY <3>0, ShiftFacts
    <3> HIDE DEF here, moved
    <3>2. \A b : b # here => At(moved.tally[k], b, 0) = At(s.tally[k], b, 0)
      BY <3>1 DEF At
    <3>3. At(s.tally[k], here, 0) + (-1) = At(s.tally[k], here, 0) - 1
      BY <3>1
    <3> QED
      BY <2>1, <3>1, <3>2, <3>3 DEF here
  <2>2. CASE a \notin DOMAIN f
    BY <1>2, <2>2
  <2> QED
    BY <2>1, <2>2
<1> HIDE DEF moved
<1>6. ASSUME NEW k \in DOMAIN FirstScales
      PROVE  /\ NewOK(t)
             /\ \A b : At(t.tally[k], b, 0) = IF b = Start(ev.at, FirstScales[k])
                                              THEN Floor0(At(moved.tally[k], b, 0) + 1)
                                              ELSE At(moved.tally[k], b, 0)
  <2> DEFINE here == Start(ev.at, FirstScales[k])
  <2>0. NewOK(moved)
    BY <1>5
  <2>1. /\ NewOK(t)
        /\ \A b : b # here => /\ b \in DOMAIN t.tally[k] <=> b \in DOMAIN moved.tally[k]
                              /\ b \in DOMAIN t.tally[k] => t.tally[k][b] = moved.tally[k][b]
        /\ At(t.tally[k], here, 0) = Floor0(At(moved.tally[k], here, 0) + 1)
    BY <2>0, ShiftFacts
  <2> HIDE DEF here, t
  <2>2. \A b : b # here => At(t.tally[k], b, 0) = At(moved.tally[k], b, 0)
    BY <2>1 DEF At
  <2> QED
    BY <2>1, <2>2 DEF here
<1> HIDE DEF t
<1>7. TallyMatches(t.tally, h)
  <2> SUFFICES ASSUME NEW k \in DOMAIN FirstScales, NEW b
               PROVE  At(t.tally[k], b, 0) = Cardinality(FirstIn(h, k, b))
    BY DEF TallyMatches
  <2> DEFINE was == IF a \in DOMAIN f /\ Start(f[a], FirstScales[k]) = b THEN 1 ELSE 0
             is == IF Start(ev.at, FirstScales[k]) = b THEN 1 ELSE 0
             n == Cardinality(FirstIn(f, k, b))
  <2>1. n \in Nat /\ n >= was /\ Cardinality(FirstIn(h, k, b)) = n - was + is
    BY <1>4, FirstInPut
  <2>2. At(s.tally[k], b, 0) = n
    BY DEF TallyMatches
  <2> HIDE DEF n
  <2>3. At(moved.tally[k], b, 0) = n - was
    <3>1. CASE a \in DOMAIN f /\ b = Start(f[a], FirstScales[k])
      <4>1. Floor0(n - 1) = n - 1
        BY <2>1, <3>1, Floor0Facts
      <4> QED
        BY <1>5, <2>2, <3>1, <4>1
    <3>2. CASE ~(a \in DOMAIN f /\ b = Start(f[a], FirstScales[k]))
      BY <1>5, <2>1, <2>2, <3>2
    <3> QED
      BY <3>1, <3>2
  <2>4. At(t.tally[k], b, 0) = n - was + is
    <3>0. n - was \in Nat
      BY <2>1
    <3>1. CASE b = Start(ev.at, FirstScales[k])
      <4>1. Floor0((n - was) + 1) = n - was + 1
        BY <3>0, Floor0Facts
      <4>2. At(t.tally[k], b, 0) = Floor0((n - was) + 1)
        BY <1>6, <2>3, <3>1
      <4> QED
        BY <3>1, <4>1, <4>2
    <3>2. CASE b # Start(ev.at, FirstScales[k])
      <4>1. At(t.tally[k], b, 0) = At(moved.tally[k], b, 0)
        BY <1>6, <3>2
      <4>2. is = 0
        BY <3>2
      <4> HIDE DEF was, is
      <4> QED
        BY <2>3, <3>0, <4>1, <4>2
    <3> QED
      BY <3>1, <3>2
  <2> QED
    BY <2>1, <2>4
<1> HIDE DEF h
<1>8. CASE skip
  BY <1>1, <1>8
<1>9. CASE ~skip
  BY <1>1, <1>7, <1>9
<1> QED
  BY <1>8, <1>9

\* A shift keeps a report that the patch would complete one (delta.rs).
LEMMA ShiftFits ==
    ASSUME NEW s, NewOK(s), NEW at, NEW d \in {-1, 1}, NEW r, NewFits(r, s)
    PROVE  NewFits(r, Shift(s, at, d))
<1> DEFINE t == Shift(s, at, d)
<1> SUFFICES ASSUME NEW k \in DOMAIN FirstScales, NEW b \in (DOMAIN r[k] \cup DOMAIN t.tally[k]) \ t.dirty[k]
             PROVE  b \in DOMAIN r[k] /\ b \in DOMAIN t.tally[k] /\ r[k][b] = t.tally[k][b]
  BY DEF NewFits
<1> DEFINE here == Start(at, FirstScales[k])
<1>1. /\ t.dirty[k] = s.dirty[k] \cup {here}
      /\ \A x : x # here => /\ x \in DOMAIN t.tally[k] <=> x \in DOMAIN s.tally[k]
                            /\ x \in DOMAIN t.tally[k] => t.tally[k][x] = s.tally[k][x]
  BY ShiftFacts
<1> HIDE DEF t, here
<1> QED
  BY <1>1 DEF NewFits

\* So does an event (new_users.rs: observe).
LEMMA FirstFits ==
    ASSUME NEW s, NewOK(s), NEW f, NEW ev, NEW failing, NEW r, NewFits(r, s)
    PROVE  NewFits(r, ObserveFirst([new |-> s, first |-> f], ev, failing).new)
<1> DEFINE prev == IF "get" \in failing THEN Null ELSE At(f, ev.author, Null)
           moved == IF prev = Null THEN s ELSE Shift(s, prev, -1)
           t == Shift(moved, ev.at, 1)
           u == ObserveFirst([new |-> s, first |-> f], ev, failing)
<1>1. u.new = s \/ u.new = t
  BY DEF ObserveFirst
<1>2. NewOK(moved) /\ NewFits(r, moved)
  <2>1. CASE prev = Null
    BY <2>1
  <2>2. CASE prev # Null
    <3>0. "daily" \in DOMAIN FirstScales
      BY DEF FirstScales
    <3>1. NewOK(Shift(s, prev, -1)) /\ NewFits(r, Shift(s, prev, -1))
      BY <3>0, ShiftFacts, ShiftFits
    <3> QED
      BY <2>2, <3>1
  <2> QED
    BY <2>1, <2>2
<1> HIDE DEF moved
<1>3. NewFits(r, t)
  BY <1>2, ShiftFits
<1> QED
  BY <1>1, <1>3

-----------------------------------------------------------------------------
(* Activity.                                                               *)

\* Adding to a count.
LEMMA IncrCount ==
    ASSUME NEW c \in Count, NEW isTrusted \in BOOLEAN, NEW n \in Nat
    PROVE  Incr(c, isTrusted, n) \in Count
BY DEF Incr, Count

\* Amounts are numbers or absent.
LEMMA MsatsType ==
    ASSUME NEW ev, IsEvent(ev)
    PROVE  Msats(ev) # Null => Msats(ev) \in Nat /\ Msats(ev) \div 1000 \in Nat
BY AnalysesConstants DEF Msats, IsEvent

\* One key of a bucket set to a count.
LEMMA PutCount ==
    ASSUME NEW b, Bucket(b), NEW k, k # "zap_count", NEW c \in Count
    PROVE  Bucket(Put(b, k, c)) /\ DOMAIN Put(b, k, c) = DOMAIN b \cup {k}
BY DEF Bucket, Put, IsMap

\* The number of zaps set.
LEMMA PutZaps ==
    ASSUME NEW b, Bucket(b), NEW n \in Nat
    PROVE  Bucket(Put(b, "zap_count", n)) /\ DOMAIN Put(b, "zap_count", n) = DOMAIN b
BY DEF Bucket, Put, IsMap

\* The bucket of a day without events.
LEMMA NoActivityBucket == Bucket(NoActivity)
<1>1. NoActivity = [k \in {"sent", "received", "zap_count"} |-> IF k = "zap_count" THEN 0 ELSE NoCount]
  BY DEF NoActivity, Put
<1>2. NoCount \in Count
  BY DEF NoCount, Count
<1> QED
  BY <1>1, <1>2 DEF Bucket, IsMap

\* A zap keeps a bucket one and its keys.
LEMMA ZappedBucket ==
    ASSUME NEW b, Bucket(b), NEW ev, IsEvent(ev), NEW w
    PROVE  Bucket(Zapped(b, ev, w)) /\ DOMAIN b \subseteq DOMAIN Zapped(b, ev, w)
<1>1. CASE ev.kind # "zap" \/ Msats(ev) = Null
  BY <1>1 DEF Zapped
<1>2. CASE ~(ev.kind # "zap" \/ Msats(ev) = Null)
  <2> DEFINE sats == Msats(ev) \div 1000
             x == Put(b, "sent", Incr(b["sent"], IsTrusted(w, Sender(ev)), sats))
             y == Put(x, "received", Incr(b["received"], IsTrusted(w, Recipient(ev)), sats))
             z == Put(y, "zap_count", b["zap_count"] + 1)
  <2>1. sats \in Nat
    BY <1>2, MsatsType
  <2>2. b["sent"] \in Count /\ b["received"] \in Count /\ b["zap_count"] \in Nat
    BY DEF Bucket
  <2>3. \A pk : IsTrusted(w, pk) \in BOOLEAN
    BY DEF IsTrusted
  <2> HIDE DEF sats
  <2>4. Incr(b["sent"], IsTrusted(w, Sender(ev)), sats) \in Count
    BY <2>1, <2>2, <2>3, IncrCount
  <2>5. Incr(b["received"], IsTrusted(w, Recipient(ev)), sats) \in Count
    BY <2>1, <2>2, <2>3, IncrCount
  <2>6. Bucket(x) /\ DOMAIN x = DOMAIN b \cup {"sent"}
    BY <2>4, PutCount
  <2> HIDE DEF x
  <2>7. Bucket(y) /\ DOMAIN y = DOMAIN x \cup {"received"}
    BY <2>5, <2>6, PutCount
  <2> HIDE DEF y
  <2>8. Bucket(z) /\ DOMAIN z = DOMAIN y
    BY <2>2, <2>7, PutZaps
  <2>9. Zapped(b, ev, w) = z
    BY <1>2 DEF Zapped, sats, x, y
  <2> QED
    BY <2>6, <2>7, <2>8, <2>9
<1> QED
  BY <1>1, <1>2

\* An event keeps activity well-formed, and a report that its patch would
\* complete one (activity.rs: observe).
LEMMA ActivityStep ==
    ASSUME NEW s, ActivityOK(s), NEW ev, IsEvent(ev), NEW w
    PROVE  /\ ActivityOK(ObserveActivity(s, ev, w))
           /\ \A r : ActivityFits(r, s) => ActivityFits(r, ObserveActivity(s, ev, w))
<1> DEFINE t == ObserveActivity(s, ev, w)
           day == Start(ev.at, Day)
           b == At(s.days, day, NoActivity)
           was == At(b, ev.kind, NoCount)
           counted == Put(b, ev.kind, Incr(was, IsTrusted(w, ev.author), 1))
           now == Zapped(counted, ev, w)
<1>1. t = [days |-> Put(s.days, day, now), dirty |-> s.dirty \cup {day}]
  BY DEF ObserveActivity
<1>2. Bucket(b) /\ (day \in DOMAIN s.days => b = s.days[day])
  BY NoActivityBucket DEF At, ActivityOK
<1> HIDE DEF b
<1>3. Bucket(now) /\ DOMAIN b \subseteq DOMAIN now
  <2>1. was \in Count /\ ev.kind # "zap_count"
    <3>1. NoCount \in Count
      BY DEF NoCount, Count
    <3> QED
      BY <1>2, <3>1 DEF At, Bucket, IsEvent
  <2>2. IsTrusted(w, ev.author) \in BOOLEAN
    BY DEF IsTrusted
  <2> HIDE DEF was
  <2>3. Incr(was, IsTrusted(w, ev.author), 1) \in Count
    BY <2>1, <2>2, IncrCount
  <2>4. Bucket(counted) /\ DOMAIN counted = DOMAIN b \cup {ev.kind}
    BY <1>2, <2>1, <2>3, PutCount
  <2> HIDE DEF counted
  <2> QED
    BY <2>4, ZappedBucket
<1> HIDE DEF now, day
<1>4. /\ IsMap(t.days) /\ DOMAIN t.days = DOMAIN s.days \cup {day} /\ t.days[day] = now
      /\ \A d \in DOMAIN s.days \ {day} : t.days[d] = s.days[d]
      /\ t.dirty = s.dirty \cup {day}
  BY <1>1 DEF Put, IsMap
<1>5. ActivityOK(t)
  BY <1>1, <1>3, <1>4 DEF ActivityOK
<1> HIDE DEF t
<1>6. ASSUME NEW r, ActivityFits(r, s) PROVE ActivityFits(r, t)
  <2>1. Grows(r, t.days)
    BY <1>4, <1>6 DEF ActivityFits, Grows
  <2>2. ASSUME NEW d \in DOMAIN t.days
        PROVE  IF d \in t.dirty THEN d \in DOMAIN r => Grows(r[d], t.days[d])
                                ELSE d \in DOMAIN r /\ r[d] = t.days[d]
    <3>1. CASE d # day
      <4>1. d \in DOMAIN s.days /\ t.days[d] = s.days[d] /\ (d \in t.dirty <=> d \in s.dirty)
        BY <1>4, <2>2, <3>1
      <4> QED
        BY <1>6, <4>1 DEF ActivityFits
    <3>2. CASE d = day
      <4>1. d \in t.dirty /\ t.days[d] = now
        BY <1>4, <3>2
      <4>2. ASSUME d \in DOMAIN r PROVE Grows(r[d], now)
        <5>1. d \in DOMAIN s.days
          BY <1>6, <4>2 DEF ActivityFits, Grows
        <5>2. s.days[d] = b
          BY <1>2, <3>2, <5>1
        <5>3. Grows(r[d], b)
          BY <1>2, <1>6, <4>2, <5>1, <5>2 DEF ActivityFits, Grows, Bucket
        <5> QED
          BY <1>3, <5>3 DEF Grows
      <4> QED
        BY <4>1, <4>2
    <3> QED
      BY <3>1, <3>2
  <2> QED
    BY <2>1, <2>2 DEF ActivityFits
<1> QED
  BY <1>5, <1>6 DEF t

-----------------------------------------------------------------------------
(* Active users.                                                           *)

\* A key inserted leaves a sketch finite.
LEMMA InsertFinite ==
    ASSUME NEW h, IsMap(h), IsFiniteSet(DOMAIN h), NEW key
    PROVE  IsMap(Insert(h, key)) /\ IsFiniteSet(DOMAIN Insert(h, key))
<1>1. DOMAIN Put(h, Hash[key].idx, Hash[key].rank) = DOMAIN h \cup {Hash[key].idx}
  BY DEF Put
<1>2. IsFiniteSet(DOMAIN h \cup {Hash[key].idx})
  BY FS_AddElement
<1>3. IsMap(Put(h, Hash[key].idx, Hash[key].rank))
  BY DEF Put, IsMap
<1> QED
  BY <1>1, <1>2, <1>3 DEF Insert

\* One bucket of each scale changes.
Inserted(m, n, ev) ==
    /\ IsMap(n) /\ DOMAIN n = DOMAIN Scales
    /\ \A k \in DOMAIN Scales :
          /\ Sketches(n[k]) /\ DOMAIN n[k] = DOMAIN m[k] \cup {Start(ev.at, Scales[k])}
          /\ \A b \in DOMAIN m[k] \ {Start(ev.at, Scales[k])} : n[k][b] = m[k][b]

\* That is what an insertion does (active_users.rs: observe).
LEMMA InsertAllFacts ==
    ASSUME NEW m, \A k \in DOMAIN Scales : Sketches(m[k]), NEW ev
    PROVE  Inserted(m, InsertAll(m, ev), ev)
<1> DEFINE here(k) == Start(ev.at, Scales[k])
           was(k) == At(m[k], here(k), << >>)
           next(k) == Put(m[k], here(k), Insert(was(k), ev.author))
<1>1. InsertAll(m, ev) = [k \in DOMAIN Scales |-> next(k)]
  BY DEF InsertAll
<1>2. ASSUME NEW k \in DOMAIN Scales
      PROVE  /\ Sketches(next(k)) /\ DOMAIN next(k) = DOMAIN m[k] \cup {here(k)}
             /\ \A b \in DOMAIN m[k] \ {here(k)} : next(k)[b] = m[k][b]
  <2>1. IsMap(was(k)) /\ IsFiniteSet(DOMAIN was(k))
    BY EmptyMap, FS_EmptySet DEF At, Sketches
  <2> HIDE DEF was, here
  <2>2. IsMap(Insert(was(k), ev.author)) /\ IsFiniteSet(DOMAIN Insert(was(k), ev.author))
    BY <2>1, InsertFinite
  <2> QED
    BY <2>2 DEF Sketches, Put, IsMap
<1> HIDE DEF next
<1>3. /\ IsMap(InsertAll(m, ev)) /\ DOMAIN InsertAll(m, ev) = DOMAIN Scales
      /\ \A k \in DOMAIN Scales : InsertAll(m, ev)[k] = next(k)
  BY <1>1 DEF IsMap
<1> QED
  BY <1>2, <1>3 DEF Inserted

\* An event keeps the sketches well-formed, and a report that their patch
\* would complete one (active_users.rs: observe).
LEMMA ActiveStep ==
    ASSUME NEW s, ActiveOK(s), NEW ev, NEW w
    PROVE  /\ ActiveOK(ObserveActive(s, ev, w))
           /\ \A r : ActiveFits(r, s) => ActiveFits(r, ObserveActive(s, ev, w))
<1>1. CASE UsesThrowawayKey(ev)
  BY <1>1 DEF ObserveActive
<1>2. CASE ~UsesThrowawayKey(ev)
  <2> DEFINE all == InsertAll(s.all, ev)
             trusted == IF IsTrusted(w, ev.author) THEN InsertAll(s.trusted, ev) ELSE s.trusted
             t == [s EXCEPT !.all = InsertAll(@, ev),
                            !.trusted = IF IsTrusted(w, ev.author) THEN InsertAll(@, ev) ELSE @]
             here(k) == Start(ev.at, Scales[k])
             marked == [k \in DOMAIN Scales |->
                           IF Moved(s, t, k) THEN s.dirty[k] \cup {here(k)} ELSE s.dirty[k]]
             u == ObserveActive(s, ev, w)
  <2>1. t = [all |-> all, trusted |-> trusted, dirty |-> s.dirty]
    <3>1. t = [s EXCEPT !.all = all, !.trusted = trusted]
      OBVIOUS
    <3> HIDE DEF all, trusted, t
    <3>2. s = [all |-> s.all, trusted |-> s.trusted, dirty |-> s.dirty]
      BY DEF ActiveOK
    <3>3. DOMAIN s = {"all", "trusted", "dirty"}
      BY <3>2
    <3>4. /\ DOMAIN t = {"all", "trusted", "dirty"} /\ t = [x \in DOMAIN t |-> t[x]]
          /\ t.all = all /\ t.trusted = trusted /\ t.dirty = s.dirty
      BY <3>1, <3>3
    <3> QED
      BY <3>4
  <2>2. /\ IsMap(all) /\ DOMAIN all = DOMAIN Scales
        /\ \A k \in DOMAIN Scales :
              /\ Sketches(all[k]) /\ DOMAIN all[k] = DOMAIN s.all[k] \cup {here(k)}
              /\ \A b \in DOMAIN s.all[k] \ {here(k)} : all[k][b] = s.all[k][b]
    <3>1. Inserted(s.all, all, ev)
      BY InsertAllFacts DEF ActiveOK
    <3> QED
      BY <3>1 DEF Inserted
  <2>3. /\ IsMap(trusted) /\ DOMAIN trusted = DOMAIN Scales
        /\ \A k \in DOMAIN Scales :
              /\ Sketches(trusted[k])
              /\ \A b : b # here(k) => At(trusted[k], b, << >>) = At(s.trusted[k], b, << >>)
    <3>1. CASE IsTrusted(w, ev.author)
      <4>1. Inserted(s.trusted, trusted, ev)
        <5>1. trusted = InsertAll(s.trusted, ev)
          BY <3>1
        <5>2. \A k \in DOMAIN Scales : Sketches(s.trusted[k])
          BY DEF ActiveOK
        <5>3. Inserted(s.trusted, InsertAll(s.trusted, ev), ev)
          BY <5>2, InsertAllFacts
        <5> QED
          BY <5>1, <5>3
      <4> HIDE DEF trusted
      <4> QED
        BY <4>1 DEF At, Inserted
    <3>2. CASE ~IsTrusted(w, ev.author)
      BY <3>2 DEF ActiveOK
    <3> QED
      BY <3>1, <3>2
  <2>4. \A k : Moved(s, t, k) <=> all[k] # s.all[k] \/ trusted[k] # s.trusted[k]
    BY <2>1 DEF Moved
  <2>5. u = [all |-> all, trusted |-> trusted, dirty |-> marked]
    <3>1. u = [t EXCEPT !.dirty = [k \in DOMAIN Scales |->
                                      IF Moved(s, t, k) THEN @[k] \cup {here(k)} ELSE @[k]]]
      BY <1>2 DEF ObserveActive
    <3> HIDE DEF all, trusted, here, u
    <3> QED
      BY <2>1, <3>1
  <2> HIDE DEF all, trusted, t, u
  <2>6. /\ IsMap(marked) /\ DOMAIN marked = DOMAIN Scales
        /\ \A k \in DOMAIN Scales :
              /\ marked[k] \subseteq s.dirty[k] \cup {here(k)} /\ s.dirty[k] \subseteq marked[k]
              /\ here(k) \in marked[k] \/ (all[k] = s.all[k] /\ trusted[k] = s.trusted[k])
    BY <2>4 DEF IsMap
  <2> HIDE DEF marked, here
  <2>7. ActiveOK(u)
    BY <2>2, <2>3, <2>5, <2>6 DEF ActiveOK
  <2>8. ASSUME NEW r, ActiveFits(r, s) PROVE ActiveFits(r, u)
    <3> SUFFICES ASSUME NEW k \in DOMAIN Scales
                 PROVE  /\ Grows(r[k], u.all[k])
                        /\ \A b \in DOMAIN u.all[k] \ u.dirty[k] : b \in DOMAIN r[k] /\ r[k][b] = BucketAt(u, k, b)
      BY <2>8 DEF ActiveFits
    <3>1. /\ Grows(r[k], s.all[k])
          /\ \A b \in DOMAIN s.all[k] \ s.dirty[k] : b \in DOMAIN r[k] /\ r[k][b] = BucketAt(s, k, b)
      BY <2>8 DEF ActiveFits
    <3>2. u.all = all /\ u.trusted = trusted /\ u.dirty = marked
      BY <2>5
    <3>3. ASSUME NEW b \in DOMAIN u.all[k] \ u.dirty[k]
          PROVE  b \in DOMAIN s.all[k] \ s.dirty[k] /\ BucketAt(u, k, b) = BucketAt(s, k, b)
      <4>1. b \in DOMAIN s.all[k] /\ b \notin s.dirty[k]
        BY <2>2, <2>6, <3>2, <3>3
      <4>2. all[k][b] = s.all[k][b] /\ At(trusted[k], b, << >>) = At(s.trusted[k], b, << >>)
        BY <2>2, <2>3, <2>6, <3>2, <3>3, <4>1
      <4> QED
        BY <3>2, <4>1, <4>2 DEF BucketAt
    <3>4. Grows(r[k], u.all[k])
      BY <2>2, <3>1, <3>2 DEF Grows
    <3> QED
      BY <3>1, <3>3, <3>4
  <2> QED
    BY <2>7, <2>8 DEF u
<1> QED
  BY <1>1, <1>2

-----------------------------------------------------------------------------
(* Clients.                                                                *)

\* The later of two times is one.
LEMMA MaxNat ==
    ASSUME NEW m \in Nat, NEW n \in Nat
    PROVE  Max({m, n}) \in Nat
<1> DEFINE hi == IF m >= n THEN m ELSE n
<1>1. hi \in {m, n} /\ \A y \in {m, n} : hi >= y
  OBVIOUS
<1>2. \A x : x \in {m, n} /\ (\A y \in {m, n} : x >= y) => x = hi
  OBVIOUS
<1>3. Max({m, n}) = CHOOSE x \in {m, n} : \A y \in {m, n} : x >= y
  BY DEF Max
<1>4. Max({m, n}) = hi
  BY <1>1, <1>2, <1>3
<1> QED
  BY <1>4

\* The counters of one client.
Counters(c) == IsMap(c) /\ DOMAIN NoClient \subseteq DOMAIN c /\ \A x \in DOMAIN c : c[x] \in Nat

\* A counter set.
LEMMA PutCounter ==
    ASSUME NEW c, Counters(c), NEW x, NEW n \in Nat
    PROVE  Counters(Put(c, x, n)) /\ DOMAIN Put(c, x, n) = DOMAIN c \cup {x}
BY DEF Counters, Put, IsMap

\* An event keeps the counters well-formed, and a report that their patch
\* would complete one (client_tags.rs: observe).
LEMMA ClientStep ==
    ASSUME NEW s, ClientOK(s), NEW ev, IsEvent(ev)
    PROVE  /\ ClientOK(ObserveClient(s, ev))
           /\ \A r : ClientFits(r, s) => ClientFits(r, ObserveClient(s, ev))
<1> DEFINE t == ObserveClient(s, ev)
           key == ClientKey(s.data, NormalizeClient(ev.client))
           c == At(s.data, key, NoClient)
           x == Put(c, "sum", c["sum"] + 1)
           y == Put(x, "last_note", Max({c["last_note"], ev.at}))
           now == Put(y, ev.kind, At(y, ev.kind, 0) + 1)
<1>1. t = [data |-> Put(s.data, key, now), dirty |-> s.dirty \cup {key}]
  BY DEF ObserveClient
<1> HIDE DEF key
<1>2. Counters(c) /\ (key \in DOMAIN s.data => c = s.data[key])
  <2>1. Counters(NoClient)
    BY DEF NoClient, Counters, IsMap
  <2> QED
    BY <2>1 DEF At, ClientOK, Counters
<1> HIDE DEF c
<1>3. Counters(now) /\ DOMAIN c \subseteq DOMAIN now
  <2>1. c["sum"] + 1 \in Nat /\ c["last_note"] \in Nat /\ ev.at \in Nat
    BY <1>2 DEF Counters, NoClient, IsEvent
  <2>2. Max({c["last_note"], ev.at}) \in Nat
    BY <2>1, MaxNat
  <2>3. Counters(x) /\ DOMAIN x = DOMAIN c \cup {"sum"}
    BY <1>2, <2>1, PutCounter
  <2> HIDE DEF x
  <2>4. Counters(y) /\ DOMAIN y = DOMAIN x \cup {"last_note"}
    BY <2>2, <2>3, PutCounter
  <2> HIDE DEF y
  <2> DEFINE num == At(y, ev.kind, 0) + 1
  <2>5. num \in Nat
    BY <2>4 DEF At, Counters
  <2> HIDE DEF num
  <2>6. Counters(Put(y, ev.kind, num)) /\ DOMAIN Put(y, ev.kind, num) = DOMAIN y \cup {ev.kind}
    BY <2>4, <2>5, PutCounter
  <2>7. now = Put(y, ev.kind, num)
    BY DEF num
  <2> HIDE DEF now
  <2> QED
    BY <2>3, <2>4, <2>6, <2>7
<1> HIDE DEF now
<1>4. /\ IsMap(t.data) /\ DOMAIN t.data = DOMAIN s.data \cup {key} /\ t.data[key] = now
      /\ \A d \in DOMAIN s.data \ {key} : t.data[d] = s.data[d]
      /\ t.dirty = s.dirty \cup {key}
  BY <1>1 DEF Put, IsMap
<1>5. ClientOK(t)
  <2>1. ASSUME NEW d \in DOMAIN t.data PROVE Counters(t.data[d])
    <3>1. CASE d = key
      BY <1>3, <1>4, <3>1
    <3>2. CASE d # key
      BY <1>4, <3>2 DEF ClientOK, Counters
    <3> QED
      BY <3>1, <3>2
  <2>2. t = [data |-> t.data, dirty |-> t.dirty] /\ t.dirty \subseteq DOMAIN t.data
    BY <1>1, <1>4 DEF ClientOK
  <2> HIDE DEF t
  <2> QED
    BY <1>4, <2>1, <2>2 DEF ClientOK, Counters
<1> HIDE DEF t
<1>6. ASSUME NEW r, ClientFits(r, s) PROVE ClientFits(r, t)
  <2>1. Grows(r, t.data)
    BY <1>4, <1>6 DEF ClientFits, Grows
  <2>2. ASSUME NEW d \in DOMAIN t.data
        PROVE  IF d \in t.dirty THEN d \in DOMAIN r => Grows(r[d], t.data[d])
                                ELSE d \in DOMAIN r /\ r[d] = t.data[d]
    <3>1. CASE d # key
      <4>1. d \in DOMAIN s.data /\ t.data[d] = s.data[d] /\ (d \in t.dirty <=> d \in s.dirty)
        BY <1>4, <2>2, <3>1
      <4> QED
        BY <1>6, <4>1 DEF ClientFits
    <3>2. CASE d = key
      <4>1. d \in t.dirty /\ t.data[d] = now
        BY <1>4, <3>2
      <4>2. ASSUME d \in DOMAIN r PROVE Grows(r[d], now)
        <5>1. d \in DOMAIN s.data
          BY <1>6, <4>2 DEF ClientFits, Grows
        <5>2. s.data[d] = c
          BY <1>2, <3>2, <5>1
        <5>3. Grows(r[d], c)
          BY <1>2, <1>6, <4>2, <5>1, <5>2 DEF ClientFits, Grows, Counters
        <5> QED
          BY <1>3, <5>3 DEF Grows
      <4> QED
        BY <4>1, <4>2
    <3> QED
      BY <3>1, <3>2
  <2> QED
    BY <2>1, <2>2 DEF ClientFits
<1> QED
  BY <1>5, <1>6 DEF t

-----------------------------------------------------------------------------
(* Merge patches.                                                          *)

\* A patch without sections changes nothing.
LEMMA MergeNothing ==
    ASSUME NEW r, IsMap(r)
    PROVE  MergePatch(r, << >>) = r
<1> DEFINE m == MergePatch(r, << >>)
<1>1. IsMap(m) /\ DOMAIN m = DOMAIN r /\ \A x \in DOMAIN r : m[x] = r[x]
  BY EmptyMap DEF MergePatch, Over, IsMap
<1> HIDE DEF m
<1>2. m = r
  BY <1>1, SameMap
<1> QED
  BY <1>2 DEF m

\* A section that lacks no key is replaced by one without nulls.
LEMMA MergeOnto ==
    ASSUME NEW old, NEW new, Grows(old, new), IsMap(new), \A x \in DOMAIN new : new[x] # Null
    PROVE  MergeObject(old, new) = new
<1> DEFINE m == MergeObject(old, new)
           keys == {x \in DOMAIN old \cup DOMAIN new : At(new, x, 0) # Null}
<1>1. keys = DOMAIN new
  BY DEF Grows, At
<1>2. m = [k \in keys |-> At(new, k, At(old, k, Null))]
  BY DEF MergeObject
<1>3. IsMap(m) /\ DOMAIN m = DOMAIN new /\ \A x \in DOMAIN new : m[x] = new[x]
  BY <1>1, <1>2 DEF IsMap, At
<1> HIDE DEF m
<1>4. m = new
  BY <1>3, SameMap
<1> QED
  BY <1>4 DEF m

\* A patch that holds the dirty sections whole completes the report.
LEMMA WholeSections ==
    ASSUME NEW r, NEW v, NEW marked, IsMap(v), Grows(r, v), marked \subseteq DOMAIN v,
           \A d \in DOMAIN v : IF d \in marked THEN d \in DOMAIN r => Grows(r[d], v[d])
                                              ELSE d \in DOMAIN r /\ r[d] = v[d],
           \A d \in DOMAIN v : IsMap(v[d]) /\ \A x \in DOMAIN v[d] : v[d][x] # Null
    PROVE  MergePatch(r, [d \in marked \cap DOMAIN v |-> v[d]]) = v
<1> DEFINE p == [d \in marked \cap DOMAIN v |-> v[d]]
           m == MergePatch(r, p)
<1>1. DOMAIN p = marked /\ \A d \in marked : p[d] = v[d]
  OBVIOUS
<1> HIDE DEF p
<1>2. /\ IsMap(m) /\ DOMAIN m = marked \cup DOMAIN r
      /\ \A x \in marked : m[x] = IF x \in DOMAIN r THEN MergeObject(r[x], p[x]) ELSE p[x]
      /\ \A x \in DOMAIN r \ marked : m[x] = r[x]
  BY <1>1 DEF MergePatch, Over, IsMap
<1> HIDE DEF m
<1>3. DOMAIN m = DOMAIN v
  BY <1>2 DEF Grows
<1>4. ASSUME NEW x \in DOMAIN v PROVE m[x] = v[x]
  <2>1. CASE x \notin marked
    BY <1>2, <2>1
  <2>2. CASE x \in marked /\ x \notin DOMAIN r
    BY <1>1, <1>2, <2>2
  <2>3. CASE x \in marked /\ x \in DOMAIN r
    <3>1. m[x] = MergeObject(r[x], v[x])
      BY <1>1, <1>2, <2>3
    <3>2. Grows(r[x], v[x]) /\ IsMap(v[x]) /\ \A y \in DOMAIN v[x] : v[x][y] # Null
      BY <2>3
    <3>3. MergeObject(r[x], v[x]) = v[x]
      BY <3>2, MergeOnto
    <3> QED
      BY <3>1, <3>3
  <2> QED
    BY <2>1, <2>2, <2>3
<1>5. m = v
  BY <1>2, <1>3, <1>4, SameMap
<1> QED
  BY <1>5 DEF p, m

\* Activity by day.
LEMMA ActivityCompletes ==
    ASSUME NEW s, ActivityOK(s), NEW r, ActivityFits(r, s)
    PROVE  MergePatch(r, ActivityPatch(s)) = s.days
<1>1. ASSUME NEW d \in DOMAIN s.days
      PROVE  IsMap(s.days[d]) /\ \A x \in DOMAIN s.days[d] : s.days[d][x] # Null
  BY AnalysesConstants DEF ActivityOK, Bucket
<1> DEFINE v == s.days
           marked == s.dirty
<1>2. /\ IsMap(v) /\ Grows(r, v) /\ marked \subseteq DOMAIN v
      /\ \A d \in DOMAIN v : IF d \in marked THEN d \in DOMAIN r => Grows(r[d], v[d])
                                            ELSE d \in DOMAIN r /\ r[d] = v[d]
  BY DEF ActivityOK, ActivityFits
<1>3. ActivityPatch(s) = [d \in marked \cap DOMAIN v |-> v[d]]
  BY DEF ActivityPatch
<1> HIDE DEF v, marked
<1>4. MergePatch(r, [d \in marked \cap DOMAIN v |-> v[d]]) = v
  BY <1>1, <1>2, WholeSections DEF v
<1> QED
  BY <1>3, <1>4 DEF v

\* Counters by client.
LEMMA ClientCompletes ==
    ASSUME NEW s, ClientOK(s), NEW r, ClientFits(r, s)
    PROVE  MergePatch(r, ClientPatch(s)) = s.data
<1>1. ASSUME NEW d \in DOMAIN s.data
      PROVE  IsMap(s.data[d]) /\ \A x \in DOMAIN s.data[d] : s.data[d][x] # Null
  BY AnalysesConstants DEF ClientOK
<1> DEFINE v == s.data
           marked == s.dirty
<1>2. /\ IsMap(v) /\ Grows(r, v) /\ marked \subseteq DOMAIN v
      /\ \A d \in DOMAIN v : IF d \in marked THEN d \in DOMAIN r => Grows(r[d], v[d])
                                            ELSE d \in DOMAIN r /\ r[d] = v[d]
  BY DEF ClientOK, ClientFits
<1>3. ClientPatch(s) = [d \in marked \cap DOMAIN v |-> v[d]]
  BY DEF ClientPatch
<1> HIDE DEF v, marked
<1>4. MergePatch(r, [d \in marked \cap DOMAIN v |-> v[d]]) = v
  BY <1>1, <1>2, WholeSections DEF v
<1> QED
  BY <1>3, <1>4 DEF v

\* A bucket's numbers are counts.
LEMMA BucketCount ==
    ASSUME NEW s, ActiveOK(s), NEW k \in DOMAIN Scales, NEW b \in DOMAIN s.all[k]
    PROVE  BucketAt(s, k, b) \in Count /\ BucketAt(s, k, b) # Null
<1> DEFINE x == s.all[k][b]
           y == At(s.trusted[k], b, << >>)
<1>1. IsFiniteSet(DOMAIN x) /\ IsFiniteSet(DOMAIN y)
  BY EmptyMap, FS_EmptySet DEF ActiveOK, Sketches, At
<1> HIDE DEF x, y
<1>2. Estimate(x) \in Nat /\ Estimate(y) \in Nat
  BY <1>1, FS_CardinalityType DEF Estimate
<1> DEFINE n == Estimate(x)
           m == Estimate(y)
<1>3. BucketAt(s, k, b) = [trusted |-> m, untrusted |-> Floor0(n - m)]
  BY DEF BucketAt, x, y
<1>4. n \in Nat /\ m \in Nat
  BY <1>2
<1> HIDE DEF n, m
<1>5. Floor0(n - m) \in Nat
  BY <1>4, Floor0Facts
<1> QED
  BY <1>3, <1>4, <1>5, AnalysesConstants DEF Count

\* Users by day, week and month.
LEMMA ActiveCompletes ==
    ASSUME NEW s, ActiveOK(s), NEW r, ActiveFits(r, s)
    PROVE  MergePatch(r, ActivePatch(s)) = ActiveReport(s)
<1> DEFINE p == ActivePatch(s)
           v == ActiveReport(s)
           m == MergePatch(r, p)
           some == {x \in DOMAIN Scales : s.dirty[x] # {}}
<1>1. /\ DOMAIN p = some
      /\ \A k \in some : p[k] = [b \in s.dirty[k] |-> BucketAt(s, k, b)]
  BY DEF ActivePatch
<1>2. /\ IsMap(v) /\ DOMAIN v = DOMAIN Scales
      /\ \A k \in DOMAIN Scales : v[k] = [b \in DOMAIN s.all[k] |-> BucketAt(s, k, b)]
  BY DEF ActiveReport, IsMap
<1> HIDE DEF p, v
<1>3. DOMAIN r = DOMAIN Scales
  BY DEF ActiveFits
<1>4. /\ IsMap(m) /\ DOMAIN m = DOMAIN Scales
      /\ \A k \in DOMAIN Scales : m[k] = IF k \in some THEN MergeObject(r[k], p[k]) ELSE r[k]
  BY <1>1, <1>3 DEF MergePatch, Over, IsMap
<1> HIDE DEF m
<1>5. ASSUME NEW k \in DOMAIN Scales PROVE m[k] = v[k]
  <2> DEFINE old == r[k]
             new == v[k]
             marked == s.dirty[k]
  <2>1. /\ IsMap(old) /\ DOMAIN old \subseteq DOMAIN s.all[k] /\ marked \subseteq DOMAIN s.all[k]
        /\ \A b \in DOMAIN s.all[k] \ marked : b \in DOMAIN old /\ old[b] = BucketAt(s, k, b)
    BY DEF ActiveFits, ActiveOK, Grows
  <2>2. /\ IsMap(new) /\ DOMAIN new = DOMAIN s.all[k]
        /\ \A b \in DOMAIN s.all[k] : new[b] = BucketAt(s, k, b)
    BY <1>2 DEF IsMap
  <2>3. CASE k \notin some
    <3>1. marked = {} /\ m[k] = old
      BY <1>4, <2>3
    <3> HIDE DEF old, new, marked
    <3>2. DOMAIN old = DOMAIN new /\ \A b \in DOMAIN old : old[b] = new[b]
      BY <2>1, <2>2, <3>1
    <3>3. old = new
      BY <2>1, <2>2, <3>2, SameMap
    <3> QED
      BY <3>1, <3>3 DEF new
  <2>4. CASE k \in some
    <3> DEFINE q == p[k]
               o == MergeObject(old, q)
               keys == {x \in DOMAIN old \cup DOMAIN q : At(q, x, 0) # Null}
    <3>1. m[k] = o
      BY <1>4, <2>4
    <3>2. DOMAIN q = marked /\ \A b \in marked : q[b] = BucketAt(s, k, b)
      BY <1>1, <2>4
    <3>3. \A b \in DOMAIN s.all[k] : BucketAt(s, k, b) # Null
      BY BucketCount
    <3> HIDE DEF old, new, marked, q
    <3>4. keys = DOMAIN s.all[k]
      BY <2>1, <3>2, <3>3, AnalysesConstants DEF At
    <3>5. o = [b \in keys |-> At(q, b, At(old, b, Null))]
      BY DEF MergeObject
    <3> HIDE DEF keys, o
    <3>6. IsMap(o) /\ DOMAIN o = DOMAIN new
      BY <2>2, <3>4, <3>5 DEF IsMap
    <3>7. \A b \in DOMAIN o : o[b] = new[b]
      BY <2>1, <2>2, <3>2, <3>4, <3>5, <3>6 DEF At
    <3>8. o = new
      BY <2>2, <3>6, <3>7, SameMap
    <3> QED
      BY <3>1, <3>8 DEF new
  <2> QED
    BY <2>3, <2>4
<1>6. m = v
  BY <1>2, <1>4, <1>5, SameMap
<1> QED
  BY <1>6 DEF m, p, v

\* New users by day and month: a null removes a bucket that emptied, and a
\* report with nothing to be patched is whole.
LEMMA NewCompletes ==
    ASSUME NEW s, NewOK(s), NEW r, NewFits(r, s)
    PROVE  /\ MergePatch(r, NewPatch(s)) = s.tally
           /\ s.dirty = NoNew.dirty => r = s.tally
<1> DEFINE p == NewPatch(s)
           v == s.tally
           m == MergePatch(r, p)
<1>1. /\ DOMAIN p = DOMAIN FirstScales
      /\ \A k \in DOMAIN FirstScales : p[k] = [b \in s.dirty[k] |-> At(v[k], b, Null)]
  BY DEF NewPatch
<1>2. IsMap(v) /\ DOMAIN v = DOMAIN FirstScales
  BY DEF NewOK
<1> HIDE DEF p
<1>3. IsMap(r) /\ DOMAIN r = DOMAIN FirstScales
  BY DEF NewFits
<1>4. /\ IsMap(m) /\ DOMAIN m = DOMAIN FirstScales
      /\ \A k \in DOMAIN FirstScales : m[k] = MergeObject(r[k], p[k])
  BY <1>1, <1>3 DEF MergePatch, Over, IsMap
<1> HIDE DEF m
<1>5. ASSUME NEW k \in DOMAIN FirstScales
      PROVE  m[k] = v[k] /\ (s.dirty[k] = {} => r[k] = v[k])
  <2> DEFINE old == r[k]
             new == v[k]
             marked == s.dirty[k]
             q == p[k]
             o == MergeObject(old, q)
             keys == {x \in DOMAIN old \cup DOMAIN q : At(q, x, 0) # Null}
  <2>1. /\ IsMap(old)
        /\ \A b \in (DOMAIN old \cup DOMAIN new) \ marked :
              b \in DOMAIN old /\ b \in DOMAIN new /\ old[b] = new[b]
    BY DEF NewFits
  <2>2. IsMap(new) /\ \A b \in DOMAIN new : new[b] # Null
    BY AnalysesConstants DEF NewOK
  <2>3. DOMAIN q = marked /\ \A b \in marked : q[b] = At(new, b, Null)
    BY <1>1
  <2>4. m[k] = o
    BY <1>4
  <2>5. o = [b \in keys |-> At(q, b, At(old, b, Null))]
    BY DEF MergeObject
  <2> HIDE DEF old, new, marked, q
  <2>a. Null # 0
    BY AnalysesConstants
  <2>b. keys = {x \in DOMAIN old \cup DOMAIN q : x \in DOMAIN q => q[x] # Null}
    BY <2>a DEF At
  <2> HIDE DEF keys
  <2>c. DOMAIN new \subseteq keys
    <3> SUFFICES ASSUME NEW x \in DOMAIN new PROVE x \in keys
      OBVIOUS
    <3>1. CASE x \in marked
      <4>1. x \in DOMAIN q /\ q[x] = new[x] /\ new[x] # Null
        BY <2>2, <2>3, <3>1 DEF At
      <4> QED
        BY <2>b, <4>1
    <3>2. CASE x \notin marked
      <4>1. x \in DOMAIN old /\ x \notin DOMAIN q
        BY <2>1, <2>3, <3>2
      <4> QED
        BY <2>b, <4>1
    <3> QED
      BY <3>1, <3>2
  <2>d. keys \subseteq DOMAIN new
    <3> SUFFICES ASSUME NEW x \in keys, x \notin DOMAIN new PROVE FALSE
      OBVIOUS
    <3>1. CASE x \in marked
      <4>1. x \in DOMAIN q /\ q[x] = Null
        BY <2>3, <3>1 DEF At
      <4> QED
        BY <2>b, <4>1
    <3>2. CASE x \notin marked
      <4>1. x \notin DOMAIN q /\ x \notin DOMAIN old
        BY <2>1, <2>3, <3>2
      <4> QED
        BY <2>b, <4>1
    <3> QED
      BY <3>1, <3>2
  <2>6. keys = DOMAIN new
    BY <2>c, <2>d
  <2> HIDE DEF keys, o
  <2>7. IsMap(o) /\ DOMAIN o = DOMAIN new
    BY <2>5, <2>6 DEF IsMap
  <2>8. \A b \in DOMAIN o : o[b] = new[b]
    BY <2>1, <2>3, <2>5, <2>6, <2>7 DEF At
  <2>9. o = new
    BY <2>2, <2>7, <2>8, SameMap
  <2>10. ASSUME marked = {} PROVE old = new
    <3>1. DOMAIN old = DOMAIN new /\ \A b \in DOMAIN old : old[b] = new[b]
      BY <2>1, <2>10
    <3> QED
      BY <2>1, <2>2, <3>1, SameMap
  <2> QED
    BY <2>4, <2>9, <2>10 DEF old, new, marked
<1>6. m = v
  BY <1>2, <1>4, <1>5, SameMap
<1>7. ASSUME s.dirty = NoNew.dirty PROVE r = v
  <2>1. \A k \in DOMAIN FirstScales : s.dirty[k] = {}
    BY <1>7 DEF NoNew
  <2>2. \A k \in DOMAIN FirstScales : r[k] = v[k]
    BY <1>5, <2>1
  <2> QED
    BY <1>2, <1>3, <2>2, SameMap
<1> QED
  BY <1>6, <1>7 DEF m, p

-----------------------------------------------------------------------------
(* Snapshots and patches of the resident state as a whole.                 *)

\* An empty patch is no patch.
LEMMA NothingPending ==
    ASSUME NEW m, MemOK(m)
    PROVE  /\ m["activity"].dirty = {} => ActivityPatch(m["activity"]) = << >>
           /\ m["client_tags"].dirty = {} => ClientPatch(m["client_tags"]) = << >>
           /\ m["active_users"].dirty = NoActive.dirty => ActivePatch(m["active_users"]) = << >>
<1>1. ASSUME m["activity"].dirty = {} PROVE ActivityPatch(m["activity"]) = << >>
  <2>1. DOMAIN ActivityPatch(m["activity"]) = {} /\ IsMap(ActivityPatch(m["activity"]))
    BY <1>1 DEF ActivityPatch, IsMap
  <2> QED
    BY <2>1, EmptyMap
<1>2. ASSUME m["client_tags"].dirty = {} PROVE ClientPatch(m["client_tags"]) = << >>
  <2>1. DOMAIN ClientPatch(m["client_tags"]) = {} /\ IsMap(ClientPatch(m["client_tags"]))
    BY <1>2 DEF ClientPatch, IsMap
  <2> QED
    BY <2>1, EmptyMap
<1>3. ASSUME m["active_users"].dirty = NoActive.dirty PROVE ActivePatch(m["active_users"]) = << >>
  <2>1. \A k \in DOMAIN Scales : m["active_users"].dirty[k] = {}
    BY <1>3 DEF NoActive, PerScale
  <2>2. DOMAIN ActivePatch(m["active_users"]) = {} /\ IsMap(ActivePatch(m["active_users"]))
    BY <2>1 DEF ActivePatch, IsMap
  <2> QED
    BY <2>2, EmptyMap
<1> QED
  BY <1>1, <1>2, <1>3

\* A report that fits is completed by what is pending (delta.rs).
LEMMA FitsComplete ==
    ASSUME NEW m, MemOK(m), NEW r, Fits(r, m), NEW n \in Streaming
    PROVE  MergePatch(r[n], IF n \in Pending(m) THEN Patch(m, n) ELSE << >>) = Snapshot(m)[n]
<1>1. CASE n = "activity"
  <2>1. n \in Pending(m) <=> m["activity"].dirty # {}
    BY <1>1 DEF Pending
  <2>2. Patch(m, n) = ActivityPatch(m["activity"])
    BY <1>1 DEF Patch
  <2>3. (IF n \in Pending(m) THEN Patch(m, n) ELSE << >>) = ActivityPatch(m["activity"])
    BY <2>1, <2>2, NothingPending
  <2>4. Snapshot(m)[n] = m["activity"].days
    BY <1>1 DEF Snapshot
  <2>5. MergePatch(r["activity"], ActivityPatch(m["activity"])) = m["activity"].days
    BY ActivityCompletes DEF Fits, MemOK
  <2> QED
    BY <1>1, <2>3, <2>4, <2>5
<1>2. CASE n = "client_tags"
  <2>1. n \in Pending(m) <=> m["client_tags"].dirty # {}
    BY <1>2 DEF Pending
  <2>2. Patch(m, n) = ClientPatch(m["client_tags"])
    BY <1>2 DEF Patch
  <2>3. (IF n \in Pending(m) THEN Patch(m, n) ELSE << >>) = ClientPatch(m["client_tags"])
    BY <2>1, <2>2, NothingPending
  <2>4. Snapshot(m)[n] = m["client_tags"].data
    BY <1>2 DEF Snapshot
  <2>5. MergePatch(r["client_tags"], ClientPatch(m["client_tags"])) = m["client_tags"].data
    BY ClientCompletes DEF Fits, MemOK
  <2> QED
    BY <1>2, <2>3, <2>4, <2>5
<1>3. CASE n = "active_users"
  <2>1. n \in Pending(m) <=> m["active_users"].dirty # NoActive.dirty
    BY <1>3 DEF Pending
  <2>2. Patch(m, n) = ActivePatch(m["active_users"])
    BY <1>3 DEF Patch
  <2>3. (IF n \in Pending(m) THEN Patch(m, n) ELSE << >>) = ActivePatch(m["active_users"])
    BY <2>1, <2>2, NothingPending
  <2>4. Snapshot(m)[n] = ActiveReport(m["active_users"])
    BY <1>3 DEF Snapshot
  <2>5. MergePatch(r["active_users"], ActivePatch(m["active_users"])) = ActiveReport(m["active_users"])
    BY ActiveCompletes DEF Fits, MemOK
  <2> QED
    BY <1>3, <2>3, <2>4, <2>5
<1>4. CASE n = "new_users"
  <2>1. n \in Pending(m) <=> m["new_users"].dirty # NoNew.dirty
    BY <1>4 DEF Pending
  <2>2. Patch(m, n) = NewPatch(m["new_users"])
    BY <1>4 DEF Patch
  <2>3. Snapshot(m)[n] = m["new_users"].tally
    BY <1>4 DEF Snapshot
  <2>4. /\ MergePatch(r["new_users"], NewPatch(m["new_users"])) = m["new_users"].tally
        /\ m["new_users"].dirty = NoNew.dirty => r["new_users"] = m["new_users"].tally
    BY NewCompletes DEF Fits, MemOK
  <2>5. CASE n \in Pending(m)
    BY <1>4, <2>2, <2>3, <2>4, <2>5
  <2>6. CASE n \notin Pending(m)
    <3>1. r["new_users"] = m["new_users"].tally /\ IsMap(r["new_users"])
      BY <2>1, <2>4, <2>6 DEF Fits, NewFits
    <3>2. MergePatch(r["new_users"], << >>) = r["new_users"]
      BY <3>1, MergeNothing
    <3> QED
      BY <1>4, <2>3, <2>6, <3>1, <3>2
  <2> QED
    BY <2>5, <2>6
<1> QED
  BY <1>1, <1>2, <1>3, <1>4 DEF Streaming

\* The same state but for what is to be patched.
SameData(m, n) ==
    /\ n["activity"].days = m["activity"].days
    /\ n["active_users"].all = m["active_users"].all
    /\ n["active_users"].trusted = m["active_users"].trusted
    /\ n["new_users"].tally = m["new_users"].tally
    /\ n["client_tags"].data = m["client_tags"].data

\* A snapshot fits the state it was taken of, and goes on fitting it when the
\* dirty sets are emptied.
LEMMA SnapshotFits ==
    ASSUME NEW m, MemOK(m), NEW r, \A n \in Streaming : r[n] = Snapshot(m)[n], NEW m2, SameData(m, m2)
    PROVE  Fits(r, m2)
<1>0. /\ r["activity"] = m["activity"].days /\ r["active_users"] = ActiveReport(m["active_users"])
      /\ r["new_users"] = m["new_users"].tally /\ r["client_tags"] = m["client_tags"].data
  BY DEF Streaming, Snapshot
<1>1. ActivityFits(r["activity"], m2["activity"])
  BY <1>0 DEF MemOK, ActivityOK, Bucket, ActivityFits, Grows, SameData
<1>2. ClientFits(r["client_tags"], m2["client_tags"])
  BY <1>0 DEF MemOK, ClientOK, ClientFits, Grows, SameData
<1>3. NewFits(r["new_users"], m2["new_users"])
  BY <1>0 DEF MemOK, NewOK, NewFits, SameData
<1>4. ActiveFits(r["active_users"], m2["active_users"])
  <2> DEFINE s == m["active_users"]
             t == m2["active_users"]
             v == ActiveReport(s)
  <2>1. t.all = s.all /\ t.trusted = s.trusted
    BY DEF SameData
  <2>2. /\ IsMap(v) /\ DOMAIN v = DOMAIN Scales
        /\ \A k \in DOMAIN Scales : v[k] = [b \in DOMAIN s.all[k] |-> BucketAt(s, k, b)]
    BY DEF ActiveReport, IsMap
  <2>3. \A k, b : BucketAt(t, k, b) = BucketAt(s, k, b)
    BY <2>1 DEF BucketAt
  <2> HIDE DEF v, s, t
  <2>4. ActiveFits(v, t)
    BY <2>1, <2>2, <2>3 DEF ActiveFits, Grows, IsMap
  <2> QED
    BY <1>0, <2>4 DEF v, s, t
<1> QED
  BY <1>1, <1>2, <1>3, <1>4 DEF Fits

-----------------------------------------------------------------------------
(* What the operators on the resident state keep.                          *)

\* A checkpoint keeps everything that the invariants are about but the dirty
\* sets (registry.rs: serialize).
LEMMA CheckpointFacts ==
    ASSUME NEW m, MemOK(m)
    PROVE  /\ MemOK(Checkpoint(m)) /\ SameData(m, Checkpoint(m))
           /\ Checkpoint(m)["follow_graph"] = m["follow_graph"]
<1> DEFINE c == Checkpoint(m)
<1>1. /\ IsMap(c) /\ DOMAIN c = Names
      /\ c["follow_graph"] = m["follow_graph"]
      /\ c["activity"] = [m["activity"] EXCEPT !.dirty = {}]
      /\ c["client_tags"] = [m["client_tags"] EXCEPT !.dirty = {}]
      /\ c["active_users"] = [m["active_users"] EXCEPT !.dirty = NoActive.dirty]
      /\ c["new_users"] = [m["new_users"] EXCEPT !.dirty = NoNew.dirty]
  BY DEF Checkpoint, MemOK, IsMap, Names
<1> HIDE DEF c
<1>2. c["activity"] = [days |-> m["activity"].days, dirty |-> {}]
  BY <1>1 DEF MemOK, ActivityOK
<1>3. c["client_tags"] = [data |-> m["client_tags"].data, dirty |-> {}]
  BY <1>1 DEF MemOK, ClientOK
<1>4. c["active_users"] = [all |-> m["active_users"].all, trusted |-> m["active_users"].trusted,
                           dirty |-> NoActive.dirty]
  BY <1>1 DEF MemOK, ActiveOK
<1>5. c["new_users"] = [tally |-> m["new_users"].tally, dirty |-> NoNew.dirty]
  BY <1>1 DEF MemOK, NewOK
<1>6. SameData(m, c)
  BY <1>2, <1>3, <1>4, <1>5 DEF SameData
<1>7. ActivityOK(c["activity"])
  BY <1>2 DEF MemOK, ActivityOK
<1>8. ClientOK(c["client_tags"])
  BY <1>3 DEF MemOK, ClientOK
<1>9. ActiveOK(c["active_users"])
  <2>1. /\ IsMap(NoActive.dirty) /\ DOMAIN NoActive.dirty = DOMAIN Scales
        /\ \A k \in DOMAIN Scales : NoActive.dirty[k] = {}
    BY DEF NoActive, PerScale, IsMap
  <2> QED
    BY <1>4, <2>1 DEF MemOK, ActiveOK
<1>10. NewOK(c["new_users"])
  <2>1. IsMap(NoNew.dirty) /\ DOMAIN NoNew.dirty = DOMAIN FirstScales
    BY DEF NoNew, IsMap
  <2> QED
    BY <1>5, <2>1 DEF MemOK, NewOK
<1>11. MemOK(c)
  BY <1>1, <1>7, <1>8, <1>9, <1>10 DEF MemOK
<1> QED
  BY <1>1, <1>6, <1>11 DEF c

\* What the invariants are about in the resident state.
Told == {"follow_graph", "activity", "active_users", "new_users", "client_tags"}

\* Another state with all that.
LEMMA SameTold ==
    ASSUME NEW m, MemOK(m), NEW n, IsMap(n), DOMAIN n = Names, \A x \in Told : n[x] = m[x]
    PROVE  MemOK(n) /\ SameData(m, n) /\ (\A r : Fits(r, m) => Fits(r, n))
<1>1. /\ n["follow_graph"] = m["follow_graph"] /\ n["activity"] = m["activity"]
      /\ n["active_users"] = m["active_users"] /\ n["new_users"] = m["new_users"]
      /\ n["client_tags"] = m["client_tags"]
  BY DEF Told
<1>2. MemOK(n)
  BY <1>1 DEF MemOK
<1>3. SameData(m, n)
  BY <1>1 DEF SameData
<1>4. ASSUME NEW r, Fits(r, m) PROVE Fits(r, n)
  BY <1>1, <1>4 DEF Fits
<1> QED
  BY <1>2, <1>3, <1>4

\* Draining patches keeps the data (registry.rs: drain_report_deltas).
LEMMA DrainedFacts ==
    ASSUME NEW m, MemOK(m)
    PROVE  MemOK(Drained(m)) /\ SameData(m, Drained(m)) /\ Drained(m)["follow_graph"] = m["follow_graph"]
<1> DEFINE c == Checkpoint(m)
           d == Drained(m)
<1>1. MemOK(c) /\ SameData(m, c) /\ c["follow_graph"] = m["follow_graph"]
  BY CheckpointFacts
<1>2. d = [c EXCEPT !.pagerank = m.pagerank, !.trending_hashtags = m.trending_hashtags]
  BY DEF Drained
<1> HIDE DEF c, d
<1>3. IsMap(d) /\ DOMAIN d = Names /\ \A x \in Told : d[x] = c[x]
  BY <1>1, <1>2 DEF MemOK, IsMap, Told, Names
<1>4. MemOK(d) /\ SameData(c, d)
  BY <1>1, <1>3, SameTold
<1>5. d["follow_graph"] = m["follow_graph"]
  BY <1>1, <1>3 DEF Told
<1>6. SameData(m, d)
  BY <1>1, <1>4 DEF SameData
<1> QED
  BY <1>4, <1>5, <1>6 DEF d

\* The scheduled refreshes do not touch what the invariants are about.
LEMMA RefreshedFacts ==
    ASSUME NEW m, MemOK(m), NEW g, NEW due
    PROVE  /\ IsMap(Refreshed(m, g, due)) /\ DOMAIN Refreshed(m, g, due) = Names
           /\ MemOK(Refreshed(m, g, due)) /\ SameData(m, Refreshed(m, g, due))
           /\ \A x \in Told : Refreshed(m, g, due)[x] = m[x]
<1> DEFINE d == Refreshed(m, g, due)
<1>1. IsMap(d) /\ DOMAIN d = Names /\ \A x \in Told : d[x] = m[x]
  BY DEF Refreshed, MemOK, IsMap, Told, Names
<1> HIDE DEF d
<1>2. MemOK(d) /\ SameData(m, d)
  BY <1>1, SameTold
<1> QED
  BY <1>1, <1>2 DEF d

\* Attaching the follow graph changes the follower counts alone.
LEMMA AttachFacts ==
    ASSUME NEW m, MemOK(m), NEW g, GraphOK(g), NEW read \in SUBSET DOMAIN g
    PROVE  LET a == [m EXCEPT !.follow_graph = AttachFollows(@, g, read)] IN
           /\ MemOK(a) /\ SameData(m, a)
           /\ a["follow_graph"] = AttachFollows(m["follow_graph"], g, read)
           /\ a["new_users"] = m["new_users"]
<1> DEFINE a == [m EXCEPT !.follow_graph = AttachFollows(@, g, read)]
<1>1. /\ IsMap(a) /\ DOMAIN a = Names
      /\ a["follow_graph"] = AttachFollows(m["follow_graph"], g, read)
      /\ a["activity"] = m["activity"] /\ a["active_users"] = m["active_users"]
      /\ a["new_users"] = m["new_users"] /\ a["client_tags"] = m["client_tags"]
  BY DEF MemOK, IsMap, Names
<1>2. CountsOK(AttachFollows(m["follow_graph"], g, read))
  BY AttachMatches DEF MemOK
<1> HIDE DEF a
<1>3. MemOK(a)
  BY <1>1, <1>2 DEF MemOK
<1>4. SameData(m, a)
  BY <1>1 DEF SameData
<1> QED
  BY <1>1, <1>3, <1>4 DEF a

\* Analyses that saw nothing.
LEMMA DefaultFacts ==
    /\ MemOK(Default) /\ Default["follow_graph"] = << >>
    /\ TallyMatches(Default["new_users"].tally, << >>) /\ FirstOK(<< >>)
<1>1. /\ IsMap(Default) /\ DOMAIN Default = Names /\ Default["follow_graph"] = << >>
      /\ Default["activity"] = [days |-> << >>, dirty |-> {}] /\ Default["active_users"] = NoActive
      /\ Default["new_users"] = NoNew /\ Default["client_tags"] = [data |-> << >>, dirty |-> {}]
  BY DEF Default, IsMap, Names
<1>2. ActivityOK([days |-> << >>, dirty |-> {}])
  BY EmptyMap DEF ActivityOK
<1>3. ClientOK([data |-> << >>, dirty |-> {}])
  BY EmptyMap DEF ClientOK
<1>4. ActiveOK(NoActive)
  BY EmptyMap DEF NoActive, PerScale, ActiveOK, IsMap, Sketches
<1>5. NewOK(NoNew)
  BY EmptyMap DEF NoNew, NewOK, IsMap
<1>6. CountsOK(<< >>)
  BY EmptyMatches
<1>7. TallyMatches(NoNew.tally, << >>)
  <2> SUFFICES ASSUME NEW k \in DOMAIN FirstScales, NEW b
               PROVE  At(NoNew.tally[k], b, 0) = Cardinality(FirstIn(<< >>, k, b))
    BY DEF TallyMatches
  <2>1. NoNew.tally[k] = << >>
    BY DEF NoNew
  <2>2. At(<< >>, b, 0) = 0
    BY EmptyMap DEF At
  <2>3. FirstIn(<< >>, k, b) = {}
    BY EmptyMap DEF FirstIn
  <2> QED
    BY <2>1, <2>2, <2>3, FS_EmptySet
<1>8. FirstOK(<< >>)
  BY EmptyMap, FS_EmptySet DEF FirstOK
<1>9. MemOK(Default)
  BY <1>1, <1>2, <1>3, <1>4, <1>5, <1>6 DEF MemOK
<1> QED
  BY <1>1, <1>7, <1>8, <1>9

\* A reset gives the defaults to some analyses.
LEMMA ResetFacts ==
    ASSUME MemOK(mem), NEW doomed
    PROVE  /\ MemOK(ResetMem(doomed))
           /\ \A n \in Told : ResetMem(doomed)[n] = IF n \in doomed THEN Default[n] ELSE mem[n]
<1> DEFINE m == ResetMem(doomed)
<1>1. IsMap(m) /\ DOMAIN m = Names /\ \A n \in Names : m[n] = IF n \in doomed THEN Default[n] ELSE mem[n]
  BY DEF ResetMem, IsMap
<1> HIDE DEF m
<1>2. \A n \in Told : n \in Names
  BY DEF Told, Names
<1>3. MemOK(m)
  <2>1. \A n \in Told : m[n] = Default[n] \/ m[n] = mem[n]
    BY <1>1, <1>2
  <2>2. MemOK(Default)
    BY DefaultFacts
  <2> QED
    BY <1>1, <2>1, <2>2 DEF MemOK, Told
<1> QED
  BY <1>1, <1>2, <1>3 DEF m

-----------------------------------------------------------------------------
(* The steps.                                                              *)

\* After an event: what the invariants are about is as folded, and the
\* checkpoint is the old one or one of that state.
LEMMA AfterEventFacts ==
    ASSUME NEW m, MemOK(m), NEW c, NEW g, NEW changed, AfterEvent(m, c, g, changed)
    PROVE  /\ MemOK(mem') /\ \A x \in Told : mem'[x] = m[x]
           /\ \A r : Fits(r, m) => Fits(r, mem')
           /\ \/ saved' = saved /\ unsaved' = unsaved \cup changed
              \/ saved' = [mem |-> Checkpoint(mem'), consumed |-> c] /\ unsaved' = {}
<1>1. /\ mem' = m \/ \E due \in Due : mem' = Refreshed(m, g, due)
      /\ \/ saved' = saved /\ unsaved' = unsaved \cup changed
         \/ saved' = [mem |-> Checkpoint(mem'), consumed |-> c] /\ unsaved' = {}
  BY DEF AfterEvent, Save
<1>2. IsMap(mem') /\ DOMAIN mem' = Names /\ \A x \in Told : mem'[x] = m[x]
  BY <1>1, RefreshedFacts DEF MemOK
<1>3. MemOK(mem') /\ \A r : Fits(r, m) => Fits(r, mem')
  BY <1>2, SameTold
<1> QED
  BY <1>1, <1>2, <1>3

\* What an event makes of the resident state and the stores, of which those in t
\* are torn by then.
Folded(m, g, f, t) ==
    /\ MemOK(m) /\ GraphOK(g) /\ FirstOK(f) /\ torn \subseteq t
    /\ m["follow_graph"] = << >> => mem["follow_graph"] = << >>
    /\ "graph" \notin t /\ CountsMatch(mem["follow_graph"], graph) => CountsMatch(m["follow_graph"], g)
    /\ "first" \notin t /\ TallyMatches(mem["new_users"].tally, first)
          => TallyMatches(m["new_users"].tally, f)
    /\ Fits(store, mem) => Fits(store, m)

\* What the follow graph makes of an event; not half done, the counts match the
\* lists after it if they did before.
LEMMA FollowsFolded ==
    ASSUME TypesOK, NEW i \in DOMAIN scenario.order, NEW failing
    PROVE  LET e == scenario.order[i]
               f == FoldFollows(i, e, failing)
           IN  /\ CountsOK(f.counts) /\ GraphOK(f.graph)
               /\ f.counts = << >> => mem["follow_graph"] = << >>
               /\ f \in {FollowsNow, FoldFollows(i, e, {})} /\ CountsMatch(mem["follow_graph"], graph)
                     => CountsMatch(f.counts, f.graph)
<1> DEFINE e == scenario.order[i]
           f == FoldFollows(i, e, failing)
           whole == FoldFollows(i, e, {})
<1>1. CountsOK(mem["follow_graph"]) /\ GraphOK(graph) /\ IsEvent(e)
  BY ReportsConstants DEF TypesOK, MemOK
<1> HIDE DEF e
<1>2. FollowsNow.counts = mem["follow_graph"] /\ FollowsNow.graph = graph
  BY DEF FollowsNow
<1>3. /\ CountsOK(f.counts) /\ GraphOK(f.graph)
      /\ f.counts = << >> => mem["follow_graph"] = << >>
  BY <1>1, <1>2, FollowsTypes DEF FoldFollows, FollowsNow
<1>4. CountsMatch(mem["follow_graph"], graph) => CountsMatch(whole.counts, whole.graph)
  BY <1>1, <1>2, FollowsMatch DEF FoldFollows, FollowsNow
<1> HIDE DEF f, whole
<1>5. f \in {FollowsNow, whole} /\ CountsMatch(mem["follow_graph"], graph) => CountsMatch(f.counts, f.graph)
  BY <1>2, <1>4
<1> QED
  BY <1>3, <1>5 DEF f, whole, e

\* So the new users.
LEMMA FirstFolded ==
    ASSUME TypesOK, NEW i \in DOMAIN scenario.order, NEW failing
    PROVE  LET e == scenario.order[i]
               u == FoldFirst(i, e, failing)
           IN  /\ NewOK(u.new) /\ FirstOK(u.first)
               /\ \A r : NewFits(r, mem["new_users"]) => NewFits(r, u.new)
               /\ u \in {FirstNow, FoldFirst(i, e, {})} /\ TallyMatches(mem["new_users"].tally, first)
                     => TallyMatches(u.new.tally, u.first)
<1> DEFINE e == scenario.order[i]
           u == FoldFirst(i, e, failing)
           whole == FoldFirst(i, e, {})
<1>1. NewOK(mem["new_users"]) /\ FirstOK(first) /\ IsEvent(e)
  BY ReportsConstants DEF TypesOK, MemOK
<1> HIDE DEF e
<1>2. FirstNow.new = mem["new_users"] /\ FirstNow.first = first
  BY DEF FirstNow
<1>3. NewOK(u.new) /\ FirstOK(u.first)
  BY <1>1, <1>2, FirstTypes DEF FoldFirst, FirstNow
<1>4. ASSUME NEW r, NewFits(r, mem["new_users"]) PROVE NewFits(r, u.new)
  BY <1>1, <1>2, <1>4, FirstFits DEF FoldFirst, FirstNow
<1>5. TallyMatches(mem["new_users"].tally, first) => TallyMatches(whole.new.tally, whole.first)
  BY <1>1, <1>2, FirstMatches DEF FoldFirst, FirstNow
<1> HIDE DEF u, whole
<1>6. u \in {FirstNow, whole} /\ TallyMatches(mem["new_users"].tally, first)
         => TallyMatches(u.new.tally, u.first)
  BY <1>2, <1>5
<1> QED
  BY <1>3, <1>4, <1>6 DEF u, whole, e

\* Observing an event folds it, and says which stores changed (registry.rs:
\* observe; pipeline.rs: process).
LEMMA ObserveFolds ==
    ASSUME TypesOK, Observe
    PROVE  \E m, c, changed :
              /\ Folded(m, graph', first', torn') /\ AfterEvent(m, c, graph', changed)
              /\ "graph" \notin changed => graph' = graph
              /\ "first" \notin changed => first' = first
              /\ UNCHANGED <<store, unpublished>>
<1>1. PICK i \in DOMAIN scenario.order, failing \in SUBSET GraphCalls, missing \in SUBSET FirstCalls :
        LET e == scenario.order[i]
            f == FoldFollows(i, e, failing)
            u == FoldFirst(i, e, missing)
        IN  /\ graph' = f.graph /\ first' = u.first
            /\ torn' = torn \cup HalfDone(i, e, f, u)
            /\ AfterEvent(Fold(i, e, f, u), [n \in Names |-> consumed[n] \cup {i}], f.graph,
                          (IF f.graph # graph THEN {"graph"} ELSE {})
                          \cup (IF u.first # first THEN {"first"} ELSE {}))
  <2>1. PICK i \in DOMAIN scenario.order :
          \E f \in {FoldFollows(i, scenario.order[i], failing) : failing \in SUBSET GraphCalls},
             u \in {FoldFirst(i, scenario.order[i], failing) : failing \in SUBSET FirstCalls} :
             /\ graph' = f.graph /\ first' = u.first
             /\ torn' = torn \cup HalfDone(i, scenario.order[i], f, u)
             /\ AfterEvent(Fold(i, scenario.order[i], f, u), [n \in Names |-> consumed[n] \cup {i}], f.graph,
                           (IF f.graph # graph THEN {"graph"} ELSE {})
                           \cup (IF u.first # first THEN {"first"} ELSE {}))
    BY DEF Observe
  <2> QED
    BY <2>1
<1> DEFINE e == scenario.order[i]
           takes(n) == i \notin consumed[n]
           f == FoldFollows(i, e, failing)
           u == FoldFirst(i, e, missing)
           activity == IF takes("activity") THEN ObserveActivity(mem["activity"], e, world) ELSE mem["activity"]
           active == IF takes("active_users") THEN ObserveActive(mem["active_users"], e, world)
                     ELSE mem["active_users"]
           clients == IF takes("client_tags") THEN ObserveClient(mem["client_tags"], e) ELSE mem["client_tags"]
           m == Fold(i, e, f, u)
           c == [n \in Names |-> consumed[n] \cup {i}]
           changed == (IF f.graph # graph THEN {"graph"} ELSE {}) \cup (IF u.first # first THEN {"first"} ELSE {})
<1>2. /\ graph' = f.graph /\ first' = u.first /\ AfterEvent(m, c, f.graph, changed)
      /\ torn' = torn \cup HalfDone(i, e, f, u)
  BY <1>1
<1>3. IsEvent(e)
  BY ReportsConstants DEF TypesOK
<1>4. /\ "graph" \notin torn' => f \in {FollowsNow, FoldFollows(i, e, {})}
      /\ "first" \notin torn' => u \in {FirstNow, FoldFirst(i, e, {})}
  <2> HIDE DEF f, u, e
  <2> QED
    BY <1>2 DEF HalfDone
<1>5. /\ CountsOK(f.counts) /\ GraphOK(f.graph)
      /\ f.counts = << >> => mem["follow_graph"] = << >>
      /\ "graph" \notin torn' /\ CountsMatch(mem["follow_graph"], graph) => CountsMatch(f.counts, f.graph)
  BY <1>4, FollowsFolded
<1>6. /\ NewOK(u.new) /\ FirstOK(u.first)
      /\ NewFits(store["new_users"], mem["new_users"]) => NewFits(store["new_users"], u.new)
      /\ "first" \notin torn' /\ TallyMatches(mem["new_users"].tally, first)
            => TallyMatches(u.new.tally, u.first)
  BY <1>4, FirstFolded
<1> HIDE DEF e
<1>7. ActivityOK(mem["activity"]) /\ ActiveOK(mem["active_users"]) /\ ClientOK(mem["client_tags"])
  BY DEF TypesOK, MemOK
<1>8. /\ ActivityOK(activity)
      /\ ActivityFits(store["activity"], mem["activity"]) => ActivityFits(store["activity"], activity)
  BY <1>3, <1>7, ActivityStep
<1>9. /\ ActiveOK(active)
      /\ ActiveFits(store["active_users"], mem["active_users"]) => ActiveFits(store["active_users"], active)
  BY <1>7, ActiveStep
<1>10. /\ ClientOK(clients)
       /\ ClientFits(store["client_tags"], mem["client_tags"]) => ClientFits(store["client_tags"], clients)
  BY <1>3, <1>7, ClientStep
<1> DEFINE trending == IF takes("trending_hashtags")
                       THEN ObserveTrending(mem["trending_hashtags"], e, world, Now) ELSE mem["trending_hashtags"]
           relays == IF takes("relays") THEN ObserveRelays(mem["relays"], e) ELSE mem["relays"]
           counts == f.counts
           new == u.new
<1>11. /\ IsMap(m) /\ DOMAIN m = Names
       /\ m["follow_graph"] = counts /\ m["new_users"] = new /\ m["activity"] = activity
       /\ m["active_users"] = active /\ m["client_tags"] = clients
  <2>1. m = [mem EXCEPT !.follow_graph = counts, !.new_users = new, !.activity = activity,
                        !.active_users = active, !.trending_hashtags = trending,
                        !.client_tags = clients, !.relays = relays]
    BY DEF Fold
  <2> HIDE DEF m, counts, new, activity, active, trending, clients, relays
  <2> QED
    BY <2>1 DEF TypesOK, MemOK, IsMap, Names
<1> HIDE DEF f, u, activity, active, trending, clients, relays, m, c
<1>12. MemOK(m)
  BY <1>5, <1>6, <1>8, <1>9, <1>10, <1>11 DEF MemOK
<1>13. Fits(store, mem) => Fits(store, m)
  BY <1>6, <1>8, <1>9, <1>10, <1>11 DEF Fits
<1>14. Folded(m, graph', first', torn')
  BY <1>2, <1>5, <1>6, <1>11, <1>12, <1>13 DEF Folded
<1>15. ("graph" \notin changed => graph' = graph) /\ ("first" \notin changed => first' = first)
  BY <1>2
<1>16. UNCHANGED <<store, unpublished>>
  BY DEF Observe
<1> HIDE DEF changed
<1> QED
  BY <1>2, <1>14, <1>15, <1>16

\* The inductive invariant.
Inv == TypesOK /\ TallyInv /\ StoreInv

\* An event.
LEMMA ObserveStep ==
    ASSUME Inv, Observe, UNCHANGED scenario
    PROVE  Inv'
<1>1. PICK m, c, changed :
         /\ Folded(m, graph', first', torn') /\ AfterEvent(m, c, graph', changed)
         /\ "graph" \notin changed => graph' = graph
         /\ "first" \notin changed => first' = first
         /\ UNCHANGED <<store, unpublished>>
  BY ObserveFolds DEF Inv
<1>2. MemOK(m) /\ AfterEvent(m, c, graph', changed)
  BY <1>1 DEF Folded
<1>3. /\ MemOK(mem') /\ \A x \in Told : mem'[x] = m[x]
      /\ \A r : Fits(r, m) => Fits(r, mem')
      /\ \/ saved' = saved /\ unsaved' = unsaved \cup changed
         \/ saved' = [mem |-> Checkpoint(mem'), consumed |-> c] /\ unsaved' = {}
  BY <1>2, AfterEventFacts
<1>4. mem'["follow_graph"] = m["follow_graph"] /\ mem'["new_users"] = m["new_users"]
  BY <1>3 DEF Told
<1>5. /\ "graph" \notin torn' => CountsMatch(mem'["follow_graph"], graph')
      /\ "first" \notin torn' => TallyMatches(mem'["new_users"].tally, first')
      /\ torn \subseteq torn' /\ (mem'["follow_graph"] = << >> => mem["follow_graph"] = << >>)
  BY <1>1, <1>4 DEF Inv, TallyInv, Folded
<1>6. CASE saved' = saved /\ unsaved' = unsaved \cup changed
  <2>1. TypesOK'
    BY <1>1, <1>3, <1>6 DEF Inv, TypesOK, Folded
  <2>2. TallyInv'
    BY <1>1, <1>5, <1>6 DEF Inv, TallyInv
  <2> QED
    BY <1>1, <1>3, <2>1, <2>2 DEF Inv, StoreInv, Folded
<1>7. CASE saved' = [mem |-> Checkpoint(mem'), consumed |-> c] /\ unsaved' = {}
  <2>1. /\ MemOK(saved'.mem) /\ saved'.mem["follow_graph"] = mem'["follow_graph"]
        /\ saved'.mem["new_users"].tally = mem'["new_users"].tally
    BY <1>3, <1>7, CheckpointFacts DEF SameData
  <2>2. TypesOK'
    BY <1>1, <1>3, <1>7, <2>1 DEF Inv, TypesOK, Folded
  <2>3. TallyInv'
    BY <1>1, <1>5, <1>7, <2>1 DEF TallyInv
  <2> QED
    BY <1>1, <1>3, <2>2, <2>3 DEF Inv, StoreInv, Folded
<1> QED
  BY <1>3, <1>6, <1>7

\* What is published fits.
LEMMA PublishFits ==
    ASSUME MemOK(mem'), store' = Snapshot(mem')
    PROVE  StoreInv'
<1>1. IsMap(store') /\ DOMAIN store' = Names
  BY DEF Snapshot, IsMap, Names
<1>2. SameData(mem', mem')
  BY DEF SameData
<1>3. Fits(store', mem')
  BY <1>2, SnapshotFits
<1> QED
  BY <1>1, <1>3 DEF StoreInv

\* A commit tick.
LEMMA CommitStep ==
    ASSUME Inv, CommitTick, UNCHANGED scenario
    PROVE  Inv'
<1>1. /\ UNCHANGED <<mem, graph, first, saved, unsaved, torn, scenario>>
      /\ store' = Snapshot(mem)
  BY DEF CommitTick, Publish, analyses
<1>2. TypesOK' /\ TallyInv'
  BY <1>1 DEF Inv, TypesOK, TallyInv
<1>3. StoreInv'
  BY <1>1, <1>2, PublishFits DEF TypesOK
<1> QED
  BY <1>2, <1>3 DEF Inv

\* A delta tick: with the drained patches the held reports are the snapshot.
LEMMA DeltaStep ==
    ASSUME Inv, DeltaTick, UNCHANGED scenario
    PROVE  Inv'
<1>1. /\ UNCHANGED <<graph, first, saved, unsaved, torn, unpublished, scenario>>
      /\ mem' = Drained(mem)
      /\ store' = [n \in Names |-> IF n \in Pending(mem) THEN MergePatch(store[n], Patch(mem, n)) ELSE store[n]]
  BY DEF DeltaTick, history
<1>2. MemOK(mem') /\ SameData(mem, mem') /\ mem'["follow_graph"] = mem["follow_graph"]
  BY <1>1, DrainedFacts DEF Inv, TypesOK
<1>3. TypesOK'
  BY <1>1, <1>2 DEF Inv, TypesOK
<1>4. TallyInv'
  BY <1>1, <1>2 DEF Inv, TallyInv, SameData
<1>5. IsMap(store') /\ DOMAIN store' = Names
  BY <1>1 DEF IsMap
<1>6. ASSUME ~unpublished PROVE Fits(store', mem')
  <2>1. MemOK(mem) /\ Fits(store, mem)
    BY <1>6 DEF Inv, TypesOK, StoreInv
  <2>2. ASSUME NEW n \in Streaming PROVE store'[n] = Snapshot(mem)[n]
    <3>1. MergePatch(store[n], IF n \in Pending(mem) THEN Patch(mem, n) ELSE << >>) = Snapshot(mem)[n]
      BY <2>1, FitsComplete
    <3>2. n \in Names
      BY DEF Streaming, Names
    <3>3. IsMap(store[n])
      BY <2>1 DEF Streaming, Fits, ActivityFits, ActiveFits, NewFits, ClientFits, Grows
    <3>4. MergePatch(store[n], << >>) = store[n]
      BY <3>3, MergeNothing
    <3> QED
      BY <1>1, <3>1, <3>2, <3>4
  <2> QED
    BY <1>2, <2>1, <2>2, SnapshotFits
<1> QED
  BY <1>1, <1>3, <1>4, <1>5, <1>6 DEF Inv, StoreInv

\* What a reset clears, in memory and on disk, and attaches again; nothing of it
\* saved, a checkpoint that a store was not left behind by still agrees
\* (registry.rs: reset).
LEMMA ClearedFacts ==
    ASSUME Inv, NEW doomed, ClearStores(doomed), NEW m, MemOK(m),
           m["follow_graph"] = ResetMem(doomed)["follow_graph"],
           m["new_users"] = ResetMem(doomed)["new_users"],
           NEW read \in SUBSET DOMAIN graph',
           mem' = [m EXCEPT !.follow_graph = AttachFollows(@, graph', read)],
           torn' = TornByAttach(TornByClear(doomed), m.follow_graph, graph', read)
    PROVE  /\ MemOK(mem') /\ GraphOK(graph') /\ FirstOK(first')
           /\ "graph" \notin torn' => CountsMatch(mem'["follow_graph"], graph')
           /\ "first" \notin torn' => TallyMatches(mem'["new_users"].tally, first')
           /\ saved' = saved /\ unsaved' = unsaved \cup StoresOf(doomed) => TallyInv'
<1> DEFINE t == TornByClear(doomed)
           c == m["follow_graph"]
<1>1. /\ c = (IF "follow_graph" \in doomed THEN << >> ELSE mem["follow_graph"])
      /\ m["new_users"] = (IF "new_users" \in doomed THEN Default["new_users"] ELSE mem["new_users"])
      /\ CountsOK(c)
  BY ResetFacts, DefaultFacts DEF Inv, TypesOK, Told, MemOK
<1>2. /\ GraphOK(graph') /\ FirstOK(first')
      /\ "follow_graph" \notin doomed => graph' = graph
      /\ "new_users" \notin doomed => first' = first
  BY PartOfStore DEF ClearStores, Inv, TypesOK
<1>3. /\ "graph" \in t <=> "graph" \in torn
      /\ "first" \notin t => TallyMatches(m["new_users"].tally, first')
  <2>1. CASE "new_users" \in doomed
    BY <1>1, <2>1, DefaultFacts DEF TornByClear
  <2>2. CASE "new_users" \notin doomed
    BY <1>1, <1>2, <2>2 DEF TornByClear, Inv, TallyInv
  <2> QED
    BY <2>1, <2>2
<1>4. "graph" \notin t => c = << >> \/ CountsMatch(c, graph')
  BY <1>1, <1>2, <1>3 DEF Inv, TallyInv
<1>5. /\ MemOK(mem') /\ mem'["follow_graph"] = AttachFollows(c, graph', read)
      /\ mem'["new_users"] = m["new_users"]
  BY <1>2, AttachFacts
<1>6. torn' = TornByAttach(t, c, graph', read)
  OBVIOUS
<1> HIDE DEF t, c
<1>7. /\ mem'["follow_graph"] = << >> => c = << >>
      /\ "first" \in torn' <=> "first" \in t
      /\ "graph" \notin torn' => c = << >> \/ "graph" \notin t
      /\ "graph" \notin torn' => CountsMatch(mem'["follow_graph"], graph')
  BY <1>1, <1>2, <1>4, <1>5, <1>6, AttachMatches
<1>8. "first" \notin torn' => TallyMatches(mem'["new_users"].tally, first')
  BY <1>3, <1>5, <1>7
<1>9. ASSUME saved' = saved, unsaved' = unsaved \cup StoresOf(doomed) PROVE TallyInv'
  <2>1. ASSUME "graph" \notin unsaved'
        PROVE  "graph" \notin unsaved /\ "follow_graph" \notin doomed /\ c = mem["follow_graph"] /\ graph' = graph
    BY <1>1, <1>2, <1>9, <2>1 DEF StoresOf
  <2>2. ASSUME mem'["follow_graph"] = << >>, "graph" \notin unsaved'
        PROVE  saved'.mem["follow_graph"] = << >>
    BY <1>7, <1>9, <2>1, <2>2 DEF Inv, TallyInv
  <2>3. ASSUME "graph" \notin torn' \cup unsaved'
        PROVE  saved'.mem["follow_graph"] = << >> \/ CountsMatch(saved'.mem["follow_graph"], graph')
    <3>1. "graph" \notin unsaved /\ c = mem["follow_graph"] /\ graph' = graph
      BY <2>1, <2>3
    <3>2. CASE c = << >>
      BY <1>9, <3>1, <3>2 DEF Inv, TallyInv
    <3>3. CASE c # << >>
      <4>1. "graph" \notin torn
        BY <1>3, <1>7, <2>3, <3>3
      <4> QED
        BY <1>9, <3>1, <4>1 DEF Inv, TallyInv
    <3> QED
      BY <3>2, <3>3
  <2>4. ASSUME "first" \notin torn' \cup unsaved'
        PROVE  TallyMatches(saved'.mem["new_users"].tally, first')
    <3>1. "first" \notin unsaved /\ "new_users" \notin doomed
      BY <1>9, <2>4 DEF StoresOf
    <3>2. "first" \notin torn /\ first' = first
      BY <1>2, <1>7, <2>4, <3>1 DEF t, TornByClear
    <3> QED
      BY <1>9, <3>1, <3>2 DEF Inv, TallyInv
  <2> QED
    BY <1>7, <1>8, <2>2, <2>3, <2>4 DEF TallyInv
<1> QED
  BY <1>2, <1>5, <1>7, <1>8, <1>9

\* A reset: cleared, attached again, saved unless that fails, and published.
LEMMA ResetStep ==
    ASSUME Inv, NEW n, Reset(n), UNCHANGED scenario
    PROVE  Inv'
<1> DEFINE doomed == Doomed(n)
           clear == ResetMem(doomed)
           ranked == [clear EXCEPT !.pagerank = RefreshRanks(@, graph)]
           m == IF n = "pagerank" THEN ranked ELSE clear
<1>1. PICK read \in SUBSET DOMAIN graph' :
        /\ mem' = [m EXCEPT !.follow_graph = AttachFollows(@, graph', read)]
        /\ torn' = TornByAttach(TornByClear(doomed), m.follow_graph, graph', read)
  BY DEF Reset
<1>2. /\ ClearStores(doomed) /\ store' = Snapshot(mem')
      /\ \/ saved' = [mem |-> Checkpoint(mem'), consumed |-> consumed'] /\ unsaved' = {}
         \/ saved' = saved /\ unsaved' = unsaved \cup StoresOf(doomed)
  BY DEF Reset, Save, Publish
<1> HIDE DEF doomed
<1>3. MemOK(clear)
  BY ResetFacts DEF Inv, TypesOK
<1> HIDE DEF clear
<1>4. IsMap(m) /\ DOMAIN m = Names /\ \A x \in Told : m[x] = clear[x]
  BY <1>3 DEF MemOK, IsMap, Told, Names
<1> HIDE DEF m
<1>5. MemOK(m) /\ m["follow_graph"] = clear["follow_graph"] /\ m["new_users"] = clear["new_users"]
  BY <1>3, <1>4, SameTold DEF Told
<1>6. /\ MemOK(mem') /\ GraphOK(graph') /\ FirstOK(first')
      /\ "graph" \notin torn' => CountsMatch(mem'["follow_graph"], graph')
      /\ "first" \notin torn' => TallyMatches(mem'["new_users"].tally, first')
      /\ saved' = saved /\ unsaved' = unsaved \cup StoresOf(doomed) => TallyInv'
  BY <1>1, <1>2, <1>5, ClearedFacts DEF clear
<1>7. StoreInv'
  BY <1>2, <1>6, PublishFits
<1>8. CASE saved' = [mem |-> Checkpoint(mem'), consumed |-> consumed'] /\ unsaved' = {}
  <2>1. /\ MemOK(saved'.mem) /\ saved'.mem["follow_graph"] = mem'["follow_graph"]
        /\ saved'.mem["new_users"].tally = mem'["new_users"].tally
    BY <1>6, <1>8, CheckpointFacts DEF SameData
  <2>2. TypesOK'
    BY <1>6, <1>8, <2>1 DEF Inv, TypesOK
  <2>3. TallyInv'
    BY <1>6, <1>8, <2>1 DEF TallyInv
  <2> QED
    BY <1>7, <2>2, <2>3 DEF Inv
<1>9. CASE saved' = saved /\ unsaved' = unsaved \cup StoresOf(doomed)
  <2>1. TypesOK'
    BY <1>6, <1>9 DEF Inv, TypesOK
  <2> QED
    BY <1>6, <1>7, <1>9, <2>1 DEF Inv
<1> QED
  BY <1>2, <1>8, <1>9

\* A reset that fails half way: cleared and attached again, not saved.
LEMMA ResetFailsStep ==
    ASSUME Inv, NEW n, ResetFails(n), UNCHANGED scenario
    PROVE  Inv'
<1> DEFINE doomed == Doomed(n)
           m == ResetMem(doomed)
<1>1. PICK read \in SUBSET DOMAIN graph' :
        /\ mem' = [m EXCEPT !.follow_graph = AttachFollows(@, graph', read)]
        /\ torn' = TornByAttach(TornByClear(doomed), m.follow_graph, graph', read)
  BY DEF ResetFails
<1>2. /\ ClearStores(doomed) /\ saved' = saved /\ unsaved' = unsaved \cup StoresOf(doomed)
      /\ store' = Snapshot(mem') \/ (unpublished' /\ UNCHANGED store)
  BY DEF ResetFails, Publish
<1> HIDE DEF doomed
<1>3. MemOK(m)
  BY ResetFacts DEF Inv, TypesOK
<1>4. MemOK(mem') /\ GraphOK(graph') /\ FirstOK(first') /\ TallyInv'
  BY <1>1, <1>2, <1>3, ClearedFacts
<1> HIDE DEF m
<1>5. TypesOK'
  BY <1>2, <1>4 DEF Inv, TypesOK
<1>6. StoreInv'
  <2>1. CASE store' = Snapshot(mem')
    BY <1>4, <2>1, PublishFits
  <2>2. CASE unpublished' /\ UNCHANGED store
    BY <2>2 DEF Inv, StoreInv
  <2> QED
    BY <1>2, <2>1, <2>2
<1> QED
  BY <1>4, <1>5, <1>6 DEF Inv

\* What a restart takes up and publishes (pipeline.rs: warm_start).
LEMMA RestartFacts ==
    ASSUME NEW from, MemOK(from), NEW c, NEW t, GraphOK(graph), Restart(from, c, t),
           "graph" \notin t => from["follow_graph"] = << >> \/ CountsMatch(from["follow_graph"], graph)
    PROVE  /\ MemOK(mem') /\ StoreInv' /\ UNCHANGED <<graph, first>>
           /\ mem'["follow_graph"] = << >> => from["follow_graph"] = << >>
           /\ "graph" \notin torn' => CountsMatch(mem'["follow_graph"], graph)
           /\ "graph" \notin torn' =>
                 from["follow_graph"] = << >> \/ CountsMatch(from["follow_graph"], graph)
           /\ "first" \in torn' <=> "first" \in t
           /\ mem'["new_users"].tally = from["new_users"].tally
<1>1. PICK read \in SUBSET DOMAIN graph :
        LET m == [from EXCEPT !.follow_graph = AttachFollows(@, graph, read)] IN
        /\ \E due \in Due : mem' = Refreshed(m, graph, due)
        /\ torn' = TornByAttach(t, from.follow_graph, graph, read)
  BY DEF Restart
<1> DEFINE m == [from EXCEPT !.follow_graph = AttachFollows(@, graph, read)]
           c0 == from["follow_graph"]
<1>2. /\ MemOK(m) /\ m["follow_graph"] = AttachFollows(c0, graph, read)
      /\ m["new_users"] = from["new_users"]
  BY AttachFacts
<1>3. CountsOK(c0) /\ torn' = TornByAttach(t, c0, graph, read)
  BY <1>1 DEF MemOK
<1>4. \E due \in Due : mem' = Refreshed(m, graph, due)
  BY <1>1
<1> HIDE DEF m
<1>5. MemOK(mem') /\ mem'["follow_graph"] = m["follow_graph"] /\ mem'["new_users"] = m["new_users"]
  BY <1>2, <1>4, RefreshedFacts DEF Told
<1>6. store' = Snapshot(mem') /\ UNCHANGED <<graph, first>>
  BY DEF Restart
<1>7. StoreInv'
  BY <1>5, <1>6, PublishFits
<1>8. /\ mem'["follow_graph"] = << >> => c0 = << >>
      /\ "first" \in torn' <=> "first" \in t
      /\ "graph" \notin torn' => c0 = << >> \/ "graph" \notin t
      /\ "graph" \notin torn' => CountsMatch(mem'["follow_graph"], graph)
  <2> HIDE DEF c0
  <2>1. "graph" \notin t => c0 = << >> \/ CountsMatch(c0, graph)
    BY DEF c0
  <2> QED
    BY <1>2, <1>3, <1>5, <2>1, AttachMatches
<1> QED
  BY <1>2, <1>5, <1>6, <1>7, <1>8

\* A fall back to the checkpoint, after a kill or a stop that saved nothing.
LEMMA FallBackStep ==
    ASSUME Inv, FallBack, UNCHANGED scenario
    PROVE  Inv'
<1>1. /\ Restart(saved.mem, saved.consumed, torn \cup unsaved) /\ UNCHANGED <<saved, scenario>>
      /\ unsaved' = {}
  BY DEF FallBack
<1>2. MemOK(saved.mem) /\ GraphOK(graph)
  BY DEF Inv, TypesOK
<1>3. /\ "graph" \notin torn \cup unsaved =>
           saved.mem["follow_graph"] = << >> \/ CountsMatch(saved.mem["follow_graph"], graph)
      /\ "first" \notin torn \cup unsaved => TallyMatches(saved.mem["new_users"].tally, first)
  BY DEF Inv, TallyInv
<1>4. /\ MemOK(mem') /\ StoreInv' /\ UNCHANGED <<graph, first>>
      /\ mem'["follow_graph"] = << >> => saved.mem["follow_graph"] = << >>
      /\ "graph" \notin torn' => CountsMatch(mem'["follow_graph"], graph)
      /\ "graph" \notin torn' =>
            saved.mem["follow_graph"] = << >> \/ CountsMatch(saved.mem["follow_graph"], graph)
      /\ "first" \in torn' <=> "first" \in torn \cup unsaved
      /\ mem'["new_users"].tally = saved.mem["new_users"].tally
  BY <1>1, <1>2, <1>3, RestartFacts
<1>5. TypesOK'
  BY <1>1, <1>4 DEF Inv, TypesOK
<1>6. TallyInv'
  BY <1>1, <1>3, <1>4 DEF TallyInv
<1> QED
  BY <1>4, <1>5, <1>6 DEF Inv

\* A clean stop saves what the next start takes up.
LEMMA StopStep ==
    ASSUME Inv, Stop, UNCHANGED scenario
    PROVE  Inv'
<1>1. CASE \E due \in Due : Save(Refreshed(mem, graph, due), consumed) /\ Restart(saved'.mem, consumed, torn)
  <2>1. PICK due \in Due : Save(Refreshed(mem, graph, due), consumed) /\ Restart(saved'.mem, consumed, torn)
    BY <1>1
  <2>2. /\ saved' = [mem |-> Checkpoint(Refreshed(mem, graph, due)), consumed |-> consumed]
        /\ unsaved' = {} /\ Restart(saved'.mem, consumed, torn)
    BY <2>1 DEF Save
  <2> DEFINE m == Refreshed(mem, graph, due)
  <2>3. /\ MemOK(m) /\ m["follow_graph"] = mem["follow_graph"] /\ m["new_users"] = mem["new_users"]
    BY RefreshedFacts DEF Inv, TypesOK, Told
  <2>4. saved' = [mem |-> Checkpoint(m), consumed |-> consumed]
    BY <2>2
  <2> HIDE DEF m
  <2>5. /\ MemOK(saved'.mem) /\ saved'.mem["follow_graph"] = mem["follow_graph"]
        /\ saved'.mem["new_users"].tally = mem["new_users"].tally
    BY <2>3, <2>4, CheckpointFacts DEF SameData
  <2>6. GraphOK(graph) /\ ("graph" \notin torn => CountsMatch(saved'.mem["follow_graph"], graph))
    BY <2>5 DEF Inv, TypesOK, TallyInv
  <2>7. /\ MemOK(mem') /\ StoreInv' /\ UNCHANGED <<graph, first>>
        /\ mem'["follow_graph"] = << >> => saved'.mem["follow_graph"] = << >>
        /\ "graph" \notin torn' => CountsMatch(mem'["follow_graph"], graph)
        /\ "graph" \notin torn' =>
              saved'.mem["follow_graph"] = << >> \/ CountsMatch(saved'.mem["follow_graph"], graph)
        /\ "first" \in torn' <=> "first" \in torn
        /\ mem'["new_users"].tally = saved'.mem["new_users"].tally
    BY <2>2, <2>5, <2>6, RestartFacts
  <2>8. TypesOK'
    BY <2>4, <2>5, <2>7 DEF Inv, TypesOK
  <2>9. TallyInv'
    BY <2>2, <2>5, <2>7 DEF Inv, TallyInv
  <2> QED
    BY <2>7, <2>8, <2>9 DEF Inv
<1>2. CASE FallBack
  BY <1>2, FallBackStep
<1> QED
  BY <1>1, <1>2 DEF Stop

\* Browser steps leave the server alone.
LEMMA BrowserStep ==
    ASSUME Inv, Timer \/ Serve \/ Arrive \/ GetFails \/ Receive \/ Disconnect \/ Connect,
           UNCHANGED scenario
    PROVE  Inv'
<1>1. UNCHANGED <<mem, graph, first, saved, store, unsaved, torn, unpublished, scenario>>
  <2>1. UNCHANGED <<analyses, server, history>>
    BY DEF Timer, Serve, Arrive, GetFails, Receive, Disconnect, Connect
  <2> QED
    BY <2>1 DEF analyses, server, history
<1> QED
  BY <1>1 DEF Inv, TypesOK, TallyInv, StoreInv

\* The first state.
LEMMA InitInv == Init => Inv
<1> SUFFICES ASSUME Init PROVE Inv
  OBVIOUS
<1>1. /\ scenario \in Scenarios /\ mem = Default /\ graph = << >> /\ first = << >>
      /\ saved = [mem |-> Checkpoint(Default), consumed |-> [n \in Names |-> {}]]
      /\ store = Snapshot(Default)
  BY DEF Init
<1>2. /\ MemOK(Default) /\ Default["follow_graph"] = << >>
      /\ TallyMatches(Default["new_users"].tally, << >>) /\ FirstOK(<< >>)
      /\ GraphOK(<< >>) /\ CountsMatch(<< >>, << >>)
  BY DefaultFacts, EmptyMatches
<1>3. /\ MemOK(Checkpoint(Default)) /\ Checkpoint(Default)["follow_graph"] = << >>
      /\ Checkpoint(Default)["new_users"].tally = Default["new_users"].tally
  BY <1>2, CheckpointFacts DEF SameData
<1>4. saved.mem = Checkpoint(Default) /\ saved = [mem |-> saved.mem, consumed |-> saved.consumed]
  BY <1>1
<1>5. TypesOK
  BY <1>1, <1>2, <1>3, <1>4 DEF TypesOK
<1>6. TallyInv
  BY <1>1, <1>2, <1>3, <1>4 DEF TallyInv
<1>7. StoreInv
  <2>1. IsMap(store) /\ DOMAIN store = Names
    BY <1>1 DEF Snapshot, IsMap, Names
  <2>2. \A n \in Streaming : store[n] = Snapshot(Default)[n]
    BY <1>1
  <2>3. Fits(store, Default)
    BY <1>2, <2>2, SnapshotFits DEF SameData
  <2> QED
    BY <1>1, <2>1, <2>3 DEF StoreInv
<1> QED
  BY <1>5, <1>6, <1>7 DEF Inv

\* Every step.
LEMMA NextInv == Inv /\ [Next]_vars => Inv'
<1> SUFFICES ASSUME Inv, [Next]_vars PROVE Inv'
  OBVIOUS
<1>1. CASE Next
  <2>0. Step /\ UNCHANGED scenario
    BY <1>1 DEF Next
  <2>1. CASE Observe
    BY <2>0, <2>1, ObserveStep
  <2>2. CASE CommitTick
    BY <2>0, <2>2, CommitStep
  <2>3. CASE DeltaTick
    BY <2>0, <2>3, DeltaStep
  <2>4. CASE \E n \in Resettable : Reset(n) \/ ResetFails(n)
    BY <2>0, <2>4, ResetStep, ResetFailsStep
  <2>5. CASE Kill
    BY <2>0, <2>5, FallBackStep DEF Kill
  <2>6. CASE Stop
    BY <2>0, <2>6, StopStep
  <2>7. CASE Timer \/ Serve \/ Arrive \/ GetFails \/ Receive \/ Disconnect \/ Connect
    BY <2>0, <2>7, BrowserStep
  <2> QED
    BY <2>0, <2>1, <2>2, <2>3, <2>4, <2>5, <2>6, <2>7 DEF Step
<1>2. CASE UNCHANGED vars
  <2>1. UNCHANGED <<mem, graph, first, saved, store, unsaved, torn, unpublished, scenario>>
    BY <1>2 DEF vars, analyses, server, history
  <2> QED
    BY <2>1 DEF Inv, TypesOK, TallyInv, StoreInv
<1> QED
  BY <1>1, <1>2

\* The invariant holds throughout.
LEMMA AlwaysInv == Spec => []Inv
BY InitInv, NextInv, PTL DEF Spec

\* Tallies that say the same of every bucket are the same map, as a bucket
\* without new users is not kept.
LEMMA TallyMap ==
    ASSUME NEW s, NewOK(s), NEW f, FirstOK(f), TallyMatches(s.tally, f), NEW k \in DOMAIN FirstScales
    PROVE  s.tally[k] = [b \in {Start(f[a], FirstScales[k]) : a \in DOMAIN f} |->
                            Cardinality({a \in DOMAIN f : Start(f[a], FirstScales[k]) = b})]
<1> DEFINE t == s.tally[k]
           keys == {Start(f[a], FirstScales[k]) : a \in DOMAIN f}
           v == [b \in keys |-> Cardinality(FirstIn(f, k, b))]
<1>1. IsMap(t) /\ \A b \in DOMAIN t : t[b] \in Nat \ {0}
  BY DEF NewOK
<1>2. \A b : At(t, b, 0) = Cardinality(FirstIn(f, k, b))
  BY DEF TallyMatches
<1>3. ASSUME NEW b PROVE Cardinality(FirstIn(f, k, b)) = 0 <=> b \notin keys
  <2>1. FirstIn(f, k, b) \subseteq DOMAIN f /\ IsFiniteSet(DOMAIN f)
    BY DEF FirstIn, FirstOK
  <2>2. IsFiniteSet(FirstIn(f, k, b))
    BY <2>1, FS_Subset
  <2>3. Cardinality(FirstIn(f, k, b)) = 0 <=> FirstIn(f, k, b) = {}
    BY <2>2, FS_EmptySet
  <2>4. FirstIn(f, k, b) = {} <=> b \notin keys
    BY DEF FirstIn
  <2> QED
    BY <2>3, <2>4
<1>4. v = [b \in keys |-> Cardinality({a \in DOMAIN f : Start(f[a], FirstScales[k]) = b})]
  BY DEF FirstIn
<1> HIDE DEF t, keys
<1>5. DOMAIN t = keys
  BY <1>1, <1>2, <1>3 DEF At
<1>6. IsMap(v) /\ DOMAIN v = keys /\ \A b \in keys : v[b] = Cardinality(FirstIn(f, k, b))
  BY DEF IsMap
<1> HIDE DEF v
<1>7. \A b \in DOMAIN t : t[b] = v[b]
  BY <1>2, <1>5, <1>6 DEF At
<1>8. t = v
  BY <1>1, <1>5, <1>6, <1>7, SameMap
<1> QED
  BY <1>4, <1>8 DEF t, keys

\* The follower counts are those of the adjacency and the new-user tallies
\* those of the first-seen times, through replaced lists, late events, resets,
\* restarts and failing calls of the stores, but for what tears them: a fall back
\* to a checkpoint older than the store, a fold left half done, a failed clear,
\* counts derived from a part (follow_graph.rs: attach, observe, on_reset;
\* new_users.rs: shift, observe, FirstSeen).
THEOREM TalliesStayRight == Spec => []TalliesMatchStores
<1>1. ASSUME Inv PROVE TalliesMatchStores
  <2>1. "graph" \notin torn =>
          \A pk \in DOMAIN mem.follow_graph \cup Followed(graph) :
              At(mem.follow_graph, pk, 0) = Followers(graph, pk)
    BY <1>1 DEF Inv, TallyInv, CountsMatch
  <2>2. ASSUME "first" \notin torn, NEW k \in DOMAIN FirstScales
        PROVE  mem.new_users.tally[k] =
                 LET start(a) == Start(first[a], FirstScales[k]) IN
                 [b \in {start(a) : a \in DOMAIN first} |-> Cardinality({a \in DOMAIN first : start(a) = b})]
    BY <1>1, <2>2, TallyMap DEF Inv, TypesOK, MemOK, TallyInv
  <2> QED
    BY <2>1, <2>2 DEF TalliesMatchStores
<1> QED
  BY <1>1, AlwaysInv, PTL

\* The held report, patched with what is still to be drained, is the next full
\* snapshot, unless a reset failed half way (delta.rs: merge_patch; registry.rs:
\* drain_report_deltas; reports.rs: apply_deltas).
THEOREM PatchesComplete == Spec => []PatchCompletesReport
<1>1. ASSUME Inv PROVE PatchCompletesReport
  BY <1>1, FitsComplete DEF Inv, TypesOK, StoreInv, PatchCompletesReport
<1> QED
  BY <1>1, AlwaysInv, PTL

-----------------------------------------------------------------------------
(* The channel to that thread and its commits (WriterNode), for any set of *)
(* events, channel capacity and number of failures and kills.              *)

\* Every step keeps the types and the channel within its capacity.
LEMMA TypeStep == TypeOK /\ [WriterNext]_writerVars => TypeOK'
<1> USE ConstantsAssumption
<1> SUFFICES ASSUME TypeOK, [WriterNext]_writerVars PROVE TypeOK'
  OBVIOUS
<1> USE DEF TypeOK, producerVars, indexVars
<1>1. ASSUME NEW e \in Events, SaveEvent(e)
      PROVE  TypeOK'
  BY <1>1 DEF SaveEvent
<1>2. ASSUME NEW e \in Events, SendEvent(e)
      PROVE  TypeOK'
  BY <1>2 DEF SendEvent, Capacity
<1>3. ASSUME NEW e \in Events, SendClosed(e)
      PROVE  TypeOK'
  BY <1>3 DEF SendClosed
<1>9. ASSUME NEW e \in Events, Notify(e)
      PROVE  TypeOK'
  <2>1. notified \in Seq(archive') /\ (notified # <<>> => Head(notified) \in Events)
    BY <1>9 DEF Notify
  <2>2. Tail(notified) \in Seq(archive') \/ notified = <<>>
    BY <2>1
  <2>3. notified' \in Seq(archive')
    <3>1. CASE Len(notified) >= Backlog
      <4>1. notified # <<>>
        BY <3>1
      <4> QED
        BY <1>9, <2>1, <2>2, <3>1, <4>1 DEF Notify
    <3>2. CASE ~(Len(notified) >= Backlog)
      BY <1>9, <2>1, <3>2 DEF Notify
    <3> QED
      BY <3>1, <3>2
  <2>4. unreached' \subseteq Events
    <3>1. CASE Len(notified) >= Backlog
      <4>1. notified # <<>>
        BY <3>1
      <4> QED
        BY <1>9, <2>1, <3>1, <4>1 DEF Notify
    <3>2. CASE ~(Len(notified) >= Backlog)
      BY <1>9, <3>2 DEF Notify
    <3> QED
      BY <3>1, <3>2
  <2>5. queue \in Seq(archive')
    BY <1>9 DEF Notify
  <2> QED
    BY <1>9, <2>3, <2>4, <2>5 DEF Notify
<1>10. CASE Stream
  <2>1. Head(notified) \in archive /\ Tail(notified) \in Seq(archive)
    BY <1>10 DEF Stream
  <2> QED
    BY <1>10, <2>1 DEF Stream
<1>4. CASE WriterStep
  <2>1. CASE ReceiveEvent
    <3>1. Head(queue) \in archive /\ Tail(queue) \in Seq(archive)
          /\ Len(Tail(queue)) <= QueueSize
      BY <2>1 DEF ReceiveEvent
    <3> QED
      BY <2>1, <3>1 DEF ReceiveEvent
  <2>2. CASE TickCommit
    BY <2>2 DEF TickCommit, Commit
  <2>3. CASE TickFails
    <3>1. dirty' \in BOOLEAN
      BY <2>3 DEF TickFails
    <3> QED
      BY <2>3, <3>1 DEF TickFails
  <2>4. CASE Claim \/ LastClaim
    <3>1. dirty' \in BOOLEAN
      BY <2>4 DEF Claim, LastClaim, FlushIds
    <3>2. queue' = queue \/ queue' = <<>>
      BY <2>4 DEF Claim, LastClaim, FlushIds
    <3>3. queue' \in Seq(archive) /\ Len(queue') <= QueueSize
      <4>1. CASE queue' = queue
        BY <4>1
      <4>2. CASE queue' = <<>>
        BY <4>2
      <4> QED
        BY <3>2, <4>1, <4>2
    <3>4. fails' = fails \/ (fails < MaxFails /\ fails' = fails + 1)
      BY <2>4 DEF Claim, LastClaim, FlushIds
    <3>5. fails' \in 0..MaxFails
      BY <3>4
    <3>6. archive' = archive
      BY <2>4 DEF Claim, LastClaim, FlushIds
    <3> QED
      BY <2>4, <3>1, <3>3, <3>5, <3>6 DEF Claim, LastClaim, FlushIds
  <2>5. CASE StopLoop
    BY <2>5 DEF StopLoop
  <2>6. CASE FinalCommit
    BY <2>6 DEF FinalCommit, Commit
  <2>7. CASE FinalCommitFails
    BY <2>7 DEF FinalCommitFails
  <2> QED
    BY <1>4, <2>1, <2>2, <2>3, <2>4, <2>5, <2>6, <2>7 DEF WriterStep
<1>5. CASE ShardCommit
  BY <1>5 DEF ShardCommit
<1>6. CASE SignalShutdown
  <2>1. ToSet(queue) \subseteq Events
    BY DEF ToSet
  <2> QED
    BY <1>6, <2>1 DEF SignalShutdown
<1>7. CASE Exit \/ KillWriter
  <2>1. shutdown' \in BOOLEAN /\ dirty' \in BOOLEAN
    BY <1>7 DEF Exit, KillWriter, RestartWriter
  <2>2. fails' = fails /\ (kills' = kills \/ (kills < MaxKills /\ kills' = kills + 1))
    BY <1>7 DEF Exit, KillWriter, RestartWriter
  <2>3. fails' \in 0..MaxFails /\ kills' \in 0..MaxKills
    BY <2>2
  <2>4. queue' = <<>> /\ archive' = archive
    BY <1>7 DEF Exit, KillWriter, RestartWriter
  <2>5. queue' \in Seq(archive') /\ Len(queue') <= QueueSize
    BY <2>4
  <2> QED
    BY <1>7, <2>1, <2>3, <2>4, <2>5 DEF Exit, KillWriter, RestartWriter
<1>8. CASE UNCHANGED writerVars
  BY <1>8 DEF writerVars
<1> QED
  BY <1>1, <1>2, <1>3, <1>4, <1>5, <1>6, <1>7, <1>8, <1>9, <1>10 DEF WriterNext

\* The state the process starts in has the types.
LEMMA InitTypes == WriterInit => TypeOK
<1> SUFFICES ASSUME WriterInit PROVE TypeOK
  OBVIOUS
<1>1. shutdown \in BOOLEAN /\ dirty \in BOOLEAN
  BY DEF WriterInit
<1> QED
  BY <1>1, ConstantsAssumption DEF WriterInit, TypeOK

\* The variables of the writer node keep their types and the channel never
\* holds more than its capacity, for every capacity and set of events.
THEOREM TypeCorrect == WriterSpec => []TypeOK
  BY InitTypes, TypeStep, PTL DEF WriterSpec

-----------------------------------------------------------------------------
(* Ids are recorded after the commit that covers them. *)

\* An id waiting to be recorded has a document, and a committed one by the time
\* it is recorded.
ClaimInv ==
    /\ TypeOK
    /\ ClaimedIsDurable
    /\ indexed \subseteq buffered \cup durable
    /\ phase \in {"claim", "lastclaim"} => indexed \subseteq durable

\* Every step keeps ClaimInv: only a commit that succeeded leads to a claim.
LEMMA ClaimStep == ClaimInv /\ [WriterNext]_writerVars => ClaimInv'
<1> USE ConstantsAssumption
<1> SUFFICES ASSUME ClaimInv, [WriterNext]_writerVars PROVE ClaimInv'
  OBVIOUS
<1>0. TypeOK /\ TypeOK'
  BY TypeStep DEF ClaimInv
<1> USE DEF ClaimInv, ClaimedIsDurable, producerVars, indexVars
<1>1. ASSUME NEW e \in Events, SaveEvent(e) \/ SendEvent(e) \/ SendClosed(e)
      PROVE  ClaimInv'
  BY <1>0, <1>1 DEF SaveEvent, SendEvent, SendClosed
<1>7. ASSUME NEW e \in Events, Notify(e)
      PROVE  ClaimInv'
  BY <1>0, <1>7 DEF Notify
<1>8. CASE Stream
  BY <1>0, <1>8 DEF Stream
<1>2. CASE WriterStep
  <2>1. CASE ReceiveEvent
    BY <1>0, <2>1 DEF ReceiveEvent
  <2>2. CASE TickCommit \/ FinalCommit
    BY <1>0, <2>2 DEF TickCommit, FinalCommit, Commit
  <2>3. CASE TickFails \/ FinalCommitFails
    BY <1>0, <2>3 DEF TickFails, FinalCommitFails
  <2>4. CASE Claim \/ LastClaim
    BY <1>0, <2>4 DEF Claim, LastClaim, FlushIds
  <2>5. CASE StopLoop
    BY <1>0, <2>5 DEF StopLoop
  <2> QED
    BY <1>2, <2>1, <2>2, <2>3, <2>4, <2>5 DEF WriterStep
<1>3. CASE ShardCommit
  BY <1>0, <1>3 DEF ShardCommit
<1>4. CASE SignalShutdown
  BY <1>0, <1>4 DEF SignalShutdown
<1>5. CASE Exit \/ KillWriter
  BY <1>0, <1>5 DEF Exit, KillWriter, RestartWriter
<1>6. CASE UNCHANGED writerVars
  BY <1>0, <1>6 DEF writerVars
<1> QED
  BY <1>1, <1>2, <1>3, <1>4, <1>5, <1>6, <1>7, <1>8 DEF WriterNext

\* The node's id store is never ahead of its index, whatever commit or write
\* fails and whenever the process is killed.
THEOREM StoreTrailsIndex == WriterSpec => []ClaimedIsDurable
<1>1. WriterInit => ClaimInv
  BY InitTypes DEF WriterInit, ClaimInv, ClaimedIsDurable
<1>2. ClaimInv => ClaimedIsDurable
  BY DEF ClaimInv
<1> QED
  BY <1>1, <1>2, ClaimStep, PTL DEF WriterSpec

-----------------------------------------------------------------------------
(* A shutdown that meets no failure keeps what was in the channel. *)

\* Taking the head of the channel leaves every other event in it.
LEMMA TailKeeps ==
  ASSUME NEW S, NEW q \in Seq(S), q # <<>>
  PROVE  ToSet(q) \subseteq {Head(q)} \cup ToSet(Tail(q))
<1> SUFFICES ASSUME NEW i \in 1..Len(q), q[i] # Head(q)
             PROVE  q[i] \in ToSet(Tail(q))
  BY DEF ToSet
<1>1. i - 1 \in 1..Len(Tail(q)) /\ Tail(q)[i - 1] = q[i]
  OBVIOUS
<1>2. DOMAIN Tail(q) = 1..Len(Tail(q))
  OBVIOUS
<1>3. i - 1 \in DOMAIN Tail(q)
  BY <1>1, <1>2
<1> QED
  BY <1>1, <1>3 DEF ToSet

\* A send leaves every event of the channel in it.
LEMMA AppendKeeps ==
  ASSUME NEW S, NEW q \in Seq(S), NEW e \in S
  PROVE  ToSet(q) \subseteq ToSet(Append(q, e))
<1> SUFFICES ASSUME NEW i \in 1..Len(q)
             PROVE  q[i] \in ToSet(Append(q, e))
  BY DEF ToSet
<1>1. i \in 1..Len(Append(q, e)) /\ Append(q, e)[i] = q[i]
  OBVIOUS
<1> QED
  BY <1>1 DEF ToSet

\* An empty channel holds nothing.
LEMMA EmptyHolds == ToSet(<<>>) = {}
  BY DEF ToSet

\* Once shutdown is signalled, an event that was in the channel then is still
\* there, or was refused, or has a document; after the drain it has one.
DrainInv ==
    /\ TypeOK
    /\ shutdown => inFlight \subseteq ToSet(queue) \cup refused \cup buffered \cup durable
    /\ phase \in {"finish", "lastclaim", "stopped", "aborted"} => shutdown
    /\ phase = "finish" => inFlight \subseteq refused \cup buffered \cup durable
    /\ phase \in {"lastclaim", "stopped"} => inFlight \subseteq refused \cup durable

\* Every step keeps DrainInv: a failed commit leaves documents buffered, and a
\* failed final commit does not lead to "stopped".
LEMMA DrainStep == DrainInv /\ [WriterNext]_writerVars => DrainInv'
<1> SUFFICES ASSUME DrainInv, [WriterNext]_writerVars PROVE DrainInv'
  OBVIOUS
<1>0. TypeOK /\ TypeOK'
  BY TypeStep DEF DrainInv
<1>q. queue \in Seq(archive) /\ sending \subseteq archive
  BY <1>0 DEF TypeOK
<1> USE DEF DrainInv, producerVars, indexVars
<1>1. ASSUME NEW e \in Events, SaveEvent(e) \/ SendClosed(e)
      PROVE  DrainInv'
  BY <1>0, <1>1 DEF SaveEvent, SendClosed
<1>8. ASSUME NEW e \in Events, Notify(e)
      PROVE  DrainInv'
  BY <1>0, <1>8 DEF Notify
<1>9. CASE Stream
  BY <1>0, <1>9 DEF Stream
<1>2. ASSUME NEW e \in Events, SendEvent(e)
      PROVE  DrainInv'
  <2>1. ToSet(queue) \subseteq ToSet(queue')
    BY <1>2, <1>q, AppendKeeps DEF SendEvent
  <2> QED
    BY <1>0, <1>2, <2>1 DEF SendEvent
<1>3. CASE WriterStep
  <2>1. CASE ReceiveEvent
    <3>1. ToSet(queue) \subseteq {Head(queue)} \cup ToSet(queue')
      BY <2>1, <1>q, TailKeeps DEF ReceiveEvent
    <3>2. Head(queue) \in refused' \cup buffered'
      BY <2>1 DEF ReceiveEvent
    <3>3. refused \subseteq refused' /\ buffered \subseteq buffered' /\ durable' = durable
      BY <2>1 DEF ReceiveEvent
    <3> QED
      BY <1>0, <2>1, <3>1, <3>2, <3>3 DEF ReceiveEvent
  <2>2. CASE TickCommit \/ FinalCommit
    BY <1>0, <2>2 DEF TickCommit, FinalCommit, Commit
  <2>3. CASE TickFails \/ FinalCommitFails
    BY <1>0, <2>3 DEF TickFails, FinalCommitFails
  <2>4. CASE Claim
    BY <1>0, <2>4 DEF Claim, FlushIds
  <2>5. CASE LastClaim
    BY <1>0, <2>5 DEF LastClaim, FlushIds
  <2>6. CASE StopLoop
    BY <1>0, <2>6, EmptyHolds DEF StopLoop
  <2> QED
    BY <1>3, <2>1, <2>2, <2>3, <2>4, <2>5, <2>6 DEF WriterStep
<1>4. CASE ShardCommit
  BY <1>0, <1>4 DEF ShardCommit
<1>5. CASE SignalShutdown
  BY <1>0, <1>5 DEF SignalShutdown
<1>6. CASE Exit \/ KillWriter
  BY <1>0, <1>6 DEF Exit, KillWriter, RestartWriter
<1>7. CASE UNCHANGED writerVars
  BY <1>0, <1>7 DEF writerVars
<1> QED
  BY <1>1, <1>2, <1>3, <1>4, <1>5, <1>6, <1>7, <1>8, <1>9 DEF WriterNext

\* A writer that has stopped (and whose final commit did not fail) has
\* committed everything that was in the channel when shutdown was signalled,
\* whatever the producers send meanwhile and whenever shards commit.
THEOREM ShutdownDrains == WriterSpec => []DrainedIsDurable
<1>1. WriterInit => DrainInv
  BY InitTypes DEF WriterInit, DrainInv
<1>2. DrainInv => DrainedIsDurable
  BY DEF DrainInv, DrainedIsDurable
<1> QED
  BY <1>1, <1>2, DrainStep, PTL DEF WriterSpec
=============================================================================
