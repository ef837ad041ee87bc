------------------------------ MODULE Analyses ------------------------------
(***************************************************************************)
(* What the registered analyses compute (crates/nostrsearch-stats/src:     *)
(* analyses/*.rs, hll.rs, graph.rs, ctx.rs, wot.rs, delta.rs), as          *)
(* operators on the state each one keeps: what one event does to it, what  *)
(* its report shows, and the patch it hands to the report stream.          *)
(*                                                                         *)
(* A map of the code is a function with the map's keys as its domain; an   *)
(* absent option is Null.  JSON objects are functions too: a report that   *)
(* streams has two levels, section and key, with whole values below.       *)
(*                                                                         *)
(* The two stores on disk may fail a call.  What the code then goes on     *)
(* with is part of the operator, given the calls that fail.                *)
(*                                                                         *)
(* Simplifications: a sketch's estimate is the number of its registers in  *)
(* use, which is what its linear counting rounds to while they are few;    *)
(* months are MonthLen long; the values of PageRank, and the decayed score *)
(* by which the trending tags are ordered and cut, are floating point and  *)
(* left out; pagerank reads the whole graph; merge(), which nothing in the *)
(* repository calls, is left out.                                          *)
(***************************************************************************)
EXTENDS Integers, SequencesExt

CONSTANTS
    Null,
    Hour, Day, Week, MonthLen,  \* lengths, in units of the clock
    WindowHours,                \* WINDOW_HOURS of the trending tags
    TierFloors,                 \* followers that make tier 1, 2, ...
    MaxClients, MaxRelays, MaxNodes, MaxMsats,
    Hash                        \* pubkey -> [idx, rank] of its register

Count == [trusted : Nat, untrusted : Nat]
ASSUME AnalysesConstants ==
    /\ Hour \in Nat \ {0} /\ Day \in Nat \ {0} /\ Week \in Nat \ {0} /\ MonthLen \in Nat \ {0}
    /\ MaxMsats \in Nat
    \* What is absent is none of the values that are present.
    /\ Null \notin Nat /\ Null \notin Count
    /\ \A pk \in DOMAIN Hash : Hash[pk].idx \in Nat /\ Hash[pk].rank \in Nat \ {0}

At(f, k, default) == IF k \in DOMAIN f THEN f[k] ELSE default
Put(f, k, v) == [x \in DOMAIN f \cup {k} |-> IF x = k THEN v ELSE f[x]]
\* The keys of both, as in f where it has them.
Over(f, g) == [x \in DOMAIN f \cup DOMAIN g |-> IF x \in DOMAIN f THEN f[x] ELSE g[x]]
Floor0(n) == Max({0, n})
Start(at, len) == at - (at % len)

-----------------------------------------------------------------------------
(* The world, and counts split by it.                                      *)

NoCount == [trusted |-> 0, untrusted |-> 0]
Incr(c, isTrusted, n) ==
    IF isTrusted THEN [c EXCEPT !.trusted = @ + n] ELSE [c EXCEPT !.untrusted = @ + n]

Tier(count) == Cardinality({i \in DOMAIN TierFloors : TierFloors[i] <= count})
AuthorTier(world, pk) == At(world, pk, 0)
IsTrusted(world, pk) == pk # Null /\ AuthorTier(world, pk) >= 1

\* contribute: only the keys the analysis holds are written; no key leaves the world.
Contribute(world, counts) == Over([pk \in DOMAIN counts |-> Tier(counts[pk])], world)
\* What the indexer's lookup is given.
WotIndex(world) == [pk \in {p \in DOMAIN world : world[p] > 0} |-> world[pk]]

\* Events of these kinds are signed by one-off keys.
UsesThrowawayKey(ev) == ev.kind \in {"gift", "ephemeral"}

-----------------------------------------------------------------------------
(* Sketches of distinct keys.                                              *)

Insert(h, key) ==
    IF Hash[key].rank > At(h, Hash[key].idx, 0) THEN Put(h, Hash[key].idx, Hash[key].rank) ELSE h
Estimate(h) == Cardinality(DOMAIN h)

-----------------------------------------------------------------------------
(* follow_graph: the adjacency is on disk, follower counts are resident.   *)

\* The places of a key in a list: it may be listed more than once.
Places(list, pk) == {i \in DOMAIN list : list[i] = pk}
\* Each place counts; a count stops at 0, and stays in the map there.
ApplyDelta(counts, followed, delta) ==
    [pk \in DOMAIN counts \cup ToSet(followed) |->
        Floor0(At(counts, pk, 0) + delta * Cardinality(Places(followed, pk)))]

\* (Fault: the superseded list keeps its followers.)
SupersedeNothing(counts, graph, author) == counts

\* The counts without the list that a newer one replaces.
Supersede(counts, graph, author) ==
    IF author \in DOMAIN graph THEN ApplyDelta(counts, graph[author].follows, -1) ELSE counts

\* Without the date of the stored list nothing is folded; a list that cannot be
\* read is not superseded; a list that cannot be written is counted all the same.
GraphCalls == {"created_at", "get", "put"}
NotNewer(graph, ev) == ev.author \in DOMAIN graph /\ ev.at <= graph[ev.author].at
ObserveFollows(f, ev, failing) ==
    IF ev.kind # "contacts" \/ "created_at" \in failing \/ NotNewer(f.graph, ev) THEN f
    ELSE LET counts == IF "get" \in failing THEN f.counts ELSE Supersede(f.counts, f.graph, ev.author)
         IN  [counts |-> ApplyDelta(counts, ev.p, 1),
              graph |-> IF "put" \in failing THEN f.graph
                        ELSE Put(f.graph, ev.author, [at |-> ev.at, follows |-> ev.p])]

\* Occurrences of a key in every stored list.
Followers(graph, pk) ==
    Cardinality(UNION {{a} \X Places(graph[a].follows, pk) : a \in DOMAIN graph})
Followed(graph) == UNION {ToSet(graph[a].follows) : a \in DOMAIN graph}
CountsOf(graph) == [pk \in Followed(graph) |-> Followers(graph, pk)]
\* attach: counts are derived only when there are none, from the lists it can read.
AttachFollows(counts, graph, read) ==
    IF counts = << >> THEN CountsOf(Restrict(graph, read)) ELSE counts

FollowReport(counts) ==
    [followed |-> Cardinality(DOMAIN counts),
     by_tier |-> [t \in 0..Len(TierFloors) |-> Cardinality({pk \in DOMAIN counts : Tier(counts[pk]) = t})]]

-----------------------------------------------------------------------------
(* pagerank: no events; every way out of refresh without ranks says why.   *)

NoRanks == [ranks |-> {}, unhealthy |-> "never refreshed"]
Nodes(graph) == DOMAIN graph \cup Followed(graph)
RefreshRanks(p, graph) ==
    CASE Cardinality(Nodes(graph)) > MaxNodes -> [p EXCEPT !.unhealthy = "over the cap"]
      [] Nodes(graph) = {} -> [p EXCEPT !.unhealthy = "graph is empty"]
      [] OTHER -> [ranks |-> Nodes(graph), unhealthy |-> Null]

-----------------------------------------------------------------------------
(* activity: one bucket a day.                                             *)

\* The invoice that was paid wins over the amount that was asked for.
Msats(ev) ==
    LET m == IF ev.bolt11 # Null THEN ev.bolt11 ELSE IF ev.request = Null THEN Null ELSE ev.request.amount
    IN  IF m # Null /\ m <= MaxMsats THEN m ELSE Null
Sender(ev) == IF ev.P # Null THEN ev.P ELSE IF ev.request = Null THEN Null ELSE ev.request.pubkey
Recipient(ev) ==
    IF ev.p # << >> THEN Head(ev.p) ELSE IF ev.request = Null THEN Null ELSE ev.request.p

NoActivity == Put([k \in {"sent", "received"} |-> NoCount], "zap_count", 0)
Zapped(bucket, ev, world) ==
    IF ev.kind # "zap" \/ Msats(ev) = Null THEN bucket
    ELSE LET sats == Msats(ev) \div 1000 IN
         Put(Put(Put(bucket, "sent", Incr(bucket["sent"], IsTrusted(world, Sender(ev)), sats)),
                 "received", Incr(bucket["received"], IsTrusted(world, Recipient(ev)), sats)),
             "zap_count", bucket["zap_count"] + 1)
ObserveActivity(s, ev, world) ==
    LET day == Start(ev.at, Day)
        b == At(s.days, day, NoActivity)
        counted == Put(b, ev.kind, Incr(At(b, ev.kind, NoCount), IsTrusted(world, ev.author), 1))
    IN  [days |-> Put(s.days, day, Zapped(counted, ev, world)), dirty |-> s.dirty \cup {day}]
ActivityPatch(s) == [day \in s.dirty \cap DOMAIN s.days |-> s.days[day]]

-----------------------------------------------------------------------------
(* active_users: sketches by day, week and month, with a trusted subset.   *)

Scales == [daily |-> Day, weekly |-> Week, monthly |-> MonthLen]
PerScale(v) == [k \in DOMAIN Scales |-> v]
NoActive == [all |-> PerScale(<< >>), trusted |-> PerScale(<< >>), dirty |-> PerScale({})]
InsertAll(sketches, ev) ==
    [k \in DOMAIN Scales |->
       LET b == Start(ev.at, Scales[k]) IN Put(sketches[k], b, Insert(At(sketches[k], b, << >>), ev.author))]

\* Whether an event changed what the bucket of this scale shows.
Moved(s, t, k) == t.all[k] # s.all[k] \/ t.trusted[k] # s.trusted[k]

ObserveActive(s, ev, world) ==
    IF UsesThrowawayKey(ev) THEN s
    ELSE LET t == [s EXCEPT !.all = InsertAll(@, ev),
                            !.trusted = IF IsTrusted(world, ev.author) THEN InsertAll(@, ev) ELSE @]
         IN  [t EXCEPT !.dirty = [k \in DOMAIN Scales |->
                 IF Moved(s, t, k) THEN @[k] \cup {Start(ev.at, Scales[k])} ELSE @[k]]]
BucketAt(s, k, b) ==
    LET total == Estimate(s.all[k][b])
        t == Estimate(At(s.trusted[k], b, << >>))
    IN  [trusted |-> t, untrusted |-> Floor0(total - t)]
ActiveReport(s) == [k \in DOMAIN Scales |-> [b \in DOMAIN s.all[k] |-> BucketAt(s, k, b)]]
ActivePatch(s) ==
    [k \in {x \in DOMAIN Scales : s.dirty[x] # {}} |-> [b \in s.dirty[k] |-> BucketAt(s, k, b)]]

-----------------------------------------------------------------------------
(* new_users: first publications by day and month; first_seen is on disk.  *)

FirstScales == [daily |-> Day, monthly |-> MonthLen]
NoNew == [tally |-> [k \in DOMAIN FirstScales |-> << >>], dirty |-> [k \in DOMAIN FirstScales |-> {}]]
Shift(s, at, delta) ==
    [tally |-> [k \in DOMAIN FirstScales |->
        LET b == Start(at, FirstScales[k])
            n == Floor0(At(s.tally[k], b, 0) + delta)
        IN  IF n = 0 THEN [x \in DOMAIN s.tally[k] \ {b} |-> s.tally[k][x]] ELSE Put(s.tally[k], b, n)],
     dirty |-> [k \in DOMAIN FirstScales |-> s.dirty[k] \cup {Start(at, FirstScales[k])}]]
\* A time that cannot be read is no time; one that cannot be written is counted
\* all the same.
FirstCalls == {"get", "put"}
ObserveFirst(f, ev, failing) ==
    LET prev == IF "get" \in failing THEN Null ELSE At(f.first, ev.author, Null)
        moved == IF prev = Null THEN f.new ELSE Shift(f.new, prev, -1)
    IN  IF UsesThrowawayKey(ev) \/ (prev # Null /\ prev <= ev.at) THEN f
        ELSE [new |-> Shift(moved, ev.at, 1),
              first |-> IF "put" \in failing THEN f.first ELSE Put(f.first, ev.author, ev.at)]

\* (Fault: a bucket that emptied is left out of the patch, as in the other analyses.)
NewPatchOfKept(s) ==
    [k \in DOMAIN FirstScales |-> [b \in s.dirty[k] \cap DOMAIN s.tally[k] |-> s.tally[k][b]]]

NewPatch(s) == [k \in DOMAIN FirstScales |-> [b \in s.dirty[k] |-> At(s.tally[k], b, Null)]]

-----------------------------------------------------------------------------
(* trending_hashtags: mentions by the hour; `seen' is not in a checkpoint. *)

WindowFloor(now) == Floor0((now \div Hour) - WindowHours) * Hour
Prune(hours, now) == [h \in {x \in DOMAIN hours : x >= WindowFloor(now)} |-> hours[h]]
NoHour == [weight |-> << >>, mentions |-> << >>, seen |-> {}]
\* Weights are in halves: one, plus a half for each tier.
Mention(bucket, tag, author, tier) ==
    IF <<tag, author>> \in bucket.seen THEN bucket
    ELSE [weight |-> Put(bucket.weight, tag, At(bucket.weight, tag, 0) + 2 + tier),
          mentions |-> Put(bucket.mentions, tag, At(bucket.mentions, tag, 0) + 1),
          seen |-> bucket.seen \cup {<<tag, author>>}]
ObserveTrending(hours, ev, world, now) ==
    IF ev.kind # "note" \/ ev.at < WindowFloor(now) \/ ev.at > now + Hour THEN hours
    ELSE LET h == Start(ev.at, Hour)
             next == Put(hours, h, FoldSet(LAMBDA tag, b : Mention(b, tag, ev.author, AuthorTier(world, ev.author)),
                                           At(hours, h, NoHour), ev.t))
         IN  IF Cardinality(DOMAIN next) > WindowHours + 2 THEN Prune(next, now) ELSE next
\* The tags of the window, without the order their scores give them.
TrendingReport(hours) ==
    LET of(tag) == {h \in DOMAIN hours : tag \in DOMAIN hours[h].mentions}
    IN  [tag \in UNION {DOMAIN hours[h].mentions : h \in DOMAIN hours} |->
            FoldSet(LAMBDA h, n : n + hours[h].mentions[tag], 0, of(tag))]

-----------------------------------------------------------------------------
(* client_tags and relays: bounded maps keyed by what publishers write.    *)

\* Case, version and surrounding blanks go; a NIP-89 coordinate is kept whole.
NormalizeClient(c) == IF c = Null \/ c.form = "blank" THEN "N/A" ELSE c.name
ClientKey(data, name) ==
    IF Cardinality(DOMAIN data) >= MaxClients /\ name \notin DOMAIN data THEN "(other)" ELSE name
NoClient == [k \in {"sum", "last_note"} |-> 0]
ObserveClient(s, ev) ==
    LET key == ClientKey(s.data, NormalizeClient(ev.client))
        c == At(s.data, key, NoClient)
        next == Put(Put(c, "sum", c["sum"] + 1), "last_note", Max({c["last_note"], ev.at}))
    IN  [data |-> Put(s.data, key, Put(next, ev.kind, At(next, ev.kind, 0) + 1)),
         dirty |-> s.dirty \cup {key}]
ClientPatch(s) == [name \in s.dirty \cap DOMAIN s.data |-> s.data[name]]

\* Trailing junk, query and case go; what a server cannot reach is rejected.
NormalizeRelayUrl(r) == IF r.form = "local" THEN Null ELSE r.url
Advertise(data, url, ev) ==
    IF url = Null \/ (url \notin DOMAIN data /\ Cardinality(DOMAIN data) >= MaxRelays) THEN data
    ELSE LET e == At(data, url, [hll |-> << >>, last_seen |-> 0])
         IN  Put(data, url, [hll |-> Insert(e.hll, ev.author), last_seen |-> Max({e.last_seen, ev.at})])
ObserveRelays(data, ev) ==
    IF ev.kind # "relay_list" THEN data
    ELSE FoldLeft(LAMBDA d, r : Advertise(d, NormalizeRelayUrl(r), ev), data, ev.r)
RelaysReport(data) ==
    [url \in DOMAIN data |-> [advertisers |-> Estimate(data[url].hll), last_seen |-> data[url].last_seen]]

-----------------------------------------------------------------------------
(* JSON merge patches: Null removes a key.                                 *)

MergeObject(target, patch) ==
    [k \in {x \in DOMAIN target \cup DOMAIN patch : At(patch, x, 0) # Null} |-> At(patch, k, At(target, k, Null))]
\* A section the target lacks is the patch's, nulls and all.
MergePatch(target, patch) ==
    Over([s \in DOMAIN patch |-> IF s \in DOMAIN target THEN MergeObject(target[s], patch[s]) ELSE patch[s]],
         target)
=============================================================================
