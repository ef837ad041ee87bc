---------------------------- MODULE ShardRegistry ---------------------------
(***************************************************************************)
(* The read side: searches and event lookups over the monthly shards       *)
(* (crates/nostrsearch-server/src/registry.rs), next to a writer that      *)
(* makes shards and commits documents.  EventIndex and QueryPlan say what  *)
(* a document and a query are.                                             *)
(*                                                                         *)
(* A search is run by its own threads: it finds an anchor shard to plan    *)
(* with, plans, and lets Workers claim the shards of the plan one by one   *)
(* (fetch_add on `next').  Readers are shared through an LRU cache; a      *)
(* reader is its snapshot of the shard, which the watcher reloads some     *)
(* time after a commit.  Opening a reader and putting it into the cache    *)
(* are two steps, the lock being released in between.                      *)
(*                                                                         *)
(* Simplifications: a worker reads a cached reader's snapshot in the step  *)
(* that takes its handle (a later read sees the same or a newer one); the  *)
(* clock stands still during a search; I/O errors of an existing shard are *)
(* left out; the archive's copy of a hit (hydrate_events) does not change  *)
(* which hits are returned.                                                *)
(***************************************************************************)
EXTENDS QueryPlan

CONSTANTS
    Docs,               \* event ids
    Event,              \* Docs -> the event
    Months,             \* months that may have a shard
    Genesis,            \* `earliest' of a registry over an empty root
    Now,                \* the clock
    MaxOpen,            \* MAX_OPEN_SHARD_READERS
    Searchers,          \* requests
    WorkersOf,          \* Searchers -> the threads of its fan-out
    FiltersOf,          \* Searchers -> the filters it may ask for
    Getters, Wanted,    \* lookups, and the ids they may ask for
    Settled             \* Months -> documents committed before the server starts

ASSUME RegistryConstants ==
    /\ MaxOpen \in Nat \ {0} /\ Genesis \in Nat /\ Now \in Nat
    /\ Months \subseteq Nat /\ IsFiniteSet(Months)
    /\ Docs \subseteq Nat /\ IsFiniteSet(Docs)
    /\ \A d \in Docs : {Event[d].created_at, Event[d].wot, Event[d].bm25} \subseteq Nat
    /\ DOMAIN Settled \subseteq Months
    /\ \A m \in DOMAIN Settled :
          \A d \in Settled[m] : d \in Docs /\ FromTimestamp(Event[d].created_at) = m
    \* Times and limits are unsigned; there is one search string or none.
    /\ \A s \in Searchers : \A f \in FiltersOf[s] :
          /\ LET p == Plan(f, 0, 0) IN f.limit \cup p.since \cup p.until \subseteq Nat
          /\ \A t, u \in f.search : t = u

VARIABLES
    dirs,               \* months that have a directory
    metas,              \* ... with an index in it
    committed,          \* [Months -> documents of the last commit]
    earliest,           \* oldest shard seen on disk
    lru,                \* months with a cached reader, least recently used first
    snap,               \* [Months -> snapshot of the cached reader]
    search,             \* [Searchers -> state of its request]
    get,                \* [Getters -> state of its lookup]
    unseen              \* history: months whose directory no discovery has seen

disk == <<dirs, metas, committed>>
cache == <<lru, snap>>
vars == <<disk, earliest, cache, search, get, unseen>>

\* The document a shard holds of each event.
Document == [d \in Docs |-> ToDocument(Event[d])]
MonthOf(d) == FromTimestamp(Event[d].created_at)
Cached == ToSet(lru)
Limit(f) == ClampLimit(f.limit)

IdleWorker == [pc |-> "idle", shard |-> 0, snap |-> {}]
NoPlan == [words |-> {}, clauses |-> {}, since |-> None, until |-> None, shards |-> <<>>]
NoFilter == [search |-> None, authors |-> {}, kinds |-> {}, tags |-> {}, since |-> None,
             until |-> None, lang |-> None, limit |-> None]
NoSearch(s) == [pc |-> "idle", filter |-> NoFilter, known |-> 0, anchor |-> {}, plan |-> NoPlan, next |-> 1,
             worker |-> [w \in WorkersOf[s] |-> IdleWorker], hits |-> {}, result |-> <<>>, due |-> {}]
NoGet == [pc |-> "idle", id |-> None, order |-> <<>>, found |-> FALSE, due |-> FALSE]

\* discover(): the oldest directory, or what was known if there is none.
Discover(ds) == IF ds = {} THEN earliest ELSE Min(ds)

Init ==
    /\ dirs = DOMAIN Settled /\ metas = DOMAIN Settled
    /\ committed = [m \in Months |-> IF m \in DOMAIN Settled THEN Settled[m] ELSE {}]
    /\ earliest = IF DOMAIN Settled = {} THEN Genesis ELSE Min(DOMAIN Settled)
    /\ lru = <<>> /\ snap = [m \in Months |-> {}]
    /\ search = [s \in Searchers |-> NoSearch(s)] /\ get = [g \in Getters |-> NoGet]
    /\ unseen = {}

-----------------------------------------------------------------------------
(* The reader cache.                                                       *)

\* A use of m puts it last.
Touch(q, m) ==
    IF m \notin ToSet(q) THEN Append(q, m)
    ELSE Append(RemoveAt(q, CHOOSE i \in DOMAIN q : q[i] = m), m)

\* Drop least recently used readers until at most MaxOpen remain.
EvictToCapacity(q) == IF Len(q) > MaxOpen THEN SubSeq(q, Len(q) - MaxOpen + 1, Len(q)) ELSE q

\* (Fault: room is made before the reader is put in.)
InsertedAfterEvict(q, m) == Touch(EvictToCapacity(q), m)
Inserted(q, m) == EvictToCapacity(Touch(q, m))

\* shard(): the second look at the cache, with a reader just opened on `sn'.
\* Another thread's reader is preferred.
PutReader(m, sn) ==
    /\ lru' = IF m \in Cached THEN Touch(lru, m) ELSE Inserted(lru, m)
    /\ snap' = [x \in Months |-> IF x \notin ToSet(lru') THEN {}
                                 ELSE IF x = m /\ m \notin Cached THEN sn ELSE snap[x]]
Preferred(m, sn) == IF m \in Cached THEN snap[m] ELSE sn

-----------------------------------------------------------------------------
(* A search.                                                               *)

Threads == UNION {{s} \X WorkersOf[s] : s \in Searchers}

\* Readers being opened, by searches for an anchor and by their workers.
Opening ==
    {<<search[s].known, search[s].anchor>> : s \in {t \in Searchers : search[t].pc = "insert"}}
      \cup {<<search[p[1]].worker[p[2]].shard, search[p[1]].worker[p[2]].snap>> :
               p \in {q \in Threads : search[q[1]].worker[q[2]].pc = "opening"}}

\* A committed document that every reader in use or being opened has.
IsSettled(d) ==
    LET m == MonthOf(d)
    IN /\ m \in Months /\ d \in committed[m]
       /\ m \in Cached => d \in snap[m]
       /\ \A o \in Opening : o[1] = m => d \in o[2]

\* What a search that starts now must know of (history).
DueNow == IF lru # <<>> \/ earliest \in metas
          THEN {d \in Docs : IsSettled(d) /\ MonthOf(d) \notin unseen} ELSE {}

Begin(s) ==
    \E f \in FiltersOf[s] :
    /\ search[s].pc = "idle"
    /\ search' = [search EXCEPT ![s].pc = "anchor", ![s].filter = f, ![s].known = earliest,
                                ![s].due = DueNow]
    /\ UNCHANGED <<disk, earliest, cache, get, unseen>>

\* Any open reader will do; else the oldest shard known is opened.
Anchor(s) ==
    /\ search[s].pc = "anchor"
    /\ search' = IF lru # <<>> THEN [search EXCEPT ![s].pc = "plan"]
                 ELSE IF search[s].known \in metas
                 THEN [search EXCEPT ![s].pc = "insert",
                                     ![s].anchor = committed[search[s].known]]
                 ELSE [search EXCEPT ![s].pc = "rediscover"]
    /\ UNCHANGED <<disk, earliest, cache, get, unseen>>

\* No reader and no such shard: the disk is read again before giving up.
Rediscover(s) ==
    LET e == Discover(dirs) IN
    /\ search[s].pc = "rediscover"
    /\ earliest' = e /\ unseen' = {}
    /\ search' = IF e \in Cached THEN [search EXCEPT ![s].pc = "plan"]
                 ELSE IF e \in metas
                 THEN [search EXCEPT ![s].pc = "insert", ![s].known = e,
                                     ![s].anchor = committed[e]]
                 ELSE [search EXCEPT ![s].pc = "done"]
    /\ IF e \in Cached THEN lru' = Touch(lru, e) /\ UNCHANGED snap ELSE UNCHANGED cache
    /\ UNCHANGED <<disk, get>>

InsertAnchor(s) ==
    /\ search[s].pc = "insert"
    /\ PutReader(search[s].known, search[s].anchor)
    /\ search' = [search EXCEPT ![s].pc = "plan", ![s].anchor = {}]
    /\ UNCHANGED <<disk, earliest, get, unseen>>

PlanSearch(s) ==
    /\ search[s].pc = "plan"
    /\ search' = [search EXCEPT ![s].pc = "fan",
                      ![s].plan = Plan(search[s].filter, earliest, FromTimestamp(Now))]
    /\ UNCHANGED <<disk, earliest, cache, get, unseen>>

\* The best `limit' documents of a set; which of equals is not determined.
Best(f, S) ==
    LET key(d) == RankKey(f, Document[d], Now)
    IN {T \in SUBSET S : /\ Cardinality(T) = Min({Limit(f), Cardinality(S)})
                         /\ \A d \in T, e \in S \ T : key(d) >= key(e)}

\* search_one(): the hits of a shard read at snapshot sn.
SearchOne(r, sn) == Best(r.filter, {d \in sn : Selects(r.plan, Document[d])})

\* (Fault: every plan reads through the cache.)
CacheMissesNever(r) == FALSE
\* A plan of more shards than the cache holds leaves the cache alone.
CacheMisses(r) == Len(r.plan.shards) > MaxOpen

\* A worker claims the next shard of the plan.  A cached reader is used at
\* once; in a wide scan any other is opened for this use only.
Take(s, w) ==
    LET r == search[s]
        id == r.plan.shards[r.next]
        read(sn) == \E h \in SearchOne(r, sn) :
                        search' = [search EXCEPT ![s].next = @ + 1, ![s].hits = @ \cup h]
    IN /\ r.pc = "fan" /\ r.worker[w].pc = "idle" /\ r.next <= Len(r.plan.shards)
       /\ \/ /\ id \in Cached
             /\ read(snap[id])
             /\ lru' = IF CacheMisses(r) THEN lru ELSE Touch(lru, id)
          \/ /\ id \notin Cached /\ id \in metas /\ CacheMisses(r)
             /\ read(committed[id])
             /\ UNCHANGED lru
          \/ /\ id \notin Cached /\ id \in metas /\ ~CacheMisses(r)
             /\ search' = [search EXCEPT ![s].next = @ + 1,
                               ![s].worker[w] = [pc |-> "opening", shard |-> id, snap |-> committed[id]]]
             /\ UNCHANGED lru
          \/ /\ id \notin Cached /\ id \notin metas
             /\ search' = [search EXCEPT ![s].next = @ + 1]
             /\ UNCHANGED lru
       /\ UNCHANGED <<disk, earliest, snap, get, unseen>>

\* The reader is open: into the cache, and search it.
Put(s, w) ==
    LET r == search[s]
        k == r.worker[w]
    IN /\ k.pc = "opening"
       /\ PutReader(k.shard, k.snap)
       /\ \E h \in SearchOne(r, Preferred(k.shard, k.snap)) :
             search' = [search EXCEPT ![s].worker[w] = IdleWorker, ![s].hits = @ \cup h]
       /\ UNCHANGED <<disk, earliest, get, unseen>>

\* Text queries: by score, equals in any order.  Others: newest first, then
\* by event id.
Ordered(f, S) ==
    LET key(d) == RankKey(f, Document[d], Now)
        ahead(d) == {e \in S : key(e) > key(d) \/ (key(e) = key(d) /\ e < d)}
    IN IF f.search = None
       THEN {[i \in 1..Cardinality(S) |-> CHOOSE d \in S : Cardinality(ahead(d)) = i - 1]}
       ELSE {q \in [1..Cardinality(S) -> S] :
               /\ \A i, j \in DOMAIN q : i < j => key(q[i]) >= key(q[j])
               /\ Cardinality(ToSet(q)) = Len(q)}

Merged(r) == {SubSeq(q, 1, Min({Limit(r.filter), Len(q)})) : q \in Ordered(r.filter, r.hits)}

Finish(s) ==
    LET r == search[s] IN
    /\ r.pc = "fan" /\ r.next > Len(r.plan.shards)
    /\ \A w \in WorkersOf[s] : r.worker[w].pc = "idle"
    /\ \E q \in Merged(r) : search' = [search EXCEPT ![s].pc = "done", ![s].result = q,
                                           ![s].hits = {}, ![s].next = 1, ![s].known = 0,
                                           ![s].plan = NoPlan]
    /\ UNCHANGED <<disk, earliest, cache, get, unseen>>

-----------------------------------------------------------------------------
(* A lookup by id.                                                         *)

AllShardIds == dirs \cup Cached
Descending(S) ==
    [i \in 1..Cardinality(S) |-> CHOOSE a \in S : Cardinality({b \in S : b > a}) = i - 1]

\* (Fault: only the open readers are asked.)
LookupOpenOnly == Descending(Cached)
\* Open readers first, then the rest, the newest of each first.
LookupOrder == Descending(AllShardIds \cap Cached) \o Descending(AllShardIds \ Cached)

BeginGet(g) ==
    \E d \in Wanted :
    /\ get[g].pc = "idle"
    /\ earliest' = Discover(dirs) /\ unseen' = {}
    /\ get' = [get EXCEPT ![g] = [pc |-> "look", id |-> Some(d), order |-> LookupOrder,
                                  found |-> FALSE, due |-> IsSettled(d)]]
    /\ UNCHANGED <<disk, cache, search>>

Look(g) ==
    LET k == get[g]
        id == Head(k.order)
        sn == IF id \in Cached THEN snap[id] ELSE IF id \in metas THEN committed[id] ELSE {}
    IN /\ k.pc = "look"
       /\ IF k.order = <<>> THEN get' = [get EXCEPT ![g].pc = "done"]
          ELSE IF k.id \subseteq sn THEN get' = [get EXCEPT ![g].pc = "done", ![g].found = TRUE,
                                                            ![g].order = <<>>]
          ELSE get' = [get EXCEPT ![g].order = Tail(@)]
       /\ UNCHANGED <<disk, earliest, cache, search, unseen>>

-----------------------------------------------------------------------------
(* The rest of the node.                                                   *)

\* The writer opens a month: the directory first, then the index in it.
MakeDir(m) ==
    /\ m \in Months \ dirs
    /\ dirs' = dirs \cup {m} /\ unseen' = unseen \cup {m}
    /\ UNCHANGED <<metas, committed, earliest, cache, search, get>>

MakeIndex(m) ==
    /\ m \in dirs \ metas
    /\ metas' = metas \cup {m}
    /\ UNCHANGED <<dirs, committed, earliest, cache, search, get, unseen>>

Commit(d) ==
    LET m == MonthOf(d) IN
    /\ m \in metas /\ d \notin committed[m]
    /\ committed' = [committed EXCEPT ![m] = @ \cup {d}]
    /\ UNCHANGED <<dirs, metas, earliest, cache, search, get, unseen>>

\* The reader's watcher sees a commit.
Reload(m) ==
    /\ m \in Cached /\ snap[m] # committed[m]
    /\ snap' = [snap EXCEPT ![m] = committed[m]]
    /\ UNCHANGED <<disk, earliest, lru, search, get, unseen>>

\* GET /stats reads the directories again.
Stats ==
    /\ unseen # {}
    /\ earliest' = Discover(dirs) /\ unseen' = {}
    /\ UNCHANGED <<disk, cache, search, get>>

Next ==
    \/ \E s \in Searchers :
         \/ Begin(s) \/ Anchor(s) \/ Rediscover(s) \/ InsertAnchor(s) \/ PlanSearch(s) \/ Finish(s)
         \/ \E w \in WorkersOf[s] : Take(s, w) \/ Put(s, w)
    \/ \E g \in Getters : BeginGet(g) \/ Look(g)
    \/ \E m \in Months : MakeDir(m) \/ MakeIndex(m) \/ Reload(m)
    \/ \E d \in Docs : Commit(d)
    \/ Stats

Spec == Init /\ [][Next]_vars

-----------------------------------------------------------------------------
(* What a filter asks for, said without reference to how it is planned.    *)

Spellings == [hex |-> {"hex", "HEX"}, key |-> {"hex", "HEX", "npub", "nprofile"},
              event |-> {"hex", "HEX", "note", "nevent"}]

\* The asked value names the one the event has.
Names(field, asked, had) ==
    CASE field \in {"pubkey", "tag_p"} ->
            asked.form \in Spellings.key /\ had.form \in Spellings.hex /\ asked.of = had.of
      [] field = "tag_e" ->
            asked.form \in Spellings.event /\ had.form \in Spellings.hex /\ asked.of = had.of
      [] field = "tag_g" ->
            "junk" \notin {asked.form, had.form} /\ IsPrefix(asked.of, had.of)
              /\ Len(asked.of) \in MinGeohash..MaxGeohash
      [] field \in {"tag_host", "nip05"} -> "junk" \notin {asked.form, had.form} /\ asked.of = had.of
      [] field = "tag_d" -> asked = had
      [] OTHER -> asked.of = had.of

Has(ev, field) ==
    CASE field = "pubkey" -> {ev.pubkey}
      [] field = "nip05" -> IF ev.kind = 0 THEN TagValues(ev, "nip05") ELSE {}
      [] field = "tag_host" -> TagValues(ev, "r") \cup TagValues(ev, "u")
                                 \cup (IF ev.kind = 0 THEN TagValues(ev, "website") ELSE {})
      [] field = "tag_t" -> TagValues(ev, "t")
      [] field = "tag_e" -> TagValues(ev, "e")
      [] field = "tag_p" -> TagValues(ev, "p")
      [] field = "tag_a" -> TagValues(ev, "a")
      [] field = "tag_d" -> TagValues(ev, "d")
      [] field = "tag_g" -> TagValues(ev, "g")
      [] field = "lang" -> ev.lang

Answers(ev, field, asked) == \E had \in Has(ev, field) : Names(field, asked, had)

\* A word of letters stands alone in the text, in any case; two or more
\* characters of an unspaced script stand anywhere in it, one by itself.
\* A letter or a character of an unspaced script: the two classes of a word.
Class(c) == IF IsScriptioContinua(c) THEN 2 ELSE IF IsAlphanumeric(c) THEN 1 ELSE 0
StandsIn(word, text) ==
    \E i \in 0..(Len(text) - Len(word)) :
        /\ \A j \in DOMAIN word : LowerChar(text[i + j]) = LowerChar(word[j])
        /\ \/ Class(word[1]) = 2 /\ Len(word) > 1
           \/ /\ i > 0 => Class(text[i]) # Class(word[1])
              /\ i + Len(word) < Len(text) => Class(text[i + Len(word) + 1]) # Class(word[1])

PlainTexts(ev) == TagValues(ev, "title") \cup TagValues(ev, "summary")
                    \cup (IF IsTextKind(ev) THEN {ev.content} ELSE {})

Restricts(tok, ev) ==
    \A v \in tok.v :
        CASE tok.op = "word" -> \E t \in PlainTexts(ev) : StandsIn(v, t)
          [] tok.op = "author" -> Answers(ev, "pubkey", v)
          [] tok.op = "kind" -> ev.kind = v
          [] tok.op \in {"#", "tag"} -> Answers(ev, "tag_t", v)
          [] tok.op = "geo" -> Answers(ev, "tag_g", v)
          [] tok.op = "site" -> Answers(ev, "tag_host", v)
          [] tok.op = "nip05" -> Answers(ev, "nip05", v)
          [] tok.op = "lang" -> Answers(ev, "lang", v)
          [] OTHER -> TRUE

Tokens(f) == UNION {ToSet(t) : t \in f.search}
Since(f) == UNION {Or(Bound(t, "since"), f.since) : t \in Or(f.search, {<<>>})}
Until(f) == UNION {Or(Bound(t, "until"), f.until) : t \in Or(f.search, {<<>>})}

AskedFor(f, ev) ==
    /\ \A t \in Tokens(f) : Restricts(t, ev)
    /\ f.authors # {} => \E a \in f.authors : Answers(ev, "pubkey", a)
    /\ f.kinds # {} => ev.kind \in f.kinds
    /\ \A t \in f.tags : \E u \in f.tags : u[1] = t[1] /\ Answers(ev, u[1], u[2])
    /\ \A l \in f.lang : Answers(ev, "lang", l)
    /\ \A t \in Since(f) : ev.created_at >= t
    /\ \A t \in Until(f) : ev.created_at < t

Wants == [f \in UNION {FiltersOf[s] : s \in Searchers} |-> {d \in Docs : AskedFor(f, Event[d])}]

\* A plan selects exactly the events its filter asks for.
PlanningIsExact ==
    \A s \in Searchers : \A f \in FiltersOf[s], d \in Docs :
        Selects(Plan(f, 0, 0), Document[d]) <=> AskedFor(f, Event[d])

\* Recency has a weight (1.0 by default), and a document that matches a text
\* query has a score.
RecencyCounts == RecencyWeight > 0 /\ \A d \in Docs : Event[d].bm25 > 0

\* An open `until' ends with the current month.
InScope(f, ev) == Until(f) = None => FromTimestamp(ev.created_at) <= FromTimestamp(Now)

-----------------------------------------------------------------------------
(* Properties.                                                             *)

\* A finished search returns only events that were asked for, and of the
\* documents every reader had when it started it misses one only for better
\* ones: whatever is opened, evicted, committed or discovered meanwhile, and
\* however the values of the filter are written
\* (query.rs: "rather than dropping the clause and returning everything").
SearchIsExact ==
    \A s \in Searchers : search[s].pc = "done" =>
        LET f == search[s].filter
            q == search[s].result
            key(d) == RankKey(f, Document[d], Now)
        IN /\ \A d \in ToSet(q) : d \in Wants[f] /\ d \in committed[MonthOf(d)]
           /\ \A i, j \in DOMAIN q : i < j => key(q[i]) >= key(q[j])
           /\ \A d \in (search[s].due \cap Wants[f]) \ ToSet(q) :
                 InScope(f, Event[d]) =>
                     Len(q) = Limit(f) /\ \A e \in ToSet(q) : key(e) >= key(d)

\* With equal words and trust, an event dated past the skew of clocks is never
\* ranked above one of the last HalfLife (scoring.rs: "pinning yourself to the
\* top of every result set costs one bogus timestamp").
FutureDatedNeverWins ==
    \A s \in Searchers : \A i, j \in DOMAIN search[s].result :
        LET a == Event[search[s].result[i]]
            b == Event[search[s].result[j]]
        IN search[s].filter.search # None /\ i < j /\ a.bm25 = b.bm25 /\ a.wot = b.wot
             => ~(/\ a.created_at > Now + FutureSkew
                  /\ b.created_at \in (Now - HalfLife + 1)..(Now + FutureSkew))

\* Whatever order threads put their readers in, there are never more than
\* MAX_OPEN_SHARD_READERS of them, and one per shard.
CacheIsBounded == Len(lru) <= MaxOpen /\ Cardinality(Cached) = Len(lru)

\* A scan wider than the cache evicts no reader: only narrow plans and the
\* search for an anchor do ("the scan cannot evict the shards other searches
\* are using").
WideScanEvictsNothing ==
    [][\A m \in Cached \ ToSet(lru') :
          \E s \in Searchers :
             /\ search'[s] # search[s]
             /\ search[s].pc = "insert" \/ Len(search[s].plan.shards) <= MaxOpen]_vars

\* A lookup finds every document that all readers had when it started,
\* though readers come and go between its steps.
GetFindsCommitted == \A g \in Getters : get[g].pc = "done" /\ get[g].due => get[g].found
=============================================================================
