------------------------------- MODULE Reports ------------------------------
(***************************************************************************)
(* From an event to a number on the dashboard: the registry's analyses     *)
(* folding live events (crates/nostrsearch-stats/src/registry.rs,          *)
(* crates/nostrsearch-indexer/src/pipeline.rs), their checkpoints and the  *)
(* two stores they keep on disk, the writer thread that drains patches     *)
(* and publishes snapshots (crates/nostrsearch-server/src/node.rs), the    *)
(* report store and its stream (crates/nostrsearch-server/src/reports.rs), *)
(* and a browser that seeds itself with GETs and then patches what it      *)
(* shows (dashboard/src/reports.ts, api.ts).                               *)
(*                                                                         *)
(* Every change of the analyses happens under the pipeline's mutex, by the *)
(* writer thread or by a running ingest, so each command, tick or event is *)
(* one step; the browser runs beside it, with the server's answer to a GET *)
(* and its arrival as two steps.                                           *)
(*                                                                         *)
(* Simplifications: the analyses start backfilled, and each folds an event *)
(* at most once between two resets (StatsPipeline has the count-once rule, *)
(* the stages and the files of a checkpoint, which is here saved whole or  *)
(* not at all); the browser's index request is part of the step that       *)
(* starts a seed, since every published set has the same names; what a     *)
(* failed clear leaves, or a failed iteration reads, is any part.          *)
(***************************************************************************)
EXTENDS Analyses

CONSTANTS
    Scenarios,          \* [order: events as they reach the writer, open: a browser is, faults: at most]
    Watched,            \* reports the browser shows, in index order
    Resettable,         \* analyses an operator may reset, or "all"
    RefreshEvery,       \* wot_refresh_every
    Buffer,             \* DELTA_BUFFER
    Now,                \* the clock
    Due,                \* answers to whether the scheduled refreshes are due
    Persist             \* answers to whether a checkpoint is

Names == {"follow_graph", "pagerank", "activity", "active_users", "new_users",
          "trending_hashtags", "client_tags", "relays"}
DependsOnGraph == {"pagerank", "activity", "active_users", "trending_hashtags"}
Streaming == {"activity", "active_users", "new_users", "client_tags"}

\* Times are unsigned; keys are pubkeys; a kind is not the name of another counter of a bucket.
IsEvent(ev) ==
    /\ ev.author \in DOMAIN Hash /\ ev.at \in Nat /\ ev.p \in Seq(DOMAIN Hash)
    /\ ev.kind \notin {"sent", "received", "zap_count", "sum", "last_note"}
    /\ ev.bolt11 \in Nat \cup {Null}
    /\ ev.request # Null => ev.request.amount \in Nat \cup {Null}

ASSUME ReportsConstants ==
    /\ RefreshEvery \in Nat \ {0} /\ Buffer \in Nat \ {0} /\ Now \in Nat
    /\ ToSet(Watched) \subseteq Streaming /\ Resettable \subseteq Names \cup {"all"}
    /\ \A sc \in Scenarios : \A i \in DOMAIN sc.order : IsEvent(sc.order[i])

VARIABLES
    scenario,           \* the one of this behaviour
    mem,                \* [Names -> resident state of the analysis]
    consumed,           \* [Names -> events its progress has consumed]
    graph, first,       \* the follow graph and the first-seen times, on disk
    saved,              \* the last checkpoint: mem and consumed
    world, since,       \* trust tiers, events since the last refresh
    attached,           \* new_users has its store
    store,              \* [Names -> published report]
    uncommitted,        \* an event came since the last commit tick
    bus, missed,        \* the browser's receiver: frames, and whether it lagged
    subscribed,
    view,               \* [reports it shows -> what it shows]
    todo, got,          \* its seed: reports still to fetch, the answer under way
    faults,             \* restarts, resets, failed calls, requests and connections so far
    unsaved,            \* history: stores changed since the last checkpoint
    torn,               \* history: stores that their tally was torn from
    unpublished         \* history: a reset failed and nothing was published since

analyses == <<mem, consumed, graph, first, saved, world, since, attached>>
server == <<store, uncommitted>>
stream == <<bus, missed, subscribed>>
browser == <<view, todo, got>>
history == <<unsaved, torn, unpublished>>
vars == <<scenario, analyses, server, stream, browser, faults, history>>

Fault == faults < scenario.faults /\ faults' = faults + 1

-----------------------------------------------------------------------------
Default ==
    [follow_graph |-> << >>, pagerank |-> NoRanks,
     activity |-> [days |-> << >>, dirty |-> {}], active_users |-> NoActive, new_users |-> NoNew,
     trending_hashtags |-> << >>, client_tags |-> [data |-> << >>, dirty |-> {}], relays |-> << >>]

\* What serde writes: dirty sets, the hour's seen set and the health are skipped.
Checkpoint(m) ==
    [m EXCEPT !.pagerank.unhealthy = Null, !.activity.dirty = {}, !.client_tags.dirty = {},
              !.active_users.dirty = NoActive.dirty, !.new_users.dirty = NoNew.dirty,
              !.trending_hashtags = [h \in DOMAIN @ |-> [@[h] EXCEPT !.seen = {}]]]

Snapshot(m) ==
    [follow_graph |-> FollowReport(m.follow_graph), pagerank |-> m.pagerank.ranks,
     activity |-> m.activity.days, active_users |-> ActiveReport(m.active_users),
     new_users |-> m.new_users.tally, trending_hashtags |-> TrendingReport(m.trending_hashtags),
     client_tags |-> m.client_tags.data, relays |-> RelaysReport(m.relays)]

\* The patch an analysis has pending; one with no keys is none.
Patch(m, n) ==
    CASE n = "activity" -> ActivityPatch(m.activity)
      [] n = "active_users" -> ActivePatch(m.active_users)
      [] n = "new_users" -> NewPatch(m.new_users)
      [] n = "client_tags" -> ClientPatch(m.client_tags)
Pending(m) ==
    (IF m.activity.dirty # {} THEN {"activity"} ELSE {})
    \cup (IF m.active_users.dirty # NoActive.dirty THEN {"active_users"} ELSE {})
    \cup (IF m.new_users.dirty # NoNew.dirty THEN {"new_users"} ELSE {})
    \cup (IF m.client_tags.dirty # {} THEN {"client_tags"} ELSE {})
Drained(m) == [Checkpoint(m) EXCEPT !.pagerank = m.pagerank, !.trending_hashtags = m.trending_hashtags]

-----------------------------------------------------------------------------
(* materialize_all and the checkpoint that may follow it.                  *)

\* pagerank and the trending tags refresh when their interval has passed.
Refreshed(m, g, due) ==
    IF due THEN [m EXCEPT !.pagerank = RefreshRanks(@, g), !.trending_hashtags = Prune(@, Now)] ELSE m

Save(m, c) ==
    /\ saved' = [mem |-> Checkpoint(m), consumed |-> c]
    /\ unsaved' = {}

\* refresh_wot after RefreshEvery events, if the clock allows; the checkpoint has its own interval.
AfterEvent(m, c, g, changed) ==
    IF since + 1 < RefreshEvery
    THEN /\ since' = since + 1 /\ mem' = m
         /\ unsaved' = unsaved \cup changed
         /\ UNCHANGED <<world, saved>>
    ELSE /\ since' = 0
         /\ \/ mem' = m /\ unsaved' = unsaved \cup changed /\ UNCHANGED <<world, saved>>
            \/ \E due \in Due, persist \in Persist :
                 /\ mem' = Refreshed(m, g, due)
                 /\ world' = Contribute(world, m.follow_graph)
                 /\ IF persist THEN Save(mem', c)
                    ELSE unsaved' = unsaved \cup changed /\ UNCHANGED saved

\* An event that an analysis has consumed it skips; new_users skips without its store.
FollowsNow == [counts |-> mem.follow_graph, graph |-> graph]
FirstNow == [new |-> mem.new_users, first |-> first]
FoldFollows(i, e, failing) ==
    IF i \notin consumed["follow_graph"] THEN ObserveFollows(FollowsNow, e, failing) ELSE FollowsNow
FoldFirst(i, e, failing) ==
    IF i \notin consumed["new_users"] /\ attached THEN ObserveFirst(FirstNow, e, failing) ELSE FirstNow

\* Every analysis folds it, these two with the outcomes f and u.
Fold(i, e, f, u) ==
    LET takes(n) == i \notin consumed[n]
    IN  [mem EXCEPT
           !.follow_graph = f.counts, !.new_users = u.new,
           !.activity = IF takes("activity") THEN ObserveActivity(@, e, world) ELSE @,
           !.active_users = IF takes("active_users") THEN ObserveActive(@, e, world) ELSE @,
           !.trending_hashtags = IF takes("trending_hashtags") THEN ObserveTrending(@, e, world, Now) ELSE @,
           !.client_tags = IF takes("client_tags") THEN ObserveClient(@, e) ELSE @,
           !.relays = IF takes("relays") THEN ObserveRelays(@, e) ELSE @]

\* The stores that a fold is left half done on: neither all of it nor nothing.
HalfDone(i, e, f, u) ==
    (IF f \in {FollowsNow, FoldFollows(i, e, {})} THEN {} ELSE {"graph"})
    \cup (IF u \in {FirstNow, FoldFirst(i, e, {})} THEN {} ELSE {"first"})

\* process: the next event that some analysis has not consumed; each of those folds it.
\* After a restart or a reset that is an event that came before.  Any of the calls to
\* the two stores may fail.
Observe ==
    \E i \in DOMAIN scenario.order :
    /\ \E n \in Names : i \notin consumed[n]
    /\ \A j \in 1..(i - 1), n \in Names : j \in consumed[n]
    /\ LET e == scenario.order[i]
           c == [n \in Names |-> consumed[n] \cup {i}]
       IN  \E f \in {FoldFollows(i, e, failing) : failing \in SUBSET GraphCalls},
              u \in {FoldFirst(i, e, failing) : failing \in SUBSET FirstCalls} :
           /\ IF f = FoldFollows(i, e, {}) /\ u = FoldFirst(i, e, {}) THEN UNCHANGED faults ELSE Fault
           /\ graph' = f.graph /\ first' = u.first /\ consumed' = c
           /\ torn' = torn \cup HalfDone(i, e, f, u)
           /\ AfterEvent(Fold(i, e, f, u), c, f.graph, (IF f.graph # graph THEN {"graph"} ELSE {})
                                                       \cup (IF u.first # first THEN {"first"} ELSE {}))
    /\ uncommitted' = TRUE
    /\ UNCHANGED <<attached, store, stream, browser, unpublished>>

-----------------------------------------------------------------------------
(* The writer's ticks.                                                     *)

Publish(m) ==
    /\ store' = Snapshot(m)
    /\ unpublished' = FALSE

CommitTick ==
    /\ uncommitted
    /\ uncommitted' = FALSE
    /\ Publish(mem)
    /\ UNCHANGED <<analyses, stream, browser, faults, unsaved, torn>>

\* The broadcast keeps Buffer frames; a receiver that is behind loses the oldest.
Send(frames) ==
    LET all == bus \o frames
        over == Floor0(Len(all) - Buffer)
    IN  /\ bus' = IF subscribed THEN SubSeq(all, over + 1, Len(all)) ELSE << >>
        /\ missed' = (missed \/ (subscribed /\ over > 0))

\* drain_report_deltas, then apply_deltas: patch the held set, then fan out.
DeltaTick ==
    LET pending == Pending(mem)
        frames == SetToSeq({[name |-> n, patch |-> Patch(mem, n)] : n \in pending \cap ToSet(Watched)})
    IN  /\ pending # {}
        /\ store' = [n \in Names |-> IF n \in pending THEN MergePatch(store[n], Patch(mem, n)) ELSE store[n]]
        /\ mem' = Drained(mem)
        /\ Send(frames)
        /\ UNCHANGED <<consumed, graph, first, saved, world, since, attached, uncommitted, subscribed,
                       browser, faults, history>>

-----------------------------------------------------------------------------
(* Operator resets.                                                        *)

Doomed(n) ==
    CASE n = "all" -> Names
      [] n = "follow_graph" -> {n} \cup DependsOnGraph
      [] OTHER -> {n}

\* on_reset clears what the analysis keeps on disk, if it has the handle; a clear
\* that fails is logged or ignored, and leaves a part.
ClearStores(doomed) ==
    /\ \E kept \in SUBSET DOMAIN graph :
         graph' = IF "follow_graph" \in doomed THEN Restrict(graph, kept) ELSE graph
    /\ \E kept \in SUBSET DOMAIN first :
         first' = IF "new_users" \in doomed /\ attached THEN Restrict(first, kept) ELSE first
ResetMem(doomed) == [n \in Names |-> IF n \in doomed THEN Default[n] ELSE mem[n]]
ResetProgress(doomed) == [n \in Names |-> IF n \in doomed THEN {} ELSE consumed[n]]
StoresOf(doomed) == (IF "follow_graph" \in doomed THEN {"graph"} ELSE {})
                    \cup (IF "new_users" \in doomed THEN {"first"} ELSE {})

\* An emptied tally beside first-seen times that are left is torn from them; counts
\* that attach derives are those of the graph if it could read all of it.
TornByClear(doomed) ==
    IF "new_users" \notin doomed THEN torn
    ELSE IF first' = << >> THEN torn \ {"first"} ELSE torn \cup {"first"}
TornByAttach(t, counts, g, read) ==
    IF counts # << >> THEN t ELSE IF read = DOMAIN g THEN t \ {"graph"} ELSE t \cup {"graph"}

\* reset, re-attach, persist -- a failure is logged -- and publish; what needs no
\* events is rebuilt at once.
Reset(n) ==
    LET doomed == Doomed(n)
        clear == ResetMem(doomed)
        m == IF n = "pagerank" THEN [clear EXCEPT !.pagerank = RefreshRanks(@, graph)] ELSE clear
    IN  /\ Fault
        /\ ClearStores(doomed)
        /\ \E read \in SUBSET DOMAIN graph' :
             /\ mem' = [m EXCEPT !.follow_graph = AttachFollows(@, graph', read)]
             /\ torn' = TornByAttach(TornByClear(doomed), m.follow_graph, graph', read)
        /\ consumed' = ResetProgress(doomed)
        /\ world' = IF n = "all" THEN << >> ELSE world
        /\ attached' = TRUE
        /\ \/ Save(mem', consumed')
           \/ unsaved' = unsaved \cup StoresOf(doomed) /\ UNCHANGED saved
        /\ Publish(mem')
        /\ UNCHANGED <<since, uncommitted, stream, browser>>

\* Re-opening the first-seen store fails: nothing is saved, and only reset_all still publishes.
ResetFails(n) ==
    LET doomed == Doomed(n)
        m == ResetMem(doomed)
    IN  /\ Fault
        /\ "new_users" \in doomed \/ ~attached
        /\ ClearStores(doomed)
        /\ \E read \in SUBSET DOMAIN graph' :
             /\ mem' = [m EXCEPT !.follow_graph = AttachFollows(@, graph', read)]
             /\ torn' = TornByAttach(TornByClear(doomed), m.follow_graph, graph', read)
        /\ consumed' = ResetProgress(doomed)
        /\ attached' = FALSE
        /\ unsaved' = unsaved \cup StoresOf(doomed)
        /\ IF n = "all" THEN Publish(mem') ELSE unpublished' = TRUE /\ UNCHANGED store
        /\ UNCHANGED <<saved, world, since, uncommitted, stream, browser>>

-----------------------------------------------------------------------------
(* Restarts: load, attach, warm start, publish.                            *)

\* t: the stores torn by what came before the restart.
Restart(from, c, t) ==
    /\ \E read \in SUBSET DOMAIN graph :
         LET m == [from EXCEPT !.follow_graph = AttachFollows(@, graph, read)] IN
         /\ \E due \in Due : mem' = Refreshed(m, graph, due)
         /\ world' = Contribute(<< >>, m.follow_graph)
         /\ torn' = TornByAttach(t, from.follow_graph, graph, read)
    /\ consumed' = c
    /\ since' = 0 /\ attached' = TRUE
    /\ store' = Snapshot(mem') /\ uncommitted' = FALSE /\ unpublished' = FALSE
    /\ bus' = << >> /\ missed' = FALSE /\ subscribed' = FALSE
    /\ got' = Null
    /\ UNCHANGED <<graph, first, view, todo>>

\* Resident state falls back to the checkpoint, the stores do not.
FallBack ==
    /\ Restart(saved.mem, saved.consumed, torn \cup unsaved)
    /\ unsaved' = {}
    /\ UNCHANGED saved

Kill ==
    /\ Fault
    /\ FallBack

\* A clean stop refreshes and saves, unless no event came since the counter was last
\* zeroed -- which a refresh skipped for the clock does too -- or the save fails.
Stop ==
    /\ Fault
    /\ \/ /\ since > 0
          /\ \E due \in Due : Save(Refreshed(mem, graph, due), consumed)
          /\ Restart(saved'.mem, consumed, torn)
       \/ FallBack

-----------------------------------------------------------------------------
(* The browser.                                                            *)

Seeding == todo # << >>
\* seed() returns at once when one is under way.
Seed == todo' = IF Seeding THEN todo ELSE Watched

\* (Fault: nothing but a lagged stream seeds again.)
TimerNever == FALSE
\* setInterval(seed, 120_000)
TimerFires == scenario.open /\ ~Seeding

Timer == TimerFires /\ Seed /\ UNCHANGED <<analyses, server, stream, view, got, faults, history>>

Serve ==
    /\ Seeding /\ got = Null
    /\ got' = [report |-> store[Head(todo)]]
    /\ UNCHANGED <<analyses, server, stream, view, todo, faults, history>>
Arrive ==
    /\ Seeding /\ got # Null
    /\ view' = Put(view, Head(todo), got.report)
    /\ todo' = Tail(todo) /\ got' = Null
    /\ UNCHANGED <<analyses, server, stream, faults, history>>

\* The retries of one GET are used up (the report is skipped), or those of the index are.
GetFails ==
    /\ Seeding /\ Fault
    /\ todo' \in {Tail(todo), << >>}
    /\ got' = Null
    /\ UNCHANGED <<analyses, server, stream, view, history>>

\* mergePatch of the browser: an absent object is empty, so a null never stays.
BrowserMerge(target, patch) ==
    Over([s \in DOMAIN patch |-> MergeObject(At(target, s, << >>), patch[s])], target)
Receive ==
    /\ subscribed /\ (missed \/ bus # << >>)
    /\ IF missed
       THEN missed' = FALSE /\ Seed /\ UNCHANGED <<bus, view>>
       ELSE /\ bus' = Tail(bus)
            /\ view' = Put(view, Head(bus).name, BrowserMerge(At(view, Head(bus).name, << >>), Head(bus).patch))
            /\ UNCHANGED <<missed, todo>>
    /\ UNCHANGED <<analyses, server, subscribed, got, faults, history>>

\* The connection drops; EventSource connects again by itself, without a seed.
Disconnect ==
    /\ subscribed /\ Fault
    /\ bus' = << >> /\ missed' = FALSE /\ subscribed' = FALSE
    /\ UNCHANGED <<analyses, server, browser, history>>
Connect ==
    /\ scenario.open /\ ~subscribed
    /\ subscribed' = TRUE
    /\ UNCHANGED <<analyses, server, bus, missed, browser, faults, history>>

-----------------------------------------------------------------------------
Init ==
    /\ scenario \in Scenarios
    /\ mem = Default /\ consumed = [n \in Names |-> {}]
    /\ graph = << >> /\ first = << >>
    /\ saved = [mem |-> Checkpoint(Default), consumed |-> [n \in Names |-> {}]]
    /\ world = << >> /\ since = 0 /\ attached = TRUE
    /\ store = Snapshot(Default) /\ uncommitted = FALSE
    /\ bus = << >> /\ missed = FALSE /\ subscribed = FALSE
    /\ view = << >> /\ todo = (IF scenario.open THEN Watched ELSE << >>) /\ got = Null
    /\ faults = 0
    /\ unsaved = {} /\ torn = {} /\ unpublished = FALSE

Step ==
    \/ Observe \/ CommitTick \/ DeltaTick
    \/ \E n \in Resettable : Reset(n) \/ ResetFails(n)
    \/ Kill \/ Stop
    \/ Timer \/ Serve \/ Arrive \/ GetFails \/ Receive \/ Disconnect \/ Connect

Next == Step /\ UNCHANGED scenario

\* The page's timer, its requests and its stream go on; the server owes nothing.
Browser ==
    /\ WF_vars(Timer /\ UNCHANGED scenario)
    /\ WF_vars(Serve /\ UNCHANGED scenario)
    /\ WF_vars(Arrive /\ UNCHANGED scenario)
    /\ WF_vars(Receive /\ UNCHANGED scenario)
    /\ WF_vars(Connect /\ UNCHANGED scenario)
Spec == Init /\ [][Next]_vars
FairSpec == Spec /\ Browser

-----------------------------------------------------------------------------
(* Properties.                                                             *)

\* The resident tallies are what the stores on disk say: follower counts those
\* of the adjacency (follow_graph.rs: "The counts are a pure function of the
\* adjacency"), new users by day and month those of the first-seen times --
\* through replaced lists, earlier events arriving late, resets and restarts.
\* Four things tear them apart, for as long as the store is not cleared whole or
\* the counts derived anew: a fall back to a checkpoint older than the store, a
\* fold left half done by a call that failed (observe), a clear of the first-seen
\* times that failed (FirstSeen::clear), and counts derived from an iteration that
\* failed (attach).
TalliesMatchStores ==
    /\ "graph" \notin torn =>
         \A pk \in DOMAIN mem.follow_graph \cup Followed(graph) :
             At(mem.follow_graph, pk, 0) = Followers(graph, pk)
    /\ "first" \notin torn =>
         \A k \in DOMAIN FirstScales :
             mem.new_users.tally[k] =
                 LET start(a) == Start(first[a], FirstScales[k]) IN
                 [b \in {start(a) : a \in DOMAIN first} |-> Cardinality({a \in DOMAIN first : start(a) = b})]

\* The held report and the patch still to be drained make the snapshot (delta.rs:
\* "Apply it with merge_patch and you get exactly what the next full snapshot
\* would have contained"), unless a reset failed half way.
PatchCompletesReport ==
    ~unpublished =>
        \A n \in Streaming :
            MergePatch(store[n], IF n \in Pending(mem) THEN Patch(mem, n) ELSE << >>) = Snapshot(mem)[n]

\* What the browser shows becomes and stays what the server holds once the
\* server is quiet, whatever frames it missed or got late, after lost
\* connections, failed requests, restarts and resets (reports.ts: the periodic
\* seed "repairs any drift from a missed frame").
BrowserCatchesUp ==
    <>[](scenario.open => \A n \in ToSet(Watched) : At(view, n, << >>) = store[n])
=============================================================================
