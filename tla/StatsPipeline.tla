---------------------------- MODULE StatsPipeline ---------------------------
(***************************************************************************)
(* The analyses' side of the pipeline: crates/nostrsearch-indexer/src/     *)
(* pipeline.rs over crates/nostrsearch-stats/src/{registry,progress,store} *)
(* .rs, driven by run_passes of archive_ingest.rs, by the live tail and by *)
(* the admin API's resets.                                                 *)
(*                                                                         *)
(* An analysis folds the archive once per dependency stage, is then marked *)
(* backfilled, and from there on lives off a watermark, a lag window and a *)
(* set of ids.  Its state and its progress are saved in three files, one   *)
(* rename each, and are what a restarted process continues from.           *)
(*                                                                         *)
(* Simplifications:                                                        *)
(*  - an analysis's state is how often it folded each event; a database it *)
(*    keeps beside its state (the follow graph) is part of that state;     *)
(*  - the epoch of a saved state is always the current one, and a saved    *)
(*    state always deserializes;                                           *)
(*  - Now stands still, so an interval (a refresh, a persist) may or may   *)
(*    not have elapsed; a chunk is one event;                              *)
(*  - a process that has run finish() exits before anything else happens;  *)
(*  - re-attaching the graph store after a reset succeeds, and one reset   *)
(*    request is handled at a time;                                        *)
(*  - documents, commits and claimed ids are ArchiveIngest's.              *)
(***************************************************************************)
EXTENDS Naturals, FiniteSets, Sequences

CONSTANTS
    Analyses,      \* positions in the registry, in registration order
    Deps,          \* Deps[a]: the analyses whose world a reads
    Wants,         \* Wants[a]: the events a folds; {} for a derived analysis
    Events,        \* event ids
    CreatedAt,     \* created_at of each event
    Files,         \* archive dumps
    Dump,          \* Dump[f]: the events of dump f
    LiveEvents,    \* events the firehose delivers
    Now,           \* wall clock
    Lag,           \* LIVE_LAG_SECS
    Skew,          \* FUTURE_SKEW_SECS
    MaxBoundary,   \* MAX_BOUNDARY
    RefreshEvery,  \* wot_refresh_every
    Server,        \* the node (live from the start) or the ingest binary
    TornSaves,     \* a save may stop between two of its renames
    BusyResets,    \* an operator may reset while an ingest runs
    IoErrors,      \* a save may fail
    MaxStarts,     \* bound: ingests started
    MaxResets,     \* bound: resets
    MaxStops,      \* bound: shutdowns
    MaxKills       \* bound: hard kills

ASSUME ConstantsAssumption ==
    /\ Analyses \subseteq Nat
    /\ Deps \in [Analyses -> SUBSET Analyses]
    /\ Wants \in [Analyses -> SUBSET Events]
    /\ CreatedAt \in [Events -> Nat]
    /\ Dump \in [Files -> SUBSET Events]
    /\ LiveEvents \subseteq Events
    /\ {Now, Lag, Skew} \subseteq Nat
    /\ {MaxBoundary, RefreshEvery} \subseteq Nat \ {0}
    /\ {Server, TornSaves, BusyResets, IoErrors} \subseteq BOOLEAN
    /\ {MaxStarts, MaxResets, MaxStops, MaxKills} \subseteq Nat

VARIABLES
    folded,     \* folded[a][e]: how often a folded e
    prog,       \* Progress of each analysis, with its rebuild position
    world,      \* world[a]: the events behind what a last contributed
    live, plan, pass, since, refreshedOnce,    \* fields of Pipeline
    disk,       \* the saved files of each analysis
    saving,     \* files of each analysis that persist has still to write
    job,        \* run_passes
    cancel,     \* its cancel flag
    feed,       \* live events not delivered yet
    stopping,   \* finish() has run and the process exits
    admin,      \* the reset request an operator has under way
    starts, resets, stops, kills

analysisVars == <<folded, prog, world>>
pipeVars == <<live, plan, pass, since, refreshedOnce>>
bounds == <<starts, resets, stops, kills>>
vars == <<analysisVars, pipeVars, disk, saving, job, cancel, feed, stopping, admin,
          bounds>>

-----------------------------------------------------------------------------
(* Progress. *)

Later(s, t) == IF s > t THEN s ELSE t

Fresh == [mark |-> 0, boundary |-> {}, backfilled |-> FALSE, done |-> {}]
NotFolded == [e \in Events |-> 0]

\* The watermark gate: the lag window, and the ids consumed in it.
ShouldConsume(p, e) == CreatedAt[e] + Lag >= p.mark /\ e \notin p.boundary

Advanced(p, e) ==
    [p EXCEPT !.mark = Later(@, CreatedAt[e]),
              !.boundary = (IF Cardinality(@) >= MaxBoundary THEN {} ELSE @) \cup {e}]

\* advance_bounded: an implausible date is folded and moves no watermark.
AdvancedBounded(p, e) == IF CreatedAt[e] > Now + Skew THEN p ELSE Advanced(p, e)

\* clamp_watermark, on load.  (Fault: what was saved is taken as it is.)
Unclamped(p) == p
Clamped(p) ==
    IF p.mark > Now + Skew THEN [p EXCEPT !.mark = Now + Skew, !.boundary = {}] ELSE p

-----------------------------------------------------------------------------
(* Stages and plans. *)

\* Layer n holds the analyses all of whose dependencies in S are in layers
\* below it.
Layers(S) ==
    LET upTo[n \in Nat] ==
          IF n = 0 THEN {} ELSE {a \in Analyses : Deps[a] \cap S \subseteq upTo[n - 1]}
    IN upTo

\* Registry::stages fails on a cycle, and no process starts without stages.
ASSUME DepsAssumption ==
    /\ IsFiniteSet(Analyses)
    /\ \E n \in 1..(Cardinality(Analyses) + 1) : Layers(Analyses)[n] = Analyses

\* Registry::stages, in as few stages as there are layers.
Stages ==
    LET layer == Layers(Analyses)
        depth == CHOOSE n \in 1..(Cardinality(Analyses) + 1) :
                   /\ layer[n] = Analyses
                   /\ \A k \in 1..(n - 1) : layer[k] # Analyses
    IN [n \in 1..depth |-> layer[n] \ layer[n - 1]]

Pending(a) == ~prog[a].backfilled

\* plan_replay: an analysis waits only for dependencies that are themselves
\* pending, and what would come after the last needed pass joins that pass.
ReplayPlan ==
    LET needed == {a \in Analyses : Pending(a)}
        upTo == Layers(needed)
        passes == CHOOSE n \in 1..(Cardinality(Analyses) + 1) :
                    /\ needed \subseteq upTo[n]
                    /\ \A k \in 1..(n - 1) : ~(needed \subseteq upTo[k])
    IN [n \in 1..passes |->
          (IF n = passes THEN Analyses ELSE upTo[n]) \ upTo[n - 1]]

-----------------------------------------------------------------------------
(* Folding, materializing, persisting. *)

\* The pipeline mutex: a save runs to its end under it.
Unlocked == ~stopping /\ \A a \in Analyses : saving[a] = 0

\* Which analyses a fold reaches: all of them once live, else the pass's.
Targets == IF live THEN Analyses ELSE plan[pass]

\* Registry::fold.  An analysis that is not backfilled folds everything and
\* keeps only a high-water mark.
Consumes(a, e) == Pending(a) \/ ShouldConsume(prog[a], e)

Fold(e) ==
    LET hit == {a \in Targets : Consumes(a, e)} IN
    /\ folded' = [a \in Analyses |->
                    IF a \in hit /\ e \in Wants[a]
                    THEN [folded[a] EXCEPT ![e] = @ + 1] ELSE folded[a]]
    /\ prog' = [a \in Analyses |->
                  IF a \notin hit THEN prog[a]
                  ELSE IF Pending(a)
                  THEN [prog[a] EXCEPT !.mark = Later(@, CreatedAt[e])]
                  ELSE AdvancedBounded(prog[a], e)]

\* contribute() of analysis a, given the states s.
Contribution(s, a) == {e \in Events : s[a][e] > 0}
Materialized(s) == [a \in Analyses |-> Contribution(s, a)]

\* Registry::persist starts on every entry.
Persist == saving' = [a \in Analyses |-> 3]

\* refresh_inner, given the states s: nothing folded since the last one means
\* nothing to do; persisting has a cadence of its own unless forced.
Refresh(s, force) ==
    \/ /\ refreshedOnce /\ since = 0
       /\ UNCHANGED <<world, since, refreshedOnce, saving>>
    \/ /\ ~(refreshedOnce /\ since = 0)
       /\ refreshedOnce' = TRUE
       /\ since' = 0
       /\ world' = Materialized(s)
       /\ Persist \/ (~force /\ UNCHANGED saving)

\* The end of fold_only and process: the live tail refreshes every so often,
\* unless the last refresh is too recent.
AfterFold ==
    \/ /\ ~live \/ since + 1 < RefreshEvery
       /\ since' = IF since < RefreshEvery THEN since + 1 ELSE since
       /\ UNCHANGED <<world, refreshedOnce, saving>>
    \/ /\ live /\ since + 1 >= RefreshEvery
       /\ \/ since' = 0 /\ UNCHANGED <<world, refreshedOnce, saving>>
          \/ /\ refreshedOnce' = TRUE
             /\ since' = 0
             /\ world' = Materialized(folded')
             /\ Persist \/ UNCHANGED saving

\* StatStore::save writes the state, the progress and the boundary set of an
\* analysis, in this order.  (Fault: the progress goes first.)
MetaOf(p) == [mark |-> p.mark, backfilled |-> p.backfilled, done |-> p.done]
WithState(d, a) == [d EXCEPT !.hasState = TRUE, !.folded = folded[a]]
WithMeta(d, a) == [d EXCEPT !.hasMeta = TRUE, !.meta = MetaOf(prog[a])]
WithBoundary(d, a) == [d EXCEPT !.boundary = prog[a].boundary]
SavedProgressFirst(a, left) ==
    CASE left = 3 -> WithMeta(disk[a], a)
      [] left = 2 -> WithState(disk[a], a)
      [] OTHER -> WithBoundary(disk[a], a)
Saved(a, left) ==
    CASE left = 3 -> WithState(disk[a], a)
      [] left = 2 -> WithMeta(disk[a], a)
      [] OTHER -> WithBoundary(disk[a], a)

SaveFile(a) ==
    /\ saving[a] > 0
    /\ \A b \in Analyses : b < a => saving[b] = 0
    /\ disk' = [disk EXCEPT ![a] = Saved(a, saving[a])]
    /\ saving' = [saving EXCEPT ![a] = @ - 1]
    /\ UNCHANGED <<analysisVars, pipeVars, job, cancel, feed, stopping, admin, bounds>>

-----------------------------------------------------------------------------
(* A process starts. *)

\* StatStore::load: an analysis without both files starts over.
Loadable(a) == disk[a].hasState /\ disk[a].hasMeta
LoadedState(a) == IF Loadable(a) THEN disk[a].folded ELSE NotFolded
LoadedProgress(a) ==
    IF Loadable(a)
    THEN Clamped([mark |-> disk[a].meta.mark, boundary |-> disk[a].boundary,
                  backfilled |-> disk[a].meta.backfilled, done |-> disk[a].meta.done])
    ELSE Fresh

NoJob == [step |-> "idle", index |-> FALSE, files |-> {}, group |-> {}, left |-> {}]

\* Pipeline::new: load, and a warm start if any analysis is backfilled.  The
\* node goes live at once, which saves what a cold start loaded.
Restart ==
    LET warm == \E a \in Analyses : LoadedProgress(a).backfilled
        s == [a \in Analyses |-> LoadedState(a)]
    IN
    /\ folded' = s
    /\ prog' = [a \in Analyses |-> LoadedProgress(a)]
    /\ world' = IF warm \/ Server THEN Materialized(s) ELSE [a \in Analyses |-> {}]
    /\ live' = Server
    /\ plan' = Stages
    /\ pass' = 1
    /\ since' = 0
    /\ refreshedOnce' = (warm \/ Server)
    /\ saving' = [a \in Analyses |-> IF Server /\ ~warm THEN 3 ELSE 0]
    /\ job' = NoJob
    /\ cancel' = FALSE
    /\ stopping' = FALSE
    /\ admin' = "none"

Init ==
    /\ folded = [a \in Analyses |-> NotFolded]
    /\ prog = [a \in Analyses |-> Fresh]
    /\ world = [a \in Analyses |-> {}]
    /\ live = Server
    /\ plan = Stages
    /\ pass = 1
    /\ since = 0
    /\ refreshedOnce = Server
    /\ disk = [a \in Analyses |->
                 [hasState |-> FALSE, folded |-> NotFolded,
                  hasMeta |-> FALSE, meta |-> MetaOf(Fresh), boundary |-> {}]]
    /\ saving = [a \in Analyses |-> IF Server THEN 3 ELSE 0]
    /\ job = NoJob
    /\ cancel = FALSE
    /\ feed = LiveEvents
    /\ stopping = FALSE
    /\ admin = "none"
    /\ starts = 0 /\ resets = 0 /\ stops = 0 /\ kills = 0

-----------------------------------------------------------------------------
(* run_passes, one action per stretch under the pipeline lock. *)

Indexing == job.index /\ pass = 1

\* pass_has_pending_analyses (pass_needs_corpus is never false once this holds).
PassHasPending == \E a \in plan[pass] : Pending(a) /\ Wants[a] # {}

\* file_done_for.  (Fault: a resumed pass starts over.)
FileDoneIgnored(f) == f \notin Files
FileDone(f) == \A a \in plan[pass] : Pending(a) => f \in prog[a].done

\* The dumps a pass reads: all of them when it indexes.
PassFiles == {f \in Files : Indexing \/ ~FileDone(f)}

\* ingest_job::start has the slot, and run_passes plans under the lock.
Begin(index) ==
    /\ plan' = IF index THEN Stages ELSE ReplayPlan
    /\ pass' = 1
    /\ job' = [NoJob EXCEPT !.step = "loop", !.index = index]
    /\ cancel' = FALSE

\* The ingest binary runs one indexing ingest; the node's slot admits one at a
\* time, with or without indexing.
StartIngest(index) ==
    /\ Unlocked
    /\ job.step = "idle"
    /\ ~Server => index
    /\ starts < MaxStarts /\ starts' = starts + 1
    /\ Begin(index)
    /\ UNCHANGED <<analysisVars, live, since, refreshedOnce, disk, saving, feed,
                   stopping, admin, resets, stops, kills>>

\* The head of the loop: what this pass reads, if it reads at all.
\* (Fault: a pass with nothing to read starts over instead of advancing.)
StartPassAgain ==
    /\ Unlocked
    /\ job.step = "loop"
    /\ job' = IF cancel THEN [job EXCEPT !.step = "final"]
              ELSE IF ~Indexing /\ ~PassHasPending
              THEN job
              ELSE [job EXCEPT !.step = "groups",
                               !.files = PassFiles]
    /\ UNCHANGED <<analysisVars, pipeVars, disk, saving, cancel, feed, stopping, admin, bounds>>
StartPass ==
    /\ Unlocked
    /\ job.step = "loop"
    /\ job' = IF cancel THEN [job EXCEPT !.step = "final"]
              ELSE IF ~Indexing /\ ~PassHasPending
              THEN [job EXCEPT !.step = "advance"]
              ELSE [job EXCEPT !.step = "groups",
                               !.files = PassFiles]
    /\ UNCHANGED <<analysisVars, pipeVars, disk, saving, cancel, feed, stopping, admin, bounds>>

\* What there is to read of some dumps.
ArchivedIn(files) == UNION {{f} \X Dump[f] : f \in files}

ReadGroup(g) ==
    job' = [job EXCEPT !.step = "read", !.files = @ \ g, !.group = g, !.left = ArchivedIn(g)]

\* The next group of dumps, once the last one is saved: all at once when
\* indexing, else a batch of them.
StartGroup ==
    /\ Unlocked
    /\ job.step = "groups"
    /\ \/ /\ cancel
          /\ job' = [job EXCEPT !.step = "final"]
       \/ /\ ~cancel /\ job.files = {}
          /\ job' = [job EXCEPT !.step = "advance"]
       \/ /\ ~cancel
          /\ \E g \in (SUBSET job.files) \ {{}} :
               /\ Indexing => g = job.files
               /\ ReadGroup(g)
    /\ UNCHANGED <<analysisVars, pipeVars, disk, saving, cancel, feed, stopping, admin, bounds>>

\* A reader's callback folds an event of the group.
FoldArchived ==
    /\ Unlocked
    /\ job.step = "read" /\ ~cancel
    /\ \E x \in job.left :
         /\ job' = [job EXCEPT !.left = @ \ {x}]
         /\ Fold(x[2])
    /\ AfterFold
    /\ UNCHANGED <<live, plan, pass, disk, cancel, feed, stopping, admin, bounds>>

\* finish_file: a dump is folded in full by the analyses that need it.
FinishFiles(files) ==
    [a \in Analyses |-> IF a \in plan[pass] /\ Pending(a)
                       THEN [prog[a] EXCEPT !.done = @ \cup files] ELSE prog[a]]

\* The walk ends; finish_pass_files marks the group's dumps and saves.
EndGroup ==
    /\ Unlocked
    /\ job.step = "read"
    /\ cancel \/ job.left = {}
    /\ job' = [job EXCEPT !.step = IF cancel THEN "final" ELSE "groups",
                          !.group = {}, !.left = {}]
    /\ IF cancel \/ Indexing
       THEN UNCHANGED <<prog, saving>>
       ELSE prog' = FinishFiles(job.group) /\ Persist
    /\ UNCHANGED <<folded, world, pipeVars, disk, cancel, feed, stopping, admin, bounds>>

\* mark_backfilled, clear_rebuild: the stage is complete, with no position left.
MarkBackfilled ==
    [a \in Analyses |-> IF a \in plan[pass]
                       THEN [prog[a] EXCEPT !.backfilled = TRUE, !.done = {}] ELSE prog[a]]

\* advance_pass: materialize the stage, mark it backfilled, drop its rebuild
\* position.  Nothing is saved.  (Fault: the stage is not materialized.)
NextPass ==
    IF pass < Len(plan)
    THEN pass' = pass + 1 /\ job' = [job EXCEPT !.step = "loop"]
    ELSE pass' = pass /\ job' = [job EXCEPT !.step = "final"]
AdvancePassBlind ==
    /\ Unlocked
    /\ job.step = "advance"
    /\ prog' = MarkBackfilled
    /\ NextPass
    /\ UNCHANGED <<folded, world, live, plan, since, refreshedOnce, disk, saving,
                   cancel, feed, stopping, admin, bounds>>
AdvancePass ==
    /\ Unlocked
    /\ job.step = "advance"
    /\ world' = [a \in Analyses |->
                   IF a \in plan[pass] THEN Contribution(folded, a) ELSE world[a]]
    /\ prog' = MarkBackfilled
    /\ NextPass
    /\ UNCHANGED <<folded, live, plan, since, refreshedOnce, disk, saving, cancel,
                   feed, stopping, admin, bounds>>

\* go_live ends the ingest; the node can start another, the binary cannot.
GoLive ==
    /\ Unlocked
    /\ job.step = "final"
    /\ Refresh(folded, TRUE)
    /\ live' = TRUE
    /\ job' = [NoJob EXCEPT !.step = IF Server THEN "idle" ELSE "done"]
    /\ UNCHANGED <<folded, prog, plan, pass, disk, cancel, feed, stopping, admin, bounds>>

\* IngestState::cancel tells a running ingest.
Cancel == cancel' = (cancel \/ job.step # "idle")

CancelIngest ==
    /\ Server /\ job.step # "idle" /\ ~cancel /\ ~stopping
    /\ Cancel
    /\ UNCHANGED <<analysisVars, pipeVars, disk, saving, job, feed, stopping, admin, bounds>>

-----------------------------------------------------------------------------
(* The live tail, the admin API and the process's end. *)

FoldLive ==
    /\ Unlocked /\ live
    /\ \E e \in feed : feed' = feed \ {e} /\ Fold(e)
    /\ AfterFold
    /\ UNCHANGED <<live, plan, pass, disk, job, cancel, stopping, admin, bounds>>

\* Registry::reset: the analysis and, transitively, its dependents.
\* (Fault: the analysis alone.)
DoomedAlone(name) == {name}
Dependents(names) == {a \in Analyses : Deps[a] \cap names # {}}
Downstream(name) ==
    LET upTo[n \in Nat] ==
          IF n = 0 THEN {name} ELSE upTo[n - 1] \cup Dependents(upTo[n - 1])
    IN upTo
Doomed(name) == Downstream(name)[Cardinality(Analyses)]

\* names_need_corpus: some of them consume events.
NeedCorpus(names) == \E a \in names : Wants[a] # {}

\* Pipeline::reset_analysis and reset_all_analyses: state and progress go, and
\* that is saved.
Empty(names) ==
    /\ folded' = [a \in Analyses |-> IF a \in names THEN NotFolded ELSE folded[a]]
    /\ prog' = [a \in Analyses |-> IF a \in names THEN Fresh ELSE prog[a]]
    /\ Persist
EmptyAll == Empty(Analyses) /\ world' = [a \in Analyses |-> {}]

\* reset_analysis: the writer resets and saves; what needs no corpus is
\* refreshed at once, for the rest the handler goes on to start a rebuild.
ResetAnalysis(name) ==
    /\ Server /\ Unlocked
    /\ admin = "none"
    /\ BusyResets \/ job.step = "idle"
    /\ resets < MaxResets /\ resets' = resets + 1
    /\ LET doomed == Doomed(name) IN
       /\ Empty(doomed)
       /\ world' = [a \in Analyses |-> IF a \in doomed /\ ~NeedCorpus(doomed)
                                        THEN {} ELSE world[a]]
       /\ admin' = IF NeedCorpus(doomed) THEN "replay" ELSE "none"
    /\ UNCHANGED <<pipeVars, disk, job, cancel, feed, stopping, starts, stops, kills>>

\* reset_all first cancels a running ingest ...
RequestResetAll ==
    /\ Server /\ ~stopping
    /\ admin = "none"
    /\ resets < MaxResets /\ resets' = resets + 1
    /\ admin' = "waiting"
    /\ Cancel
    /\ UNCHANGED <<analysisVars, pipeVars, disk, saving, job, feed, stopping, starts,
                   stops, kills>>

\* ... and goes on once it sees none running, or gives up after five seconds.
ResetAllWaited ==
    /\ ~stopping
    /\ admin = "waiting"
    /\ admin' = IF job.step = "idle" THEN "clearing" ELSE "none"
    /\ UNCHANGED <<analysisVars, pipeVars, disk, saving, job, cancel, feed, stopping,
                   bounds>>

ResetAll ==
    /\ Unlocked
    /\ admin = "clearing"
    /\ BusyResets \/ job.step = "idle"
    /\ EmptyAll
    /\ admin' = "rebuild"
    /\ UNCHANGED <<pipeVars, disk, job, cancel, feed, stopping, bounds>>

\* After a full reset the documents are indexed again, the id store not being
\* trusted.
Reindexes == admin = "rebuild"

\* Both handlers end by starting an ingest: without indexing after one
\* analysis's reset, with it after a full one.  A taken slot is left alone.
\* (Fault: the handler returns without it.)
StartRebuildForgotten ==
    /\ Unlocked
    /\ admin \in {"replay", "rebuild"}
    /\ admin' = "none"
    /\ UNCHANGED <<analysisVars, pipeVars, disk, saving, job, cancel, feed, stopping,
                   bounds>>
StartRebuild ==
    /\ Unlocked
    /\ admin \in {"replay", "rebuild"}
    /\ admin' = "none"
    /\ \/ job.step = "idle" /\ Begin(Reindexes)
       \/ job.step # "idle" /\ UNCHANGED <<plan, pass, job, cancel>>
    /\ UNCHANGED <<analysisVars, live, since, refreshedOnce, disk, saving, feed,
                   stopping, bounds>>

\* Pipeline::finish on SIGTERM, or at the end of the binary's run.
Finish ==
    /\ Unlocked
    /\ stops < MaxStops /\ stops' = stops + 1
    /\ Refresh(folded, TRUE)
    /\ stopping' = TRUE
    /\ UNCHANGED <<folded, prog, live, plan, pass, disk, job, cancel, feed, admin,
                   starts, resets, kills>>

Flushed == stopping /\ \A a \in Analyses : saving[a] = 0

Exit ==
    /\ Flushed
    /\ Restart
    /\ UNCHANGED <<disk, feed, bounds>>

\* SIGKILL, OOM kill, power loss.
Kill ==
    /\ kills < MaxKills /\ kills' = kills + 1
    /\ TornSaves \/ \A a \in Analyses : saving[a] = 0
    /\ Restart
    /\ UNCHANGED <<disk, feed, starts, resets, stops>>

\* A write fails and persist gives up; finish_pass_files passes the error on
\* and fails the ingest, everyone else logs it.
PersistFails ==
    /\ IoErrors
    /\ \E a \in Analyses : saving[a] > 0
    /\ TornSaves \/ \A a \in Analyses : saving[a] = 3
    /\ saving' = [a \in Analyses |-> 0]
    /\ job' \in {job} \cup (IF job.step = "groups"
                            THEN {[NoJob EXCEPT !.step = IF Server THEN "idle" ELSE "done"]}
                            ELSE {})
    /\ UNCHANGED <<analysisVars, pipeVars, disk, cancel, feed, stopping, admin, bounds>>

\* Nothing runs: the process waits for events or requests.
Idle == job.step \in {"idle", "done"} /\ Unlocked /\ UNCHANGED vars

IngestStep ==
    \/ StartPass \/ StartGroup \/ FoldArchived \/ EndGroup \/ AdvancePass \/ GoLive

Next ==
    \/ \E a \in Analyses : SaveFile(a) \/ ResetAnalysis(a)
    \/ \E index \in BOOLEAN : StartIngest(index)
    \/ IngestStep
    \/ CancelIngest \/ FoldLive
    \/ RequestResetAll \/ ResetAllWaited \/ ResetAll \/ StartRebuild
    \/ Finish \/ Exit \/ Kill
    \/ PersistFails \/ Idle

Spec == Init /\ [][Next]_vars

\* The blocking pool runs a pass to its end, a save under the lock ends, and a
\* reset's handler runs to its answer.
Fairness ==
    /\ WF_vars(IngestStep)
    /\ WF_vars(\E a \in Analyses : SaveFile(a))
    /\ WF_vars(ResetAllWaited \/ ResetAll \/ StartRebuild)

-----------------------------------------------------------------------------
(* Properties. *)

\* The variables keep their types, and only an analysis that is being rebuilt
\* has dumps done.
TypeOK ==
    /\ folded \in [Analyses -> [Events -> Nat]]
    /\ prog \in [Analyses -> [mark : Nat, boundary : SUBSET Events,
                              backfilled : BOOLEAN, done : SUBSET Files]]
    /\ world \in [Analyses -> SUBSET Events]
    /\ live \in BOOLEAN
    /\ plan \in Seq(SUBSET Analyses)
    /\ pass \in 1..Len(plan)
    /\ since \in 0..RefreshEvery
    /\ refreshedOnce \in BOOLEAN
    /\ disk \in [Analyses -> [hasState : BOOLEAN, folded : [Events -> Nat],
                              hasMeta : BOOLEAN,
                              meta : [mark : Nat, backfilled : BOOLEAN,
                                      done : SUBSET Files],
                              boundary : SUBSET Events]]
    /\ saving \in [Analyses -> 0..3]
    /\ job \in [step : {"idle", "loop", "groups", "read", "advance", "final", "done"},
                index : BOOLEAN, files : SUBSET Files, group : SUBSET Files,
                left : SUBSET (Files \X Events)]
    /\ cancel \in BOOLEAN
    /\ feed \subseteq LiveEvents
    /\ stopping \in BOOLEAN
    /\ admin \in {"none", "waiting", "clearing", "replay", "rebuild"}
    /\ starts \in 0..MaxStarts /\ resets \in 0..MaxResets
    /\ stops \in 0..MaxStops /\ kills \in 0..MaxKills
    /\ \A a \in Analyses : prog[a].backfilled => prog[a].done = {}

Corpus == UNION {Dump[f] : f \in Files}

\* Backfilled means the whole archive was folded: "only ever set by something
\* that actually replayed the corpus" (registry.rs, outstanding_backfills).
BackfilledIsComplete ==
    \A a \in Analyses : prog[a].backfilled =>
        \A e \in Corpus \cap Wants[a] : folded[a][e] > 0

\* While a backfill folds an event, every analysis it is folded into for the
\* first time reads a world its dependencies have completed.
DependentsSeeCompleteWorld ==
    job.step = "read" /\ job.left # {} =>
        \A a \in Targets : Pending(a) /\ Wants[a] # {} =>
            \A d \in Deps[a] : Corpus \cap Wants[d] \subseteq world[d]

\* No analysis counts an event twice: count-once semantics.
CountsOnce == \A a \in Analyses : \A e \in Events : folded[a][e] <= 1

\* No analysis is complete while one it reads is not: a reset takes the
\* dependents with it, and the passes rebuild dependencies first.
DependenciesFirst ==
    \A a \in Analyses : prog[a].backfilled => \A d \in Deps[a] : prog[d].backfilled

\* finish() leaves every fold on disk before the process exits.
FinishSavesFolds == Flushed => \A a \in Analyses : disk[a].folded = folded[a]

\* A started ingest ends.
IngestEnds == job.step \notin {"idle", "done"} ~> job.step \in {"idle", "done"}

\* What a reset emptied is complete again in the end, unless the rebuild is
\* cancelled or killed: "a reset without this is only half an operation"
\* (admin.rs).
ResetIsRefilled ==
    admin \in {"replay", "rebuild"} ~>
        cancel \/ kills > 0 \/ \A a \in Analyses : prog[a].backfilled
=============================================================================
