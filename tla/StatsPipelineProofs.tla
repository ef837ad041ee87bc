------------------------- MODULE StatsPipelineProofs -------------------------
(* Proofs about StatsPipeline, for every set of analyses, dumps and events,  *)
(* and any number of ingests, resets, stops and kills.                       *)
EXTENDS StatsHistory, FiniteSetTheorems, WellFoundedInduction, TLAPS

(* The inductive invariant, in named parts. *)

ProgressType == [mark : Nat, boundary : SUBSET Events, backfilled : BOOLEAN, done : SUBSET Files]
MetaType == [mark : Nat, backfilled : BOOLEAN, done : SUBSET Files]
DiskType == [hasState : BOOLEAN, folded : [Events -> Nat], hasMeta : BOOLEAN, meta : MetaType,
             boundary : SUBSET Events]
JobType == [step : {"idle", "loop", "groups", "read", "advance", "final", "done"},
            index : BOOLEAN, files : SUBSET Files, group : SUBSET Files,
            left : SUBSET (Files \X Events)]

\* The variables the proof is about keep their types.
Typed ==
    /\ folded \in [Analyses -> [Events -> Nat]]
    /\ prog \in [Analyses -> ProgressType]
    /\ disk \in [Analyses -> DiskType]
    /\ saving \in [Analyses -> 0..3]
    /\ job \in JobType
    /\ resets \in Nat /\ feed \subseteq Events

\* The count of an analysis has every event it wants of some dumps; a Progress,
\* or what is saved of one, claims no more than that.
Covers(count, a, files) == \A f \in files : \A e \in Dump[f] \cap Wants[a] : count[e] > 0
Honest(p, count, a) ==
    /\ p.backfilled => Covers(count, a, Files)
    /\ Covers(count, a, p.done)

MemoryIsHonest == \A a \in Analyses : Honest(prog[a], folded[a], a)

\* The analyses a pass rebuilds have folded the dumps it has done with, and of
\* the group it reads all but what is left.
PassCovers ==
    \A a \in Analyses : a \in plan[pass] /\ Pending(a) =>
        /\ job.step = "groups" => Covers(folded[a], a, Files \ job.files)
        /\ job.step = "read" =>
             /\ job.group \subseteq Files \ job.files
             /\ Covers(folded[a], a, (Files \ job.files) \ job.group)
             /\ \A f \in job.group : \A e \in Dump[f] \cap Wants[a] :
                    <<f, e>> \in job.left \/ folded[a][e] > 0
        /\ job.step = "advance" => Covers(folded[a], a, Files)

\* The saved files of an analysis: while they are written, memory stands still;
\* a torn save leaves an old progress beside a newer state.
SavedIsHonest(a) ==
    /\ disk[a].hasMeta => disk[a].hasState
    /\ saving[a] \in {1, 2} => disk[a].hasState /\ disk[a].folded = folded[a]
    /\ saving[a] = 1 => disk[a].meta = MetaOf(prog[a])
    /\ disk[a].hasMeta /\ (saving[a] # 2 \/ TornSaves) => Honest(disk[a].meta, disk[a].folded, a)
    /\ disk[a].hasMeta /\ TornSaves => Honest(disk[a].meta, folded[a], a)

NeverReset == ~Server \/ MaxResets = 0 => resets = 0 /\ admin = "none"

StatsInv ==
    /\ Typed /\ MemoryIsHonest /\ PassCovers /\ NeverReset
    /\ \A a \in Analyses : SavedIsHonest(a)

\* What a node has to be spared for this: a reset in the middle of an ingest, and
\* one whose save is torn.  The ingest binary has no resets.
Spared == Server => ~BusyResets /\ (TornSaves => MaxResets = 0)

-----------------------------------------------------------------------------
(* Operators. *)

LEMMA CoversMore ==
    ASSUME NEW x \in [Events -> Nat], NEW y \in [Events -> Nat], \A e \in Events : x[e] <= y[e],
           NEW a \in Analyses, NEW files \in SUBSET Files, Covers(x, a, files)
    PROVE  Covers(y, a, files)
<1> SUFFICES ASSUME NEW f \in files, NEW e \in Dump[f] \cap Wants[a]
             PROVE  y[e] > 0
  BY DEF Covers
<1>1. e \in Events /\ x[e] > 0
  BY ConstantsAssumption DEF Covers
<1>2. x[e] \in Nat /\ y[e] \in Nat /\ x[e] <= y[e]
  BY <1>1
<1> QED
  BY <1>1, <1>2

LEMMA HonestMore ==
    ASSUME NEW x \in [Events -> Nat], NEW y \in [Events -> Nat], \A e \in Events : x[e] <= y[e],
           NEW a \in Analyses, NEW p \in ProgressType \cup MetaType, Honest(p, x, a)
    PROVE  Honest(p, y, a)
<1>1. p.done \in SUBSET Files /\ Files \in SUBSET Files
  BY DEF ProgressType, MetaType
<1> QED
  BY <1>1, CoversMore DEF Honest

LEMMA FreshFacts ==
    /\ Fresh \in ProgressType /\ NotFolded \in [Events -> Nat]
    /\ \A a \in Analyses : Honest(Fresh, NotFolded, a)
BY DEF Fresh, ProgressType, NotFolded, Honest, Covers

LEMMA MetaFacts ==
    ASSUME NEW p \in ProgressType
    PROVE  /\ MetaOf(p) \in MetaType /\ MetaOf(p).backfilled = p.backfilled
           /\ MetaOf(p).done = p.done
BY DEF MetaOf, MetaType, ProgressType

LEMMA AdvancedFacts ==
    ASSUME NEW p \in ProgressType, NEW e \in Events
    PROVE  /\ AdvancedBounded(p, e) \in ProgressType
           /\ AdvancedBounded(p, e).backfilled = p.backfilled
           /\ AdvancedBounded(p, e).done = p.done
<1>1. CreatedAt[e] \in Nat
  BY ConstantsAssumption
<1>2. Later(p.mark, CreatedAt[e]) \in Nat
  BY <1>1 DEF Later, ProgressType
<1>3. (IF Cardinality(p.boundary) >= MaxBoundary THEN {} ELSE p.boundary) \cup {e} \in SUBSET Events
  BY DEF ProgressType
<1>4. /\ Advanced(p, e) \in ProgressType
      /\ Advanced(p, e).backfilled = p.backfilled /\ Advanced(p, e).done = p.done
  BY <1>2, <1>3 DEF Advanced, ProgressType
<1> QED
  BY <1>4 DEF AdvancedBounded

LEMMA ClampedFacts ==
    ASSUME NEW p \in ProgressType
    PROVE  /\ Clamped(p) \in ProgressType /\ Clamped(p).backfilled = p.backfilled
           /\ Clamped(p).done = p.done
<1>1. Now + Skew \in Nat
  BY ConstantsAssumption
<1> QED
  BY <1>1 DEF Clamped, ProgressType

\* A fold counts an event for those that want it and are still to be rebuilt, and
\* forgets none.
LEMMA FoldFacts ==
    ASSUME Typed, NEW e \in Events, Fold(e)
    PROVE  /\ folded' \in [Analyses -> [Events -> Nat]] /\ prog' \in [Analyses -> ProgressType]
           /\ \A a \in Analyses :
                /\ \A x \in Events : folded[a][x] <= folded'[a][x]
                /\ prog'[a].backfilled = prog[a].backfilled /\ prog'[a].done = prog[a].done
                /\ a \in plan[pass] /\ Pending(a) /\ e \in Wants[a] => folded'[a][e] > 0
<1> DEFINE hit == {a \in Targets : Consumes(a, e)}
<1>1. /\ folded' = [a \in Analyses |-> IF a \in hit /\ e \in Wants[a]
                                       THEN [folded[a] EXCEPT ![e] = @ + 1] ELSE folded[a]]
      /\ prog' = [a \in Analyses |->
                    IF a \notin hit THEN prog[a]
                    ELSE IF Pending(a) THEN [prog[a] EXCEPT !.mark = Later(@, CreatedAt[e])]
                    ELSE AdvancedBounded(prog[a], e)]
  BY DEF Fold
<1>2. \A a \in Analyses : a \in plan[pass] /\ Pending(a) => a \in hit
  BY DEF Targets, Consumes
<1> HIDE DEF hit
<1>3. ASSUME NEW a \in Analyses
      PROVE  /\ folded'[a] \in [Events -> Nat]
             /\ \A x \in Events : folded[a][x] <= folded'[a][x]
             /\ a \in hit /\ e \in Wants[a] => folded'[a][e] > 0
  <2>1. folded[a] \in [Events -> Nat]
    BY DEF Typed
  <2> QED
    BY <1>1, <2>1
<1>4. ASSUME NEW a \in Analyses
      PROVE  /\ prog'[a] \in ProgressType /\ prog'[a].backfilled = prog[a].backfilled
             /\ prog'[a].done = prog[a].done
  <2>1. prog[a] \in ProgressType
    BY DEF Typed
  <2>2. Later(prog[a].mark, CreatedAt[e]) \in Nat
    BY <2>1, ConstantsAssumption DEF Later, ProgressType
  <2>3. CASE a \notin hit
    BY <1>1, <2>1, <2>3
  <2>4. CASE a \in hit /\ Pending(a)
    BY <1>1, <2>1, <2>2, <2>4 DEF ProgressType
  <2>5. CASE a \in hit /\ ~Pending(a)
    BY <1>1, <2>1, <2>5, AdvancedFacts
  <2> QED
    BY <2>3, <2>4, <2>5
<1> QED
  BY <1>1, <1>2, <1>3, <1>4

\* Memory is locked while a save runs: what is saved is one or the other.
LEMMA UnlockedFacts ==
    ASSUME Typed, Unlocked
    PROVE  \A a \in Analyses : saving[a] = 0
BY DEF Unlocked

-----------------------------------------------------------------------------
(* Types. *)

LEMMA LoadedFacts ==
    ASSUME Typed, NEW a \in Analyses
    PROVE  /\ LoadedState(a) \in [Events -> Nat] /\ LoadedProgress(a) \in ProgressType
           /\ Loadable(a) => /\ LoadedState(a) = disk[a].folded
                             /\ LoadedProgress(a).backfilled = disk[a].meta.backfilled
                             /\ LoadedProgress(a).done = disk[a].meta.done
           /\ ~Loadable(a) => LoadedState(a) = NotFolded /\ LoadedProgress(a) = Fresh
<1>1. disk[a] \in DiskType
  BY DEF Typed
<1>2. CASE Loadable(a)
  <2> DEFINE p == [mark |-> disk[a].meta.mark, boundary |-> disk[a].boundary,
                   backfilled |-> disk[a].meta.backfilled, done |-> disk[a].meta.done]
  <2>1. p \in ProgressType
    BY <1>1 DEF DiskType, MetaType, ProgressType
  <2>2. LoadedProgress(a) = Clamped(p)
    BY <1>2 DEF LoadedProgress
  <2> HIDE DEF p
  <2>3. /\ Clamped(p) \in ProgressType /\ Clamped(p).backfilled = p.backfilled
        /\ Clamped(p).done = p.done
    BY <2>1, ClampedFacts
  <2>4. p.backfilled = disk[a].meta.backfilled /\ p.done = disk[a].meta.done
    BY DEF p
  <2> QED
    BY <1>1, <1>2, <2>2, <2>3, <2>4 DEF LoadedState, DiskType
<1>3. CASE ~Loadable(a)
  BY <1>3, FreshFacts DEF LoadedState, LoadedProgress
<1> QED
  BY <1>2, <1>3

\* What a group has to be read of.
LEMMA GroupFacts ==
    ASSUME NEW g \in SUBSET Files
    PROVE  /\ ArchivedIn(g) \in SUBSET (Files \X Events)
           /\ \A f \in g : \A e \in Dump[f] : <<f, e>> \in ArchivedIn(g)
BY ConstantsAssumption DEF ArchivedIn

LEMMA SavedFacts ==
    ASSUME Typed, NEW a \in Analyses, NEW n \in 1..3
    PROVE  /\ Saved(a, n) \in DiskType
           /\ n = 3 => Saved(a, n) = WithState(disk[a], a)
           /\ n = 2 => Saved(a, n) = WithMeta(disk[a], a)
           /\ n = 1 => Saved(a, n) = WithBoundary(disk[a], a)
<1>1. disk[a] \in DiskType /\ folded[a] \in [Events -> Nat] /\ prog[a] \in ProgressType
  BY DEF Typed
<1>2. MetaOf(prog[a]) \in MetaType
  BY <1>1, MetaFacts
<1>3. WithState(disk[a], a) \in DiskType
  BY <1>1 DEF WithState, DiskType
<1>4. WithMeta(disk[a], a) \in DiskType
  BY <1>1, <1>2 DEF WithMeta, DiskType
<1>5. WithBoundary(disk[a], a) \in DiskType
  BY <1>1 DEF WithBoundary, DiskType, ProgressType
<1> QED
  BY <1>3, <1>4, <1>5 DEF Saved

\* The files of a group that are marked done are dumps.
LEMMA FinishFacts ==
    ASSUME Typed, NEW files \in SUBSET Files
    PROVE  /\ FinishFiles(files) \in [Analyses -> ProgressType]
           /\ \A a \in Analyses :
                /\ FinishFiles(files)[a].backfilled = prog[a].backfilled
                /\ FinishFiles(files)[a].done =
                     IF a \in plan[pass] /\ Pending(a) THEN prog[a].done \cup files ELSE prog[a].done
<1> SUFFICES ASSUME NEW a \in Analyses
             PROVE  /\ FinishFiles(files)[a] \in ProgressType
                    /\ FinishFiles(files)[a].backfilled = prog[a].backfilled
                    /\ FinishFiles(files)[a].done =
                         IF a \in plan[pass] /\ Pending(a) THEN prog[a].done \cup files ELSE prog[a].done
  BY DEF FinishFiles
<1>1. prog[a] \in ProgressType
  BY DEF Typed
<1> QED
  BY <1>1 DEF FinishFiles, ProgressType

LEMMA MarkFacts ==
    ASSUME Typed
    PROVE  /\ MarkBackfilled \in [Analyses -> ProgressType]
           /\ \A a \in Analyses :
                /\ a \in plan[pass] => MarkBackfilled[a].backfilled /\ MarkBackfilled[a].done = {}
                /\ a \notin plan[pass] => MarkBackfilled[a] = prog[a]
<1>1. ASSUME NEW a \in Analyses
      PROVE  /\ MarkBackfilled[a] \in ProgressType
             /\ a \in plan[pass] => MarkBackfilled[a].backfilled /\ MarkBackfilled[a].done = {}
             /\ a \notin plan[pass] => MarkBackfilled[a] = prog[a]
  <2>1. prog[a] \in ProgressType
    BY DEF Typed
  <2> QED
    BY <2>1 DEF MarkBackfilled, ProgressType
<1>2. MarkBackfilled = [a \in Analyses |-> MarkBackfilled[a]]
  BY DEF MarkBackfilled
<1> QED
  BY <1>1, <1>2

\* A refresh and the end of a fold save all or nothing.
LEMMA SaveStarts ==
    ASSUME Refresh(folded, TRUE) \/ AfterFold
    PROVE  saving' = saving \/ Persist
BY DEF Refresh, AfterFold

\* What each step does to the job.
LEMMA JobBegins ==
    ASSUME Typed, NEW index \in BOOLEAN, Begin(index)
    PROVE  job' \in JobType /\ job'.step = "loop"
BY DEF Begin, NoJob, JobType

LEMMA JobStartsPass ==
    ASSUME Typed, StartPass
    PROVE  /\ job' \in JobType /\ job'.step \in {"final", "advance", "groups"}
           /\ job'.step = "final" => cancel
           /\ job'.step = "advance" => ~PassHasPending
           /\ job'.step = "groups" => job'.files = PassFiles
           /\ job'.index = job.index
<1>1. job \in JobType
  BY DEF Typed
<1>2. PICK files \in SUBSET Files : files = PassFiles
  BY DEF PassFiles
<1>3. \/ job' = [job EXCEPT !.step = "final"] /\ cancel
      \/ job' = [job EXCEPT !.step = "advance"] /\ ~PassHasPending
      \/ job' = [job EXCEPT !.step = "groups", !.files = files]
  BY <1>2 DEF StartPass
<1>4. CASE job' = [job EXCEPT !.step = "final"] /\ cancel
  BY <1>1, <1>4 DEF JobType
<1>5. CASE job' = [job EXCEPT !.step = "advance"] /\ ~PassHasPending
  BY <1>1, <1>5 DEF JobType
<1>6. CASE job' = [job EXCEPT !.step = "groups", !.files = files]
  BY <1>1, <1>2, <1>6 DEF JobType
<1> QED
  BY <1>3, <1>4, <1>5, <1>6

LEMMA JobStartsGroup ==
    ASSUME Typed, StartGroup
    PROVE  /\ job' \in JobType /\ job'.step \in {"final", "advance", "read"}
           /\ job'.step = "final" => cancel
           /\ job'.step = "advance" => job.files = {}
           /\ job'.step = "read" =>
                /\ job'.group \subseteq job.files /\ job'.files = job.files \ job'.group
                /\ job'.left = ArchivedIn(job'.group)
           /\ job'.index = job.index
<1>1. job \in JobType
  BY DEF Typed
<1>2. \/ job' = [job EXCEPT !.step = "final"] /\ cancel
      \/ job' = [job EXCEPT !.step = "advance"] /\ job.files = {}
      \/ \E g \in SUBSET job.files : ReadGroup(g)
  BY DEF StartGroup
<1>3. CASE job' = [job EXCEPT !.step = "final"] /\ cancel
  BY <1>1, <1>3 DEF JobType
<1>4. CASE job' = [job EXCEPT !.step = "advance"] /\ job.files = {}
  BY <1>1, <1>4 DEF JobType
<1>5. CASE \E g \in SUBSET job.files : ReadGroup(g)
  <2>1. PICK g \in SUBSET job.files : ReadGroup(g)
    BY <1>5
  <2>2. g \in SUBSET Files /\ job.files \ g \in SUBSET Files
    BY <1>1 DEF JobType
  <2>3. PICK left \in SUBSET (Files \X Events) : left = ArchivedIn(g)
    BY <2>2, GroupFacts
  <2>4. job' = [job EXCEPT !.step = "read", !.files = @ \ g, !.group = g, !.left = left]
    BY <2>1, <2>3 DEF ReadGroup
  <2>5. /\ job' \in JobType /\ job'.step = "read" /\ job'.group = g
        /\ job'.files = job.files \ g /\ job'.left = left /\ job'.index = job.index
    BY <1>1, <2>2, <2>4 DEF JobType
  <2> QED
    BY <2>3, <2>5
<1> QED
  BY <1>2, <1>3, <1>4, <1>5

LEMMA JobFolds ==
    ASSUME Typed, NEW x, job' = [job EXCEPT !.left = @ \ {x}]
    PROVE  /\ job' \in JobType /\ job'.step = job.step /\ job'.files = job.files
           /\ job'.group = job.group /\ job'.left = job.left \ {x} /\ job'.index = job.index
<1>1. job \in JobType
  BY DEF Typed
<1> QED
  BY <1>1 DEF JobType

LEMMA JobEndsGroup ==
    ASSUME Typed, EndGroup
    PROVE  /\ job' \in JobType /\ job'.step \in {"final", "groups"} /\ job'.files = job.files
           /\ job'.step = "final" => cancel
           /\ job'.step = "groups" => ~cancel /\ job.left = {}
           /\ job'.index = job.index
<1>1. job \in JobType
  BY DEF Typed
<1>2. \/ job' = [job EXCEPT !.step = "final", !.group = {}, !.left = {}] /\ cancel
      \/ job' = [job EXCEPT !.step = "groups", !.group = {}, !.left = {}] /\ ~cancel /\ job.left = {}
  BY DEF EndGroup
<1>3. CASE job' = [job EXCEPT !.step = "final", !.group = {}, !.left = {}] /\ cancel
  BY <1>1, <1>3 DEF JobType
<1>4. CASE job' = [job EXCEPT !.step = "groups", !.group = {}, !.left = {}] /\ ~cancel /\ job.left = {}
  BY <1>1, <1>4 DEF JobType
<1> QED
  BY <1>2, <1>3, <1>4

LEMMA JobAdvances ==
    ASSUME Typed, AdvancePass
    PROVE  /\ job' \in JobType /\ job'.step \in {"loop", "final"} /\ job'.index = job.index
           /\ job'.step = "final" => ~(pass < Len(plan))
<1>1. job \in JobType
  BY DEF Typed
<1>2. \/ job' = [job EXCEPT !.step = "loop"]
      \/ job' = [job EXCEPT !.step = "final"] /\ ~(pass < Len(plan))
  BY DEF AdvancePass, NextPass
<1> QED
  BY <1>1, <1>2 DEF JobType

LEMMA JobEnds ==
    ASSUME Typed, GoLive \/ Finish \/ PersistFails \/ Restart
    PROVE  job' \in JobType /\ (job' = job \/ job'.step \in {"idle", "done"})
<1>1. job \in JobType
  BY DEF Typed
<1>2. NoJob \in JobType /\ NoJob.step = "idle"
  BY DEF NoJob, JobType
<1>3. \A step \in {"idle", "done"} :
        [NoJob EXCEPT !.step = step] \in JobType /\ [NoJob EXCEPT !.step = step].step = step
  BY DEF NoJob, JobType
<1>4. CASE GoLive
  BY <1>3, <1>4 DEF GoLive
<1>5. CASE Finish
  BY <1>1, <1>5 DEF Finish
<1>6. CASE PersistFails
  BY <1>1, <1>3, <1>6 DEF PersistFails
<1>7. CASE Restart
  BY <1>2, <1>7 DEF Restart
<1> QED
  BY <1>4, <1>5, <1>6, <1>7

LEMMA TypedStep ==
    ASSUME Typed, [Next]_vars
    PROVE  Typed'
<1>0. ASSUME saving' = saving \/ Persist
      PROVE  saving' \in [Analyses -> 0..3]
  BY <1>0 DEF Typed, Persist
<1>1. ASSUME NEW a \in Analyses, SaveFile(a)
      PROVE  Typed'
  <2>1. saving[a] \in 1..3
    BY <1>1 DEF SaveFile, Typed
  <2>2. Saved(a, saving[a]) \in DiskType
    BY <2>1, SavedFacts
  <2>3. disk' \in [Analyses -> DiskType] /\ saving' \in [Analyses -> 0..3]
    BY <1>1, <2>1, <2>2 DEF SaveFile, Typed
  <2> QED
    BY <1>1, <2>3 DEF SaveFile, Typed, analysisVars, bounds
<1>2. ASSUME NEW names, Empty(names), UNCHANGED <<disk, job, feed>>, resets' \in Nat
      PROVE  Typed'
  <2>1. folded' \in [Analyses -> [Events -> Nat]] /\ prog' \in [Analyses -> ProgressType]
    BY <1>2, FreshFacts DEF Empty, Typed
  <2> QED
    BY <1>0, <1>2, <2>1 DEF Empty, Typed
<1>3. CASE (\E a \in Analyses : ResetAnalysis(a)) \/ ResetAll
  BY <1>2, <1>3 DEF ResetAnalysis, ResetAll, EmptyAll, bounds, Typed
<1>4. CASE \E e \in Events : Fold(e) /\ AfterFold /\ (job' = job \/ \E x \in job.left : job' = [job EXCEPT !.left = @ \ {x}])
                               /\ UNCHANGED <<disk, resets>> /\ feed' \subseteq Events
  <2>1. folded' \in [Analyses -> [Events -> Nat]] /\ prog' \in [Analyses -> ProgressType]
    BY <1>4, FoldFacts
  <2>2. saving' \in [Analyses -> 0..3]
    BY <1>0, <1>4, SaveStarts
  <2>3. job' \in JobType
    BY <1>4, JobFolds DEF Typed
  <2> QED
    BY <1>4, <2>1, <2>2, <2>3 DEF Typed
<1>5. CASE FoldArchived \/ FoldLive
  <2>1. /\ \A x \in job.left : x[2] \in Events
        /\ \A e \in feed : e \in Events
    BY DEF Typed, JobType
  <2>2. feed' \subseteq Events
    BY <1>5 DEF FoldArchived, FoldLive, Typed
  <2> QED
    BY <1>4, <1>5, <2>1, <2>2 DEF FoldArchived, FoldLive, bounds
<1>6. ASSUME job' \in JobType, UNCHANGED <<folded, prog, disk, saving, feed, resets>>
      PROVE  Typed'
  BY <1>6 DEF Typed
<1>7. CASE (\E index \in BOOLEAN : StartIngest(index)) \/ StartRebuild
  <2>1. Reindexes \in BOOLEAN
    BY DEF Reindexes
  <2>2. /\ UNCHANGED <<folded, prog, disk, saving, feed, resets>>
        /\ (\E index \in BOOLEAN : Begin(index)) \/ job' = job
    BY <1>7, <2>1 DEF StartIngest, StartRebuild, analysisVars, bounds
  <2>3. job' \in JobType
    BY <2>2, JobBegins DEF Typed
  <2> QED
    BY <1>6, <2>2, <2>3
<1>8. CASE StartPass \/ StartGroup
  <2>1. job' \in JobType
    BY <1>8, JobStartsPass, JobStartsGroup
  <2>2. UNCHANGED <<folded, prog, disk, saving, feed, resets>>
    <3>1. CASE StartPass
      BY <3>1 DEF StartPass, analysisVars, bounds
    <3>2. CASE StartGroup
      BY <3>2 DEF StartGroup, analysisVars, bounds
    <3> QED
      BY <1>8, <3>1, <3>2
  <2> QED
    BY <1>6, <2>1, <2>2
<1>9. CASE EndGroup
  <2>1. job' \in JobType
    BY <1>9, JobEndsGroup
  <2>2. prog' \in [Analyses -> ProgressType]
    <3>1. job.group \in SUBSET Files
      BY DEF Typed, JobType
    <3> QED
      BY <1>9, <3>1, FinishFacts DEF EndGroup, Typed
  <2>3. saving' \in [Analyses -> 0..3]
    BY <1>0, <1>9 DEF EndGroup
  <2> QED
    BY <1>9, <2>1, <2>2, <2>3 DEF EndGroup, Typed, bounds
<1>10. CASE AdvancePass
  <2>1. job' \in JobType
    BY <1>10, JobAdvances
  <2> QED
    BY <1>10, <2>1, MarkFacts DEF AdvancePass, Typed, bounds
<1>11. CASE GoLive \/ Finish
  <2>1. job' \in JobType
    BY <1>11, JobEnds
  <2>2. saving' \in [Analyses -> 0..3]
    BY <1>0, <1>11, SaveStarts DEF GoLive, Finish
  <2>3. UNCHANGED <<folded, prog, disk, feed, resets>>
    BY <1>11 DEF GoLive, Finish, bounds
  <2> QED
    BY <2>1, <2>2, <2>3 DEF Typed
<1>12. CASE CancelIngest \/ RequestResetAll \/ ResetAllWaited \/ Idle \/ UNCHANGED vars
  BY <1>12 DEF CancelIngest, RequestResetAll, ResetAllWaited, Idle, vars, analysisVars, bounds, Typed
<1>13. CASE Exit \/ Kill
  <2>1. Restart /\ disk' = disk /\ feed' = feed /\ resets' = resets
    BY <1>13 DEF Exit, Kill, bounds
  <2>2. /\ folded' = [a \in Analyses |-> LoadedState(a)]
        /\ prog' = [a \in Analyses |-> LoadedProgress(a)]
        /\ saving' = [a \in Analyses |-> 3] \/ saving' = [a \in Analyses |-> 0]
    BY <2>1 DEF Restart
  <2>3. folded' \in [Analyses -> [Events -> Nat]] /\ prog' \in [Analyses -> ProgressType]
    BY <2>2, LoadedFacts
  <2>4. saving' \in [Analyses -> 0..3]
    BY <2>2
  <2>5. job' \in JobType
    BY <2>1, JobEnds
  <2> QED
    BY <2>1, <2>3, <2>4, <2>5 DEF Typed
<1>14. CASE PersistFails
  <2>1. job' \in JobType
    BY <1>14, JobEnds
  <2>2. saving' \in [Analyses -> 0..3] /\ UNCHANGED <<folded, prog, disk, feed, resets>>
    BY <1>14 DEF PersistFails, analysisVars, bounds
  <2> QED
    BY <2>1, <2>2 DEF Typed
<1> QED
  BY <1>1, <1>3, <1>5, <1>7, <1>8, <1>9, <1>10, <1>11, <1>12, <1>13, <1>14 DEF Next, IngestStep

-----------------------------------------------------------------------------
(* Progress claims no more than was folded. *)

LEMMA HonestSame ==
    ASSUME NEW p, NEW q, NEW x, NEW a, Honest(p, x, a),
           q.backfilled = p.backfilled, q.done = p.done
    PROVE  Honest(q, x, a)
BY DEF Honest

\* A restart continues from what the disk says, or from nothing.
LEMMA RestartIsHonest ==
    ASSUME Typed, Restart, NEW a \in Analyses, SavedIsHonest(a), saving[a] # 2 \/ TornSaves
    PROVE  /\ Honest(prog'[a], folded'[a], a)
           /\ disk[a].hasMeta => Honest(disk[a].meta, folded'[a], a)
<1>1. folded'[a] = LoadedState(a) /\ prog'[a] = LoadedProgress(a)
  BY DEF Restart
<1>2. CASE disk[a].hasMeta
  <2>1. Loadable(a) /\ Honest(disk[a].meta, disk[a].folded, a)
    BY <1>2 DEF Loadable, SavedIsHonest
  <2>2. /\ LoadedState(a) = disk[a].folded
        /\ LoadedProgress(a).backfilled = disk[a].meta.backfilled
        /\ LoadedProgress(a).done = disk[a].meta.done
    BY <2>1, LoadedFacts
  <2> QED
    BY <1>1, <2>1, <2>2, HonestSame
<1>3. CASE ~disk[a].hasMeta
  <2>1. ~Loadable(a)
    BY <1>3 DEF Loadable
  <2> QED
    BY <1>1, <1>3, <2>1, LoadedFacts, FreshFacts
<1> QED
  BY <1>2, <1>3

\* What is read to the end is folded.
LEMMA GroupIsFolded ==
    ASSUME Typed, PassCovers, EndGroup, ~cancel,
           NEW a \in Analyses, a \in plan[pass], Pending(a)
    PROVE  Covers(folded[a], a, job.group) /\ Covers(folded[a], a, Files \ job.files)
<1>1. job.step = "read" /\ job.left = {}
  BY DEF EndGroup
<1> QED
  BY <1>1 DEF PassCovers, Covers

LEMMA MemoryStep ==
    ASSUME StatsInv, [Next]_vars
    PROVE  MemoryIsHonest'
<1> USE DEF StatsInv
<1>1. ASSUME UNCHANGED <<folded, prog>>
      PROVE  MemoryIsHonest'
  BY <1>1 DEF MemoryIsHonest
<1>2. ASSUME NEW names, Empty(names)
      PROVE  MemoryIsHonest'
  BY <1>2, FreshFacts DEF Empty, MemoryIsHonest
<1>3. ASSUME NEW e \in Events, Fold(e)
      PROVE  MemoryIsHonest'
  <2> SUFFICES ASSUME NEW a \in Analyses
               PROVE  Honest(prog'[a], folded'[a], a)
    BY DEF MemoryIsHonest
  <2>1. /\ folded[a] \in [Events -> Nat] /\ prog[a] \in ProgressType /\ folded'[a] \in [Events -> Nat]
        /\ \A x \in Events : folded[a][x] <= folded'[a][x]
        /\ prog'[a].backfilled = prog[a].backfilled /\ prog'[a].done = prog[a].done
    BY <1>3, FoldFacts DEF Typed
  <2>2. Honest(prog[a], folded'[a], a)
    BY <2>1, HonestMore DEF MemoryIsHonest
  <2> QED
    BY <2>1, <2>2, HonestSame
<1>4. CASE EndGroup
  <2>1. folded' = folded /\ (prog' = prog \/ (~cancel /\ prog' = FinishFiles(job.group)))
    BY <1>4 DEF EndGroup
  <2>2. CASE prog' = prog
    BY <1>1, <2>1, <2>2
  <2>3. CASE ~cancel /\ prog' = FinishFiles(job.group)
    <3> SUFFICES ASSUME NEW a \in Analyses
                 PROVE  Honest(prog'[a], folded[a], a)
      BY <2>1 DEF MemoryIsHonest
    <3>1. job.group \in SUBSET Files
      BY DEF Typed, JobType
    <3>2. /\ prog'[a].backfilled = prog[a].backfilled
          /\ prog'[a].done = IF a \in plan[pass] /\ Pending(a) THEN prog[a].done \cup job.group
                             ELSE prog[a].done
      BY <2>3, <3>1, FinishFacts
    <3>3. Honest(prog[a], folded[a], a)
      BY DEF MemoryIsHonest
    <3>4. a \in plan[pass] /\ Pending(a) => Covers(folded[a], a, job.group)
      BY <1>4, <2>3, GroupIsFolded
    <3> QED
      BY <3>2, <3>3, <3>4 DEF Honest, Covers
  <2> QED
    BY <2>1, <2>2, <2>3
<1>5. CASE AdvancePass
  <2> SUFFICES ASSUME NEW a \in Analyses
               PROVE  Honest(prog'[a], folded[a], a)
    BY <1>5 DEF MemoryIsHonest, AdvancePass
  <2>1. prog' = MarkBackfilled /\ job.step = "advance"
    BY <1>5 DEF AdvancePass
  <2>2. Honest(prog[a], folded[a], a)
    BY DEF MemoryIsHonest
  <2>3. CASE a \in plan[pass]
    <3>1. Covers(folded[a], a, Files)
      BY <2>1, <2>2, <2>3 DEF PassCovers, Pending, Honest
    <3>2. prog'[a].done = {}
      BY <2>1, <2>3, MarkFacts
    <3> QED
      BY <3>1, <3>2 DEF Honest, Covers
  <2>4. CASE a \notin plan[pass]
    BY <2>1, <2>2, <2>4, MarkFacts
  <2> QED
    BY <2>3, <2>4
<1>6. CASE Exit \/ Kill
  <2>1. Restart /\ (TornSaves \/ \A a \in Analyses : saving[a] = 0)
    BY <1>6 DEF Exit, Kill, Flushed
  <2> QED
    BY <2>1, RestartIsHonest DEF MemoryIsHonest
<1>7. CASE FoldArchived \/ FoldLive
  <2>1. \E e \in Events : Fold(e)
    BY <1>7 DEF FoldArchived, FoldLive, Typed, JobType
  <2> QED
    BY <1>3, <2>1
<1>8. CASE (\E a \in Analyses : ResetAnalysis(a)) \/ ResetAll
  BY <1>2, <1>8 DEF ResetAnalysis, ResetAll, EmptyAll
<1>9. CASE (\E index \in BOOLEAN : StartIngest(index)) \/ StartRebuild
  BY <1>1, <1>9 DEF StartIngest, StartRebuild, analysisVars
<1>10. CASE StartPass
  BY <1>1, <1>10 DEF StartPass, analysisVars
<1>11. CASE StartGroup
  BY <1>1, <1>11 DEF StartGroup, analysisVars
<1>12. CASE GoLive \/ Finish
  BY <1>1, <1>12 DEF GoLive, Finish
<1>13. CASE \/ \E a \in Analyses : SaveFile(a)
            \/ CancelIngest \/ RequestResetAll \/ ResetAllWaited \/ PersistFails \/ Idle
            \/ UNCHANGED vars
  BY <1>1, <1>13 DEF SaveFile, CancelIngest, RequestResetAll, ResetAllWaited, PersistFails, Idle,
                     vars, analysisVars
<1> QED
  BY <1>4, <1>5, <1>6, <1>7, <1>8, <1>9, <1>10, <1>11, <1>12, <1>13 DEF Next, IngestStep

-----------------------------------------------------------------------------
(* A pass reads every dump its analyses are short of. *)

\* The steps of a pass that read nothing yet, or no longer.
Quiet == job'.step \notin {"groups", "read", "advance"}

LEMMA PassUntouched ==
    ASSUME PassCovers, UNCHANGED <<folded, prog, plan, pass>>, job' = job \/ Quiet
    PROVE  PassCovers'
BY DEF PassCovers, Pending, Quiet

LEMMA PassOpens ==
    ASSUME StatsInv, StartPass
    PROVE  PassCovers'
<1> USE DEF StatsInv
<1>1. UNCHANGED <<folded, prog, plan, pass>>
  BY DEF StartPass, analysisVars, pipeVars
<1>2. CASE Quiet
  BY <1>1, <1>2, PassUntouched
<1>3. CASE job'.step = "groups"
  <2>1. job'.files = PassFiles
    BY <1>3, JobStartsPass
  <2>2. ASSUME NEW a \in Analyses, a \in plan[pass], Pending(a)
        PROVE  Covers(folded[a], a, Files \ PassFiles)
    <3>1. Files \ PassFiles \subseteq prog[a].done
      BY <2>2 DEF PassFiles, FileDone
    <3>2. Covers(folded[a], a, prog[a].done)
      BY DEF MemoryIsHonest, Honest
    <3> QED
      BY <3>1, <3>2 DEF Covers
  <2> QED
    BY <1>1, <1>3, <2>1, <2>2 DEF PassCovers, Pending
<1>4. CASE job'.step = "advance"
  <2>1. ~PassHasPending
    BY <1>4, JobStartsPass
  <2>2. ASSUME NEW a \in Analyses, a \in plan[pass], Pending(a)
        PROVE  Covers(folded[a], a, Files)
    BY <2>1, <2>2 DEF PassHasPending, Covers
  <2> QED
    BY <1>1, <1>4, <2>2 DEF PassCovers, Pending
<1> QED
  BY <1>2, <1>3, <1>4, JobStartsPass DEF Quiet

LEMMA GroupOpens ==
    ASSUME StatsInv, StartGroup
    PROVE  PassCovers'
<1> USE DEF StatsInv
<1>1. UNCHANGED <<folded, prog, plan, pass>> /\ job.step = "groups"
  BY DEF StartGroup, analysisVars, pipeVars
<1>2. CASE Quiet
  BY <1>1, <1>2, PassUntouched
<1>3. CASE job'.step = "advance"
  <2>1. job.files = {}
    BY <1>3, JobStartsGroup
  <2>2. ASSUME NEW a \in Analyses, a \in plan[pass], Pending(a)
        PROVE  Covers(folded[a], a, Files)
    BY <1>1, <2>1, <2>2 DEF PassCovers, Covers
  <2> QED
    BY <1>1, <1>3, <2>2 DEF PassCovers, Pending
<1>4. CASE job'.step = "read"
  <2>1. /\ job'.group \subseteq job.files /\ job'.files = job.files \ job'.group
        /\ job'.left = ArchivedIn(job'.group)
    BY <1>4, JobStartsGroup
  <2>2. job.files \in SUBSET Files
    BY DEF Typed, JobType
  <2>3. \A f \in job'.group : \A e \in Dump[f] : <<f, e>> \in job'.left
    <3>1. PICK g \in SUBSET Files : g = job'.group
      BY <2>1, <2>2
    <3> QED
      BY <2>1, <3>1, GroupFacts
  <2>4. ASSUME NEW a \in Analyses, a \in plan[pass], Pending(a)
        PROVE  Covers(folded[a], a, (Files \ job'.files) \ job'.group)
    <3>1. Covers(folded[a], a, Files \ job.files)
      BY <1>1, <2>4 DEF PassCovers
    <3> QED
      BY <2>1, <3>1 DEF Covers
  <2> QED
    BY <1>1, <1>4, <2>1, <2>2, <2>3, <2>4 DEF PassCovers, Pending
<1> QED
  BY <1>2, <1>3, <1>4, JobStartsGroup DEF Quiet

\* Any fold keeps what was covered, and an archived one covers its own event.
LEMMA PassFolds ==
    ASSUME StatsInv, NEW e \in Events, Fold(e), UNCHANGED <<plan, pass>>,
           \/ job' = job
           \/ \E f \in Files : /\ <<f, e>> \in job.left
                               /\ job' = [job EXCEPT !.left = @ \ {<<f, e>>}]
    PROVE  PassCovers'
<1> USE DEF StatsInv
<1>1. /\ job'.step = job.step /\ job'.files = job.files /\ job'.group = job.group
      /\ \A x \in job.left : x \in job'.left \/ \E f \in Files : x = <<f, e>>
  BY JobFolds
<1>2. job.files \subseteq Files
  BY DEF Typed, JobType
<1> SUFFICES ASSUME NEW a \in Analyses, a \in plan[pass], Pending(a)
             PROVE  /\ job.step = "groups" => Covers(folded'[a], a, Files \ job.files)
                    /\ job.step = "read" =>
                         /\ job.group \subseteq Files \ job.files
                         /\ Covers(folded'[a], a, (Files \ job.files) \ job.group)
                         /\ \A f \in job.group : \A x \in Dump[f] \cap Wants[a] :
                                <<f, x>> \in job'.left \/ folded'[a][x] > 0
                    /\ job.step = "advance" => Covers(folded'[a], a, Files)
  <2>1. \A a \in Analyses : prog'[a].backfilled = prog[a].backfilled
    BY FoldFacts
  <2> QED
    BY <1>1, <2>1 DEF PassCovers, Pending
<1>3. /\ folded[a] \in [Events -> Nat] /\ folded'[a] \in [Events -> Nat]
      /\ \A x \in Events : folded[a][x] <= folded'[a][x]
      /\ e \in Wants[a] => folded'[a][e] > 0
  BY FoldFacts DEF Typed
<1>4. \A files \in SUBSET Files : Covers(folded[a], a, files) => Covers(folded'[a], a, files)
  BY <1>3, CoversMore
<1>5. CASE job.step = "read"
  <2>1. /\ job.group \subseteq Files \ job.files
        /\ Covers(folded[a], a, (Files \ job.files) \ job.group)
        /\ \A f \in job.group : \A x \in Dump[f] \cap Wants[a] :
              <<f, x>> \in job.left \/ folded[a][x] > 0
    BY <1>5 DEF PassCovers
  <2>2. (Files \ job.files) \ job.group \in SUBSET Files
    OBVIOUS
  <2>3. ASSUME NEW f \in job.group, NEW x \in Dump[f] \cap Wants[a], <<f, x>> \notin job'.left
        PROVE  folded'[a][x] > 0
    <3>1. x \in Events
      BY <2>1, ConstantsAssumption
    <3>2. CASE <<f, x>> \in job.left
      <4>1. x = e
        BY <1>1, <2>3, <3>2
      <4> QED
        BY <1>3, <4>1
    <3>3. CASE folded[a][x] > 0
      <4>1. folded[a][x] \in Nat /\ folded'[a][x] \in Nat /\ folded[a][x] <= folded'[a][x]
        BY <1>3, <3>1
      <4> QED
        BY <3>3, <4>1
    <3> QED
      BY <2>1, <3>2, <3>3
  <2> QED
    BY <1>4, <1>5, <2>1, <2>2, <2>3
<1>6. CASE job.step # "read"
  <2>1. /\ job.step = "groups" => Covers(folded[a], a, Files \ job.files)
        /\ job.step = "advance" => Covers(folded[a], a, Files)
    BY DEF PassCovers
  <2>2. Files \ job.files \in SUBSET Files /\ Files \in SUBSET Files
    OBVIOUS
  <2> QED
    BY <1>4, <1>6, <2>1, <2>2
<1> QED
  BY <1>5, <1>6

LEMMA GroupCloses ==
    ASSUME StatsInv, EndGroup
    PROVE  PassCovers'
<1> USE DEF StatsInv
<1>1. UNCHANGED <<folded, plan, pass>> /\ job'.step \in {"final", "groups"} /\ job'.files = job.files
  BY JobEndsGroup DEF EndGroup, pipeVars
<1>2. \A a \in Analyses : prog'[a].backfilled = prog[a].backfilled
  <2>1. job.group \in SUBSET Files
    BY DEF Typed, JobType
  <2>2. prog' = prog \/ prog' = FinishFiles(job.group)
    BY DEF EndGroup
  <2> QED
    BY <2>1, <2>2, FinishFacts
<1>3. ASSUME job'.step = "groups", NEW a \in Analyses, a \in plan[pass], Pending(a)
      PROVE  Covers(folded[a], a, Files \ job.files)
  BY <1>3, JobEndsGroup, GroupIsFolded
<1> QED
  BY <1>1, <1>2, <1>3 DEF PassCovers, Pending

LEMMA PassStep ==
    ASSUME StatsInv, [Next]_vars, Spared
    PROVE  PassCovers'
<1> USE DEF StatsInv
<1>0. ASSUME Quiet
      PROVE  PassCovers'
  BY <1>0 DEF PassCovers, Quiet
<1>1. CASE FoldArchived
  <2>1. PICK x \in job.left : job' = [job EXCEPT !.left = @ \ {x}] /\ Fold(x[2])
    BY <1>1 DEF FoldArchived
  <2>2. PICK f \in Files, e \in Events : x = <<f, e>>
    BY <2>1 DEF Typed, JobType
  <2>3. UNCHANGED <<plan, pass>>
    BY <1>1 DEF FoldArchived
  <2> QED
    BY <2>1, <2>2, <2>3, PassFolds
<1>2. CASE FoldLive
  <2>1. \E e \in Events : Fold(e)
    BY <1>2 DEF FoldLive, Typed
  <2> QED
    BY <1>2, <2>1, PassFolds DEF FoldLive
<1>3. CASE (\E a \in Analyses : ResetAnalysis(a)) \/ ResetAll
  <2>1. job' = job /\ job.step = "idle"
    BY <1>3 DEF ResetAnalysis, ResetAll, NeverReset, Spared
  <2> QED
    BY <1>0, <2>1 DEF Quiet
<1>4. CASE \E index \in BOOLEAN : StartIngest(index)
  BY <1>0, <1>4, JobBegins DEF StartIngest, Quiet
<1>5. CASE StartRebuild
  <2>1. UNCHANGED <<folded, prog>> /\ (Begin(Reindexes) \/ UNCHANGED <<plan, pass, job>>)
    BY <1>5 DEF StartRebuild, analysisVars
  <2>2. CASE Begin(Reindexes)
    <3>1. job'.step = "loop"
      BY <2>2 DEF Begin, NoJob
    <3> QED
      BY <1>0, <3>1 DEF Quiet
  <2>3. CASE UNCHANGED <<plan, pass, job>>
    BY <2>1, <2>3, PassUntouched
  <2> QED
    BY <2>1, <2>2, <2>3
<1>6. CASE AdvancePass
  BY <1>0, <1>6, JobAdvances DEF Quiet
<1>7. CASE GoLive \/ Finish
  <2>1. UNCHANGED <<folded, prog, plan, pass>>
    BY <1>7 DEF GoLive, Finish
  <2> QED
    BY <1>7, <2>1, JobEnds, PassUntouched DEF Quiet
<1>8. CASE PersistFails
  <2>1. UNCHANGED <<folded, prog, plan, pass>>
    BY <1>8 DEF PersistFails, analysisVars, pipeVars
  <2> QED
    BY <1>8, <2>1, JobEnds, PassUntouched DEF Quiet
<1>9. CASE Exit \/ Kill
  <2>1. job'.step = "idle"
    BY <1>9 DEF Exit, Kill, Restart, NoJob
  <2> QED
    BY <1>0, <2>1 DEF Quiet
<1>10. CASE \/ \E a \in Analyses : SaveFile(a)
            \/ CancelIngest \/ RequestResetAll \/ ResetAllWaited \/ Idle \/ UNCHANGED vars
  <2>1. UNCHANGED <<folded, prog, plan, pass>> /\ job' = job
    BY <1>10 DEF SaveFile, CancelIngest, RequestResetAll, ResetAllWaited, Idle, vars, analysisVars,
                 pipeVars
  <2> QED
    BY <2>1, PassUntouched
<1> QED
  BY <1>1, <1>2, <1>3, <1>4, <1>5, <1>6, <1>7, <1>8, <1>9, <1>10, PassOpens, GroupOpens, GroupCloses
  DEF Next, IngestStep

-----------------------------------------------------------------------------
(* A saved file claims no more than is saved beside it. *)

\* A step that writes no file: it may start a save of what memory holds.
LEMMA DiskUntouched ==
    ASSUME NEW a \in Analyses, SavedIsHonest(a), disk'[a] = disk[a], saving'[a] \in {0, 3},
           saving[a] # 2 \/ TornSaves,
           disk[a].hasMeta /\ TornSaves => Honest(disk[a].meta, folded'[a], a)
    PROVE  SavedIsHonest(a)'
BY DEF SavedIsHonest

\* A step that changes none of it.
LEMMA DiskSame ==
    ASSUME NEW a \in Analyses, SavedIsHonest(a), UNCHANGED <<folded, prog>>,
           disk'[a] = disk[a], saving'[a] = saving[a]
    PROVE  SavedIsHonest(a)'
BY DEF SavedIsHonest

\* The state goes first, then the progress, then the boundary set.
LEMMA DiskWritten ==
    ASSUME StatsInv, NEW a \in Analyses, SaveFile(a)
    PROVE  SavedIsHonest(a)'
<1> USE DEF StatsInv
<1>1. PICK n \in 1..3 : n = saving[a]
  BY DEF SaveFile, Typed
<1>2. disk'[a] = Saved(a, n) /\ saving'[a] = n - 1 /\ UNCHANGED <<folded, prog>>
  BY <1>1 DEF SaveFile, Typed, analysisVars
<1>3. disk[a] \in DiskType /\ folded[a] \in [Events -> Nat] /\ prog[a] \in ProgressType
  BY DEF Typed
<1>4. CASE n = 3
  <2>0. disk'[a] = WithState(disk[a], a)
    BY <1>2, <1>4 DEF Saved
  <2>1. /\ disk'[a].hasState /\ disk'[a].folded = folded[a]
        /\ disk'[a].hasMeta = disk[a].hasMeta /\ disk'[a].meta = disk[a].meta
    BY <1>3, <2>0 DEF WithState, DiskType
  <2> QED
    BY <1>1, <1>2, <1>4, <2>1 DEF SavedIsHonest
<1>5. CASE n = 2
  <2>0. disk'[a] = WithMeta(disk[a], a)
    BY <1>2, <1>5 DEF Saved
  <2>1. /\ disk'[a].hasState = disk[a].hasState /\ disk'[a].folded = disk[a].folded
        /\ disk'[a].meta = MetaOf(prog[a])
    BY <1>3, <2>0 DEF WithMeta, DiskType
  <2>2. Honest(MetaOf(prog[a]), folded[a], a)
    BY <1>3, MetaFacts, HonestSame DEF MemoryIsHonest
  <2> QED
    BY <1>1, <1>2, <1>5, <2>1, <2>2 DEF SavedIsHonest
<1>6. CASE n = 1
  <2>0. disk'[a] = WithBoundary(disk[a], a)
    BY <1>2, <1>6, SavedFacts
  <2>1. /\ disk'[a].hasState = disk[a].hasState /\ disk'[a].folded = disk[a].folded
        /\ disk'[a].hasMeta = disk[a].hasMeta /\ disk'[a].meta = disk[a].meta
    BY <1>3, <2>0 DEF WithBoundary, DiskType
  <2>2. /\ disk[a].hasMeta => disk[a].hasState
        /\ disk[a].hasMeta => Honest(disk[a].meta, disk[a].folded, a)
        /\ disk[a].hasMeta /\ TornSaves => Honest(disk[a].meta, folded[a], a)
    <3>1. SavedIsHonest(a) /\ saving[a] = 1
      BY <1>1, <1>6
    <3>2. saving[a] # 2
      BY <3>1
    <3> QED
      BY <3>1, <3>2, Zenon DEF SavedIsHonest
  <2>3. saving'[a] = 0
    BY <1>2, <1>6
  <2> QED
    BY <1>2, <2>1, <2>2, <2>3 DEF SavedIsHonest
<1> QED
  BY <1>4, <1>5, <1>6

LEMMA DiskStep ==
    ASSUME StatsInv, [Next]_vars, Spared, NEW a \in Analyses
    PROVE  SavedIsHonest(a)'
<1> USE DEF StatsInv
<1>0. SavedIsHonest(a) /\ (Unlocked => saving[a] = 0)
  BY UnlockedFacts
<1>1. ASSUME UNCHANGED <<folded, prog, disk>>, Unlocked, saving' = saving \/ Persist
      PROVE  SavedIsHonest(a)'
  <2>1. saving'[a] \in {0, 3}
    BY <1>0, <1>1 DEF Persist
  <2>2. disk[a].hasMeta /\ TornSaves => Honest(disk[a].meta, folded'[a], a)
    BY <1>1 DEF SavedIsHonest
  <2> QED
    BY <1>0, <1>1, <2>1, <2>2, DiskUntouched
<1>2. CASE \E b \in Analyses : SaveFile(b)
  <2>1. PICK b \in Analyses : SaveFile(b)
    BY <1>2
  <2>2. CASE b = a
    BY <2>1, <2>2, DiskWritten
  <2>3. CASE b # a
    BY <2>1, <2>3, DiskSame DEF SaveFile, Typed, analysisVars
  <2> QED
    BY <2>2, <2>3
<1>3. CASE (\E b \in Analyses : ResetAnalysis(b)) \/ ResetAll
  <2>1. Unlocked /\ Persist /\ disk' = disk /\ Server /\ MaxResets # 0
    BY <1>3, ConstantsAssumption DEF ResetAnalysis, ResetAll, Empty, EmptyAll, NeverReset, Typed
  <2>2. saving'[a] = 3 /\ ~TornSaves
    BY <2>1 DEF Persist, Spared
  <2> QED
    BY <1>0, <2>1, <2>2, DiskUntouched
<1>4. CASE FoldArchived \/ FoldLive
  <2>1. /\ \E e \in Events : Fold(e)
        /\ Unlocked /\ AfterFold /\ disk' = disk
    BY <1>4 DEF FoldArchived, FoldLive, Typed, JobType
  <2>2. saving'[a] \in {0, 3}
    BY <1>0, <2>1, SaveStarts DEF Persist
  <2>3. /\ folded[a] \in [Events -> Nat] /\ folded'[a] \in [Events -> Nat]
        /\ \A x \in Events : folded[a][x] <= folded'[a][x]
    BY <2>1, FoldFacts DEF Typed
  <2>4. disk[a].hasMeta /\ TornSaves => Honest(disk[a].meta, folded'[a], a)
    <3>1. disk[a].meta \in MetaType
      BY DEF Typed, DiskType
    <3> QED
      BY <2>3, <3>1, HonestMore DEF SavedIsHonest
  <2> QED
    BY <1>0, <2>1, <2>2, <2>4, DiskUntouched
<1>5. CASE EndGroup \/ AdvancePass
  <2>1. folded' = folded /\ disk' = disk /\ Unlocked /\ (saving' = saving \/ Persist)
    BY <1>5 DEF EndGroup, AdvancePass
  <2>2. saving'[a] \in {0, 3}
    BY <1>0, <2>1 DEF Persist
  <2>3. disk[a].hasMeta /\ TornSaves => Honest(disk[a].meta, folded'[a], a)
    BY <2>1 DEF SavedIsHonest
  <2> QED
    BY <1>0, <2>1, <2>2, <2>3, DiskUntouched
<1>6. CASE GoLive \/ Finish
  BY <1>1, <1>6, SaveStarts DEF GoLive, Finish
<1>7. CASE Exit \/ Kill
  <2>1. Restart /\ disk' = disk /\ (TornSaves \/ saving[a] = 0)
    BY <1>7 DEF Exit, Kill, Flushed
  <2>2. saving'[a] \in {0, 3}
    BY <2>1 DEF Restart
  <2>3. disk[a].hasMeta => Honest(disk[a].meta, folded'[a], a)
    BY <1>0, <2>1, RestartIsHonest
  <2> QED
    BY <1>0, <2>1, <2>2, <2>3, DiskUntouched
<1>8. CASE PersistFails
  <2>1. /\ UNCHANGED <<folded, disk>> /\ saving'[a] = 0
        /\ TornSaves \/ saving[a] = 3
    BY <1>8 DEF PersistFails, analysisVars
  <2>2. disk[a].hasMeta /\ TornSaves => Honest(disk[a].meta, folded'[a], a)
    BY <2>1 DEF SavedIsHonest
  <2> QED
    BY <1>0, <2>1, <2>2, DiskUntouched
<1>9. CASE (\E index \in BOOLEAN : StartIngest(index)) \/ StartRebuild \/ StartPass
  BY <1>0, <1>9, DiskSame DEF StartIngest, StartRebuild, StartPass, analysisVars
<1>10. CASE StartGroup
  BY <1>0, <1>10, DiskSame DEF StartGroup, analysisVars
<1>11. CASE CancelIngest \/ RequestResetAll \/ ResetAllWaited \/ Idle \/ UNCHANGED vars
  BY <1>0, <1>11, DiskSame DEF CancelIngest, RequestResetAll, ResetAllWaited, Idle, vars, analysisVars
<1> QED
  BY <1>2, <1>3, <1>4, <1>5, <1>6, <1>7, <1>8, <1>9, <1>10, <1>11 DEF Next, IngestStep

-----------------------------------------------------------------------------
(* The theorem. *)

LEMMA ResetStep ==
    ASSUME NeverReset, Typed, [Next]_vars
    PROVE  NeverReset'
<1>1. SUFFICES ASSUME ~Server \/ MaxResets = 0, resets = 0, admin = "none"
               PROVE  resets' = 0 /\ admin' = "none"
  BY DEF NeverReset
<1>2. ~\E a \in Analyses : ResetAnalysis(a)
  BY <1>1 DEF ResetAnalysis
<1>3. ~RequestResetAll /\ ~ResetAllWaited /\ ~ResetAll /\ ~StartRebuild
  BY <1>1 DEF RequestResetAll, ResetAllWaited, ResetAll, StartRebuild
<1>4. CASE (\E a \in Analyses : SaveFile(a)) \/ (\E index \in BOOLEAN : StartIngest(index))
  BY <1>1, <1>4 DEF SaveFile, StartIngest, bounds
<1>5. CASE IngestStep
  BY <1>1, <1>5 DEF IngestStep, StartPass, StartGroup, FoldArchived, EndGroup, AdvancePass, GoLive,
                    bounds
<1>6. CASE CancelIngest \/ FoldLive \/ Finish \/ PersistFails \/ Idle \/ UNCHANGED vars
  BY <1>1, <1>6 DEF CancelIngest, FoldLive, Finish, PersistFails, Idle, vars, bounds
<1>7. CASE Exit \/ Kill
  BY <1>1, <1>7 DEF Exit, Kill, Restart, bounds
<1> QED
  BY <1>2, <1>3, <1>4, <1>5, <1>6, <1>7 DEF Next

LEMMA StatsInit ==
    ASSUME Init
    PROVE  StatsInv
<1>1. Typed
  <2>1. PICK meta \in MetaType : meta = MetaOf(Fresh)
    BY FreshFacts, MetaFacts
  <2>2. disk \in [Analyses -> DiskType]
    <3> DEFINE empty == [hasState |-> FALSE, folded |-> NotFolded,
                         hasMeta |-> FALSE, meta |-> meta, boundary |-> {}]
    <3>1. empty \in DiskType
      BY FreshFacts DEF DiskType
    <3>2. disk = [a \in Analyses |-> empty]
      BY <2>1 DEF Init
    <3> QED
      BY <3>1, <3>2
  <2>3. job \in JobType
    BY DEF Init, NoJob, JobType
  <2>4. saving \in [Analyses -> 0..3]
    BY DEF Init
  <2>5. feed \subseteq Events /\ resets \in Nat
    BY ConstantsAssumption DEF Init
  <2>6. folded \in [Analyses -> [Events -> Nat]] /\ prog \in [Analyses -> ProgressType]
    BY FreshFacts DEF Init
  <2> QED
    BY <2>2, <2>3, <2>4, <2>5, <2>6 DEF Typed
<1>2. MemoryIsHonest
  BY FreshFacts DEF Init, MemoryIsHonest
<1>3. PassCovers
  BY DEF Init, PassCovers, NoJob
<1>4. NeverReset /\ \A a \in Analyses : SavedIsHonest(a)
  BY DEF Init, NeverReset, SavedIsHonest
<1> QED
  BY <1>1, <1>2, <1>3, <1>4 DEF StatsInv

\* What a process loads, folds and saves never claims more than it has.
THEOREM StatsInvHolds == Spared => (Spec => []StatsInv)
<1> SUFFICES ASSUME Spared
             PROVE  Spec => []StatsInv
  OBVIOUS
<1>1. StatsInv /\ [Next]_vars => StatsInv'
  BY TypedStep, MemoryStep, PassStep, DiskStep, ResetStep DEF StatsInv
<1> QED
  BY <1>1, StatsInit, PTL DEF Spec

\* A backfilled analysis has folded the whole archive, whatever kills, failed
\* saves and resumed rebuilds lie behind it (registry.rs, mark_backfilled).
THEOREM BackfillIsComplete == Spared => (Spec => []BackfilledIsComplete)
<1> SUFFICES ASSUME Spared
             PROVE  Spec => []BackfilledIsComplete
  OBVIOUS
<1>1. StatsInv => BackfilledIsComplete
  BY DEF StatsInv, MemoryIsHonest, Honest, Covers, BackfilledIsComplete, Corpus
<1> QED
  BY <1>1, StatsInvHolds, PTL

-----------------------------------------------------------------------------
(* Stages and plans.  A recursive function is its own unfolding once some       *)
(* function satisfies it: the union of those that satisfy it from below.        *)

\* Every set of natural numbers has a least element.
LEMMA LeastNat ==
    ASSUME NEW T \in SUBSET Nat, T # {}
    PROVE  \E x \in T : \A y \in T : x <= y
<1> DEFINE R == {ss \in Nat \X Nat : ss[1] < ss[2]}
<1>1. IsWellFoundedOn(R, Nat)
  BY NatLessThanWellFounded DEF OpToRel
<1> HIDE DEF R
<1>2. PICK x \in T : \A y \in T : <<y, x>> \notin R
  BY <1>1, WFMin
<1>3. ASSUME NEW y \in T, y < x
      PROVE  FALSE
  <2>1. <<y, x>> \in Nat \X Nat /\ <<y, x>>[1] = y /\ <<y, x>>[2] = x
    OBVIOUS
  <2>2. <<y, x>> \in R
    BY <1>3, <2>1 DEF R
  <2> QED
    BY <1>2, <2>2
<1> QED
  BY <1>3

\* What is ready once the analyses in done are, of the dependencies in S.
Ready(S, done) == {a \in Analyses : Deps[a] \cap S \subseteq done}

LEMMA LayersUnfold ==
    ASSUME NEW S
    PROVE  /\ Layers(S) \in [Nat -> SUBSET Analyses] /\ Layers(S)[0] = {}
           /\ \A n \in Nat : Layers(S)[n + 1] = Ready(S, Layers(S)[n])
<1> DEFINE Below(g) == g[0] = {} /\ \A n \in Nat : g[n + 1] \subseteq Ready(S, g[n])
           Chains == {g \in [Nat -> SUBSET Analyses] : Below(g)}
           f == [n \in Nat |-> UNION {g[n] : g \in Chains}]
<1>1. f \in [Nat -> SUBSET Analyses] /\ f[0] = {}
  OBVIOUS
<1>2. \A n \in Nat : \A a : a \in f[n] <=> \E g \in Chains : a \in g[n]
  OBVIOUS
<1> HIDE DEF f
<1>3. ASSUME NEW n \in Nat
      PROVE  f[n + 1] \subseteq Ready(S, f[n])
  BY <1>2 DEF Ready
<1>4. ASSUME NEW n \in Nat
      PROVE  Ready(S, f[n]) \subseteq f[n + 1]
  <2> DEFINE h == [k \in Nat |-> IF k <= n THEN f[k] ELSE IF k = n + 1 THEN Ready(S, f[n]) ELSE {}]
  <2>1. h \in [Nat -> SUBSET Analyses]
    BY <1>1 DEF Ready
  <2>2. /\ \A k \in Nat : k <= n => h[k] = f[k]
        /\ h[n + 1] = Ready(S, f[n])
        /\ \A k \in Nat : k > n + 1 => h[k] = {}
    OBVIOUS
  <2> HIDE DEF h
  <2>3. ASSUME NEW k \in Nat
        PROVE  h[k + 1] \subseteq Ready(S, h[k])
    <3>1. CASE k < n
      <4>1. h[k + 1] = f[k + 1] /\ h[k] = f[k]
        BY <2>2, <3>1
      <4> QED
        BY <1>3, <4>1
    <3>2. CASE k = n
      BY <2>2, <3>2
    <3>3. CASE k > n
      BY <2>2, <3>3
    <3> QED
      BY <3>1, <3>2, <3>3
  <2>4. h \in Chains
    BY <1>1, <2>1, <2>2, <2>3
  <2> QED
    BY <1>2, <2>2, <2>4
<1>5. f = [n \in Nat |-> IF n = 0 THEN {}
                         ELSE {a \in Analyses : Deps[a] \cap S \subseteq f[n - 1]}]
  <2>1. ASSUME NEW n \in Nat \ {0}
        PROVE  f[n] = {a \in Analyses : Deps[a] \cap S \subseteq f[n - 1]}
    <3>1. n - 1 \in Nat /\ (n - 1) + 1 = n
      OBVIOUS
    <3> QED
      BY <1>3, <1>4, <3>1 DEF Ready
  <2> QED
    BY <1>1, <2>1
<1>6. Layers(S) = [n \in Nat |-> IF n = 0 THEN {}
                    ELSE {a \in Analyses : Deps[a] \cap S \subseteq Layers(S)[n - 1]}]
  BY <1>5 DEF Layers
<1> QED
  BY <1>6 DEF Ready

\* Whatever holds of one layer because of the one below holds of all.
LEMMA LayersGrow ==
    ASSUME NEW S, NEW n \in Nat
    PROVE  Layers(S)[n] \subseteq Layers(S)[n + 1]
<1> DEFINE L == Layers(S)
           T == {k \in Nat : ~(L[k] \subseteq L[k + 1])}
<1>1. L \in [Nat -> SUBSET Analyses] /\ L[0] = {} /\ \A k \in Nat : L[k + 1] = Ready(S, L[k])
  BY LayersUnfold
<1> HIDE DEF L
<1>2. SUFFICES ASSUME T # {}
               PROVE  FALSE
  BY DEF L
<1>3. PICK k \in T : \A j \in T : k <= j
  BY <1>2, LeastNat
<1>4. PICK j \in Nat : k = j + 1
  <2>1. k # 0
    BY <1>1, <1>3
  <2>2. k - 1 \in Nat /\ k = (k - 1) + 1
    BY <1>3, <2>1
  <2> QED
    BY <2>2
<1>5. L[j] \subseteq L[j + 1]
  BY <1>3, <1>4
<1>6. L[j + 1] \subseteq L[(j + 1) + 1]
  BY <1>1, <1>5 DEF Ready
<1> QED
  BY <1>3, <1>4, <1>6

LEMMA LayersAbove ==
    ASSUME NEW S, NEW m \in Nat, NEW n \in Nat, m <= n
    PROVE  Layers(S)[m] \subseteq Layers(S)[n]
<1> DEFINE T == {k \in Nat : m <= k /\ ~(Layers(S)[m] \subseteq Layers(S)[k])}
<1> SUFFICES ASSUME T # {}
             PROVE  FALSE
  OBVIOUS
<1>1. PICK k \in T : \A j \in T : k <= j
  BY LeastNat
<1>2. PICK j \in Nat : k = j + 1 /\ m <= j
  <2>1. k # m /\ k \in Nat /\ m <= k
    BY <1>1
  <2>2. k - 1 \in Nat /\ k = (k - 1) + 1 /\ m <= k - 1
    BY <2>1
  <2> QED
    BY <2>2
<1>3. Layers(S)[m] \subseteq Layers(S)[j]
  BY <1>1, <1>2
<1> QED
  BY <1>1, <1>2, <1>3, LayersGrow

\* An analysis in some layer is new in one.
LEMMA FirstLayer ==
    ASSUME NEW S, NEW n \in Nat, NEW a \in Layers(S)[n]
    PROVE  \E r \in 1..n : a \in Layers(S)[r] \ Layers(S)[r - 1]
<1> DEFINE T == {k \in Nat : a \in Layers(S)[k]}
<1>1. PICK r \in T : \A k \in T : r <= k
  BY LeastNat
<1>2. r \in Nat /\ a \in Layers(S)[r] /\ r <= n
  BY <1>1
<1>3. r # 0
  BY <1>2, LayersUnfold
<1>4. r - 1 \in Nat /\ ~(r <= r - 1) /\ r \in 1..n
  BY <1>2, <1>3
<1>5. a \notin Layers(S)[r - 1]
  BY <1>1, <1>4
<1> QED
  BY <1>2, <1>4, <1>5

\* Fewer dependencies to wait for, lower layers.
LEMMA LayersOfFewer ==
    ASSUME NEW S, NEW T, S \subseteq T, NEW n \in Nat
    PROVE  Layers(T)[n] \subseteq Layers(S)[n]
<1> DEFINE B == {k \in Nat : ~(Layers(T)[k] \subseteq Layers(S)[k])}
<1> SUFFICES ASSUME B # {}
             PROVE  FALSE
  OBVIOUS
<1>1. PICK k \in B : \A j \in B : k <= j
  BY LeastNat
<1>2. PICK j \in Nat : k = j + 1
  <2>1. k # 0 /\ k \in Nat
    BY <1>1, LayersUnfold
  <2>2. k - 1 \in Nat /\ k = (k - 1) + 1
    BY <2>1
  <2> QED
    BY <2>2
<1>3. Layers(T)[j] \subseteq Layers(S)[j]
  BY <1>1, <1>2
<1>4. Layers(T)[j + 1] = Ready(T, Layers(T)[j]) /\ Layers(S)[j + 1] = Ready(S, Layers(S)[j])
  BY LayersUnfold
<1> QED
  BY <1>1, <1>2, <1>3, <1>4 DEF Ready

LEMMA StagesAreLayers ==
    \E depth \in Nat \ {0} :
        /\ Stages = [n \in 1..depth |-> Layers(Analyses)[n] \ Layers(Analyses)[n - 1]]
        /\ Layers(Analyses)[depth] = Analyses
<1> DEFINE layer == Layers(Analyses)
           bound == Cardinality(Analyses) + 1
           T == {n \in 1..bound : layer[n] = Analyses}
           Shallowest(n) == layer[n] = Analyses /\ \A k \in 1..(n - 1) : layer[k] # Analyses
           depth == CHOOSE n \in 1..bound : Shallowest(n)
<1>0. Cardinality(Analyses) \in Nat
  BY DepsAssumption, FS_CardinalityType
<1>1. T # {} /\ T \subseteq Nat
  BY <1>0, DepsAssumption
<1>2. PICK x \in T : \A y \in T : x <= y
  BY <1>1, LeastNat
<1>3. x \in 1..bound /\ Shallowest(x)
  <2>1. ASSUME NEW k \in 1..(x - 1), layer[k] = Analyses
        PROVE  FALSE
    <3>1. k \in 1..bound /\ ~(x <= k)
      BY <1>0, <1>2
    <3> QED
      BY <1>2, <2>1, <3>1
  <2> QED
    BY <1>2, <2>1
<1>4. depth \in 1..bound /\ Shallowest(depth)
  <2> HIDE DEF Shallowest
  <2> QED
    BY <1>3
<1>5. Stages = [n \in 1..depth |-> layer[n] \ layer[n - 1]]
  BY DEF Stages
<1>6. depth \in Nat \ {0}
  BY <1>0, <1>4
<1> HIDE DEF depth
<1> QED
  BY <1>4, <1>5, <1>6

\* Every analysis is in one stage, after the stages of its dependencies.
LEMMA StagesAreOrdered ==
    /\ Len(Stages) \in Nat \ {0}
    /\ \A n \in 1..Len(Stages) : \A a \in Stages[n] :
          a \in Analyses /\ \A x \in Deps[a] : \E r \in 1..(n - 1) : x \in Stages[r]
    /\ \A m, n \in 1..Len(Stages) : \A a \in Stages[m] : a \in Stages[n] => m = n
    /\ \A a \in Analyses : \E n \in 1..Len(Stages) : a \in Stages[n]
<1> DEFINE L == Layers(Analyses)
<1>1. PICK depth \in Nat \ {0} :
        Stages = [n \in 1..depth |-> L[n] \ L[n - 1]] /\ L[depth] = Analyses
  BY StagesAreLayers
<1>2. Len(Stages) = depth
  BY <1>1
<1>3. /\ L \in [Nat -> SUBSET Analyses] /\ L[0] = {}
      /\ \A n \in Nat : L[n + 1] = Ready(Analyses, L[n])
  BY LayersUnfold
<1>4. \A n \in Nat : \A a \in L[n] : \E r \in 1..n : a \in L[r] \ L[r - 1]
  BY FirstLayer
<1>5. \A m, n \in Nat : m <= n => L[m] \subseteq L[n]
  BY LayersAbove
<1> HIDE DEF L
<1>6. ASSUME NEW n \in 1..depth, NEW a \in Stages[n]
      PROVE  a \in Analyses /\ \A x \in Deps[a] : \E r \in 1..(n - 1) : x \in Stages[r]
  <2>1. n \in Nat /\ n - 1 \in Nat /\ (n - 1) + 1 = n /\ a \in L[n]
    BY <1>1, <1>6
  <2>2. a \in Analyses /\ Deps[a] \cap Analyses \subseteq L[n - 1]
    BY <1>3, <2>1 DEF Ready
  <2>3. Deps[a] \subseteq Analyses
    BY <2>2, ConstantsAssumption
  <2>4. \A x \in Deps[a] : \E r \in 1..(n - 1) : x \in L[r] \ L[r - 1]
    BY <1>4, <2>1, <2>2, <2>3
  <2> QED
    BY <1>1, <2>1, <2>2, <2>4
<1>7. ASSUME NEW m \in 1..depth, NEW n \in 1..depth, NEW a \in Stages[m], a \in Stages[n], m < n
      PROVE  FALSE
  <2>1. m \in Nat /\ n - 1 \in Nat /\ m <= n - 1 /\ a \in L[m] /\ a \notin L[n - 1]
    BY <1>1, <1>7
  <2> QED
    BY <1>5, <2>1
<1>8. ASSUME NEW a \in Analyses
      PROVE  \E n \in 1..depth : a \in Stages[n]
  BY <1>1, <1>4
<1>9. ASSUME NEW m \in 1..depth, NEW n \in 1..depth, NEW a \in Stages[m], a \in Stages[n]
      PROVE  m = n
  <2>1. ~(m < n) /\ ~(n < m)
    BY <1>7, <1>9
  <2> QED
    BY <2>1
<1> QED
  BY <1>2, <1>6, <1>8, <1>9

\* A replay rebuilds an analysis no earlier than what it waits for.
LEMMA ReplayIsOrdered ==
    /\ Len(ReplayPlan) \in Nat \ {0}
    /\ \A n \in 1..Len(ReplayPlan) : \A a \in ReplayPlan[n] :
          /\ a \in Analyses
          /\ \A x \in Deps[a] : Pending(x) => \E r \in 1..n : x \in ReplayPlan[r]
<1> DEFINE needed == {a \in Analyses : Pending(a)}
           L == Layers(needed)
           bound == Cardinality(Analyses) + 1
           Fits(n) == needed \subseteq L[n] /\ \A k \in 1..(n - 1) : ~(needed \subseteq L[k])
           passes == CHOOSE n \in 1..bound : Fits(n)
           T == {n \in 1..bound : needed \subseteq L[n]}
<1>0. Cardinality(Analyses) \in Nat
  BY DepsAssumption, FS_CardinalityType
<1>1. T # {} /\ T \subseteq Nat
  <2>1. PICK n \in 1..bound : Layers(Analyses)[n] = Analyses
    BY DepsAssumption
  <2>2. n \in Nat
    BY <1>0, <2>1
  <2>3. Layers(Analyses)[n] \subseteq L[n]
    BY <2>2, LayersOfFewer
  <2> QED
    BY <1>0, <2>1, <2>3
<1>2. PICK y \in T : \A k \in T : y <= k
  BY <1>1, LeastNat
<1>3. y \in 1..bound /\ Fits(y)
  <2>1. ASSUME NEW k \in 1..(y - 1), needed \subseteq L[k]
        PROVE  FALSE
    <3>1. k \in 1..bound /\ ~(y <= k)
      BY <1>0, <1>2
    <3> QED
      BY <1>2, <2>1, <3>1
  <2> QED
    BY <1>2, <2>1
<1>4. passes \in 1..bound /\ Fits(passes)
  <2> HIDE DEF Fits
  <2> QED
    BY <1>3
<1>5. ReplayPlan = [n \in 1..passes |-> (IF n = passes THEN Analyses ELSE L[n]) \ L[n - 1]]
  BY DEF ReplayPlan
<1> HIDE DEF passes
<1>6. passes \in Nat \ {0} /\ needed \subseteq L[passes]
  BY <1>0, <1>4
<1>7. Len(ReplayPlan) = passes
  <2> DEFINE at(n) == (IF n = passes THEN Analyses ELSE L[n]) \ L[n - 1]
  <2>1. ReplayPlan = [n \in 1..passes |-> at(n)]
    BY <1>5
  <2> HIDE DEF at
  <2> QED
    BY <1>6, <2>1
<1>8. /\ L \in [Nat -> SUBSET Analyses] /\ L[0] = {}
      /\ \A n \in Nat : L[n + 1] = Ready(needed, L[n])
  BY LayersUnfold
<1>9. \A n \in Nat : \A a \in L[n] : \E r \in 1..n : a \in L[r] \ L[r - 1]
  BY FirstLayer
<1> HIDE DEF L
<1>10. ASSUME NEW n \in 1..passes, NEW a \in ReplayPlan[n], NEW x \in Deps[a], Pending(x)
       PROVE  a \in Analyses /\ \E r \in 1..n : x \in ReplayPlan[r]
  <2>1. n \in Nat /\ n - 1 \in Nat /\ (n - 1) + 1 = n /\ a \in Analyses
    BY <1>5, <1>6, <1>8, <1>10
  <2>2. x \in needed
    BY <1>10, <2>1, ConstantsAssumption
  <2>3. PICK r \in 1..n : x \in L[r] \ L[r - 1]
    <3>1. CASE n = passes
      BY <1>6, <1>9, <2>2, <3>1
    <3>2. CASE n # passes
      <4>1. a \in L[n]
        BY <1>5, <1>10, <3>2
      <4>2. x \in L[n - 1]
        BY <1>8, <1>10, <2>1, <2>2, <4>1 DEF Ready
      <4>3. PICK k \in 1..(n - 1) : x \in L[k] \ L[k - 1]
        BY <1>9, <2>1, <4>2
      <4> QED
        BY <2>1, <4>3
    <3> QED
      BY <3>1, <3>2
  <2>4. r \in 1..passes /\ x \in Analyses
    BY <1>6, <2>2, <2>3
  <2>5. x \in ReplayPlan[r]
    BY <1>5, <2>3, <2>4
  <2> QED
    BY <2>1, <2>5
<1>11. ASSUME NEW n \in 1..passes, NEW a \in ReplayPlan[n]
       PROVE  a \in Analyses
  BY <1>5, <1>6, <1>8, <1>11
<1> QED
  BY <1>6, <1>7, <1>10, <1>11

LEMMA DownstreamUnfolds ==
    ASSUME NEW name \in Analyses
    PROVE  /\ Downstream(name) \in [Nat -> SUBSET Analyses] /\ Downstream(name)[0] = {name}
           /\ \A n \in Nat : Downstream(name)[n + 1] = Downstream(name)[n] \cup Dependents(Downstream(name)[n])
<1> DEFINE Below(g) == /\ g[0] \subseteq {name}
                       /\ \A n \in Nat : g[n + 1] \subseteq g[n] \cup Dependents(g[n])
           Chains == {g \in [Nat -> SUBSET Analyses] : Below(g)}
           f == [n \in Nat |-> UNION {g[n] : g \in Chains}]
<1>1. f \in [Nat -> SUBSET Analyses]
  OBVIOUS
<1>2. \A n \in Nat : \A a : a \in f[n] <=> \E g \in Chains : a \in g[n]
  OBVIOUS
<1> HIDE DEF f
<1>3. f[0] = {name}
  <2> DEFINE g == [n \in Nat |-> {name}]
  <2>1. g \in Chains
    OBVIOUS
  <2> QED
    BY <1>2, <2>1
<1>4. ASSUME NEW n \in Nat
      PROVE  f[n + 1] \subseteq f[n] \cup Dependents(f[n])
  <2> SUFFICES ASSUME NEW a, a \in f[n + 1]
               PROVE  a \in f[n] \cup Dependents(f[n])
    OBVIOUS
  <2>0. n + 1 \in Nat
    OBVIOUS
  <2>1. PICK g \in Chains : a \in g[n + 1]
    <3> HIDE DEF Chains
    <3> QED
      BY <1>2, <2>0
  <2>2. a \in g[n] \cup Dependents(g[n]) /\ g[n] \subseteq f[n]
    BY <1>2, <2>1
  <2> QED
    BY <2>2 DEF Dependents
<1>5. ASSUME NEW n \in Nat
      PROVE  f[n] \cup Dependents(f[n]) \subseteq f[n + 1]
  <2> DEFINE X == f[n] \cup Dependents(f[n])
             h == [k \in Nat |-> IF k <= n THEN f[k] ELSE IF k = n + 1 THEN X ELSE {}]
  <2>1. h \in [Nat -> SUBSET Analyses]
    BY <1>1 DEF Dependents
  <2>2. /\ \A k \in Nat : k <= n => h[k] = f[k]
        /\ h[n + 1] = X
        /\ \A k \in Nat : k > n + 1 => h[k] = {}
    OBVIOUS
  <2> HIDE DEF h
  <2>3. ASSUME NEW k \in Nat
        PROVE  h[k + 1] \subseteq h[k] \cup Dependents(h[k])
    <3>1. CASE k < n
      <4>1. h[k + 1] = f[k + 1] /\ h[k] = f[k]
        BY <2>2, <3>1
      <4> QED
        BY <1>4, <4>1
    <3>2. CASE k = n
      BY <2>2, <3>2
    <3>3. CASE k > n
      BY <2>2, <3>3
    <3> QED
      BY <3>1, <3>2, <3>3
  <2>4. h[0] \subseteq {name}
    BY <1>3, <2>2
  <2>5. h \in Chains
    BY <2>1, <2>3, <2>4
  <2> QED
    BY <1>2, <2>2, <2>5
<1>6. f = [n \in Nat |-> IF n = 0 THEN {name} ELSE f[n - 1] \cup Dependents(f[n - 1])]
  <2>1. ASSUME NEW n \in Nat \ {0}
        PROVE  f[n] = f[n - 1] \cup Dependents(f[n - 1])
    <3>1. n - 1 \in Nat /\ (n - 1) + 1 = n
      OBVIOUS
    <3> QED
      BY <1>4, <1>5, <3>1
  <2> QED
    BY <1>1, <1>3, <2>1
<1>7. Downstream(name) = [n \in Nat |->
          IF n = 0 THEN {name}
          ELSE Downstream(name)[n - 1] \cup Dependents(Downstream(name)[n - 1])]
  BY <1>6 DEF Downstream
<1>8. Downstream(name)[0] = {name}
  BY <1>7
<1>9. ASSUME NEW n \in Nat
      PROVE  Downstream(name)[n + 1] = Downstream(name)[n] \cup Dependents(Downstream(name)[n])
  <2>1. n + 1 \in Nat /\ n + 1 # 0 /\ (n + 1) - 1 = n
    OBVIOUS
  <2> QED
    BY <1>7, <2>1
<1>10. \A n \in Nat : Downstream(name)[n] \subseteq Analyses
  <2> DEFINE T == {n \in Nat : ~(Downstream(name)[n] \subseteq Analyses)}
  <2> SUFFICES ASSUME T # {}
               PROVE  FALSE
    OBVIOUS
  <2>1. PICK k \in T : \A j \in T : k <= j
    BY LeastNat
  <2>2. k \in Nat /\ k # 0
    BY <1>8, <2>1
  <2>3. k - 1 \in Nat /\ (k - 1) + 1 = k /\ ~(k <= k - 1)
    BY <2>2
  <2>4. Downstream(name)[k - 1] \subseteq Analyses
    BY <2>1, <2>3
  <2> QED
    BY <1>9, <2>1, <2>3, <2>4 DEF Dependents
<1> QED
  BY <1>7, <1>8, <1>9, <1>10

\* A reset takes everything downstream along: as many rounds as there are
\* analyses reach it all.
LEMMA DoomedIsClosed ==
    ASSUME NEW name \in Analyses
    PROVE  Doomed(name) \subseteq Analyses /\ Dependents(Doomed(name)) \subseteq Doomed(name)
<1> DEFINE D == Downstream(name)
           Closed(n) == Dependents(D[n]) \subseteq D[n]
           T == {n \in Nat : ~Closed(n) /\ ~(Cardinality(D[n]) >= n + 1)}
<1>1. /\ D \in [Nat -> SUBSET Analyses] /\ D[0] = {name}
      /\ \A n \in Nat : D[n + 1] = D[n] \cup Dependents(D[n])
  BY DownstreamUnfolds
<1>2. Doomed(name) = D[Cardinality(Analyses)] /\ Cardinality(Analyses) \in Nat
  BY DepsAssumption, FS_CardinalityType DEF Doomed
<1> HIDE DEF D
<1>3. \A n \in Nat : /\ IsFiniteSet(D[n]) /\ Cardinality(D[n]) \in Nat
                     /\ Cardinality(D[n]) <= Cardinality(Analyses)
  BY <1>1, DepsAssumption, FS_Subset, FS_CardinalityType
<1>4. T = {}
  <2> SUFFICES ASSUME T # {}
               PROVE  FALSE
    OBVIOUS
  <2>1. PICK k \in T : \A j \in T : k <= j
    BY LeastNat
  <2>2. k \in Nat /\ k # 0
    <3>1. Cardinality(D[0]) = 1
      BY <1>1, FS_Singleton
    <3> QED
      BY <2>1, <3>1
  <2>3. PICK j \in Nat : k = j + 1
    <3>1. k - 1 \in Nat /\ (k - 1) + 1 = k
      BY <2>2
    <3> QED
      BY <3>1
  <2>4. j \notin T
    BY <2>1, <2>3
  <2>5. D[k] = D[j] \cup Dependents(D[j]) /\ ~Closed(k) /\ ~(Cardinality(D[k]) >= k + 1)
    BY <1>1, <2>1, <2>3
  <2>6. CASE Closed(j)
    <3>1. D[k] = D[j]
      BY <2>5, <2>6
    <3> QED
      BY <2>5, <2>6, <3>1
  <2>7. CASE ~Closed(j)
    <3>1. PICK a \in Dependents(D[j]) : a \notin D[j]
      BY <2>7
    <3>2. Cardinality(D[j] \cup {a}) = Cardinality(D[j]) + 1
      BY <1>3, <3>1, FS_AddElement
    <3>3. Cardinality(D[j] \cup {a}) <= Cardinality(D[k])
      BY <1>3, <2>2, <2>5, <3>1, FS_Subset
    <3>4. Cardinality(D[j]) >= j + 1
      BY <2>4, <2>7
    <3>5. Cardinality(D[j]) \in Nat /\ Cardinality(D[k]) \in Nat
      BY <1>3, <2>2
    <3> QED
      BY <2>3, <2>5, <3>2, <3>3, <3>4, <3>5
  <2> QED
    BY <2>6, <2>7
<1>5. Closed(Cardinality(Analyses))
  <2>1. ~(Cardinality(D[Cardinality(Analyses)]) >= Cardinality(Analyses) + 1)
    BY <1>2, <1>3
  <2> QED
    BY <1>2, <1>4, <2>1
<1> QED
  BY <1>1, <1>2, <1>5

-----------------------------------------------------------------------------
(* Dependencies first. *)

Busy == job.step \notin {"idle", "done"}

\* While an ingest runs, the passes before this one are complete, and a pass has
\* nothing that waits for a later one.
PlanInv ==
    /\ Len(plan) \in Nat /\ pass \in 1..Len(plan)
    /\ Busy =>
         /\ \A q \in 1..(pass - 1) : \A a \in plan[q] : ~Pending(a)
         /\ \A q \in 1..Len(plan) : \A a \in plan[q] :
              /\ a \in Analyses
              /\ \A x \in Deps[a] : Pending(x) => \E r \in 1..q : x \in plan[r]

\* Between two saves the disk is as ordered as memory; a save that is under way
\* has written what it is done with from a memory that stands still.
SavedMark(a) == Loadable(a) /\ disk[a].meta.backfilled
SavedInOrder ==
    /\ (\A a \in Analyses : saving[a] = 0) \/ (\A a \in Analyses : saving[a] = 3) =>
         \A a \in Analyses : SavedMark(a) => \A x \in Deps[a] : SavedMark(x)
    /\ \A b \in Analyses : saving[b] > 0 =>
         \A a \in Analyses :
             /\ saving[a] <= 2 => disk[a].hasState
             /\ saving[a] <= 1 => disk[a].hasMeta /\ disk[a].meta.backfilled = prog[a].backfilled

OrderInv == Typed /\ NeverReset /\ PlanInv /\ DependenciesFirst /\ SavedInOrder

\* What keeps an ingest undisturbed: no resets beside it.
Calm == Server => ~BusyResets

\* Only resets and restarts take a mark back, and only a pass gives one.
LEMMA MarksKept ==
    ASSUME Typed, [Next]_vars, ~\E a \in Analyses : ResetAnalysis(a), ~ResetAll, ~Exit, ~Kill
    PROVE  \A a \in Analyses : /\ prog[a].backfilled => prog'[a].backfilled
                               /\ AdvancePass \/ prog'[a].backfilled = prog[a].backfilled
<1>1. CASE prog' = prog
  BY <1>1
<1>2. CASE FoldArchived \/ FoldLive
  <2>1. \E e \in Events : Fold(e)
    BY <1>2 DEF FoldArchived, FoldLive, Typed, JobType
  <2> QED
    BY <2>1, FoldFacts
<1>3. CASE EndGroup
  <2>1. PICK g \in SUBSET Files : g = job.group
    BY DEF Typed, JobType
  <2>2. prog' = prog \/ prog' = FinishFiles(g)
    BY <1>3, <2>1 DEF EndGroup
  <2>3. \A a \in Analyses : FinishFiles(g)[a].backfilled = prog[a].backfilled
    BY FinishFacts
  <2> QED
    BY <1>1, <2>2, <2>3
<1>4. CASE AdvancePass
  BY <1>4, MarkFacts DEF AdvancePass
<1>5. CASE \/ \E a \in Analyses : SaveFile(a)
           \/ CancelIngest \/ RequestResetAll \/ ResetAllWaited \/ PersistFails \/ Idle
           \/ UNCHANGED vars
  BY <1>1, <1>5 DEF SaveFile, CancelIngest, RequestResetAll, ResetAllWaited, PersistFails, Idle,
                    vars, analysisVars
<1>6. CASE (\E index \in BOOLEAN : StartIngest(index)) \/ StartRebuild
  BY <1>1, <1>6 DEF StartIngest, StartRebuild, analysisVars
<1>7. CASE StartPass
  BY <1>1, <1>7 DEF StartPass, analysisVars
<1>8. CASE StartGroup
  BY <1>1, <1>8 DEF StartGroup, analysisVars
<1>9. CASE GoLive \/ Finish
  BY <1>1, <1>9 DEF GoLive, Finish
<1> QED
  BY <1>2, <1>3, <1>4, <1>5, <1>6, <1>7, <1>8, <1>9 DEF Next, IngestStep

LEMMA PlanKept ==
    ASSUME PlanInv, UNCHANGED <<plan, pass>>, Busy' => Busy,
           \A a \in Analyses : prog[a].backfilled => prog'[a].backfilled
    PROVE  PlanInv'
<1>1. CASE ~Busy'
  BY <1>1 DEF PlanInv
<1>2. CASE Busy'
  <2>1. ASSUME NEW q \in 1..Len(plan), NEW a \in plan[q]
        PROVE  /\ a \in Analyses
               /\ q \in 1..(pass - 1) => prog'[a].backfilled
               /\ \A x \in Deps[a] : ~prog'[x].backfilled => \E r \in 1..q : x \in plan[r]
    <3>1. /\ a \in Analyses /\ (q \in 1..(pass - 1) => prog[a].backfilled)
          /\ \A x \in Deps[a] : ~prog[x].backfilled => \E r \in 1..q : x \in plan[r]
      BY <1>2, <2>1 DEF PlanInv, Pending
    <3>2. Deps[a] \subseteq Analyses
      BY <3>1, ConstantsAssumption
    <3> QED
      BY <3>1, <3>2
  <2>2. pass \in 1..Len(plan) /\ Len(plan) \in Nat
    BY DEF PlanInv
  <2>3. \A q \in 1..(pass - 1) : q \in 1..Len(plan)
    BY <2>2
  <2> QED
    BY <2>1, <2>2, <2>3 DEF PlanInv, Pending
<1> QED
  BY <1>1, <1>2

LEMMA PlanBegins ==
    ASSUME NEW index, Begin(index), prog' = prog
    PROVE  PlanInv'
<1>1. pass' = 1 /\ (plan' = Stages \/ plan' = ReplayPlan)
  BY DEF Begin
<1>2. CASE plan' = Stages
  <2>1. \A n \in 1..Len(Stages) : \A a \in Stages[n] :
           a \in Analyses /\ \A x \in Deps[a] : \E r \in 1..n : x \in Stages[r]
    <3> SUFFICES ASSUME NEW n \in 1..Len(Stages), NEW a \in Stages[n]
                 PROVE  a \in Analyses /\ \A x \in Deps[a] : \E r \in 1..n : x \in Stages[r]
      OBVIOUS
    <3>1. a \in Analyses /\ \A x \in Deps[a] : \E r \in 1..(n - 1) : x \in Stages[r]
      BY StagesAreOrdered
    <3>2. \A r \in 1..(n - 1) : r \in 1..n
      BY StagesAreOrdered
    <3> QED
      BY <3>1, <3>2
  <2> QED
    BY <1>1, <1>2, <2>1, StagesAreOrdered DEF PlanInv
<1>3. CASE plan' = ReplayPlan
  BY <1>1, <1>3, ReplayIsOrdered DEF PlanInv, Pending
<1> QED
  BY <1>1, <1>2, <1>3

LEMMA PlanAdvances ==
    ASSUME Typed, PlanInv, AdvancePass
    PROVE  PlanInv'
<1>1. /\ plan' = plan /\ prog' = MarkBackfilled /\ Busy
      /\ IF pass < Len(plan) THEN pass' = pass + 1 ELSE pass' = pass
  BY DEF AdvancePass, NextPass, Busy
<1>2. pass \in 1..Len(plan) /\ Len(plan) \in Nat
  BY DEF PlanInv
<1>3. pass' \in 1..Len(plan) /\ \A q \in 1..(pass' - 1) : q \in 1..Len(plan) /\ (q \in 1..(pass - 1) \/ q = pass)
  BY <1>1, <1>2
<1>4. ASSUME NEW q \in 1..Len(plan), NEW a \in plan[q]
      PROVE  /\ a \in Analyses
             /\ q \in 1..(pass - 1) \/ q = pass => prog'[a].backfilled
             /\ \A x \in Deps[a] : ~prog'[x].backfilled => \E r \in 1..q : x \in plan[r]
  <2>1. /\ a \in Analyses /\ (q \in 1..(pass - 1) => prog[a].backfilled)
        /\ \A x \in Deps[a] : ~prog[x].backfilled => \E r \in 1..q : x \in plan[r]
    BY <1>1, <1>4 DEF PlanInv, Pending
  <2>2. Deps[a] \subseteq Analyses
    BY <2>1, ConstantsAssumption
  <2>3. \A x \in Analyses : prog[x].backfilled \/ x \in plan[pass] => prog'[x].backfilled
    BY <1>1, MarkFacts
  <2> QED
    BY <2>1, <2>2, <2>3
<1> QED
  BY <1>1, <1>2, <1>3, <1>4 DEF PlanInv, Pending

LEMMA PlanStep ==
    ASSUME Typed, NeverReset, PlanInv, [Next]_vars, Calm
    PROVE  PlanInv'
<1>1. CASE (\E a \in Analyses : ResetAnalysis(a)) \/ ResetAll
  <2>1. job' = job /\ job.step = "idle" /\ UNCHANGED <<plan, pass>>
    BY <1>1 DEF ResetAnalysis, ResetAll, NeverReset, Calm, pipeVars
  <2> QED
    BY <2>1 DEF PlanInv, Busy
<1>2. CASE Exit \/ Kill
  <2>1. job'.step = "idle" /\ plan' = Stages /\ pass' = 1
    BY <1>2 DEF Exit, Kill, Restart, NoJob
  <2> QED
    BY <2>1, StagesAreOrdered DEF PlanInv, Busy
<1>3. CASE (\E index \in BOOLEAN : StartIngest(index)) \/ StartRebuild
  <2>1. prog' = prog /\ ((\E index : Begin(index)) \/ UNCHANGED <<plan, pass, job>>)
    BY <1>3 DEF StartIngest, StartRebuild, analysisVars
  <2>2. CASE UNCHANGED <<plan, pass, job>>
    BY <2>1, <2>2, PlanKept DEF Busy
  <2> QED
    BY <2>1, <2>2, PlanBegins
<1>4. CASE AdvancePass
  BY <1>4, PlanAdvances
<1>5. CASE \/ \E a \in Analyses : SaveFile(a)
           \/ CancelIngest \/ RequestResetAll \/ ResetAllWaited \/ Idle \/ UNCHANGED vars
  <2>1. prog' = prog /\ UNCHANGED <<plan, pass>> /\ (Busy' => Busy)
    BY <1>5 DEF SaveFile, CancelIngest, RequestResetAll, ResetAllWaited, Idle, vars, pipeVars,
                analysisVars, Busy
  <2> QED
    BY <2>1, PlanKept
<1>6. ASSUME FoldArchived \/ FoldLive \/ EndGroup \/ StartPass \/ StartGroup \/ GoLive \/ Finish \/ PersistFails
      PROVE  UNCHANGED <<plan, pass>> /\ (Busy' => Busy)
  <2>1. CASE FoldArchived \/ FoldLive \/ EndGroup
    BY <2>1 DEF FoldArchived, FoldLive, EndGroup, pipeVars, Busy
  <2>2. CASE StartPass
    BY <2>2 DEF StartPass, pipeVars, Busy
  <2>3. CASE StartGroup
    BY <2>3 DEF StartGroup, pipeVars, Busy
  <2>4. CASE GoLive \/ Finish
    BY <2>4, JobEnds DEF GoLive, Finish, Busy
  <2>5. CASE PersistFails
    BY <2>5, JobEnds DEF PersistFails, pipeVars, Busy
  <2> QED
    BY <1>6, <2>1, <2>2, <2>3, <2>4, <2>5
<1>7. ASSUME ~\E a \in Analyses : ResetAnalysis(a), ~ResetAll, ~Exit, ~Kill
      PROVE  \A a \in Analyses : prog[a].backfilled => prog'[a].backfilled
  BY <1>7, MarksKept
<1>8. ASSUME ~\E a \in Analyses : ResetAnalysis(a), ~ResetAll, ~Exit, ~Kill,
             FoldArchived \/ FoldLive \/ EndGroup \/ StartPass \/ StartGroup \/ GoLive \/ Finish \/ PersistFails
      PROVE  PlanInv'
  BY <1>6, <1>7, <1>8, PlanKept
<1> QED
  BY <1>1, <1>2, <1>3, <1>4, <1>5, <1>8 DEF Next, IngestStep

\* What a process loads is as ordered as what was saved.
LEMMA LoadedInOrder ==
    ASSUME Typed, SavedInOrder, Restart, \A a \in Analyses : saving[a] = 0
    PROVE  DependenciesFirst'
<1>1. \A a \in Analyses : prog'[a].backfilled <=> SavedMark(a)
  <2> SUFFICES ASSUME NEW a \in Analyses
               PROVE  prog'[a].backfilled <=> SavedMark(a)
    OBVIOUS
  <2>1. prog'[a] = LoadedProgress(a)
    BY DEF Restart
  <2>2. CASE Loadable(a)
    BY <2>1, <2>2, LoadedFacts DEF SavedMark
  <2>3. CASE ~Loadable(a)
    BY <2>1, <2>3, LoadedFacts DEF SavedMark, Fresh
  <2> QED
    BY <2>2, <2>3
<1>2. \A a \in Analyses : SavedMark(a) => \A x \in Deps[a] : x \in Analyses /\ SavedMark(x)
  BY ConstantsAssumption DEF SavedInOrder
<1> QED
  BY <1>1, <1>2 DEF DependenciesFirst

LEMMA DependStep ==
    ASSUME Typed, NeverReset, PlanInv, DependenciesFirst, [Next]_vars, ~Exit, ~Kill
    PROVE  DependenciesFirst'
<1>0. \A a \in Analyses : prog[a].backfilled => \A x \in Deps[a] : x \in Analyses /\ prog[x].backfilled
  BY ConstantsAssumption DEF DependenciesFirst
<1>1. ASSUME NEW name \in Analyses, Empty(Doomed(name))
      PROVE  DependenciesFirst'
  <2>1. \A a \in Analyses : prog'[a] = IF a \in Doomed(name) THEN Fresh ELSE prog[a]
    BY <1>1 DEF Empty
  <2>2. \A a \in Analyses : a \notin Doomed(name) => \A x \in Deps[a] : x \notin Doomed(name)
    BY DoomedIsClosed DEF Dependents
  <2>3. ~Fresh.backfilled
    BY DEF Fresh
  <2> QED
    BY <1>0, <2>1, <2>2, <2>3 DEF DependenciesFirst
<1>2. CASE \E a \in Analyses : ResetAnalysis(a)
  BY <1>1, <1>2 DEF ResetAnalysis
<1>3. CASE ResetAll
  <2>1. \A a \in Analyses : ~prog'[a].backfilled
    BY <1>3 DEF ResetAll, EmptyAll, Empty, Fresh
  <2> QED
    BY <2>1 DEF DependenciesFirst
<1>5. CASE AdvancePass
  <2> SUFFICES ASSUME NEW a \in Analyses, prog'[a].backfilled, NEW x \in Deps[a]
               PROVE  prog'[x].backfilled
    BY DEF DependenciesFirst
  <2>1. x \in Analyses /\ (prog[x].backfilled \/ x \in plan[pass] => prog'[x].backfilled)
    BY <1>5, MarkFacts, ConstantsAssumption DEF AdvancePass
  <2>2. CASE prog[a].backfilled
    BY <1>0, <2>1, <2>2
  <2>3. CASE ~prog[a].backfilled
    <3>1. a \in plan[pass]
      BY <1>5, <2>3, MarkFacts DEF AdvancePass
    <3>2. Busy /\ pass \in 1..Len(plan) /\ Len(plan) \in Nat
      BY <1>5 DEF AdvancePass, PlanInv, Busy
    <3>3. ~prog[x].backfilled => \E r \in 1..pass : x \in plan[r]
      BY <3>1, <3>2 DEF PlanInv, Pending
    <3>4. \A r \in 1..pass : x \in plan[r] => r = pass \/ prog[x].backfilled
      <4> SUFFICES ASSUME NEW r \in 1..pass, x \in plan[r], r # pass
                   PROVE  prog[x].backfilled
        OBVIOUS
      <4>1. r \in 1..(pass - 1)
        BY <3>2
      <4> QED
        BY <3>2, <4>1 DEF PlanInv, Pending
    <3> QED
      BY <2>1, <3>3, <3>4
  <2> QED
    BY <2>2, <2>3
<1> QED
  <2> SUFFICES ASSUME ~\E a \in Analyses : ResetAnalysis(a), ~ResetAll, ~AdvancePass
               PROVE  DependenciesFirst'
    BY <1>2, <1>3, <1>5
  <2>1. \A a \in Analyses : prog'[a].backfilled = prog[a].backfilled
    BY MarksKept
  <2> QED
    BY <1>0, <2>1 DEF DependenciesFirst

\* A step under the lock starts a save at most; one without it saves nothing.
LEMMA SavedUntouched ==
    ASSUME SavedInOrder, disk' = disk,
           (\A a \in Analyses : saving[a] = 0) \/ (\A a \in Analyses : saving[a] = 3),
           (\A a \in Analyses : saving'[a] = 0) \/ (\A a \in Analyses : saving'[a] = 3)
    PROVE  SavedInOrder'
<1>1. \A a \in Analyses : SavedMark(a)' = SavedMark(a)
  BY DEF SavedMark, Loadable
<1>2. \A a \in Analyses : SavedMark(a) => \A x \in Deps[a] : x \in Analyses /\ SavedMark(x)
  BY ConstantsAssumption DEF SavedInOrder
<1>3. ASSUME NEW b \in Analyses, saving'[b] > 0, NEW a \in Analyses
      PROVE  saving'[a] = 3
  BY <1>3
<1> QED
  BY <1>1, <1>2, <1>3 DEF SavedInOrder

LEMMA SavedSame ==
    ASSUME SavedInOrder, UNCHANGED <<prog, disk, saving>>
    PROVE  SavedInOrder'
BY DEF SavedInOrder, SavedMark, Loadable

LEMMA SavedWritten ==
    ASSUME Typed, SavedInOrder, DependenciesFirst, NEW b \in Analyses, SaveFile(b)
    PROVE  SavedInOrder'
<1>1. PICK n \in 1..3 : n = saving[b]
  BY DEF SaveFile, Typed
<1>2. /\ disk' = [disk EXCEPT ![b] = Saved(b, n)] /\ saving' = [saving EXCEPT ![b] = n - 1]
      /\ prog' = prog
  BY <1>1 DEF SaveFile, analysisVars
<1>3. /\ saving \in [Analyses -> 0..3] /\ disk \in [Analyses -> DiskType]
      /\ \A a \in Analyses : disk[a] \in DiskType /\ prog[a] \in ProgressType
  BY DEF Typed
<1>4. ASSUME NEW a \in Analyses
      PROVE  /\ saving'[a] <= 2 => disk'[a].hasState
             /\ saving'[a] <= 1 => disk'[a].hasMeta /\ disk'[a].meta.backfilled = prog[a].backfilled
  <2>1. /\ saving[a] <= 2 => disk[a].hasState
        /\ saving[a] <= 1 => disk[a].hasMeta /\ disk[a].meta.backfilled = prog[a].backfilled
    BY <1>1 DEF SavedInOrder
  <2>2. CASE a # b
    BY <1>2, <1>3, <2>1, <2>2
  <2>3. CASE a = b /\ n = 3
    <3>1. disk'[a] = WithState(disk[a], a) /\ saving'[a] = 2
      BY <1>2, <1>3, <2>3 DEF Saved
    <3> QED
      BY <1>3, <3>1 DEF WithState, DiskType
  <2>4. CASE a = b /\ n = 2
    <3>1. disk'[a] = WithMeta(disk[a], a) /\ saving'[a] = 1
      BY <1>2, <1>3, <2>4 DEF Saved
    <3>2. PICK meta \in MetaType : meta = MetaOf(prog[a]) /\ meta.backfilled = prog[a].backfilled
      BY <1>3, MetaFacts
    <3>3. disk'[a].hasState = disk[a].hasState /\ disk'[a].hasMeta /\ disk'[a].meta = meta
      BY <1>3, <3>1, <3>2 DEF WithMeta, DiskType
    <3> QED
      BY <1>1, <2>1, <2>4, <3>2, <3>3
  <2>5. CASE a = b /\ n = 1
    <3>1. disk'[a] = WithBoundary(disk[a], a)
      BY <1>2, <1>3, <2>5, SavedFacts
    <3>2. /\ disk'[a].hasState = disk[a].hasState /\ disk'[a].hasMeta = disk[a].hasMeta
          /\ disk'[a].meta = disk[a].meta
      BY <1>3, <3>1 DEF WithBoundary, DiskType
    <3> QED
      BY <1>1, <2>1, <2>5, <3>2
  <2> QED
    BY <1>1, <2>2, <2>3, <2>4, <2>5
<1>5. ASSUME \A a \in Analyses : saving'[a] = 0
      PROVE  \A a \in Analyses : SavedMark(a)' => \A x \in Deps[a] : SavedMark(x)'
  <2>1. \A a \in Analyses : SavedMark(a)' <=> prog[a].backfilled
    BY <1>4, <1>5 DEF SavedMark, Loadable
  <2> QED
    BY <2>1, ConstantsAssumption DEF DependenciesFirst
<1>6. ~\A a \in Analyses : saving'[a] = 3
  BY <1>1, <1>2, <1>3
<1> QED
  BY <1>2, <1>4, <1>5, <1>6 DEF SavedInOrder

LEMMA SavedStep ==
    ASSUME OrderInv, [Next]_vars, ~TornSaves
    PROVE  SavedInOrder'
<1> USE DEF OrderInv
<1>1. ASSUME Unlocked, disk' = disk, saving' = saving \/ Persist
      PROVE  SavedInOrder'
  <2>1. \A a \in Analyses : saving[a] = 0
    BY <1>1, UnlockedFacts
  <2>2. (\A a \in Analyses : saving'[a] = 0) \/ (\A a \in Analyses : saving'[a] = 3)
    BY <1>1, <2>1 DEF Persist
  <2> QED
    BY <1>1, <2>1, <2>2, SavedUntouched
<1>2. CASE \E a \in Analyses : SaveFile(a)
  BY <1>2, SavedWritten
<1>3. CASE (\E a \in Analyses : ResetAnalysis(a)) \/ ResetAll
  BY <1>1, <1>3 DEF ResetAnalysis, ResetAll, EmptyAll, Empty
<1>4. CASE FoldArchived \/ FoldLive
  BY <1>1, <1>4, SaveStarts DEF FoldArchived, FoldLive
<1>5. CASE EndGroup \/ AdvancePass
  BY <1>1, <1>5 DEF EndGroup, AdvancePass
<1>6. CASE GoLive \/ Finish
  BY <1>1, <1>6, SaveStarts DEF GoLive, Finish
<1>7. CASE Exit \/ Kill
  <2>1. Restart /\ disk' = disk /\ \A a \in Analyses : saving[a] = 0
    BY <1>7 DEF Exit, Kill, Flushed
  <2>2. (\A a \in Analyses : saving'[a] = 0) \/ (\A a \in Analyses : saving'[a] = 3)
    BY <2>1 DEF Restart
  <2> QED
    BY <2>1, <2>2, SavedUntouched
<1>8. CASE PersistFails
  BY <1>8, SavedUntouched DEF PersistFails
<1>9. CASE (\E index \in BOOLEAN : StartIngest(index)) \/ StartRebuild
  BY <1>9, SavedSame DEF StartIngest, StartRebuild, analysisVars
<1>10. CASE StartPass
  BY <1>10, SavedSame DEF StartPass, analysisVars
<1>11. CASE StartGroup
  BY <1>11, SavedSame DEF StartGroup, analysisVars
<1>12. CASE CancelIngest \/ RequestResetAll \/ ResetAllWaited \/ Idle \/ UNCHANGED vars
  BY <1>12, SavedSame DEF CancelIngest, RequestResetAll, ResetAllWaited, Idle, vars, analysisVars
<1> QED
  BY <1>2, <1>3, <1>4, <1>5, <1>6, <1>7, <1>8, <1>9, <1>10, <1>11, <1>12 DEF Next, IngestStep

LEMMA OrderInit ==
    ASSUME Init
    PROVE  OrderInv
<1>1. Typed /\ NeverReset
  BY StatsInit DEF StatsInv
<1>2. PlanInv
  BY StagesAreOrdered DEF Init, PlanInv, Busy, NoJob
<1>3. DependenciesFirst
  BY DEF Init, Fresh, DependenciesFirst
<1>4. SavedInOrder
  <2>1. \A a \in Analyses : ~SavedMark(a)
    BY DEF Init, SavedMark, Loadable
  <2>2. \A b \in Analyses : saving[b] > 0 => \A a \in Analyses : saving[a] = 3
    BY DEF Init
  <2> QED
    BY <2>1, <2>2 DEF SavedInOrder
<1> QED
  BY <1>1, <1>2, <1>3, <1>4 DEF OrderInv

LEMMA OrderStep ==
    ASSUME OrderInv, [Next]_vars, Calm, ~TornSaves
    PROVE  OrderInv'
<1>1. CASE Exit \/ Kill
  <2>1. Restart /\ \A a \in Analyses : saving[a] = 0
    BY <1>1 DEF Exit, Kill, Flushed
  <2> QED
    BY <2>1, LoadedInOrder, TypedStep, ResetStep, PlanStep, SavedStep DEF OrderInv
<1>2. CASE ~Exit /\ ~Kill
  BY <1>2, TypedStep, ResetStep, PlanStep, DependStep, SavedStep DEF OrderInv
<1> QED
  BY <1>1, <1>2

(* A save that is torn leaves some analyses as they were before it.  That is in *)
(* order still if persist saves those an analysis reads before it, and if       *)
(* nothing takes a mark back.                                                   *)

\* Analyses are registered, and saved, behind those they read.
SavedInTurn == \A a \in Analyses : \A x \in Deps[a] : x < a

\* At every moment the disk is in order, and claims no more than memory.
TurnInv ==
    /\ \A a \in Analyses : SavedMark(a) => prog[a].backfilled /\ \A x \in Deps[a] : SavedMark(x)
    /\ \A b \in Analyses : saving[b] > 0 =>
         \A a \in Analyses :
             /\ saving[a] <= 2 => disk[a].hasState
             /\ saving[a] <= 1 => disk[a].hasMeta /\ disk[a].meta.backfilled = prog[a].backfilled

TornOrderInv == StatsInv /\ PlanInv /\ DependenciesFirst /\ TurnInv

LEMMA TurnKept ==
    ASSUME TurnInv, disk' = disk, \A a \in Analyses : prog[a].backfilled => prog'[a].backfilled,
           \/ \A a \in Analyses : saving'[a] = 0
           \/ \A a \in Analyses : saving'[a] = 3
           \/ UNCHANGED <<prog, saving>>
    PROVE  TurnInv'
<1>1. \A a \in Analyses : SavedMark(a)' = SavedMark(a)
  BY DEF SavedMark, Loadable
<1>2. ASSUME NEW a \in Analyses, SavedMark(a)
      PROVE  prog'[a].backfilled /\ \A x \in Deps[a] : x \in Analyses /\ SavedMark(x)
  BY <1>2, ConstantsAssumption DEF TurnInv
<1>3. ASSUME UNCHANGED <<prog, saving>>
      PROVE  TurnInv'
  BY <1>3 DEF TurnInv, SavedMark, Loadable
<1>4. ASSUME (\A a \in Analyses : saving'[a] = 0) \/ (\A a \in Analyses : saving'[a] = 3)
      PROVE  TurnInv'
  <2>1. \A b, a \in Analyses : saving'[b] > 0 => saving'[a] = 3
    BY <1>4
  <2> QED
    BY <1>1, <1>2, <2>1 DEF TurnInv
<1> QED
  BY <1>3, <1>4

LEMMA TurnWritten ==
    ASSUME Typed, TurnInv, DependenciesFirst, SavedInTurn, NEW b \in Analyses, SaveFile(b),
           disk[b].hasMeta => disk[b].hasState
    PROVE  TurnInv'
<1>1. PICK n \in 1..3 : n = saving[b]
  BY DEF SaveFile, Typed
<1>2. /\ disk' = [disk EXCEPT ![b] = Saved(b, n)] /\ saving' = [saving EXCEPT ![b] = n - 1]
      /\ prog' = prog /\ \A a \in Analyses : a < b => saving[a] = 0
  BY <1>1 DEF SaveFile, analysisVars
<1>3. /\ saving \in [Analyses -> 0..3] /\ disk \in [Analyses -> DiskType]
      /\ \A a \in Analyses : disk[a] \in DiskType /\ prog[a] \in ProgressType
  BY DEF Typed
<1>4. \A a \in Analyses :
        /\ saving[a] <= 2 => disk[a].hasState
        /\ saving[a] <= 1 => disk[a].hasMeta /\ disk[a].meta.backfilled = prog[a].backfilled
  BY <1>1 DEF TurnInv
<1>5. \A a \in Analyses : a # b => disk'[a] = disk[a] /\ saving'[a] = saving[a]
  BY <1>2, <1>3
<1>6. disk'[b] = Saved(b, n) /\ saving'[b] = n - 1
  BY <1>2, <1>3
<1>7. /\ disk'[b].hasState
      /\ n = 3 => disk'[b].hasMeta = disk[b].hasMeta /\ disk'[b].meta = disk[b].meta
      /\ n <= 2 => disk'[b].hasMeta /\ disk'[b].meta.backfilled = prog[b].backfilled
  <2>1. CASE n = 3
    <3>1. disk'[b] = WithState(disk[b], b)
      BY <1>6, <2>1, SavedFacts
    <3> QED
      BY <1>3, <2>1, <3>1 DEF WithState, DiskType
  <2>2. CASE n = 2
    <3>1. disk'[b] = WithMeta(disk[b], b)
      BY <1>6, <2>2, SavedFacts
    <3>2. PICK meta \in MetaType : meta = MetaOf(prog[b]) /\ meta.backfilled = prog[b].backfilled
      BY <1>3, MetaFacts
    <3>3. disk'[b].hasState = disk[b].hasState /\ disk'[b].hasMeta /\ disk'[b].meta = meta
      BY <1>3, <3>1, <3>2 DEF WithMeta, DiskType
    <3>4. n # 3 /\ saving[b] <= 2
      BY <1>1, <2>2
    <3>5. disk[b].hasState
      BY <1>4, <3>4, Zenon
    <3> QED
      BY <3>2, <3>3, <3>4, <3>5, Zenon
  <2>3. CASE n = 1
    <3>1. disk'[b] = WithBoundary(disk[b], b)
      BY <1>6, <2>3, SavedFacts
    <3>2. /\ disk'[b].hasState = disk[b].hasState /\ disk'[b].hasMeta = disk[b].hasMeta
          /\ disk'[b].meta = disk[b].meta
      BY <1>3, <3>1 DEF WithBoundary, DiskType
    <3>3. n # 3 /\ saving[b] <= 2 /\ saving[b] <= 1
      BY <1>1, <2>3
    <3>4. disk[b].hasState /\ disk[b].hasMeta /\ disk[b].meta.backfilled = prog[b].backfilled
      BY <1>4, <3>3, Zenon
    <3> QED
      BY <3>2, <3>3, <3>4, Zenon
  <2> QED
    BY <2>1, <2>2, <2>3
<1>8. \A a \in Analyses : a # b => SavedMark(a)' = SavedMark(a)
  BY <1>5 DEF SavedMark, Loadable
<1>9. /\ n = 3 => (SavedMark(b)' <=> SavedMark(b))
      /\ n <= 2 => (SavedMark(b)' <=> prog[b].backfilled)
  BY <1>7 DEF SavedMark, Loadable
<1>10. \A a \in Analyses : SavedMark(a) =>
         prog[a].backfilled /\ \A x \in Deps[a] : x \in Analyses /\ SavedMark(x)
  BY ConstantsAssumption DEF TurnInv
<1>11. \A a \in Analyses : SavedMark(a) => SavedMark(a)'
  BY <1>8, <1>9, <1>10
<1>12. ASSUME n <= 2, prog[b].backfilled, NEW x \in Deps[b]
       PROVE  SavedMark(x)'
  <2>1. x \in Analyses /\ x < b /\ prog[x].backfilled /\ x # b
    BY <1>12, ConstantsAssumption DEF SavedInTurn, DependenciesFirst
  <2>2. saving[x] = 0
    BY <1>2, <2>1
  <2>3. SavedMark(x)
    BY <1>4, <2>1, <2>2 DEF SavedMark, Loadable
  <2> QED
    BY <1>11, <2>1, <2>3
<1>13. ASSUME NEW a \in Analyses, SavedMark(a)'
       PROVE  prog'[a].backfilled /\ \A x \in Deps[a] : SavedMark(x)'
  <2>1. CASE SavedMark(a)
    BY <1>2, <1>10, <1>11, <2>1
  <2>2. CASE ~SavedMark(a)
    <3>1. a = b /\ n <= 2 /\ prog[b].backfilled
      BY <1>8, <1>9, <1>13, <2>2
    <3> QED
      BY <1>2, <1>12, <3>1
  <2> QED
    BY <2>1, <2>2
<1>14. ASSUME NEW a \in Analyses
       PROVE  /\ saving'[a] <= 2 => disk'[a].hasState
              /\ saving'[a] <= 1 => disk'[a].hasMeta /\ disk'[a].meta.backfilled = prog[a].backfilled
  BY <1>4, <1>5, <1>6, <1>7
<1> QED
  BY <1>2, <1>13, <1>14 DEF TurnInv

\* A process loads what was saved, in whatever state a kill has left it.
LEMMA TurnRestart ==
    ASSUME Typed, TurnInv, Restart, disk' = disk
    PROVE  TurnInv' /\ DependenciesFirst'
<1>1. \A a \in Analyses : prog'[a] = LoadedProgress(a)
  BY DEF Restart
<1>2. ASSUME NEW a \in Analyses
      PROVE  prog'[a].backfilled <=> SavedMark(a)
  <2>1. CASE Loadable(a)
    BY <1>1, <2>1, LoadedFacts DEF SavedMark
  <2>2. CASE ~Loadable(a)
    BY <1>1, <2>2, LoadedFacts DEF SavedMark, Fresh
  <2> QED
    BY <2>1, <2>2
<1>3. \A a \in Analyses : SavedMark(a)' = SavedMark(a)
  BY DEF SavedMark, Loadable
<1>4. \A a \in Analyses : SavedMark(a) => \A x \in Deps[a] : x \in Analyses /\ SavedMark(x)
  BY ConstantsAssumption DEF TurnInv
<1>5. \A a, b \in Analyses : saving'[b] > 0 => saving'[a] = 3
  BY DEF Restart
<1> QED
  BY <1>2, <1>3, <1>4, <1>5 DEF TurnInv, DependenciesFirst

LEMMA TurnStep ==
    ASSUME StatsInv, TurnInv, DependenciesFirst, [Next]_vars, SavedInTurn, ~Server \/ MaxResets = 0
    PROVE  TurnInv'
<1> USE DEF StatsInv
<1>0. (\A a \in Analyses : ~ResetAnalysis(a)) /\ ~ResetAll
  BY DEF ResetAnalysis, ResetAll, NeverReset
<1>2. ASSUME NEW b \in Analyses, SaveFile(b)
      PROVE  TurnInv'
  BY <1>2, TurnWritten DEF SavedIsHonest
<1>3. CASE Exit \/ Kill
  BY <1>3, TurnRestart DEF Exit, Kill
<1>4. ASSUME ~Exit, ~Kill, disk' = disk, saving' = saving \/ Persist, Unlocked
      PROVE  TurnInv'
  <2>1. \A a \in Analyses : prog[a].backfilled => prog'[a].backfilled
    BY <1>0, <1>4, MarksKept
  <2>2. \A a \in Analyses : saving[a] = 0
    BY <1>4, UnlockedFacts
  <2>3. (\A a \in Analyses : saving'[a] = 0) \/ (\A a \in Analyses : saving'[a] = 3)
    BY <1>4, <2>2 DEF Persist
  <2> QED
    BY <1>4, <2>1, <2>3, TurnKept
<1>5. CASE ~Exit /\ ~Kill /\ (FoldArchived \/ FoldLive)
  BY <1>4, <1>5, SaveStarts DEF FoldArchived, FoldLive
<1>6. CASE ~Exit /\ ~Kill /\ (EndGroup \/ AdvancePass)
  BY <1>4, <1>6 DEF EndGroup, AdvancePass
<1>7. CASE ~Exit /\ ~Kill /\ (GoLive \/ Finish)
  BY <1>4, <1>7, SaveStarts DEF GoLive, Finish
<1>8. CASE PersistFails
  <2>1. disk' = disk /\ prog' = prog /\ \A a \in Analyses : saving'[a] = 0
    BY <1>8 DEF PersistFails, analysisVars
  <2> QED
    BY <2>1, TurnKept
<1>9. ASSUME UNCHANGED <<prog, disk, saving>>
      PROVE  TurnInv'
  BY <1>9, TurnKept
<1>10. CASE (\E index \in BOOLEAN : StartIngest(index)) \/ StartRebuild
  BY <1>9, <1>10 DEF StartIngest, StartRebuild, analysisVars
<1>11. CASE StartPass
  BY <1>9, <1>11 DEF StartPass, analysisVars
<1>12. CASE StartGroup
  BY <1>9, <1>12 DEF StartGroup, analysisVars
<1>13. CASE CancelIngest \/ RequestResetAll \/ ResetAllWaited \/ Idle \/ UNCHANGED vars
  BY <1>9, <1>13 DEF CancelIngest, RequestResetAll, ResetAllWaited, Idle, vars, analysisVars
<1> QED
  BY <1>0, <1>2, <1>3, <1>5, <1>6, <1>7, <1>8, <1>10, <1>11, <1>12, <1>13 DEF Next, IngestStep

\* No analysis is complete while one it reads is not (registry.rs, reset and
\* stages), if no reset comes in the middle of an ingest or is torn, and if saves
\* that are torn come in the order of the registry.
THEOREM DependenciesComeFirst ==
    Spared /\ (TornSaves => SavedInTurn) => (Spec => []DependenciesFirst)
<1> SUFFICES ASSUME Spared, TornSaves => SavedInTurn
             PROVE  Spec => []DependenciesFirst
  OBVIOUS
<1>0. Calm /\ (TornSaves => SavedInTurn /\ (~Server \/ MaxResets = 0))
  BY ConstantsAssumption DEF Spared, Calm
<1>1. CASE ~TornSaves
  <2>1. OrderInv /\ [Next]_vars => OrderInv'
    BY <1>0, <1>1, OrderStep
  <2>2. OrderInv => DependenciesFirst
    BY DEF OrderInv
  <2> QED
    BY <2>1, <2>2, OrderInit, PTL DEF Spec
<1>2. CASE TornSaves
  <2>1. TornOrderInv /\ [Next]_vars => TornOrderInv'
    <3> SUFFICES ASSUME TornOrderInv, [Next]_vars
                 PROVE  TornOrderInv'
      OBVIOUS
    <3> USE DEF TornOrderInv
    <3>1. StatsInv'
      BY TypedStep, MemoryStep, PassStep, DiskStep, ResetStep DEF StatsInv
    <3>2. PlanInv'
      BY <1>0, PlanStep DEF StatsInv
    <3>3. TurnInv'
      BY <1>0, <1>2, TurnStep
    <3>4. DependenciesFirst'
      <4>1. CASE Exit \/ Kill
        BY <4>1, TurnRestart DEF StatsInv, Exit, Kill
      <4>2. CASE ~Exit /\ ~Kill
        BY <4>2, DependStep DEF StatsInv
      <4> QED
        BY <4>1, <4>2
    <3> QED
      BY <3>1, <3>2, <3>3, <3>4
  <2>2. Init => TornOrderInv
    <3> SUFFICES ASSUME Init
                 PROVE  TornOrderInv
      OBVIOUS
    <3>1. StatsInv /\ PlanInv /\ DependenciesFirst
      BY StatsInit, OrderInit DEF OrderInv
    <3>2. (\A a \in Analyses : ~SavedMark(a)) /\ \A a, b \in Analyses : saving[b] > 0 => saving[a] = 3
      BY DEF Init, SavedMark, Loadable
    <3> QED
      BY <3>1, <3>2 DEF TornOrderInv, TurnInv
  <2>3. TornOrderInv => DependenciesFirst
    BY DEF TornOrderInv
  <2> QED
    BY <2>1, <2>2, <2>3, PTL DEF Spec
<1> QED
  BY <1>1, <1>2

-----------------------------------------------------------------------------
(* The ingest binary.                                                        *)

\* It indexes in every pass plan it makes, goes live when its ingest ends, and a
\* pass that is behind it has left the world of its analyses complete.
Complete(a) == Corpus \cap Wants[a] \subseteq world[a]
WorldInv ==
    /\ plan = Stages
    /\ live => job.step = "done"
    /\ Busy => \A q \in 1..(pass - 1) : \A a \in plan[q] : Complete(a)

BinaryInv == StatsInv /\ PlanInv /\ WorldInv

\* What a complete analysis contributes is complete.
LEMMA ContributionIsComplete ==
    ASSUME MemoryIsHonest, NEW a \in Analyses, prog[a].backfilled
    PROVE  Corpus \cap Wants[a] \subseteq Contribution(folded, a)
BY ConstantsAssumption DEF MemoryIsHonest, Honest, Covers, Corpus, Contribution

LEMMA WorldKept ==
    ASSUME WorldInv, UNCHANGED <<plan, pass, world, live>>, job'.step = job.step
    PROVE  WorldInv'
BY DEF WorldInv, Busy, Complete

LEMMA WorldAdvances ==
    ASSUME BinaryInv, StatsInv', AdvancePass
    PROVE  WorldInv'
<1>1. /\ plan' = plan /\ live' = live /\ Busy /\ folded' = folded /\ job.step # "done"
      /\ pass' = pass \/ (pass' = pass + 1)
      /\ world' = [a \in Analyses |-> IF a \in plan[pass] THEN Contribution(folded, a) ELSE world[a]]
      /\ prog' = MarkBackfilled
  BY DEF AdvancePass, NextPass, Busy
<1>2. ~live
  BY <1>1 DEF BinaryInv, WorldInv
<1>3. pass \in 1..Len(plan) /\ Len(plan) \in Nat
  BY DEF BinaryInv, PlanInv
<1>4. ASSUME NEW q \in 1..(pass' - 1), NEW a \in plan[q]
      PROVE  Complete(a)'
  <2>1. q \in 1..Len(plan) /\ (q \in 1..(pass - 1) \/ q = pass)
    BY <1>1, <1>3
  <2>2. a \in Analyses
    BY <1>1, <1>4, <2>1 DEF BinaryInv, PlanInv
  <2>3. CASE a \in plan[pass]
    <3>1. prog'[a].backfilled
      BY <1>1, <2>2, <2>3, MarkFacts DEF BinaryInv, StatsInv
    <3>2. Corpus \cap Wants[a] \subseteq Contribution(folded', a)
      <4>1. \A e \in Corpus \cap Wants[a] : e \in Events /\ folded'[a][e] > 0
        BY <2>2, <3>1, ConstantsAssumption DEF StatsInv, MemoryIsHonest, Honest, Covers, Corpus
      <4> QED
        BY <4>1 DEF Contribution
    <3>3. world'[a] = Contribution(folded', a)
      BY <1>1, <2>2, <2>3
    <3> QED
      BY <3>2, <3>3 DEF Complete
  <2>4. CASE a \notin plan[pass]
    <3>1. world'[a] = world[a] /\ q \in 1..(pass - 1)
      BY <1>1, <1>4, <2>1, <2>2, <2>4
    <3> QED
      BY <1>1, <1>4, <3>1 DEF BinaryInv, WorldInv, Complete
  <2> QED
    BY <2>3, <2>4
<1> QED
  BY <1>1, <1>2, <1>4 DEF BinaryInv, WorldInv

\* A refresh in mid-pass materializes every analysis, the complete ones too.
LEMMA WorldRefreshed ==
    ASSUME BinaryInv, Refresh(folded, TRUE), UNCHANGED <<plan, pass, live, job>>
    PROVE  WorldInv'
<1>1. CASE world' = world
  BY <1>1, WorldKept DEF BinaryInv
<1>2. CASE world' = Materialized(folded)
  <2>1. ASSUME Busy, NEW q \in 1..(pass - 1), NEW a \in plan[q]
        PROVE  Complete(a)'
    <3>1. q \in 1..Len(plan)
      BY DEF BinaryInv, PlanInv
    <3>2. a \in Analyses /\ prog[a].backfilled
      BY <2>1, <3>1 DEF BinaryInv, PlanInv, Pending
    <3>3. world'[a] = Contribution(folded, a)
      BY <1>2, <3>2 DEF Materialized
    <3> QED
      BY <3>2, <3>3, ContributionIsComplete DEF BinaryInv, StatsInv, Complete
  <2> QED
    BY <2>1 DEF BinaryInv, WorldInv, Busy
<1> QED
  BY <1>1, <1>2 DEF Refresh

LEMMA WorldStep ==
    ASSUME BinaryInv, StatsInv', [Next]_vars, ~Server
    PROVE  WorldInv'
<1> USE DEF BinaryInv
<1>0. WorldInv /\ Typed /\ admin = "none"
  BY DEF StatsInv, NeverReset
<1>1. CASE (\E a \in Analyses : ResetAnalysis(a)) \/ ResetAll \/ StartRebuild \/ CancelIngest
           \/ RequestResetAll \/ ResetAllWaited
  BY <1>0, <1>1 DEF ResetAnalysis, ResetAll, StartRebuild, CancelIngest, RequestResetAll, ResetAllWaited
<1>2. CASE (\E a \in Analyses : SaveFile(a)) \/ Idle \/ UNCHANGED vars
  <2>1. UNCHANGED <<plan, pass, world, live, job>>
    BY <1>2 DEF SaveFile, Idle, vars, analysisVars, pipeVars
  <2> QED
    BY <1>0, <2>1, WorldKept
<1>3. CASE \E index \in BOOLEAN : StartIngest(index)
  <2>1. /\ plan' = Stages /\ pass' = 1 /\ job.step = "idle" /\ live' = live
    BY <1>3 DEF StartIngest, Begin
  <2>2. ~live
    BY <1>0, <2>1 DEF WorldInv
  <2> QED
    BY <2>1, <2>2 DEF WorldInv
<1>4. CASE StartPass
  <2>1. UNCHANGED <<plan, pass, world, live>> /\ Busy /\ job.step # "done"
    BY <1>4 DEF StartPass, analysisVars, pipeVars, Busy
  <2> QED
    BY <1>0, <2>1 DEF WorldInv, Complete
<1>5. CASE StartGroup
  <2>1. UNCHANGED <<plan, pass, world, live>> /\ Busy /\ job.step # "done"
    BY <1>5 DEF StartGroup, analysisVars, pipeVars, Busy
  <2> QED
    BY <1>0, <2>1 DEF WorldInv, Complete
<1>6. CASE FoldArchived
  <2>1. UNCHANGED <<plan, pass, live>> /\ Busy /\ job.step # "done"
    BY <1>6 DEF FoldArchived, Busy
  <2>2. ~live
    BY <1>0, <2>1 DEF WorldInv
  <2>3. world' = world
    BY <1>6, <2>2 DEF FoldArchived, AfterFold
  <2> QED
    BY <1>0, <2>1, <2>2, <2>3 DEF WorldInv, Complete
<1>7. CASE EndGroup
  <2>1. UNCHANGED <<plan, pass, world, live>> /\ Busy /\ job.step # "done"
    BY <1>7 DEF EndGroup, pipeVars, Busy
  <2> QED
    BY <1>0, <2>1 DEF WorldInv, Complete
<1>8. CASE AdvancePass
  BY <1>8, WorldAdvances
<1>9. CASE GoLive
  <2>1. plan' = plan /\ job'.step = "done"
    BY <1>9 DEF GoLive, NoJob
  <2> QED
    BY <1>0, <2>1 DEF WorldInv, Busy
<1>10. CASE FoldLive
  <2>1. live /\ UNCHANGED <<plan, live, job>>
    BY <1>10 DEF FoldLive
  <2> QED
    BY <1>0, <2>1 DEF WorldInv, Busy
<1>11. CASE Finish
  BY <1>11, WorldRefreshed DEF Finish
<1>12. CASE Exit \/ Kill
  <2>1. plan' = Stages /\ ~live' /\ job'.step = "idle"
    BY <1>12 DEF Exit, Kill, Restart, NoJob
  <2> QED
    BY <2>1 DEF WorldInv, Busy
<1>13. CASE PersistFails
  <2>1. UNCHANGED <<plan, pass, world, live>> /\ (job' = job \/ job'.step = "done")
    BY <1>13 DEF PersistFails, analysisVars, pipeVars, NoJob
  <2>2. CASE job' = job
    BY <1>0, <2>1, <2>2, WorldKept
  <2>3. CASE job'.step = "done"
    BY <1>0, <2>1, <2>3 DEF WorldInv, Busy
  <2> QED
    BY <2>1, <2>2, <2>3
<1> QED
  BY <1>1, <1>2, <1>3, <1>4, <1>5, <1>6, <1>7, <1>8, <1>9, <1>10, <1>11, <1>12, <1>13
     DEF Next, IngestStep

LEMMA BinaryInit ==
    ASSUME Init, ~Server
    PROVE  BinaryInv
<1>1. StatsInv
  BY StatsInit
<1>2. PlanInv
  BY StagesAreOrdered DEF Init, PlanInv, Busy, NoJob
<1>3. WorldInv
  BY DEF Init, WorldInv, Busy, NoJob
<1> QED
  BY <1>1, <1>2, <1>3 DEF BinaryInv

LEMMA BinaryStep ==
    ASSUME BinaryInv, [Next]_vars, ~Server
    PROVE  BinaryInv'
<1>1. Spared /\ Calm
  BY DEF Spared, Calm
<1>2. StatsInv'
  BY <1>1, TypedStep, MemoryStep, PassStep, DiskStep, ResetStep DEF StatsInv, BinaryInv
<1>3. PlanInv'
  BY <1>1, PlanStep DEF StatsInv, BinaryInv
<1> QED
  BY <1>2, <1>3, WorldStep DEF BinaryInv

THEOREM BinaryInvHolds == ~Server => (Spec => []BinaryInv)
<1> SUFFICES ASSUME ~Server
             PROVE  Spec => []BinaryInv
  OBVIOUS
<1> QED
  BY BinaryInit, BinaryStep, PTL DEF Spec

\* Whatever a backfill folds into an analysis, the analyses it reads have been
\* completed and materialized (archive_ingest.rs, run_passes; pipeline.rs,
\* advance_pass): a pass holds only what waits for the passes behind it.
THEOREM BackfillSeesCompleteWorld == ~Server => (Spec => []DependentsSeeCompleteWorld)
<1> SUFFICES ASSUME ~Server
             PROVE  Spec => []DependentsSeeCompleteWorld
  OBVIOUS
<1>1. BinaryInv => DependentsSeeCompleteWorld
  <2> SUFFICES ASSUME BinaryInv, job.step = "read",
                      NEW a \in Targets, NEW x \in Deps[a]
               PROVE  Complete(x)
    BY DEF DependentsSeeCompleteWorld, Complete
  <2>1. Busy /\ ~live /\ plan = Stages
    BY DEF Busy, BinaryInv, WorldInv
  <2>2. pass \in 1..Len(Stages) /\ a \in Stages[pass]
    BY <2>1 DEF Targets, BinaryInv, PlanInv
  <2>3. PICK r \in 1..(pass - 1) : x \in Stages[r]
    BY <2>2, StagesAreOrdered
  <2> QED
    BY <2>1, <2>3 DEF BinaryInv, WorldInv
<1> QED
  BY <1>1, BinaryInvHolds, PTL

-----------------------------------------------------------------------------
(* The ingest of the binary. *)

\* Nobody cancels it, it indexes, and once finish() has run a stop has been
\* counted; a group is none of the dumps still to be read; and it ends, or goes
\* live, with nothing pending.
IndexInv ==
    /\ ~cancel /\ (Busy => job.index)
    /\ stops \in Nat /\ kills \in Nat /\ (stopping => stops > 0)
GroupFits ==
    job.step = "read" => job.left \subseteq ArchivedIn(job.group) /\ job.group \cap job.files = {}
LiveIsComplete == job.step = "final" \/ live => \A a \in Analyses : ~Pending(a)

IngestInv == IndexInv /\ GroupFits /\ LiveIsComplete

LEMMA IndexStep ==
    ASSUME BinaryInv, IndexInv, [Next]_vars, ~Server
    PROVE  IndexInv' /\ (stops' = stops \/ (Finish /\ stops' = stops + 1))
<1>0. Typed /\ admin = "none"
  BY DEF BinaryInv, StatsInv, NeverReset
<1>1. CASE (\E a \in Analyses : ResetAnalysis(a)) \/ ResetAll \/ StartRebuild \/ CancelIngest
           \/ RequestResetAll \/ ResetAllWaited
  BY <1>0, <1>1 DEF ResetAnalysis, ResetAll, StartRebuild, CancelIngest, RequestResetAll, ResetAllWaited
<1>2. CASE (\E a \in Analyses : SaveFile(a)) \/ Idle \/ UNCHANGED vars
  BY <1>2 DEF SaveFile, Idle, vars, bounds, IndexInv, Busy
<1>3. CASE \E index \in BOOLEAN : StartIngest(index)
  <2>1. job' = [NoJob EXCEPT !.step = "loop", !.index = TRUE] /\ ~cancel' /\ UNCHANGED <<stops, kills, stopping>>
    BY <1>3 DEF StartIngest, Begin
  <2>2. job'.index
    BY <2>1 DEF NoJob
  <2> QED
    BY <2>1, <2>2 DEF IndexInv
<1>4. ASSUME Busy, job'.index = job.index, UNCHANGED <<stops, kills, stopping, cancel>>
      PROVE  IndexInv' /\ stops' = stops
  BY <1>4 DEF IndexInv
<1>5. CASE StartPass
  <2>1. Busy /\ job'.index = job.index /\ UNCHANGED <<stops, kills, stopping, cancel>>
    BY <1>0, <1>5, JobStartsPass DEF StartPass, bounds, Busy
  <2> QED
    BY <1>4, <2>1
<1>6. CASE StartGroup
  <2>1. Busy /\ job'.index = job.index /\ UNCHANGED <<stops, kills, stopping, cancel>>
    BY <1>0, <1>6, JobStartsGroup DEF StartGroup, bounds, Busy
  <2> QED
    BY <1>4, <2>1
<1>7. CASE FoldArchived
  <2>1. PICK x : job' = [job EXCEPT !.left = @ \ {x}]
    BY <1>7 DEF FoldArchived
  <2>2. job'.index = job.index
    BY <1>0, <2>1, JobFolds
  <2>3. Busy /\ UNCHANGED <<stops, kills, stopping, cancel>>
    BY <1>7 DEF FoldArchived, bounds, Busy
  <2> QED
    BY <1>4, <2>2, <2>3
<1>8. CASE EndGroup
  <2>1. Busy /\ job'.index = job.index /\ UNCHANGED <<stops, kills, stopping, cancel>>
    BY <1>0, <1>8, JobEndsGroup DEF EndGroup, bounds, Busy
  <2> QED
    BY <1>4, <2>1
<1>9. CASE AdvancePass
  <2>1. Busy /\ job'.index = job.index /\ UNCHANGED <<stops, kills, stopping, cancel>>
    BY <1>0, <1>9, JobAdvances DEF AdvancePass, bounds, Busy
  <2> QED
    BY <1>4, <2>1
<1>10. CASE GoLive
  <2>1. job'.step = "done"
    BY <1>10 DEF GoLive, NoJob
  <2> QED
    BY <1>10, <2>1 DEF GoLive, bounds, IndexInv, Busy
<1>11. CASE FoldLive
  BY <1>11 DEF FoldLive, bounds, IndexInv, Busy
<1>12. CASE Finish
  <2>1. stops + 1 \in Nat /\ stops + 1 > 0
    BY DEF IndexInv
  <2> QED
    BY <1>12, <2>1 DEF Finish, IndexInv, Busy
<1>13. CASE Exit \/ Kill
  <2>1. job'.step = "idle" /\ ~cancel' /\ ~stopping' /\ stops' = stops /\ (kills' = kills \/ kills' = kills + 1)
    BY <1>13 DEF Exit, Kill, Restart, NoJob, bounds
  <2> QED
    BY <2>1 DEF IndexInv, Busy
<1>14. CASE PersistFails
  <2>1. job' = job \/ job'.step \in {"idle", "done"}
    BY <1>0, <1>14, JobEnds
  <2> QED
    BY <1>14, <2>1 DEF PersistFails, bounds, IndexInv, Busy
<1> QED
  BY <1>1, <1>2, <1>3, <1>5, <1>6, <1>7, <1>8, <1>9, <1>10, <1>11, <1>12, <1>13, <1>14
     DEF Next, IngestStep

LEMMA GroupFitsStep ==
    ASSUME Typed, GroupFits, [Next]_vars
    PROVE  GroupFits'
<1>1. CASE job' = job
  BY <1>1 DEF GroupFits, ArchivedIn
<1>2. CASE (\E index \in BOOLEAN : StartIngest(index)) \/ StartRebuild
  <2>1. job' = job \/ job'.step = "loop"
    BY <1>2 DEF StartIngest, StartRebuild, Begin, NoJob
  <2> QED
    BY <1>1, <2>1 DEF GroupFits
<1>3. CASE StartPass
  BY <1>3, JobStartsPass DEF GroupFits
<1>4. CASE StartGroup
  <2>1. job'.step = "read" => /\ job'.group \subseteq job.files /\ job'.files = job.files \ job'.group
                              /\ job'.left = ArchivedIn(job'.group)
    BY <1>4, JobStartsGroup
  <2> QED
    BY <2>1 DEF GroupFits, ArchivedIn
<1>5. CASE FoldArchived
  <2>1. PICK x : job' = [job EXCEPT !.left = @ \ {x}]
    BY <1>5 DEF FoldArchived
  <2>2. /\ job'.step = job.step /\ job'.files = job.files
        /\ job'.group = job.group /\ job'.left = job.left \ {x}
    BY <2>1, JobFolds
  <2> QED
    BY <2>2 DEF GroupFits, ArchivedIn
<1>6. CASE EndGroup
  BY <1>6, JobEndsGroup DEF GroupFits
<1>7. CASE AdvancePass
  BY <1>7, JobAdvances DEF GroupFits
<1>8. CASE GoLive \/ Finish \/ PersistFails \/ Exit \/ Kill
  <2>1. job' = job \/ job'.step \in {"idle", "done"}
    BY <1>8, JobEnds DEF Exit, Kill
  <2> QED
    BY <1>1, <2>1 DEF GroupFits
<1>9. CASE \/ \E a \in Analyses : SaveFile(a) \/ ResetAnalysis(a)
           \/ CancelIngest \/ FoldLive \/ RequestResetAll \/ ResetAllWaited \/ ResetAll
           \/ Idle \/ UNCHANGED vars
  BY <1>1, <1>9 DEF SaveFile, ResetAnalysis, CancelIngest, FoldLive, RequestResetAll, ResetAllWaited,
                    ResetAll, Idle, vars
<1> QED
  BY <1>2, <1>3, <1>4, <1>5, <1>6, <1>7, <1>8, <1>9 DEF Next, IngestStep

LEMMA LiveStep ==
    ASSUME BinaryInv, IngestInv, [Next]_vars, ~Server
    PROVE  LiveIsComplete'
<1>0. /\ Typed /\ admin = "none" /\ ~cancel /\ WorldInv
      /\ plan = Stages /\ pass \in 1..Len(Stages) /\ Len(Stages) \in Nat
      /\ Busy => \A q \in 1..(pass - 1) : \A a \in plan[q] : ~Pending(a)
  BY DEF BinaryInv, StatsInv, NeverReset, WorldInv, PlanInv, IngestInv, IndexInv
<1>1. CASE Exit \/ Kill
  BY <1>1 DEF Exit, Kill, Restart, NoJob, LiveIsComplete
<1>2. CASE AdvancePass
  <2>1. /\ job.step = "advance" /\ Busy /\ live' = live /\ prog' = MarkBackfilled
        /\ job'.step = "final" => ~(pass < Len(plan))
    BY <1>0, <1>2, JobAdvances DEF AdvancePass, Busy
  <2>2. ~live
    BY <1>0, <2>1 DEF WorldInv
  <2>3. \A a \in Analyses : /\ a \in plan[pass] => prog'[a].backfilled
                            /\ a \notin plan[pass] => prog'[a] = prog[a]
    BY <1>0, <2>1, MarkFacts
  <2>4. ASSUME job'.step = "final", NEW a \in Analyses
        PROVE  prog'[a].backfilled
    <3>1. pass = Len(Stages)
      BY <1>0, <2>1, <2>4
    <3>2. PICK n \in 1..Len(Stages) : a \in Stages[n]
      BY StagesAreOrdered
    <3>3. n = pass \/ n \in 1..(pass - 1)
      BY <1>0, <3>1, <3>2
    <3> QED
      BY <1>0, <2>1, <2>3, <3>2, <3>3 DEF Pending
  <2> QED
    BY <2>1, <2>2, <2>4 DEF LiveIsComplete, Pending
<1>3. ASSUME job'.step = "final" \/ live' => job.step = "final" \/ live,
             \A a \in Analyses : prog[a].backfilled => prog'[a].backfilled
      PROVE  LiveIsComplete'
  BY <1>3 DEF IngestInv, LiveIsComplete, Pending
<1>4. ASSUME ~\E a \in Analyses : ResetAnalysis(a), ~ResetAll, ~Exit, ~Kill
      PROVE  \A a \in Analyses : prog[a].backfilled => prog'[a].backfilled
  BY <1>0, <1>4, MarksKept
<1>5. CASE (\E a \in Analyses : ResetAnalysis(a)) \/ ResetAll \/ StartRebuild \/ CancelIngest
           \/ RequestResetAll \/ ResetAllWaited
  BY <1>0, <1>5 DEF ResetAnalysis, ResetAll, StartRebuild, CancelIngest, RequestResetAll, ResetAllWaited
<1>6. ASSUME ~Exit, ~Kill, ~AdvancePass, ~\E a \in Analyses : ResetAnalysis(a), ~ResetAll,
             ~StartRebuild, ~CancelIngest, ~RequestResetAll, ~ResetAllWaited
      PROVE  job'.step = "final" \/ live' => job.step = "final" \/ live
  <2>1. CASE GoLive
    BY <2>1 DEF GoLive
  <2>2. CASE \E index \in BOOLEAN : StartIngest(index)
    <3>1. job'.step = "loop" /\ live' = live
      BY <2>2 DEF StartIngest, Begin, NoJob
    <3> QED
      BY <3>1
  <2>3. CASE StartPass
    BY <1>0, <2>3, JobStartsPass DEF StartPass, pipeVars
  <2>4. CASE StartGroup
    BY <1>0, <2>4, JobStartsGroup DEF StartGroup, pipeVars
  <2>5. CASE FoldArchived
    <3>1. PICK x : job' = [job EXCEPT !.left = @ \ {x}]
      BY <2>5 DEF FoldArchived
    <3>2. job'.step = job.step
      BY <1>0, <3>1, JobFolds
    <3> QED
      BY <2>5, <3>2 DEF FoldArchived
  <2>6. CASE EndGroup
    BY <1>0, <2>6, JobEndsGroup DEF EndGroup, pipeVars
  <2>7. CASE PersistFails
    <3>1. job' = job \/ job'.step \in {"idle", "done"}
      BY <1>0, <2>7, JobEnds
    <3> QED
      BY <2>7, <3>1 DEF PersistFails, pipeVars
  <2>8. CASE (\E a \in Analyses : SaveFile(a)) \/ FoldLive \/ Finish \/ Idle \/ UNCHANGED vars
    BY <2>8 DEF SaveFile, FoldLive, Finish, Idle, vars, pipeVars
  <2> QED
    BY <1>6, <2>1, <2>2, <2>3, <2>4, <2>5, <2>6, <2>7, <2>8 DEF Next, IngestStep
<1> QED
  BY <1>1, <1>2, <1>3, <1>4, <1>5, <1>6

LEMMA IngestKept ==
    ASSUME BinaryInv, IngestInv, [Next]_vars, ~Server
    PROVE  IngestInv' /\ (stops' = stops \/ (Finish /\ stops' = stops + 1))
BY IndexStep, GroupFitsStep, LiveStep DEF IngestInv, BinaryInv, StatsInv

LEMMA IngestInit ==
    ASSUME Init, ~Server
    PROVE  IngestInv
BY DEF Init, NoJob, IngestInv, IndexInv, GroupFits, LiveIsComplete, Busy

-----------------------------------------------------------------------------
(* A rebuild counts once. *)

\* An analysis that goes on from here reads the dumps it is not done with, and
\* has counted nothing of them.
Once(count) == \A e \in Events : count[e] <= 1
NoneOf(count, files) == \A f \in files : \A e \in Dump[f] : count[e] = 0
Resumable(count, done) == Once(count) /\ NoneOf(count, Files \ done)

\* The analyses of a stage are done with the same dumps, or a dump one of them
\* still needs would be read again for the others; the indexing pass, which reads
\* every dump, finds its stage done with none.
Lined(p) ==
    /\ \A n \in 1..Len(Stages) : \A x, y \in Stages[n] :
          ~p[x].backfilled /\ ~p[y].backfilled => p[x].done = p[y].done
    /\ \A x \in Stages[1] : ~p[x].backfilled => p[x].done = {}

\* The analyses under rebuild, and how far the pass is with them.
Reading(a) == a \in plan[pass] /\ job.step \in {"groups", "read", "advance"}
Unread(a) ==
    /\ NoneOf(folded[a], job.files)
    /\ job.step = "groups" /\ pass # 1 => Files \ prog[a].done \subseteq job.files
    /\ job.step = "read" =>
         /\ pass # 1 => Files \ prog[a].done \subseteq job.files \cup job.group
         /\ \A x \in job.left : folded[a][x[2]] = 0
Rebuilt(a) ==
    /\ Once(folded[a])
    /\ ~Reading(a) => Resumable(folded[a], prog[a].done)
    /\ Reading(a) /\ job.step # "advance" => Unread(a)

MemoryResumes ==
    /\ Lined(prog)
    /\ \A a \in Analyses : Pending(a) => Rebuilt(a)

\* Between two saves a process could go on from the disk; a save writes a memory
\* that could be gone on from, and is the only thing under way.
Loaded == [a \in Analyses |-> LoadedProgress(a)]
DiskResumes ==
    /\ (\A a \in Analyses : saving[a] = 0) \/ (\A a \in Analyses : saving[a] = 3) =>
         /\ Lined(Loaded)
         /\ \A a \in Analyses : ~Loaded[a].backfilled => Resumable(LoadedState(a), Loaded[a].done)
    /\ (\E b \in Analyses : saving[b] > 0) =>
         /\ Busy => job.step = "groups" /\ pass # 1
         /\ \A a \in Analyses :
              /\ Pending(a) => Resumable(folded[a], prog[a].done)
              /\ saving[a] <= 2 => disk[a].hasState /\ disk[a].folded = folded[a]
              /\ saving[a] <= 1 => disk[a].hasMeta /\ disk[a].meta = MetaOf(prog[a])

Undisturbed == ~torn /\ stops = 0
OnceInv == BinaryInv /\ IngestInv /\ (Undisturbed => MemoryResumes /\ DiskResumes)

\* An event is in one dump: the archive takes an id once, and keeps it in the
\* dump of its day.
DumpsApart == \A f, g \in Files : f # g => Dump[f] \cap Dump[g] = {}

LEMMA FoldCounts ==
    ASSUME Typed, NEW e \in Events, Fold(e), NEW a \in Analyses
    PROVE  /\ a \notin Targets => folded'[a] = folded[a]
           /\ \A x \in Events : x # e => folded'[a][x] = folded[a][x]
           /\ folded'[a][e] <= folded[a][e] + 1
<1> DEFINE hit == {n \in Targets : Consumes(n, e)}
<1>1. folded' = [n \in Analyses |-> IF n \in hit /\ e \in Wants[n]
                                    THEN [folded[n] EXCEPT ![e] = @ + 1] ELSE folded[n]]
  BY DEF Fold
<1>2. a \notin Targets => a \notin hit
  OBVIOUS
<1> HIDE DEF hit
<1>3. folded[a] \in [Events -> Nat]
  BY DEF Typed
<1>4. folded'[a] = folded[a] \/ folded'[a] = [folded[a] EXCEPT ![e] = @ + 1]
  BY <1>1
<1>5. folded[a][e] \in Nat
  BY <1>3
<1>6. CASE folded'[a] = folded[a]
  BY <1>5, <1>6
<1>7. CASE folded'[a] = [folded[a] EXCEPT ![e] = @ + 1]
  <2>1. /\ folded'[a][e] = folded[a][e] + 1
        /\ \A x \in Events : x # e => folded'[a][x] = folded[a][x]
    BY <1>3, <1>7
  <2> QED
    BY <1>1, <1>2, <1>5, <2>1
<1> QED
  BY <1>4, <1>6, <1>7

LEMMA ArchivedFacts ==
    ASSUME NEW g \in SUBSET Files, NEW x \in ArchivedIn(g)
    PROVE  x[1] \in g /\ x[2] \in Dump[x[1]] /\ x[2] \in Events /\ x = <<x[1], x[2]>>
<1>1. PICK f \in g : x \in {f} \X Dump[f]
  BY DEF ArchivedIn
<1> QED
  BY <1>1, ConstantsAssumption

LEMMA LinedSame ==
    ASSUME NEW p, NEW q, Lined(p),
           \A a \in Analyses : ~q[a].backfilled => ~p[a].backfilled /\ q[a].done = p[a].done
    PROVE  Lined(q)
<1>1. 1 \in 1..Len(Stages) /\ \A n \in 1..Len(Stages) : \A a \in Stages[n] : a \in Analyses
  BY StagesAreOrdered
<1>2. ASSUME NEW n \in 1..Len(Stages), NEW x \in Stages[n], NEW y \in Stages[n],
             ~q[x].backfilled, ~q[y].backfilled
      PROVE  q[x].done = q[y].done
  <2>1. x \in Analyses /\ y \in Analyses
    BY <1>1
  <2>2. p[x].done = p[y].done
    BY <1>2, <2>1 DEF Lined
  <2> QED
    BY <1>2, <2>1, <2>2
<1>3. ASSUME NEW x \in Stages[1], ~q[x].backfilled
      PROVE  q[x].done = {}
  <2>1. x \in Analyses
    BY <1>1
  <2> QED
    BY <1>3, <2>1 DEF Lined
<1> QED
  BY <1>2, <1>3 DEF Lined

\* Once nothing is pending, nothing is left to be said.
LEMMA NothingPending ==
    ASSUME \A a \in Analyses : prog'[a].backfilled
    PROVE  MemoryResumes'
<1>1. Lined(prog')
  BY StagesAreOrdered DEF Lined
<1>2. \A a \in Analyses : ~Pending(a)'
  BY DEF Pending
<1>3. Lined(prog)'
  BY <1>1 DEF Lined
<1> QED
  BY <1>2, <1>3 DEF MemoryResumes

\* The head of a pass.
LEMMA PassReadsTheRest ==
    ASSUME Lined(prog), plan = Stages, pass \in 1..Len(Stages), job.index,
           NEW a \in plan[pass], Pending(a)
    PROVE  /\ PassFiles \subseteq Files \ prog[a].done
           /\ pass # 1 => Files \ prog[a].done \subseteq PassFiles
<1>1. CASE pass = 1
  <2>1. prog[a].done = {}
    BY <1>1 DEF Lined, Pending
  <2> QED
    BY <1>1, <2>1 DEF PassFiles
<1>2. CASE pass # 1
  <2>1. ASSUME NEW f \in Files
        PROVE  FileDone(f) <=> f \in prog[a].done
    <3>1. \A b \in plan[pass] : Pending(b) => prog[b].done = prog[a].done
      BY DEF Lined, Pending
    <3> QED
      BY <3>1 DEF FileDone
  <2>2. PassFiles = {f \in Files : ~FileDone(f)}
    BY <1>2 DEF PassFiles, Indexing
  <2> QED
    BY <2>1, <2>2
<1> QED
  BY <1>1, <1>2

LEMMA ResumesSame ==
    ASSUME MemoryResumes, UNCHANGED <<folded, prog, plan, pass, job>>
    PROVE  MemoryResumes'
BY DEF MemoryResumes, Lined, Pending, Rebuilt, Once, Reading, Resumable, NoneOf, Unread

\* Between two passes, and in a process that starts, every analysis is one to go
\* on from.
LEMMA ResumesAside ==
    ASSUME Lined(prog'), job'.step \notin {"groups", "read", "advance"},
           \A a \in Analyses : ~prog'[a].backfilled => Resumable(folded'[a], prog'[a].done)
    PROVE  MemoryResumes'
<1>1. Lined(prog)'
  BY DEF Lined
<1>2. ASSUME NEW a \in Analyses, Pending(a)'
      PROVE  Rebuilt(a)'
  <2>1. Once(folded'[a]) /\ Resumable(folded'[a], prog'[a].done)
    BY <1>2 DEF Pending, Resumable
  <2>2. ~Reading(a)'
    BY DEF Reading
  <2>3. Once(folded[a])' /\ Resumable(folded[a], prog[a].done)'
    BY <2>1 DEF Once, Resumable, NoneOf
  <2> QED
    BY <2>2, <2>3 DEF Rebuilt
<1> QED
  BY <1>1, <1>2 DEF MemoryResumes

LEMMA PassResumes ==
    ASSUME BinaryInv, IngestInv, MemoryResumes, StartPass
    PROVE  MemoryResumes'
<1>0. Typed /\ plan = Stages /\ pass \in 1..Len(Stages)
  BY DEF BinaryInv, StatsInv, WorldInv, PlanInv
<1>1. /\ job.step = "loop" /\ job.index /\ UNCHANGED <<folded, prog, plan, pass>>
      /\ job'.step \in {"groups", "advance"} /\ (job'.step = "groups" => job'.files = PassFiles)
  BY <1>0, JobStartsPass DEF IngestInv, IndexInv, Busy, StartPass, analysisVars, pipeVars
<1>2. Lined(prog)'
  BY <1>1 DEF MemoryResumes, Lined
<1>3. ASSUME NEW a \in Analyses, Pending(a)'
      PROVE  Rebuilt(a)'
  <2>1. Pending(a) /\ ~Reading(a)
    BY <1>1, <1>3 DEF Pending, Reading
  <2>2. Once(folded[a]) /\ Resumable(folded[a], prog[a].done)
    BY <2>1 DEF MemoryResumes, Rebuilt
  <2>3. Once(folded[a])' /\ Resumable(folded[a], prog[a].done)'
    BY <1>1, <2>2 DEF Once, Resumable, NoneOf
  <2>4. ASSUME Reading(a)', job'.step # "advance"
        PROVE  Unread(a)'
    <3>1. a \in plan[pass] /\ job'.step = "groups" /\ job'.files = PassFiles
      BY <1>1, <2>4 DEF Reading
    <3>2. /\ PassFiles \subseteq Files \ prog[a].done
          /\ pass # 1 => Files \ prog[a].done \subseteq PassFiles
      BY <1>0, <1>1, <2>1, <3>1, PassReadsTheRest DEF MemoryResumes
    <3>3. NoneOf(folded[a], PassFiles)
      BY <2>2, <3>2 DEF Resumable, NoneOf
    <3> QED
      BY <1>1, <3>1, <3>2, <3>3 DEF Unread, NoneOf
  <2> QED
    BY <2>3, <2>4 DEF Rebuilt
<1> QED
  BY <1>1, <1>2, <1>3 DEF MemoryResumes

LEMMA GroupResumes ==
    ASSUME BinaryInv, IngestInv, MemoryResumes, StartGroup
    PROVE  MemoryResumes'
<1>0. Typed /\ job \in JobType
  BY DEF BinaryInv, StatsInv, Typed
<1>1. /\ job.step = "groups" /\ UNCHANGED <<folded, prog, plan, pass>>
      /\ job'.step \in {"read", "advance"}
      /\ job'.step = "read" =>
           /\ job'.group \subseteq job.files /\ job'.files = job.files \ job'.group
           /\ job'.left = ArchivedIn(job'.group)
  BY <1>0, JobStartsGroup DEF IngestInv, IndexInv, StartGroup, analysisVars, pipeVars
<1>2. Lined(prog)'
  BY <1>1 DEF MemoryResumes, Lined
<1>3. ASSUME NEW a \in Analyses, Pending(a)'
      PROVE  Rebuilt(a)'
  <2>1. Pending(a) /\ (Reading(a)' <=> Reading(a))
    BY <1>1, <1>3 DEF Pending, Reading
  <2>2. /\ Once(folded[a]) /\ (~Reading(a) => Resumable(folded[a], prog[a].done))
        /\ Reading(a) => /\ NoneOf(folded[a], job.files)
                         /\ pass # 1 => Files \ prog[a].done \subseteq job.files
    BY <1>1, <2>1 DEF MemoryResumes, Rebuilt, Unread
  <2>3. Once(folded[a])' /\ (~Reading(a)' => Resumable(folded[a], prog[a].done)')
    BY <1>1, <2>1, <2>2 DEF Once, Resumable, NoneOf
  <2>4. ASSUME Reading(a)', job'.step # "advance"
        PROVE  Unread(a)'
    <3>1. Reading(a) /\ job'.step = "read"
      BY <1>1, <2>1, <2>4
    <3>2. NoneOf(folded[a], job'.files)
      BY <1>1, <2>2, <3>1 DEF NoneOf
    <3>3. ASSUME NEW x \in job'.left
          PROVE  folded[a][x[2]] = 0
      <4>1. job'.group \in SUBSET Files
        BY <1>0, <1>1, <3>1 DEF JobType
      <4>2. PICK g \in SUBSET Files : g = job'.group
        BY <4>1
      <4>3. x[1] \in g /\ x[2] \in Dump[x[1]]
        BY <1>1, <3>1, <3>3, <4>2, ArchivedFacts
      <4> QED
        BY <1>1, <2>2, <3>1, <4>2, <4>3 DEF NoneOf
    <3>4. pass # 1 => Files \ prog[a].done \subseteq job'.files \cup job'.group
      BY <1>1, <2>2, <3>1
    <3> QED
      BY <1>1, <3>1, <3>2, <3>3, <3>4 DEF Unread, NoneOf
  <2> QED
    BY <2>3, <2>4 DEF Rebuilt
<1> QED
  BY <1>1, <1>2, <1>3 DEF MemoryResumes

\* An event of the group is counted for the first time: it is in no dump that is
\* still to be read, and was left of this one.
LEMMA FoldResumes ==
    ASSUME BinaryInv, IngestInv, MemoryResumes, FoldArchived, DumpsApart
    PROVE  MemoryResumes'
<1>0. Typed /\ job \in JobType
  BY DEF BinaryInv, StatsInv, Typed
<1>1. /\ job.step = "read" /\ UNCHANGED <<live, plan, pass>>
      /\ job.left \subseteq ArchivedIn(job.group) /\ job.group \cap job.files = {}
  BY DEF FoldArchived, IngestInv, GroupFits
<1>2. ~live
  BY <1>1 DEF BinaryInv, WorldInv
<1>3. PICK x \in job.left : job' = [job EXCEPT !.left = @ \ {x}] /\ Fold(x[2])
  BY DEF FoldArchived
<1>4. /\ job'.step = "read" /\ job'.files = job.files
      /\ job'.group = job.group /\ job'.left = job.left \ {x}
  BY <1>0, <1>1, <1>3, JobFolds
<1>5. PICK g \in SUBSET Files : g = job.group
  BY <1>0 DEF JobType
<1>6. \A l \in job.left : l[1] \in g /\ l[2] \in Dump[l[1]] /\ l[2] \in Events /\ l = <<l[1], l[2]>>
  BY <1>1, <1>5, ArchivedFacts
<1>7. PICK e \in Events : e = x[2]
  BY <1>6
<1>8. PICK f \in g : f = x[1] /\ e \in Dump[f] /\ x = <<f, e>>
  BY <1>6, <1>7
<1>9. \A h \in Files : h # f => e \notin Dump[h]
  BY <1>8 DEF DumpsApart
<1>10. \A a \in Analyses : prog'[a].backfilled = prog[a].backfilled /\ prog'[a].done = prog[a].done
  BY <1>0, <1>3, <1>7, FoldFacts
<1>11. Lined(prog)'
  <2>1. \A a \in Analyses : ~prog'[a].backfilled => ~prog[a].backfilled /\ prog'[a].done = prog[a].done
    BY <1>10
  <2>2. Lined(prog')
    BY <2>1, LinedSame DEF MemoryResumes
  <2> QED
    BY <2>2 DEF Lined
<1>12. ASSUME NEW a \in Analyses, Pending(a)'
       PROVE  Rebuilt(a)'
  <2>1. Pending(a) /\ (Reading(a)' <=> Reading(a)) /\ (Reading(a) <=> a \in Targets)
    BY <1>1, <1>2, <1>4, <1>10, <1>12 DEF Pending, Reading, Targets
  <2>2. Once(folded[a]) /\ (~Reading(a) => Resumable(folded[a], prog[a].done))
    BY <2>1 DEF MemoryResumes, Rebuilt
  <2>3. CASE ~Reading(a)
    <3>1. folded'[a] = folded[a]
      BY <1>0, <1>3, <1>7, <2>1, <2>3, FoldCounts
    <3> QED
      BY <1>10, <2>1, <2>2, <2>3, <3>1 DEF Rebuilt, Once, Resumable, NoneOf
  <2>4. CASE Reading(a)
    <3>1. /\ NoneOf(folded[a], job.files) /\ \A l \in job.left : folded[a][l[2]] = 0
          /\ pass # 1 => Files \ prog[a].done \subseteq job.files \cup job.group
      BY <1>1, <2>1, <2>4 DEF MemoryResumes, Rebuilt, Unread
    <3>2. /\ \A y \in Events : y # e => folded'[a][y] = folded[a][y]
          /\ folded'[a][e] <= folded[a][e] + 1
      BY <1>0, <1>3, <1>7, FoldCounts
    <3>3. folded[a][e] = 0 /\ folded[a] \in [Events -> Nat]
      BY <1>0, <1>7, <3>1 DEF Typed
    <3>4. \A y \in Events : folded'[a][y] <= 1
      <4>1. \A y \in Events : folded[a][y] <= 1
        BY <2>2 DEF Once
      <4>2. folded'[a][e] <= 1
        BY <3>2, <3>3
      <4> QED
        BY <3>2, <4>1, <4>2
    <3>5. \A h \in job.files : \A y \in Dump[h] : folded'[a][y] = 0
      <4>1. \A h \in job.files : h \in Files /\ h # f
        BY <1>0, <1>1, <1>5, <1>8 DEF JobType
      <4>2. \A h \in job.files : \A y \in Dump[h] : y \in Events /\ y # e /\ folded[a][y] = 0
        BY <1>9, <3>1, <4>1, ConstantsAssumption DEF NoneOf
      <4> QED
        BY <3>2, <4>2
    <3>6. ASSUME NEW l \in job'.left
          PROVE  folded'[a][l[2]] = 0
      <4>1. l \in job.left /\ l # x
        BY <1>4, <3>6
      <4>2. l[1] \in Files /\ l[2] \in Dump[l[1]] /\ l[2] \in Events /\ l = <<l[1], l[2]>>
        BY <1>6, <4>1
      <4>3. l[2] # e
        BY <1>8, <1>9, <4>1, <4>2
      <4> QED
        BY <3>1, <3>2, <4>1, <4>2, <4>3
    <3>7. Once(folded[a])' /\ NoneOf(folded[a], job.files)'
      BY <1>4, <3>4, <3>5 DEF Once, NoneOf
    <3>8. Unread(a)'
      BY <1>1, <1>4, <1>10, <3>1, <3>6, <3>7 DEF Unread
    <3> QED
      BY <2>1, <2>4, <3>7, <3>8 DEF Rebuilt
  <2> QED
    BY <2>3, <2>4
<1> QED
  BY <1>11, <1>12 DEF MemoryResumes

LEMMA EndedResumes ==
    ASSUME BinaryInv, IngestInv, MemoryResumes, EndGroup
    PROVE  MemoryResumes'
<1>0. /\ Typed /\ job \in JobType /\ plan = Stages /\ pass \in 1..Len(Stages)
      /\ Busy => \A q \in 1..(pass - 1) : \A a \in plan[q] : ~Pending(a)
  BY DEF BinaryInv, StatsInv, Typed, WorldInv, PlanInv
<1>1. /\ job.step = "read" /\ Busy /\ job.index /\ ~cancel /\ UNCHANGED <<folded, plan, pass>>
      /\ job'.step = "groups" /\ job'.files = job.files
  BY <1>0, JobEndsGroup DEF IngestInv, IndexInv, EndGroup, pipeVars, Busy
<1>3. PICK g \in SUBSET Files : g = job.group
  BY <1>0 DEF JobType
<1>4. (pass = 1 /\ prog' = prog) \/ (pass # 1 /\ prog' = FinishFiles(g))
  BY <1>1, <1>3 DEF EndGroup, Indexing
<1>5. \A a \in Analyses :
         /\ prog'[a].backfilled <=> prog[a].backfilled
         /\ pass = 1 => prog'[a].done = prog[a].done
         /\ pass # 1 => prog'[a].done =
              IF a \in plan[pass] /\ Pending(a) THEN prog[a].done \cup g ELSE prog[a].done
  <2>1. /\ \A a \in Analyses : FinishFiles(g)[a].backfilled = prog[a].backfilled
        /\ \A a \in Analyses : FinishFiles(g)[a].done =
              IF a \in plan[pass] /\ Pending(a) THEN prog[a].done \cup g ELSE prog[a].done
    BY <1>0, FinishFacts
  <2>2. CASE pass = 1 /\ prog' = prog
    BY <2>2
  <2>3. CASE pass # 1 /\ prog' = FinishFiles(g)
    <3>1. ASSUME NEW a \in Analyses
          PROVE  prog'[a].backfilled = prog[a].backfilled
      BY <2>1, <2>3
    <3> QED
      BY <2>1, <2>3, <3>1
  <2> QED
    BY <1>4, <2>2, <2>3
<1>6. Lined(prog)'
  <2>1. CASE pass = 1
    <3>1. \A a \in Analyses : ~prog'[a].backfilled => ~prog[a].backfilled /\ prog'[a].done = prog[a].done
      BY <1>5, <2>1
    <3>2. Lined(prog')
      BY <3>1, LinedSame DEF MemoryResumes
    <3> QED
      BY <3>2 DEF Lined
  <2>2. CASE pass # 1
    <3>1. 1 \in 1..(pass - 1)
      BY <1>0, <2>2
    <3>2. \A x \in Stages[1] : x \in Analyses /\ prog[x].backfilled
      BY <1>0, <1>1, <3>1, StagesAreOrdered DEF Pending
    <3>3. \A x \in Stages[1] : prog'[x].backfilled
      BY <1>5, <3>2
    <3>4. ASSUME NEW n \in 1..Len(Stages), NEW x \in Stages[n], NEW y \in Stages[n],
                 ~prog'[x].backfilled, ~prog'[y].backfilled
          PROVE  prog'[x].done = prog'[y].done
      <4>1. x \in Analyses /\ y \in Analyses /\ (x \in plan[pass] <=> y \in plan[pass])
        BY <1>0, StagesAreOrdered
      <4>2. ~prog[x].backfilled /\ ~prog[y].backfilled
        BY <1>5, <3>4, <4>1
      <4>3. prog[x].done = prog[y].done
        BY <4>2 DEF MemoryResumes, Lined
      <4> QED
        BY <1>5, <2>2, <4>1, <4>2, <4>3 DEF Pending
    <3> QED
      BY <3>3, <3>4 DEF Lined
  <2> QED
    BY <2>1, <2>2
<1>7. ASSUME NEW a \in Analyses, Pending(a)'
      PROVE  Rebuilt(a)'
  <2>1. Pending(a) /\ (Reading(a)' <=> Reading(a)) /\ (Reading(a) <=> a \in plan[pass])
    BY <1>1, <1>5, <1>7 DEF Pending, Reading
  <2>2. Once(folded[a]) /\ (~Reading(a) => Resumable(folded[a], prog[a].done))
    BY <2>1 DEF MemoryResumes, Rebuilt
  <2>3. Once(folded[a])'
    BY <1>1, <2>2 DEF Once
  <2>4. CASE ~Reading(a)
    <3>1. prog'[a].done = prog[a].done
      BY <1>5, <2>1, <2>4
    <3> QED
      BY <1>1, <2>1, <2>2, <2>3, <2>4, <3>1 DEF Rebuilt, Resumable, NoneOf, Once
  <2>5. CASE Reading(a)
    <3>1. /\ NoneOf(folded[a], job.files)
          /\ pass # 1 => Files \ prog[a].done \subseteq job.files \cup g
      BY <1>1, <1>3, <2>1, <2>5 DEF MemoryResumes, Rebuilt, Unread
    <3>2. pass # 1 => prog'[a].done = prog[a].done \cup g
      BY <1>5, <2>1, <2>5
    <3>3. Unread(a)'
      BY <1>1, <3>1, <3>2 DEF Unread, NoneOf
    <3> QED
      BY <2>1, <2>3, <2>5, <3>3 DEF Rebuilt
  <2> QED
    BY <2>4, <2>5
<1> QED
  BY <1>6, <1>7 DEF MemoryResumes

LEMMA AdvancedResumes ==
    ASSUME BinaryInv, IngestInv', MemoryResumes, AdvancePass
    PROVE  MemoryResumes'
<1>0. Typed /\ plan = Stages
  BY DEF BinaryInv, StatsInv, WorldInv
<1>1. /\ job.step = "advance" /\ folded' = folded /\ prog' = MarkBackfilled
      /\ job'.step \in {"loop", "final"}
  BY <1>0, JobAdvances DEF AdvancePass
<1>2. \A a \in Analyses : ~prog'[a].backfilled =>
        a \notin plan[pass] /\ ~prog[a].backfilled /\ prog'[a].done = prog[a].done
  BY <1>0, <1>1, MarkFacts
<1>3. Lined(prog')
  BY <1>2, LinedSame DEF MemoryResumes
<1>4. ASSUME NEW a \in Analyses, ~prog'[a].backfilled
      PROVE  Resumable(folded'[a], prog'[a].done)
  <2>1. Pending(a) /\ ~Reading(a) /\ prog'[a].done = prog[a].done
    BY <1>2, <1>4 DEF Pending, Reading
  <2> QED
    BY <1>1, <2>1 DEF MemoryResumes, Rebuilt
<1> QED
  BY <1>1, <1>3, <1>4, ResumesAside

\* A killed process goes on from the disk.
LEMMA RestartResumes ==
    ASSUME DiskResumes, Restart,
           (\A a \in Analyses : saving[a] = 0) \/ (\A a \in Analyses : saving[a] = 3)
    PROVE  MemoryResumes'
<1>1. job'.step = "idle"
  BY DEF Restart, NoJob
<1>2. prog' = Loaded /\ \A a \in Analyses : folded'[a] = LoadedState(a)
  BY DEF Restart, Loaded
<1>3. Lined(prog') /\ \A a \in Analyses : ~prog'[a].backfilled => Resumable(folded'[a], prog'[a].done)
  BY <1>2 DEF DiskResumes
<1> QED
  BY <1>1, <1>3, ResumesAside

\* A history without a stop or a torn save had none before, and this step is
\* neither.
LEMMA UndisturbedStep ==
    ASSUME BinaryInv, IngestInv, ~Server, Undisturbed',
           [Next /\ Remembered]_<<vars, histories>>
    PROVE  /\ Undisturbed /\ ~Finish /\ ~Exit
           /\ Kill \/ (PersistFails /\ ~\E a \in Analyses : SaveFile(a)) =>
                (\A a \in Analyses : saving[a] = 0) \/ (\A a \in Analyses : saving[a] = 3)
<1>0. [Next]_vars
  BY DEF vars
<1>1. stops' = stops \/ (Finish /\ stops' = stops + 1)
  BY <1>0, IngestKept
<1>2. stops = 0 /\ ~Finish
  <2>1. stops \in Nat /\ stops' = 0
    BY DEF IngestInv, IndexInv, Undisturbed
  <2>2. ASSUME Finish
        PROVE  FALSE
    <3>1. stops' = stops + 1
      BY <2>2 DEF Finish
    <3> QED
      BY <2>1, <3>1
  <2> QED
    BY <1>1, <2>1, <2>2
<1>3. ~torn /\ (Next /\ Remembered => ~Tears)
  <2>1. ASSUME torn \/ Tears, torn' = (torn \/ Tears)
        PROVE  FALSE
    <3>1. (torn \/ Tears) = TRUE
      BY <2>1
    <3>2. torn'
      BY <2>1, <3>1, Zenon
    <3> QED
      BY <3>2 DEF Undisturbed
  <2>2. CASE UNCHANGED <<vars, histories>>
    <3>1. torn' = torn
      BY <2>2 DEF histories
    <3>2. ~torn
      BY <3>1 DEF Undisturbed
    <3>3. ASSUME Next /\ Remembered, Tears
          PROVE  FALSE
      <4>1. torn' = (torn \/ Tears)
        BY <3>3 DEF Remembered
      <4> QED
        BY <2>1, <3>3, <4>1
    <3> QED
      BY <3>2, <3>3
  <2>3. CASE Next /\ Remembered
    BY <2>1, <2>3 DEF Remembered
  <2> QED
    BY <2>2, <2>3
<1>4. ~Exit
  BY <1>2 DEF Exit, Flushed, IngestInv, IndexInv
<1>5. ASSUME Kill \/ (PersistFails /\ ~\E a \in Analyses : SaveFile(a)),
             NEW b \in Analyses, saving[b] # 0, NEW a \in Analyses, saving[a] # 3
      PROVE  FALSE
  <2>1. \A n \in Analyses : saving[n] \in 0..3
    BY DEF BinaryInv, StatsInv, Typed
  <2>2. saving[b] > 0 /\ saving[a] < 3
    BY <1>5, <2>1
  <2>3. saving' = [n \in Analyses |-> 0]
    BY <1>5 DEF Kill, Restart, PersistFails
  <2>4. saving' # saving
    <3>1. saving'[b] = 0
      BY <2>3
    <3> QED
      BY <1>5, <3>1
  <2>5. ~\E n \in Analyses : SaveFile(n)
    <3>1. ASSUME Kill, NEW n \in Analyses, SaveFile(n)
          PROVE  FALSE
      <4>1. kills' = kills + 1 /\ kills' = kills
        BY <3>1 DEF Kill, SaveFile, bounds
      <4> QED
        BY <4>1 DEF IngestInv, IndexInv
    <3> QED
      BY <1>5, <3>1
  <2>6. Tears
    BY <2>2, <2>4, <2>5 DEF Tears
  <2>7. ~UNCHANGED <<vars, histories>>
    BY <2>4 DEF vars
  <2> QED
    BY <1>3, <2>6, <2>7
<1> QED
  BY <1>2, <1>3, <1>4, <1>5 DEF Undisturbed

LEMMA MemoryResumesStep ==
    ASSUME BinaryInv, IngestInv, IngestInv', MemoryResumes, DiskResumes, ~Server, DumpsApart, Undisturbed',
           [Next /\ Remembered]_<<vars, histories>>
    PROVE  MemoryResumes'
<1>0. Typed /\ admin = "none" /\ WorldInv
  BY DEF BinaryInv, StatsInv, NeverReset
<1>1. /\ ~Finish /\ ~Exit
      /\ Kill \/ (PersistFails /\ ~\E a \in Analyses : SaveFile(a)) =>
           (\A a \in Analyses : saving[a] = 0) \/ (\A a \in Analyses : saving[a] = 3)
  BY UndisturbedStep
<1>2. CASE (\E a \in Analyses : ResetAnalysis(a)) \/ ResetAll \/ StartRebuild \/ CancelIngest
           \/ RequestResetAll \/ ResetAllWaited
  BY <1>0, <1>2 DEF ResetAnalysis, ResetAll, StartRebuild, CancelIngest, RequestResetAll, ResetAllWaited
<1>3. CASE (\E a \in Analyses : SaveFile(a)) \/ Idle \/ UNCHANGED vars
  <2>1. UNCHANGED <<folded, prog, plan, pass, job>>
    BY <1>3 DEF SaveFile, Idle, vars, analysisVars, pipeVars
  <2> QED
    BY <2>1, ResumesSame
<1>4. CASE \E index \in BOOLEAN : StartIngest(index)
  <2>0. PICK index \in BOOLEAN : StartIngest(index)
    BY <1>4
  <2>1. job.step = "idle" /\ UNCHANGED <<folded, prog>> /\ Begin(index)
    BY <2>0 DEF StartIngest, analysisVars
  <2>2. job'.step = "loop"
    BY <2>1 DEF Begin, NoJob
  <2>3. \A a \in Analyses : ~prog'[a].backfilled => Resumable(folded'[a], prog'[a].done)
    BY <2>1 DEF MemoryResumes, Rebuilt, Reading, Pending
  <2>4. Lined(prog')
    BY <2>1 DEF MemoryResumes
  <2> QED
    BY <2>2, <2>3, <2>4, ResumesAside
<1>5. CASE StartPass
  BY <1>5, PassResumes
<1>6. CASE StartGroup
  BY <1>6, GroupResumes
<1>7. CASE FoldArchived
  BY <1>7, FoldResumes
<1>8. CASE EndGroup
  BY <1>8, EndedResumes
<1>9. CASE AdvancePass
  BY <1>9, AdvancedResumes
<1>10. CASE GoLive \/ FoldLive
  <2>1. live'
    <3>1. CASE GoLive
      BY <3>1 DEF GoLive
    <3>2. CASE FoldLive
      <4>1. live /\ live' = live
        BY <3>2 DEF FoldLive
      <4> QED
        BY <4>1
    <3> QED
      BY <1>10, <3>1, <3>2
  <2>2. \A a \in Analyses : prog'[a].backfilled
    BY <2>1 DEF IngestInv, LiveIsComplete, Pending
  <2> QED
    BY <2>2, NothingPending
<1>11. CASE Kill
  BY <1>1, <1>11, RestartResumes DEF Kill
<1>12. CASE PersistFails /\ ~\E a \in Analyses : SaveFile(a)
  <2>1. UNCHANGED <<folded, prog, plan, pass>> /\ (job' = job \/ (job.step = "groups" /\ job'.step = "done"))
    BY <1>12 DEF PersistFails, analysisVars, pipeVars, NoJob
  <2>2. CASE job' = job
    BY <2>1, <2>2, ResumesSame
  <2>3. CASE job.step = "groups" /\ job'.step = "done"
    <3>1. \E b \in Analyses : saving[b] > 0
      BY <1>12 DEF PersistFails
    <3>2. \A a \in Analyses : Pending(a) => Resumable(folded[a], prog[a].done)
      BY <3>1 DEF DiskResumes
    <3>3. \A a \in Analyses : ~prog'[a].backfilled => Resumable(folded'[a], prog'[a].done)
      BY <2>1, <3>2 DEF Pending
    <3>4. Lined(prog')
      BY <2>1 DEF MemoryResumes
    <3> QED
      BY <2>3, <3>3, <3>4, ResumesAside
  <2> QED
    BY <2>1, <2>2, <2>3
<1>13. Next \/ UNCHANGED vars
  OBVIOUS
<1> QED
  BY <1>1, <1>2, <1>3, <1>4, <1>5, <1>6, <1>7, <1>8, <1>9, <1>10, <1>11, <1>12, <1>13
     DEF Next, IngestStep

\* The disk stays as it is; what a process would load, too.
LEMMA LoadedSame ==
    ASSUME disk' = disk
    PROVE  Loaded' = Loaded /\ \A a \in Analyses : LoadedState(a)' = LoadedState(a)
BY DEF Loaded, LoadedProgress, LoadedState, Loadable

LEMMA DiskResumesSame ==
    ASSUME DiskResumes, UNCHANGED <<folded, prog, disk, saving, pass, job>>
    PROVE  DiskResumes'
<1>1. /\ Lined(Loaded) => Lined(Loaded)'
      /\ \A a \in Analyses :
           (~Loaded[a].backfilled => Resumable(LoadedState(a), Loaded[a].done)) =>
           (~Loaded[a].backfilled => Resumable(LoadedState(a), Loaded[a].done))'
  BY LoadedSame DEF Lined, Resumable, Once, NoneOf
<1>2. \A a \in Analyses : /\ Pending(a)' <=> Pending(a)
                          /\ Resumable(folded[a], prog[a].done) => Resumable(folded[a], prog[a].done)'
  BY DEF Pending, Resumable, Once, NoneOf
<1> QED
  BY <1>1, <1>2 DEF DiskResumes, Busy

LEMMA DiskResumesUnsaved ==
    ASSUME DiskResumes, disk' = disk, \A a \in Analyses : saving'[a] = 0,
           (\A a \in Analyses : saving[a] = 0) \/ (\A a \in Analyses : saving[a] = 3)
    PROVE  DiskResumes'
<1>1. /\ Lined(Loaded) => Lined(Loaded)'
      /\ \A a \in Analyses :
           (~Loaded[a].backfilled => Resumable(LoadedState(a), Loaded[a].done)) =>
           (~Loaded[a].backfilled => Resumable(LoadedState(a), Loaded[a].done))'
  BY LoadedSame DEF Lined, Resumable, Once, NoneOf
<1> QED
  BY <1>1 DEF DiskResumes

LEMMA DiskResumesSaving ==
    ASSUME DiskResumes, disk' = disk, Persist, \A a \in Analyses : saving[a] = 0,
           Busy' => job'.step = "groups" /\ pass' # 1,
           \A a \in Analyses : ~prog'[a].backfilled => Resumable(folded'[a], prog'[a].done)
    PROVE  DiskResumes'
<1>1. /\ Lined(Loaded) => Lined(Loaded)'
      /\ \A a \in Analyses :
           (~Loaded[a].backfilled => Resumable(LoadedState(a), Loaded[a].done)) =>
           (~Loaded[a].backfilled => Resumable(LoadedState(a), Loaded[a].done))'
  BY LoadedSame DEF Lined, Resumable, Once, NoneOf
<1>2. \A a \in Analyses : Pending(a)' => Resumable(folded[a], prog[a].done)'
  BY DEF Pending, Resumable, Once, NoneOf
<1>3. \A a \in Analyses : saving'[a] = 3
  BY DEF Persist
<1> QED
  BY <1>1, <1>2, <1>3 DEF DiskResumes

LEMMA DiskResumesWritten ==
    ASSUME Typed, MemoryResumes, DiskResumes, NEW b \in Analyses, SaveFile(b)
    PROVE  DiskResumes'
<1>1. PICK n \in 1..3 : n = saving[b]
  BY DEF SaveFile, Typed
<1>2. /\ disk' = [disk EXCEPT ![b] = Saved(b, n)] /\ saving' = [saving EXCEPT ![b] = n - 1]
      /\ UNCHANGED <<folded, prog, pass, job>>
  BY <1>1 DEF SaveFile, analysisVars, pipeVars
<1>3. /\ saving \in [Analyses -> 0..3] /\ disk \in [Analyses -> DiskType]
      /\ \A a \in Analyses : disk[a] \in DiskType /\ prog[a] \in ProgressType
  BY DEF Typed
<1>4. /\ \E x \in Analyses : saving[x] > 0
      /\ Busy => job.step = "groups" /\ pass # 1
      /\ \A a \in Analyses :
           /\ Pending(a) => Resumable(folded[a], prog[a].done)
           /\ saving[a] <= 2 => disk[a].hasState /\ disk[a].folded = folded[a]
           /\ saving[a] <= 1 => disk[a].hasMeta /\ disk[a].meta = MetaOf(prog[a])
  <2>1. \E x \in Analyses : saving[x] > 0
    BY <1>1
  <2> QED
    BY <2>1 DEF DiskResumes
<1>5. ASSUME NEW a \in Analyses
      PROVE  /\ saving'[a] <= 2 => disk'[a].hasState /\ disk'[a].folded = folded[a]
             /\ saving'[a] <= 1 => disk'[a].hasMeta /\ disk'[a].meta = MetaOf(prog[a])
  <2>1. /\ saving[a] <= 2 => disk[a].hasState /\ disk[a].folded = folded[a]
        /\ saving[a] <= 1 => disk[a].hasMeta /\ disk[a].meta = MetaOf(prog[a])
    BY <1>4
  <2>2. CASE a # b
    BY <1>2, <1>3, <2>1, <2>2
  <2>3. CASE a = b /\ n = 3
    <3>1. disk'[a] = WithState(disk[a], a) /\ saving'[a] = 2
      BY <1>2, <1>3, <2>3 DEF Saved
    <3> QED
      BY <1>3, <3>1 DEF WithState, DiskType
  <2>4. CASE a = b /\ n = 2
    <3>1. disk'[a] = WithMeta(disk[a], a) /\ saving'[a] = 1
      BY <1>2, <1>3, <2>4 DEF Saved
    <3>2. PICK meta \in MetaType : meta = MetaOf(prog[a])
      BY <1>3, MetaFacts
    <3>3. /\ disk'[a].hasState = disk[a].hasState /\ disk'[a].hasMeta /\ disk'[a].meta = meta
          /\ disk'[a].folded = disk[a].folded
      BY <1>3, <3>1, <3>2 DEF WithMeta, DiskType
    <3> QED
      BY <1>1, <2>1, <2>4, <3>2, <3>3
  <2>5. CASE a = b /\ n = 1
    <3>1. disk'[a] = WithBoundary(disk[a], a)
      BY <1>2, <1>3, <2>5, SavedFacts
    <3>2. /\ disk'[a].hasState = disk[a].hasState /\ disk'[a].hasMeta = disk[a].hasMeta
          /\ disk'[a].meta = disk[a].meta /\ disk'[a].folded = disk[a].folded
      BY <1>3, <3>1 DEF WithBoundary, DiskType
    <3> QED
      BY <1>1, <2>1, <2>5, <3>2
  <2> QED
    BY <1>1, <2>2, <2>3, <2>4, <2>5
<1>6. ASSUME \A a \in Analyses : saving'[a] = 0
      PROVE  \A a \in Analyses : /\ Loaded'[a].backfilled = prog[a].backfilled
                                 /\ Loaded'[a].done = prog[a].done /\ LoadedState(a)' = folded[a]
  <2> SUFFICES ASSUME NEW a \in Analyses
               PROVE  /\ Loaded'[a].backfilled = prog[a].backfilled
                      /\ Loaded'[a].done = prog[a].done /\ LoadedState(a)' = folded[a]
    OBVIOUS
  <2>1. PICK meta \in MetaType : /\ meta = MetaOf(prog[a]) /\ meta.backfilled = prog[a].backfilled
                                 /\ meta.done = prog[a].done
    BY <1>3, MetaFacts
  <2>2. disk'[a].hasState /\ disk'[a].folded = folded[a] /\ disk'[a].hasMeta /\ disk'[a].meta = meta
    BY <1>5, <1>6, <2>1
  <2>3. PICK boundary \in SUBSET Events : boundary = disk'[a].boundary
    <3>1. Saved(b, n) \in DiskType
      BY SavedFacts
    <3>2. disk'[a] \in DiskType
      BY <1>2, <1>3, <3>1
    <3> QED
      BY <3>2 DEF DiskType
  <2> DEFINE p == [mark |-> meta.mark, boundary |-> boundary,
                   backfilled |-> meta.backfilled, done |-> meta.done]
  <2>4. p \in ProgressType /\ p.backfilled = meta.backfilled /\ p.done = meta.done
    BY DEF MetaType, ProgressType
  <2>5. LoadedState(a)' = folded[a] /\ Loaded'[a] = Clamped(p)
    BY <2>2, <2>3 DEF Loaded, LoadedProgress, LoadedState, Loadable
  <2> HIDE DEF p
  <2>6. Clamped(p).backfilled = p.backfilled /\ Clamped(p).done = p.done
    BY <2>4, ClampedFacts
  <2> QED
    BY <2>1, <2>4, <2>5, <2>6
<1>7. ASSUME \A a \in Analyses : saving'[a] = 0
      PROVE  /\ Lined(Loaded)'
             /\ \A a \in Analyses :
                  (~Loaded[a].backfilled => Resumable(LoadedState(a), Loaded[a].done))'
  <2>1. \A a \in Analyses : ~Loaded'[a].backfilled =>
                              ~prog[a].backfilled /\ Loaded'[a].done = prog[a].done
    BY <1>6, <1>7
  <2>2. Lined(Loaded')
    BY <2>1, LinedSame DEF MemoryResumes
  <2>3. ASSUME NEW a \in Analyses, ~Loaded'[a].backfilled
        PROVE  Resumable(LoadedState(a)', Loaded'[a].done)
    <3>1. Resumable(folded[a], prog[a].done)
      BY <1>4, <2>1, <2>3 DEF Pending
    <3> QED
      BY <1>6, <1>7, <2>1, <2>3, <3>1
  <2> QED
    BY <2>2, <2>3 DEF Lined, Resumable, Once, NoneOf
<1>8. ~\A a \in Analyses : saving'[a] = 3
  BY <1>1, <1>2, <1>3
<1>9. /\ (Busy => job.step = "groups" /\ pass # 1)'
      /\ \A a \in Analyses : (Pending(a) => Resumable(folded[a], prog[a].done))'
  BY <1>2, <1>4 DEF Busy, Pending, Resumable, Once, NoneOf
<1> QED
  BY <1>2, <1>5, <1>7, <1>8, <1>9 DEF DiskResumes

\* Where a pass stands between two groups, it can be gone on from.
LEMMA GroupsAreResumable ==
    ASSUME MemoryResumes', job'.step = "groups", pass' # 1
    PROVE  \A a \in Analyses : ~prog'[a].backfilled => Resumable(folded'[a], prog'[a].done)
<1> SUFFICES ASSUME NEW a \in Analyses, ~prog'[a].backfilled
             PROVE  Resumable(folded'[a], prog'[a].done)
  OBVIOUS
<1>1. Rebuilt(a)'
  BY DEF MemoryResumes, Pending
<1>2. CASE Reading(a)'
  <2>1. Once(folded[a])' /\ NoneOf(folded[a], job.files)' /\ Files \ prog'[a].done \subseteq job'.files
    BY <1>1, <1>2 DEF Rebuilt, Unread
  <2> QED
    BY <2>1 DEF Resumable, Once, NoneOf
<1>3. CASE ~Reading(a)'
  <2>1. Resumable(folded[a], prog[a].done)'
    BY <1>1, <1>3 DEF Rebuilt
  <2> QED
    BY <2>1 DEF Resumable, Once, NoneOf
<1> QED
  BY <1>2, <1>3

LEMMA DiskResumesStep ==
    ASSUME BinaryInv, IngestInv, MemoryResumes, DiskResumes, ~Server, Undisturbed',
           MemoryResumes', BinaryInv', IngestInv',
           [Next /\ Remembered]_<<vars, histories>>
    PROVE  DiskResumes'
<1>0. Typed /\ admin = "none" /\ WorldInv
  BY DEF BinaryInv, StatsInv, NeverReset
<1>1. /\ ~Finish /\ ~Exit
      /\ Kill \/ (PersistFails /\ ~\E a \in Analyses : SaveFile(a)) =>
           (\A a \in Analyses : saving[a] = 0) \/ (\A a \in Analyses : saving[a] = 3)
  BY UndisturbedStep
<1>2. CASE (\E a \in Analyses : ResetAnalysis(a)) \/ ResetAll \/ StartRebuild \/ CancelIngest
           \/ RequestResetAll \/ ResetAllWaited
  BY <1>0, <1>2 DEF ResetAnalysis, ResetAll, StartRebuild, CancelIngest, RequestResetAll, ResetAllWaited
<1>3. CASE \E a \in Analyses : SaveFile(a)
  BY <1>0, <1>3, DiskResumesWritten
<1>4. CASE Idle \/ UNCHANGED vars
  <2>1. UNCHANGED <<folded, prog, disk, saving, pass, job>>
    BY <1>4 DEF Idle, vars, analysisVars, pipeVars
  <2> QED
    BY <2>1, DiskResumesSame
<1>5. ASSUME Unlocked, UNCHANGED <<disk, saving>>
      PROVE  DiskResumes'
  <2>1. \A a \in Analyses : saving[a] = 0 /\ saving'[a] = 0
    BY <1>0, <1>5, UnlockedFacts
  <2> QED
    BY <1>5, <2>1, DiskResumesUnsaved
<1>6. ASSUME Unlocked, disk' = disk, Persist, Busy' => job'.step = "groups" /\ pass' # 1,
             \A a \in Analyses : ~prog'[a].backfilled => Resumable(folded'[a], prog'[a].done)
      PROVE  DiskResumes'
  <2>1. \A a \in Analyses : saving[a] = 0
    BY <1>0, <1>6, UnlockedFacts
  <2> QED
    BY <1>6, <2>1, DiskResumesSaving
<1>7. CASE (\E index \in BOOLEAN : StartIngest(index)) \/ AdvancePass
  BY <1>5, <1>7 DEF StartIngest, AdvancePass
<1>8. CASE StartPass
  BY <1>5, <1>8 DEF StartPass
<1>9. CASE StartGroup
  BY <1>5, <1>9 DEF StartGroup
<1>10. CASE FoldArchived
  <2>1. ~live /\ Unlocked /\ disk' = disk
    BY <1>0, <1>10 DEF FoldArchived, WorldInv
  <2>2. saving' = saving
    BY <1>10, <2>1 DEF FoldArchived, AfterFold
  <2> QED
    BY <1>5, <2>1, <2>2
<1>11. CASE EndGroup
  <2>1. Unlocked /\ disk' = disk /\ Busy /\ pass' = pass
    BY <1>11 DEF EndGroup, pipeVars, Busy
  <2>2. CASE saving' = saving
    BY <1>5, <2>1, <2>2
  <2>3. CASE Persist /\ ~Indexing
    <3>1. pass' # 1
      BY <2>1, <2>3 DEF Indexing, IngestInv, IndexInv
    <3>2. job'.step = "groups"
      BY <1>0, <1>11, JobEndsGroup DEF IngestInv, IndexInv
    <3> QED
      BY <1>6, <2>1, <2>3, <3>1, <3>2, GroupsAreResumable
  <2> QED
    BY <1>11, <2>2, <2>3 DEF EndGroup
<1>12. CASE GoLive \/ FoldLive
  <2>1. Unlocked /\ disk' = disk /\ (saving' = saving \/ Persist)
    BY <1>12, SaveStarts DEF GoLive, FoldLive
  <2>2. live'
    <3>1. CASE GoLive
      BY <3>1 DEF GoLive
    <3>2. CASE FoldLive
      <4>1. live /\ live' = live
        BY <3>2 DEF FoldLive
      <4> QED
        BY <4>1
    <3> QED
      BY <1>12, <3>1, <3>2
  <2>3. ~Busy'
    BY <2>2 DEF BinaryInv, WorldInv, Busy
  <2>4. \A a \in Analyses : prog'[a].backfilled
    BY <2>2 DEF IngestInv, LiveIsComplete, Pending
  <2> QED
    BY <1>5, <1>6, <2>1, <2>3, <2>4
<1>13. CASE Kill \/ (PersistFails /\ ~\E a \in Analyses : SaveFile(a))
  <2>1. disk' = disk /\ \A a \in Analyses : saving'[a] = 0
    BY <1>13 DEF Kill, Restart, PersistFails
  <2> QED
    BY <1>1, <1>13, <2>1, DiskResumesUnsaved
<1>14. Next \/ UNCHANGED vars
  OBVIOUS
<1> QED
  BY <1>1, <1>2, <1>3, <1>4, <1>7, <1>8, <1>9, <1>10, <1>11, <1>12, <1>13, <1>14 DEF Next, IngestStep

LEMMA OnceInit ==
    ASSUME HistoryInit, ~Server
    PROVE  OnceInv
<1>0. Init /\ BinaryInv
  BY BinaryInit DEF HistoryInit
<1>1. IngestInv
  BY <1>0, IngestInit
<1>2. Resumable(NotFolded, {})
  BY ConstantsAssumption DEF NotFolded, Resumable, Once, NoneOf
<1>3. /\ \A a \in Analyses : prog[a] = Fresh /\ folded[a] = NotFolded /\ saving[a] = 0
      /\ \A a \in Analyses : ~Loadable(a)
      /\ job.step = "idle" /\ ~live
  BY <1>0 DEF Init, NoJob, Loadable
<1>4. Fresh.done = {}
  BY DEF Fresh
<1>5. \A a \in Analyses : Loaded[a] = Fresh /\ LoadedState(a) = NotFolded
  BY <1>3 DEF Loaded, LoadedProgress, LoadedState
<1>6. Lined(prog) /\ Lined(Loaded)
  BY <1>3, <1>4, <1>5, StagesAreOrdered DEF Lined
<1>7. MemoryResumes
  BY <1>2, <1>3, <1>4, <1>6 DEF MemoryResumes, Rebuilt, Reading, Resumable
<1>8. DiskResumes
  BY <1>2, <1>3, <1>4, <1>5, <1>6 DEF DiskResumes
<1> QED
  BY <1>0, <1>1, <1>7, <1>8 DEF OnceInv

THEOREM OnceInvHolds == ~Server /\ DumpsApart => (HistorySpec => []OnceInv)
<1> SUFFICES ASSUME ~Server, DumpsApart
             PROVE  HistorySpec => []OnceInv
  OBVIOUS
<1>1. ASSUME OnceInv, [Next /\ Remembered]_<<vars, histories>>
      PROVE  OnceInv'
  <2>0. [Next]_vars
    BY <1>1 DEF vars
  <2>1. BinaryInv'
    BY <1>1, <2>0, BinaryStep DEF OnceInv
  <2>2. IngestInv'
    BY <1>1, <2>0, IngestKept DEF OnceInv
  <2>3. ASSUME Undisturbed'
        PROVE  MemoryResumes' /\ DiskResumes'
    <3>1. Undisturbed
      BY <1>1, <2>3, UndisturbedStep DEF OnceInv
    <3>2. MemoryResumes /\ DiskResumes
      BY <1>1, <3>1 DEF OnceInv
    <3>3. MemoryResumes'
      BY <1>1, <2>2, <2>3, <3>2, MemoryResumesStep DEF OnceInv
    <3> QED
      BY <1>1, <2>1, <2>2, <2>3, <3>2, <3>3, DiskResumesStep DEF OnceInv
  <2> QED
    BY <2>1, <2>2, <2>3 DEF OnceInv
<1> QED
  BY <1>1, OnceInit, PTL DEF HistorySpec

\* A backfill that is killed and resumed, however often, counts no event twice
\* (pipeline.rs, finish_pass_files; archive_ingest.rs, run_passes): what is saved
\* of a pass is the dumps it is done with and the counts of just these.
THEOREM ResumedBackfillCountsOnce == ~Server /\ DumpsApart => (HistorySpec => []RebuildCountsOnce)
<1> SUFFICES ASSUME ~Server, DumpsApart
             PROVE  HistorySpec => []RebuildCountsOnce
  OBVIOUS
<1>1. OnceInv => RebuildCountsOnce
  BY DEF OnceInv, Undisturbed, MemoryResumes, Rebuilt, Once, RebuildCountsOnce
<1> QED
  BY <1>1, OnceInvHolds, PTL

-----------------------------------------------------------------------------
(* No watermark in the future. *)

\* An id that is taken for consumed was counted, in memory and on disk; what the
\* boundary file claims was in the state file before.
Consumed(ids, count, a) == \A e \in ids \cap Wants[a] : count[e] > 0
BoundarySaved(a) ==
    /\ saving[a] \in {1, 2} => disk[a].hasState /\ disk[a].folded = folded[a]
    /\ saving[a] = 1 => disk[a].hasMeta
    /\ ~Loadable(a) => disk[a].boundary = {}
    /\ saving[a] \in {0, 3} \/ TornSaves => Consumed(disk[a].boundary, disk[a].folded, a)
    /\ TornSaves => Consumed(disk[a].boundary, folded[a], a)
IdsInv == \A a \in Analyses : Consumed(prog[a].boundary, folded[a], a) /\ BoundarySaved(a)

\* A watermark ahead of the clock is one the history tells of.
MarksInv == \A a \in Analyses : a \in raised \/ prog[a].mark <= Now + Skew

FreshInv == Typed /\ NeverReset /\ IdsInv /\ MarksInv

\* What a node has to be spared for this: a reset whose save is torn, which
\* leaves the old ids beside the emptied state.
ResetsAreSaved == Server /\ TornSaves => MaxResets = 0

LEMMA ConsumedMore ==
    ASSUME NEW x \in [Events -> Nat], NEW y \in [Events -> Nat], \A e \in Events : x[e] <= y[e],
           NEW a \in Analyses, NEW ids \in SUBSET Events, Consumed(ids, x, a)
    PROVE  Consumed(ids, y, a)
<1> SUFFICES ASSUME NEW e \in ids \cap Wants[a]
             PROVE  y[e] > 0
  BY DEF Consumed
<1>1. x[e] > 0 /\ x[e] \in Nat /\ y[e] \in Nat /\ x[e] <= y[e]
  BY DEF Consumed
<1> QED
  BY <1>1

LEMMA AdvancedMarks ==
    ASSUME NEW p \in ProgressType, NEW e \in Events
    PROVE  /\ \/ AdvancedBounded(p, e).mark = p.mark
              \/ AdvancedBounded(p, e).mark = CreatedAt[e] /\ CreatedAt[e] <= Now + Skew
           /\ AdvancedBounded(p, e).boundary \subseteq p.boundary \cup {e}
<1>1. CreatedAt[e] \in Nat /\ Now + Skew \in Nat /\ p.mark \in Nat
  BY ConstantsAssumption DEF ProgressType
<1>2. Later(p.mark, CreatedAt[e]) \in {p.mark, CreatedAt[e]}
  BY DEF Later
<1>3. PICK ids \in SUBSET Events :
        ids = (IF Cardinality(p.boundary) >= MaxBoundary THEN {} ELSE p.boundary) \cup {e}
  BY DEF ProgressType
<1>4. Advanced(p, e) = [p EXCEPT !.mark = Later(@, CreatedAt[e]), !.boundary = ids]
  BY <1>3 DEF Advanced
<1>5. Advanced(p, e).mark = Later(p.mark, CreatedAt[e]) /\ Advanced(p, e).boundary = ids
  BY <1>4 DEF ProgressType
<1>6. ids \subseteq p.boundary \cup {e}
  BY <1>3
<1>7. CASE CreatedAt[e] > Now + Skew
  <2>1. AdvancedBounded(p, e) = p
    BY <1>7 DEF AdvancedBounded
  <2> QED
    BY <2>1
<1>8. CASE ~(CreatedAt[e] > Now + Skew)
  <2>1. AdvancedBounded(p, e) = Advanced(p, e) /\ CreatedAt[e] <= Now + Skew
    BY <1>1, <1>8 DEF AdvancedBounded
  <2> QED
    BY <1>2, <1>5, <1>6, <2>1
<1> QED
  BY <1>7, <1>8

\* A fold moves a watermark to the date of its event, or not at all.
LEMMA FoldMarks ==
    ASSUME Typed, NEW e \in Events, Fold(e), NEW a \in Analyses
    PROVE  /\ \/ prog'[a].mark = prog[a].mark
              \/ prog'[a].mark = CreatedAt[e] /\ (Pending(a) \/ CreatedAt[e] <= Now + Skew)
           /\ \A x \in prog'[a].boundary :
                x \in prog[a].boundary \/ (x = e /\ (e \in Wants[a] => folded'[a][e] > 0))
<1> DEFINE hit == {n \in Targets : Consumes(n, e)}
<1>1. /\ folded' = [n \in Analyses |-> IF n \in hit /\ e \in Wants[n]
                                       THEN [folded[n] EXCEPT ![e] = @ + 1] ELSE folded[n]]
      /\ prog' = [n \in Analyses |->
                    IF n \notin hit THEN prog[n]
                    ELSE IF Pending(n) THEN [prog[n] EXCEPT !.mark = Later(@, CreatedAt[e])]
                    ELSE AdvancedBounded(prog[n], e)]
  BY DEF Fold
<1> HIDE DEF hit
<1>2. prog[a] \in ProgressType /\ folded[a] \in [Events -> Nat]
  BY DEF Typed
<1>3. CASE a \notin hit
  BY <1>1, <1>3
<1>4. CASE a \in hit /\ Pending(a)
  <2>1. PICK m : m = Later(prog[a].mark, CreatedAt[e]) /\ m \in {prog[a].mark, CreatedAt[e]}
    BY DEF Later
  <2>2. prog'[a] = [prog[a] EXCEPT !.mark = m]
    BY <1>1, <1>4, <2>1
  <2>3. prog'[a].mark = m /\ prog'[a].boundary = prog[a].boundary
    BY <1>2, <2>2 DEF ProgressType
  <2> QED
    BY <1>4, <2>1, <2>3
<1>5. CASE a \in hit /\ ~Pending(a)
  <2>1. prog'[a] = AdvancedBounded(prog[a], e)
    BY <1>1, <1>5
  <2>2. e \in Wants[a] => folded'[a][e] > 0
    BY <1>1, <1>2, <1>5
  <2> QED
    BY <1>2, <2>1, <2>2, AdvancedMarks
<1> QED
  BY <1>3, <1>4, <1>5

LEMMA IdsFold ==
    ASSUME Typed, IdsInv, FoldArchived \/ FoldLive
    PROVE  IdsInv'
<1>0. job \in JobType
  BY DEF Typed
<1>1. PICK e \in Events : Fold(e)
  <2>1. CASE FoldLive
    BY <2>1 DEF FoldLive, Typed
  <2>2. CASE FoldArchived
    BY <1>0, <2>2 DEF FoldArchived, JobType
  <2> QED
    BY <2>1, <2>2
<1>2. UNCHANGED disk /\ (saving' = saving \/ Persist) /\ Unlocked
  BY SaveStarts DEF FoldArchived, FoldLive
<1>3. /\ folded \in [Analyses -> [Events -> Nat]] /\ folded' \in [Analyses -> [Events -> Nat]]
      /\ \A a \in Analyses : \A x \in Events : folded[a][x] <= folded'[a][x]
      /\ \A a \in Analyses : prog[a].boundary \in SUBSET Events /\ disk[a].boundary \in SUBSET Events
  BY <1>1, FoldFacts DEF Typed, ProgressType, DiskType
<1>4. ASSUME NEW a \in Analyses
      PROVE  Consumed(prog'[a].boundary, folded'[a], a)
  <2>1. Consumed(prog[a].boundary, folded'[a], a)
    BY <1>3, ConsumedMore DEF IdsInv
  <2>2. \A x \in prog'[a].boundary :
           x \in prog[a].boundary \/ (x = e /\ (e \in Wants[a] => folded'[a][e] > 0))
    BY <1>1, FoldMarks
  <2> QED
    BY <2>1, <2>2 DEF Consumed
<1>5. ASSUME NEW a \in Analyses
      PROVE  BoundarySaved(a)'
  <2>1. BoundarySaved(a)
    BY DEF IdsInv
  <2>2. TornSaves => Consumed(disk[a].boundary, folded'[a], a)
    BY <1>3, <2>1, ConsumedMore DEF BoundarySaved
  <2>3. saving[a] = 0 /\ saving'[a] \in {0, 3}
    BY <1>2, UnlockedFacts DEF Persist
  <2> QED
    BY <1>2, <2>1, <2>2, <2>3 DEF BoundarySaved, Consumed, Loadable
<1> QED
  BY <1>4, <1>5 DEF IdsInv, Consumed

\* A load clamps what it finds.
LEMMA MarksLoaded ==
    ASSUME Typed, NEW a \in Analyses
    PROVE  /\ LoadedProgress(a).mark <= Now + Skew
           /\ IdsInv /\ (saving[a] = 0 \/ saving[a] = 3 \/ TornSaves) =>
                Consumed(LoadedProgress(a).boundary, LoadedState(a), a)
<1>1. Now + Skew \in Nat
  BY ConstantsAssumption
<1>2. ASSUME NEW p \in ProgressType
      PROVE  Clamped(p).mark <= Now + Skew /\ Clamped(p).boundary \subseteq p.boundary
  <2>1. p.mark \in Nat
    BY DEF ProgressType
  <2>2. CASE p.mark > Now + Skew
    <3>1. Clamped(p) = [p EXCEPT !.mark = Now + Skew, !.boundary = {}]
      BY <2>2 DEF Clamped
    <3>2. Clamped(p).mark = Now + Skew /\ Clamped(p).boundary = {}
      BY <3>1 DEF ProgressType
    <3> QED
      BY <1>1, <3>2
  <2>3. CASE ~(p.mark > Now + Skew)
    <3>1. Clamped(p) = p /\ p.mark <= Now + Skew
      BY <1>1, <2>1, <2>3 DEF Clamped
    <3> QED
      BY <3>1
  <2> QED
    BY <2>2, <2>3
<1>3. disk[a] \in DiskType
  BY DEF Typed
<1>4. CASE Loadable(a)
  <2> DEFINE p == [mark |-> disk[a].meta.mark, boundary |-> disk[a].boundary,
                   backfilled |-> disk[a].meta.backfilled, done |-> disk[a].meta.done]
  <2>1. p \in ProgressType /\ p.boundary = disk[a].boundary
    BY <1>3 DEF DiskType, MetaType, ProgressType
  <2>2. LoadedProgress(a) = Clamped(p) /\ LoadedState(a) = disk[a].folded
    BY <1>4 DEF LoadedProgress, LoadedState
  <2> HIDE DEF p
  <2>3. LoadedProgress(a).mark <= Now + Skew /\ LoadedProgress(a).boundary \subseteq disk[a].boundary
    BY <1>2, <2>1, <2>2
  <2>4. IdsInv /\ (saving[a] = 0 \/ saving[a] = 3 \/ TornSaves) =>
           Consumed(disk[a].boundary, disk[a].folded, a)
    BY DEF IdsInv, BoundarySaved
  <2> QED
    BY <2>2, <2>3, <2>4 DEF Consumed
<1>5. CASE ~Loadable(a)
  <2>1. LoadedProgress(a).mark = 0 /\ LoadedProgress(a).boundary = {}
    BY <1>5 DEF LoadedProgress, Fresh
  <2> QED
    BY <1>1, <2>1 DEF Consumed
<1> QED
  BY <1>4, <1>5

LEMMA IdsLoaded ==
    ASSUME Typed, IdsInv, Exit \/ Kill
    PROVE  IdsInv'
<1>1. disk' = disk
  BY DEF Exit, Kill
<1>2. ASSUME NEW a \in Analyses
      PROVE  Consumed(prog'[a].boundary, folded'[a], a) /\ BoundarySaved(a)'
  <2>1. prog'[a] = LoadedProgress(a) /\ folded'[a] = LoadedState(a) /\ saving'[a] \in {0, 3}
    BY DEF Exit, Kill, Restart
  <2>2. saving[a] = 0 \/ TornSaves
    BY DEF Exit, Kill, Flushed
  <2>3. disk[a] \in DiskType /\ BoundarySaved(a)
    BY DEF Typed, IdsInv
  <2>4. Consumed(prog'[a].boundary, folded'[a], a)
    BY <2>1, <2>2, MarksLoaded
  <2>5. Consumed(disk[a].boundary, disk[a].folded, a)
    BY <2>2, <2>3 DEF BoundarySaved
  <2>6. Consumed(disk[a].boundary, folded'[a], a)
    <3>1. CASE Loadable(a)
      BY <2>1, <2>5, <3>1 DEF LoadedState
    <3>2. CASE ~Loadable(a)
      BY <2>3, <3>2 DEF BoundarySaved, Consumed
    <3> QED
      BY <3>1, <3>2
  <2> QED
    BY <1>1, <2>1, <2>3, <2>4, <2>5, <2>6 DEF BoundarySaved, Consumed, Loadable
<1> QED
  BY <1>2 DEF IdsInv, Consumed

LEMMA IdsSaved ==
    ASSUME Typed, IdsInv, NEW b \in Analyses, SaveFile(b)
    PROVE  IdsInv'
<1>1. PICK n \in 1..3 : n = saving[b]
  BY DEF SaveFile, Typed
<1>2. /\ disk' = [disk EXCEPT ![b] = Saved(b, n)] /\ saving' = [saving EXCEPT ![b] = n - 1]
      /\ UNCHANGED <<folded, prog>>
  BY <1>1 DEF SaveFile, analysisVars
<1>3. /\ saving \in [Analyses -> 0..3] /\ disk \in [Analyses -> DiskType]
      /\ \A a \in Analyses : disk[a] \in DiskType /\ prog[a] \in ProgressType
  BY DEF Typed
<1>4. ASSUME NEW a \in Analyses
      PROVE  BoundarySaved(a)'
  <2>1. BoundarySaved(a) /\ Consumed(prog[a].boundary, folded[a], a)
    BY DEF IdsInv
  <2>2. CASE a # b
    <3>1. disk'[a] = disk[a] /\ saving'[a] = saving[a] /\ folded'[a] = folded[a]
      BY <1>2, <1>3, <2>2
    <3> QED
      BY <2>1, <3>1 DEF BoundarySaved, Loadable, Consumed
  <2>3. CASE a = b /\ n = 3
    <3>1. disk'[a] = WithState(disk[a], a) /\ saving'[a] = 2
      BY <1>2, <1>3, <2>3 DEF Saved
    <3>2. /\ disk'[a].hasState /\ disk'[a].folded = folded[a]
          /\ disk'[a].hasMeta = disk[a].hasMeta /\ disk'[a].boundary = disk[a].boundary
      BY <1>3, <3>1 DEF WithState, DiskType
    <3> QED
      BY <1>2, <2>1, <3>1, <3>2 DEF BoundarySaved, Loadable, Consumed
  <2>4. CASE a = b /\ n = 2
    <3>1. disk'[a] = WithMeta(disk[a], a) /\ saving'[a] = 1
      BY <1>2, <1>3, <2>4 DEF Saved
    <3>2. PICK meta \in MetaType : meta = MetaOf(prog[a])
      BY <1>3, MetaFacts
    <3>3. /\ disk'[a].hasState = disk[a].hasState /\ disk'[a].folded = disk[a].folded
          /\ disk'[a].hasMeta /\ disk'[a].boundary = disk[a].boundary
      BY <1>3, <3>1, <3>2 DEF WithMeta, DiskType
    <3>4. disk[a].hasState /\ disk[a].folded = folded[a]
      BY <1>1, <2>1, <2>4 DEF BoundarySaved
    <3>5. TornSaves => Consumed(disk[a].boundary, folded[a], a)
      BY <2>1 DEF BoundarySaved
    <3>6. folded'[a] = folded[a] /\ disk'[a].folded = folded[a]
      BY <1>2, <3>3, <3>4
    <3>7. TornSaves => /\ Consumed(disk'[a].boundary, disk'[a].folded, a)
                       /\ Consumed(disk'[a].boundary, folded'[a], a)
      BY <3>3, <3>5, <3>6
    <3>8. saving'[a] \notin {0, 3} /\ Loadable(a)'
      BY <3>1, <3>3, <3>4 DEF Loadable
    <3> QED
      BY <3>3, <3>4, <3>6, <3>7, <3>8 DEF BoundarySaved, Consumed
  <2>5. CASE a = b /\ n = 1
    <3>1. disk'[a] = WithBoundary(disk[a], a)
      BY <1>2, <1>3, <2>5, SavedFacts
    <3>2. /\ disk'[a].hasState = disk[a].hasState /\ disk'[a].folded = disk[a].folded
          /\ disk'[a].hasMeta = disk[a].hasMeta /\ disk'[a].boundary = prog[a].boundary
      BY <1>3, <3>1 DEF WithBoundary, DiskType, ProgressType
    <3>3. saving'[a] = 0
      BY <1>2, <1>3, <2>5
    <3>4. disk[a].hasState /\ disk[a].hasMeta /\ disk[a].folded = folded[a]
      BY <1>1, <2>1, <2>5 DEF BoundarySaved
    <3> QED
      BY <1>2, <2>1, <3>2, <3>3, <3>4 DEF BoundarySaved, Loadable, Consumed
  <2> QED
    BY <1>1, <2>2, <2>3, <2>4, <2>5
<1> QED
  BY <1>2, <1>4 DEF IdsInv, Consumed

\* A reset empties an analysis and its ids, and starts a save that no kill cuts.
LEMMA IdsReset ==
    ASSUME Typed, NeverReset, IdsInv, ResetsAreSaved,
           (\E a \in Analyses : ResetAnalysis(a)) \/ ResetAll
    PROVE  IdsInv'
<1>1. Unlocked /\ disk' = disk /\ Persist /\ ~TornSaves
  <2>1. MaxResets \in Nat /\ resets \in Nat
    BY ConstantsAssumption DEF Typed
  <2>2. CASE ResetAll
    BY <2>2 DEF ResetAll, EmptyAll, Empty, NeverReset, ResetsAreSaved
  <2>3. CASE \E a \in Analyses : ResetAnalysis(a)
    BY <2>1, <2>3 DEF ResetAnalysis, Empty, ResetsAreSaved
  <2> QED
    BY <2>2, <2>3
<1>2. PICK names : Empty(names)
  BY DEF ResetAnalysis, ResetAll, EmptyAll
<1>3. ASSUME NEW a \in Analyses
      PROVE  Consumed(prog'[a].boundary, folded'[a], a) /\ BoundarySaved(a)'
  <2>1. BoundarySaved(a) /\ Consumed(prog[a].boundary, folded[a], a)
    BY DEF IdsInv
  <2>2. saving[a] = 0 /\ saving'[a] = 3
    BY <1>1, UnlockedFacts DEF Persist
  <2>3. \/ prog'[a] = prog[a] /\ folded'[a] = folded[a]
        \/ prog'[a] = Fresh
    BY <1>2 DEF Empty
  <2>4. Consumed(prog'[a].boundary, folded'[a], a)
    BY <2>1, <2>3 DEF Fresh, Consumed
  <2> QED
    BY <1>1, <2>1, <2>2, <2>4 DEF BoundarySaved, Consumed, Loadable
<1> QED
  BY <1>3 DEF IdsInv, Consumed

LEMMA IdsStand ==
    ASSUME IdsInv, UNCHANGED <<folded, disk>>,
           \A a \in Analyses :
             /\ prog'[a].boundary = prog[a].boundary
             /\ \/ saving'[a] = saving[a]
                \/ saving'[a] \in {0, 3} /\ (saving[a] \in {0, 3} \/ TornSaves)
    PROVE  IdsInv'
<1> SUFFICES ASSUME NEW a \in Analyses
             PROVE  Consumed(prog'[a].boundary, folded'[a], a) /\ BoundarySaved(a)'
  BY DEF IdsInv, Consumed
<1>1. Consumed(prog[a].boundary, folded[a], a) /\ BoundarySaved(a)
  BY DEF IdsInv
<1>2. \/ saving'[a] = saving[a]
      \/ saving'[a] \in {0, 3} /\ (saving[a] \in {0, 3} \/ TornSaves)
  OBVIOUS
<1>3. BoundarySaved(a)'
  BY <1>1, <1>2 DEF BoundarySaved, Loadable, Consumed
<1> QED
  BY <1>1, <1>3

\* Steps that fold nothing and load nothing leave marks and ids as they are.
LEMMA MarksStand ==
    ASSUME Typed, [Next]_vars,
           ~\E a \in Analyses : SaveFile(a) \/ ResetAnalysis(a),
           ~ResetAll, ~FoldArchived, ~FoldLive, ~Exit, ~Kill
    PROVE  /\ UNCHANGED <<folded, disk>>
           /\ \A a \in Analyses :
                /\ prog'[a].mark = prog[a].mark /\ prog'[a].boundary = prog[a].boundary
                /\ \/ saving'[a] = saving[a]
                   \/ saving'[a] \in {0, 3} /\ (saving[a] \in {0, 3} \/ TornSaves)
<1> DEFINE Stand == \A a \in Analyses :
                      prog'[a].mark = prog[a].mark /\ prog'[a].boundary = prog[a].boundary
           Starts == \A a \in Analyses :
                       \/ saving'[a] = saving[a]
                       \/ saving'[a] \in {0, 3} /\ (saving[a] \in {0, 3} \/ TornSaves)
<1>1. ASSUME prog' = prog
      PROVE  Stand
  BY <1>1
<1>2. ASSUME saving' = saving \/ (Unlocked /\ Persist)
      PROVE  Starts
  BY <1>2, UnlockedFacts DEF Persist
<1> SUFFICES UNCHANGED <<folded, disk>> /\ Stand /\ Starts
  OBVIOUS
<1> HIDE DEF Stand, Starts
<1>3. CASE (\E index \in BOOLEAN : StartIngest(index)) \/ Idle \/ UNCHANGED vars
  BY <1>1, <1>2, <1>3 DEF StartIngest, Idle, vars, analysisVars
<1>4. CASE StartPass
  BY <1>1, <1>2, <1>4 DEF StartPass, analysisVars
<1>5. CASE StartGroup
  BY <1>1, <1>2, <1>5 DEF StartGroup, analysisVars
<1>6. CASE CancelIngest \/ RequestResetAll \/ ResetAllWaited \/ StartRebuild
  BY <1>1, <1>2, <1>6 DEF CancelIngest, RequestResetAll, ResetAllWaited, StartRebuild, analysisVars
<1>7. CASE GoLive \/ Finish
  BY <1>1, <1>2, <1>7, SaveStarts DEF GoLive, Finish
<1>8. CASE EndGroup
  <2>1. /\ UNCHANGED <<folded, disk>> /\ (saving' = saving \/ Persist) /\ Unlocked
        /\ prog' = prog \/ prog' = FinishFiles(job.group)
    BY <1>8 DEF EndGroup
  <2>2. PICK g \in SUBSET Files : g = job.group
    BY DEF Typed, JobType
  <2>3. ASSUME NEW a \in Analyses
        PROVE  /\ FinishFiles(g)[a].mark = prog[a].mark
               /\ FinishFiles(g)[a].boundary = prog[a].boundary
    <3>1. prog[a] \in ProgressType
      BY DEF Typed
    <3> QED
      BY <3>1 DEF FinishFiles, ProgressType
  <2>4. Stand
    BY <2>1, <2>2, <2>3 DEF Stand
  <2> QED
    BY <1>2, <2>1, <2>4
<1>9. CASE AdvancePass
  <2>1. UNCHANGED <<folded, disk, saving>> /\ prog' = MarkBackfilled
    BY <1>9 DEF AdvancePass
  <2>2. ASSUME NEW a \in Analyses
        PROVE  /\ MarkBackfilled[a].mark = prog[a].mark
               /\ MarkBackfilled[a].boundary = prog[a].boundary
    <3>1. prog[a] \in ProgressType
      BY DEF Typed
    <3> QED
      BY <3>1 DEF MarkBackfilled, ProgressType
  <2>3. Stand
    BY <2>1, <2>2 DEF Stand
  <2> QED
    BY <1>2, <2>1, <2>3
<1>10. CASE PersistFails
  <2>1. UNCHANGED <<folded, disk, prog>> /\ saving' = [a \in Analyses |-> 0]
        /\ (TornSaves \/ \A a \in Analyses : saving[a] = 3)
    BY <1>10 DEF PersistFails, analysisVars
  <2>2. Starts
    BY <2>1 DEF Starts
  <2> QED
    BY <1>1, <2>1, <2>2
<1> QED
  BY <1>3, <1>4, <1>5, <1>6, <1>7, <1>8, <1>9, <1>10 DEF Next, IngestStep

LEMMA IdsStep ==
    ASSUME Typed, NeverReset, IdsInv, [Next]_vars, ResetsAreSaved
    PROVE  IdsInv'
<1>1. CASE \E a \in Analyses : SaveFile(a)
  BY <1>1, IdsSaved
<1>2. CASE (\E a \in Analyses : ResetAnalysis(a)) \/ ResetAll
  BY <1>2, IdsReset
<1>3. CASE FoldArchived \/ FoldLive
  BY <1>3, IdsFold
<1>4. CASE Exit \/ Kill
  BY <1>4, IdsLoaded
<1>5. ASSUME ~\E a \in Analyses : SaveFile(a) \/ ResetAnalysis(a),
             ~ResetAll, ~FoldArchived, ~FoldLive, ~Exit, ~Kill
      PROVE  IdsInv'
  BY <1>5, MarksStand, IdsStand
<1> QED
  BY <1>1, <1>2, <1>3, <1>4, <1>5

\* A step of a running process moves a watermark beyond the clock only by a fold
\* into an analysis under rebuild.
LEMMA MarkMoves ==
    ASSUME Typed, [Next]_vars, ~Exit, ~Kill, NEW a \in Analyses
    PROVE  prog'[a].mark = prog[a].mark \/ prog'[a].mark <= Now + Skew \/ Pending(a)
<1>0. Now + Skew \in Nat /\ job \in JobType
  BY ConstantsAssumption DEF Typed
<1>1. CASE \E b \in Analyses : SaveFile(b)
  BY <1>1 DEF SaveFile, analysisVars
<1>2. CASE (\E b \in Analyses : ResetAnalysis(b)) \/ ResetAll
  <2>1. PICK names : Empty(names)
    BY <1>2 DEF ResetAnalysis, ResetAll, EmptyAll
  <2>2. prog'[a] = prog[a] \/ prog'[a].mark = 0
    BY <2>1 DEF Empty, Fresh
  <2> QED
    BY <1>0, <2>2
<1>3. CASE FoldArchived \/ FoldLive
  <2>1. PICK e \in Events : Fold(e)
    <3>1. CASE FoldLive
      BY <3>1 DEF FoldLive, Typed
    <3>2. CASE FoldArchived
      BY <1>0, <3>2 DEF FoldArchived, JobType
    <3> QED
      BY <1>3, <3>1, <3>2
  <2> QED
    BY <2>1, FoldMarks
<1>4. ASSUME ~\E b \in Analyses : SaveFile(b) \/ ResetAnalysis(b),
             ~ResetAll, ~FoldArchived, ~FoldLive
      PROVE  prog'[a].mark = prog[a].mark
  BY <1>4, MarksStand
<1> QED
  BY <1>1, <1>2, <1>3, <1>4

LEMMA MarksStep ==
    ASSUME Typed, MarksInv, [Next /\ Remembered]_<<vars, histories>>
    PROVE  MarksInv'
<1> SUFFICES ASSUME NEW a \in Analyses
             PROVE  a \in raised' \/ prog'[a].mark <= Now + Skew
  BY DEF MarksInv
<1>1. prog[a].mark \in Nat /\ Now + Skew \in Nat /\ (a \in raised \/ prog[a].mark <= Now + Skew)
  BY ConstantsAssumption DEF Typed, ProgressType, MarksInv
<1>2. CASE UNCHANGED <<vars, histories>>
  BY <1>1, <1>2 DEF vars, analysisVars, histories
<1>3. CASE Next /\ Remembered
  <2>1. CASE Exit \/ Kill
    <3>1. prog'[a] = LoadedProgress(a)
      BY <2>1 DEF Exit, Kill, Restart
    <3> QED
      BY <3>1, MarksLoaded
  <2>2. CASE ~Exit /\ ~Kill
    <3>1. raised' = {n \in Analyses : prog'[n].mark > Now + Skew /\ (n \in raised \/ Pending(n))}
      BY <1>3, <2>2 DEF Remembered, Raised
    <3>2. prog'[a].mark = prog[a].mark \/ prog'[a].mark <= Now + Skew \/ Pending(a)
      BY <1>3, <2>2, MarkMoves
    <3>3. prog'[a].mark \in Nat
      BY <1>3, TypedStep DEF Typed, ProgressType
    <3> QED
      BY <1>1, <3>1, <3>2, <3>3
  <2> QED
    BY <2>1, <2>2
<1> QED
  BY <1>2, <1>3

LEMMA FreshInit ==
    ASSUME HistoryInit
    PROVE  FreshInv
<1>0. Init /\ StatsInv
  BY StatsInit DEF HistoryInit
<1>1. 0 <= Now + Skew
  BY ConstantsAssumption
<1>2. IdsInv
  BY <1>0 DEF Init, Fresh, IdsInv, BoundarySaved, Consumed, Loadable
<1>3. MarksInv
  BY <1>0, <1>1 DEF Init, Fresh, MarksInv
<1> QED
  BY <1>0, <1>2, <1>3 DEF FreshInv, StatsInv

\* No watermark and no remembered id keeps a complete analysis from an event it
\* has not counted, unless a backfill of this process met an event from the
\* future (registry.rs, fold; progress.rs, advance_bounded and clamp_watermark):
\* for the node as for the binary, over kills, torn saves and resets.
THEOREM NothingFreshIsGated == ResetsAreSaved => (HistorySpec => []FreshIsConsumed)
<1> SUFFICES ASSUME ResetsAreSaved
             PROVE  HistorySpec => []FreshIsConsumed
  OBVIOUS
<1>1. ASSUME FreshInv, [Next /\ Remembered]_<<vars, histories>>
      PROVE  FreshInv'
  <2>1. [Next]_vars
    BY <1>1 DEF vars
  <2> QED
    BY <1>1, <2>1, TypedStep, ResetStep, IdsStep, MarksStep DEF FreshInv
<1>2. FreshInv => FreshIsConsumed
  <2> SUFFICES ASSUME FreshInv, NEW a \in Analyses \ raised, NEW e \in Wants[a],
                      CreatedAt[e] + Lag >= Now + Skew, folded[a][e] = 0
               PROVE  ShouldConsume(prog[a], e)
    BY DEF FreshIsConsumed
  <2>1. /\ prog[a].mark <= Now + Skew /\ Consumed(prog[a].boundary, folded[a], a)
        /\ prog[a].mark \in Nat
    BY DEF FreshInv, MarksInv, IdsInv, Typed, ProgressType
  <2>2. CreatedAt[e] + Lag \in Nat /\ Now + Skew \in Nat
    BY ConstantsAssumption
  <2>3. CreatedAt[e] + Lag >= prog[a].mark
    BY <2>1, <2>2
  <2>4. e \notin prog[a].boundary
    BY <2>1 DEF Consumed
  <2> QED
    BY <2>3, <2>4 DEF ShouldConsume
<1>3. HistoryInit => FreshInv
  BY FreshInit
<1> QED
  BY <1>1, <1>2, <1>3, PTL DEF HistorySpec

=============================================================================
