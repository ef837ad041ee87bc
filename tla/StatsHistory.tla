---------------------------- MODULE StatsHistory ----------------------------
(***************************************************************************)
(* StatsPipeline with two histories: the saves that stopped between two of *)
(* the files they write (StatStore::save renames three per analysis), and  *)
(* the watermarks that the backfill branch of Registry::fold, which has no *)
(* bound, raised ahead of the clock.                                       *)
(***************************************************************************)
EXTENDS StatsPipeline

VARIABLES
    torn,       \* a save stopped between two of its files
    raised      \* analyses that folded an event from the future while pending,
                \* in this process

histories == <<torn, raised>>

Tears ==
    /\ \E n \in Analyses : saving[n] > 0
    /\ \E n \in Analyses : saving[n] < 3
    /\ saving' # saving /\ ~\E n \in Analyses : SaveFile(n)

\* It stays so until the analysis is reset or the process ends: a load repairs.
Raised ==
    IF Exit \/ Kill THEN {}
    ELSE {n \in Analyses : prog'[n].mark > Now + Skew /\ (n \in raised \/ Pending(n))}

Remembered == torn' = (torn \/ Tears) /\ raised' = Raised

HistoryInit == Init /\ torn = FALSE /\ raised = {}
HistorySpec == HistoryInit /\ [][Next /\ Remembered]_<<vars, histories>>

\* A backfill counts no event twice however often it is killed and resumed,
\* until it is complete: the rebuild position is saved with the state.  Two
\* things excuse it: a save that stopped between its renames (StatStore::save),
\* and a finish() in mid-pass, which saves folds without a position.
RebuildCountsOnce ==
    ~torn /\ stops = 0 =>
        \A n \in Analyses : Pending(n) => \A e \in Events : folded[n][e] <= 1

\* "rejects every real event forever" (progress.rs, advance_bounded): no event
\* of the last Lag seconds that a complete analysis has not counted is kept from
\* it, by a watermark ahead of the clock or by an id taken for consumed.  What
\* excuses an analysis is an event from the future folded while it was rebuilt in
\* this process: there the watermark has no bound (registry.rs, fold), and only
\* the next start, or a reset, pulls it back.
FreshIsConsumed ==
    \A n \in Analyses \ raised : ~Pending(n) =>
        \A e \in Wants[n] : CreatedAt[e] + Lag >= Now + Skew /\ folded[n][e] = 0
                              => ShouldConsume(prog[n], e)
=============================================================================
