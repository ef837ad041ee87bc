---------------------------- MODULE ArchiveIngest ---------------------------
(***************************************************************************)
(* The indexing pass of an archive ingest: ingest, run_passes and          *)
(* commit_and_claim of crates/nostrsearch-indexer/src/archive_ingest.rs,   *)
(* with the id store (id_store.rs) that a later run resumes from and the   *)
(* SIGTERM handler of bin/ingest.rs.                                       *)
(*                                                                         *)
(* Reader threads hand chunks to a callback that plans (id store, then     *)
(* pending ids), folds under the pipeline lock, indexes outside it and     *)
(* only then adds the indexed ids to the pending set.  Whoever holds the   *)
(* pipeline lock - the periodic checkpoint, the SIGTERM handler or the     *)
(* finalize step - commits the shards and then claims the pending ids.     *)
(*                                                                         *)
(* Simplifications:                                                        *)
(*  - an event is its id, and every id parses;                             *)
(*  - the index is what ShardManager promises a caller: a document that    *)
(*    was added is buffered until its month is committed, by commit_all or *)
(*    by the shard itself; a kill loses what is buffered;                  *)
(*  - the analyses' side of a fold is left out: here it only waits for the *)
(*    pipeline lock.  Later passes index nothing and are left out.         *)
(***************************************************************************)
EXTENDS Naturals

CONSTANTS
    Readers,     \* threads of the archive cursor
    Chunks,      \* the chunks the archive's dumps are handed out in
    Events,      \* event ids
    Batch,       \* Batch[c]: position in chunk c -> event, sorted
    Months,      \* shards
    MonthOf,     \* the month of each event
    None,        \* no chunk
    Dedupe,      \* opts.dedupe, with an id store open
    Claimers,    \* who may commit and claim beside running readers
    IoErrors,    \* whether indexing, committing and flushing may fail
    MaxKills,    \* bound: hard kills and SIGTERMs
    MaxReruns    \* bound: further ingests after the first, a restart's included

ASSUME ConstantsAssumption ==
    /\ None \notin Chunks
    /\ \A c \in Chunks : Batch[c] \in [DOMAIN Batch[c] -> Events]
    /\ \A c \in Chunks : DOMAIN Batch[c] \subseteq Nat
    /\ MonthOf \in [Events -> Months]
    /\ Dedupe \in BOOLEAN
    /\ Claimers \subseteq {"checkpoint", "sigterm"}
    /\ IoErrors \in BOOLEAN
    /\ MaxKills \in Nat
    /\ MaxReruns \in Nat

VARIABLES
    run,       \* what run_passes is doing
    cancel,    \* the cancel flag
    todo,      \* chunks the cursor has not handed out
    rpc,       \* where each reader is in the callback
    chunk,     \* the chunk each reader works on
    known,     \* what contains_batch said of the chunk
    work,      \* to_index: positions still to index
    okIds,     \* ok_ids
    buffered,  \* documents added to a writer and not committed
    durable,   \* documents committed
    pending,   \* pending_ids
    store,     \* the id store, on disk
    claim,     \* commit_and_claim, which holds the pipeline lock
    accepted,  \* history: ids index_event ever returned Ok for
    late,      \* history: ids indexed after a claim under way had committed their month
    failed,    \* ids index_event refused in this run
    kills, reruns

readerVars == <<rpc, chunk, known, work, okIds>>
indexVars == <<buffered, durable>>
vars == <<run, cancel, todo, readerVars, indexVars, pending, store, claim,
          accepted, late, failed, kills, reruns>>

NoClaim == [kind |-> "none", step |-> "free", months |-> {}, ids |-> {}]

\* The pipeline mutex is free.
Unlocked == claim.kind = "none"

-----------------------------------------------------------------------------
Init ==
    /\ run = "reading"
    /\ cancel = FALSE
    /\ todo = Chunks
    /\ rpc = [r \in Readers |-> "idle"]
    /\ chunk = [r \in Readers |-> None]
    /\ known = [r \in Readers |-> {}]
    /\ work = [r \in Readers |-> {}]
    /\ okIds = [r \in Readers |-> {}]
    /\ buffered = [e \in Events |-> 0]
    /\ durable = [e \in Events |-> 0]
    /\ pending = {}
    /\ store = {}
    /\ claim = NoClaim
    /\ accepted = {}
    /\ late = {}
    /\ failed = {}
    /\ kills = 0
    /\ reruns = 0

-----------------------------------------------------------------------------
(* The chunk callback. *)

EventsOf(c) == {Batch[c][n] : n \in DOMAIN Batch[c]}

\* The callback starts unless the run is cancelled, and asks the id store
\* before it takes any lock.
TakeChunk(r) ==
    /\ run = "reading" /\ ~cancel
    /\ rpc[r] = "idle"
    /\ \E c \in todo :
         /\ todo' = todo \ {c}
         /\ chunk' = [chunk EXCEPT ![r] = c]
         /\ known' = [known EXCEPT ![r] = IF Dedupe THEN EventsOf(c) \cap store ELSE {}]
    /\ rpc' = [rpc EXCEPT ![r] = "plan"]
    /\ UNCHANGED <<run, cancel, work, okIds, indexVars, pending, store, claim,
                   accepted, late, failed, kills, reruns>>

\* plan_index_work: skip what the store knew or the pending set holds now.
ToIndex(r) ==
    {n \in DOMAIN Batch[chunk[r]] :
        ~Dedupe \/ Batch[chunk[r]][n] \notin known[r] \cup pending}

PlanIndexWork(r) ==
    /\ rpc[r] = "plan"
    /\ work' = [work EXCEPT ![r] = ToIndex(r)]
    /\ rpc' = [rpc EXCEPT ![r] = "fold"]
    /\ UNCHANGED <<run, cancel, todo, chunk, known, okIds, indexVars, pending,
                   store, claim, accepted, late, failed, kills, reruns>>

\* The whole batch is folded under the pipeline lock, known events included.
FoldBatch(r) ==
    /\ rpc[r] = "fold"
    /\ Unlocked
    /\ rpc' = [rpc EXCEPT ![r] = "index"]
    /\ UNCHANGED <<run, cancel, todo, chunk, known, work, okIds, indexVars,
                   pending, store, claim, accepted, late, failed, kills, reruns>>

\* Positions are indexed in order.
Current(r, n) == n \in work[r] /\ \A k \in work[r] : n <= k

\* index_event returns Ok: the document waits in its shard's writer.  Without a
\* store to claim in, new_ids is empty and nothing is collected.
IndexOk(r) ==
    /\ rpc[r] = "index"
    /\ \E n \in work[r] :
         LET e == Batch[chunk[r]][n] IN
         /\ Current(r, n)
         /\ work' = [work EXCEPT ![r] = @ \ {n}]
         /\ buffered' = [buffered EXCEPT ![e] = @ + 1]
         /\ accepted' = accepted \cup {e}
         /\ late' = IF claim.step = "commit" /\ MonthOf[e] \notin claim.months
                    THEN late \cup {e} ELSE late
         /\ okIds' = [okIds EXCEPT ![r] = IF Dedupe THEN @ \cup {e} ELSE @]
    /\ UNCHANGED <<run, cancel, todo, rpc, chunk, known, durable, pending, store,
                   claim, failed, kills, reruns>>

\* index_event returns Err: before the document was added (a future date, a
\* shard that would not open), or after it, when the shard's own commit failed.
\* (Fault: the id is collected before the result is looked at.)
IndexFailsButClaims(r) ==
    /\ IoErrors
    /\ rpc[r] = "index"
    /\ \E n \in work[r] :
         LET e == Batch[chunk[r]][n] IN
         /\ Current(r, n)
         /\ work' = [work EXCEPT ![r] = @ \ {n}]
         /\ failed' = failed \cup {e}
         /\ okIds' = [okIds EXCEPT ![r] = @ \cup {e}]
    /\ UNCHANGED <<run, cancel, todo, rpc, chunk, known, indexVars, pending,
                   store, claim, accepted, late, kills, reruns>>
IndexFails(r) ==
    /\ IoErrors
    /\ rpc[r] = "index"
    /\ \E n \in work[r], added \in {0, 1} :
         LET e == Batch[chunk[r]][n] IN
         /\ Current(r, n)
         /\ work' = [work EXCEPT ![r] = @ \ {n}]
         /\ buffered' = [buffered EXCEPT ![e] = @ + added]
         /\ failed' = failed \cup {e}
    /\ UNCHANGED <<run, cancel, todo, rpc, chunk, known, okIds, durable, pending,
                   store, claim, accepted, late, kills, reruns>>

\* The ids whose documents reached a writer become pending, and the callback
\* returns.
ExtendPending(r) ==
    /\ rpc[r] = "index"
    /\ work[r] = {}
    /\ pending' = pending \cup okIds[r]
    /\ rpc' = [rpc EXCEPT ![r] = "idle"]
    /\ chunk' = [chunk EXCEPT ![r] = None]
    /\ known' = [known EXCEPT ![r] = {}]
    /\ okIds' = [okIds EXCEPT ![r] = {}]
    /\ UNCHANGED <<run, cancel, todo, work, indexVars, store, claim, accepted, late,
                   failed, kills, reruns>>

-----------------------------------------------------------------------------
(* Commits and claims. *)

\* Everything buffered for month m becomes durable.
CommitMonth(m) ==
    /\ buffered' = [e \in Events |-> IF MonthOf[e] = m THEN 0 ELSE buffered[e]]
    /\ durable' = [e \in Events |->
                     durable[e] + (IF MonthOf[e] = m THEN buffered[e] ELSE 0)]

\* A shard commits on its own: its document count, its deadline or its eviction.
ShardCommit(m) ==
    /\ \E e \in Events : MonthOf[e] = m /\ buffered[e] > 0
    /\ CommitMonth(m)
    /\ UNCHANGED <<run, cancel, todo, readerVars, pending, store, claim, accepted, late,
                   failed, kills, reruns>>

\* Every chunk was handed out, or the run is cancelled, and no callback runs.
\* (Fault: the walk's callbacks are not waited for.)
HandedOut == todo = {} \/ cancel
ReadersDone ==
    /\ todo = {} \/ cancel
    /\ \A r \in Readers : rpc[r] = "idle"

\* The lock is taken and commit_all starts on every open shard: from the
\* checkpoint task, the SIGTERM handler, or the end of run_passes.
StartClaim(kind) ==
    /\ Unlocked
    /\ kind \in Claimers \cup {"finalize"}
    /\ kind = "finalize" => ReadersDone /\ run = "reading"
    /\ kind = "checkpoint" => run = "reading"
    /\ IF kind = "sigterm"
       THEN kills < MaxKills /\ kills' = kills + 1
       ELSE UNCHANGED kills
    /\ claim' = [kind |-> kind, step |-> "commit", months |-> Months, ids |-> {}]
    /\ UNCHANGED <<run, cancel, todo, readerVars, indexVars, pending, store,
                   accepted, late, failed, reruns>>

CommitShard(m) ==
    /\ claim.step = "commit"
    /\ m \in claim.months
    /\ claim' = [claim EXCEPT !.months = @ \ {m}]
    /\ CommitMonth(m)
    /\ UNCHANGED <<run, cancel, todo, readerVars, pending, store, accepted, late,
                   failed, kills, reruns>>

\* std::mem::take of the pending ids, once every shard is committed.
\* (Fault: the ids are taken while shards are still being committed.)
TakePendingFirst ==
    /\ claim.step = "commit"
    /\ claim' = [claim EXCEPT !.step = "flush", !.ids = IF Dedupe THEN pending ELSE {}]
    /\ pending' = IF Dedupe THEN {} ELSE pending
    /\ UNCHANGED <<run, cancel, todo, readerVars, indexVars, store, accepted, late,
                   failed, kills, reruns>>
TakePending ==
    /\ claim.step = "commit"
    /\ claim.months = {}
    /\ claim' = [claim EXCEPT !.step = "flush", !.ids = IF Dedupe THEN pending ELSE {}]
    /\ pending' = IF Dedupe THEN {} ELSE pending
    /\ UNCHANGED <<run, cancel, todo, readerVars, indexVars, store, accepted, late,
                   failed, kills, reruns>>

\* The process's memory is gone; the next one reads the archive from the start.
Restarted ==
    /\ run' = "reading"
    /\ cancel' = FALSE
    /\ todo' = Chunks
    /\ rpc' = [r \in Readers |-> "idle"]
    /\ chunk' = [r \in Readers |-> None]
    /\ known' = [r \in Readers |-> {}]
    /\ work' = [r \in Readers |-> {}]
    /\ okIds' = [r \in Readers |-> {}]
    /\ buffered' = [e \in Events |-> 0]
    /\ pending' = {}
    /\ claim' = NoClaim
    /\ failed' = {}

\* IdStore::flush writes the ids in one batch and the lock is released.  The
\* finalize step ends the ingest; the SIGTERM handler ends the process.
FlushIds ==
    /\ claim.step = "flush"
    /\ store' = store \cup claim.ids
    /\ IF claim.kind = "sigterm"
       THEN Restarted
       ELSE /\ claim' = NoClaim
            /\ run' = IF claim.kind = "finalize" THEN "done" ELSE run
            /\ UNCHANGED <<cancel, todo, readerVars, buffered, pending, failed>>
    /\ UNCHANGED <<durable, accepted, late, kills, reruns>>

\* commit_all or the id store fails.  The ids of a failed flush were taken and
\* are gone; a failed finalize fails the ingest, a failed handler still exits.
ClaimFails ==
    /\ IoErrors
    /\ claim.step \in {"commit", "flush"}
    /\ IF claim.kind = "sigterm"
       THEN Restarted
       ELSE /\ claim' = NoClaim
            /\ run' = IF claim.kind = "finalize" THEN "failed" ELSE run
            /\ UNCHANGED <<cancel, todo, readerVars, buffered, pending, failed>>
    /\ UNCHANGED <<durable, store, accepted, late, kills, reruns>>

-----------------------------------------------------------------------------
(* The world around a run. *)

Cancel ==
    /\ run = "reading" /\ ~cancel
    /\ cancel' = TRUE
    /\ UNCHANGED <<run, todo, readerVars, indexVars, pending, store, claim,
                   accepted, late, failed, kills, reruns>>

\* SIGKILL, OOM kill, power loss.
Kill ==
    /\ kills < MaxKills
    /\ kills' = kills + 1
    /\ Restarted
    /\ UNCHANGED <<durable, store, accepted, late, reruns>>

\* A further ingest over the same archive, in the same process.
Rerun ==
    /\ run \in {"done", "failed"} /\ Unlocked
    /\ reruns + kills < MaxReruns
    /\ reruns' = reruns + 1
    /\ run' = "reading" /\ cancel' = FALSE /\ todo' = Chunks /\ failed' = {}
    /\ UNCHANGED <<readerVars, indexVars, pending, store, claim, accepted, late,
                   kills>>

\* A finished ingest idles.
Idle == run \in {"done", "failed"} /\ UNCHANGED vars

ReaderStep(r) ==
    \/ TakeChunk(r) \/ PlanIndexWork(r) \/ FoldBatch(r)
    \/ IndexOk(r) \/ IndexFails(r) \/ ExtendPending(r)

ClaimStep == (\E m \in Months : CommitShard(m)) \/ TakePending \/ FlushIds \/ ClaimFails

Next ==
    \/ \E r \in Readers : ReaderStep(r)
    \/ \E m \in Months : ShardCommit(m)
    \/ \E kind \in {"checkpoint", "sigterm", "finalize"} : StartClaim(kind)
    \/ ClaimStep
    \/ Cancel \/ Kill \/ Rerun \/ Idle

Spec == Init /\ [][Next]_vars

-----------------------------------------------------------------------------
(* Properties. *)

\* The variables keep their types, and a lock nobody holds has nothing in hand.
TypeOK ==
    /\ run \in {"reading", "done", "failed"}
    /\ cancel \in BOOLEAN
    /\ todo \subseteq Chunks
    /\ rpc \in [Readers -> {"idle", "plan", "fold", "index"}]
    /\ chunk \in [Readers -> Chunks \cup {None}]
    /\ \A r \in Readers : chunk[r] = None <=> rpc[r] = "idle"
    /\ known \in [Readers -> SUBSET Events]
    /\ work \in [Readers -> SUBSET Nat]
    /\ \A r \in Readers : IF rpc[r] \in {"fold", "index"}
                          THEN work[r] \subseteq DOMAIN Batch[chunk[r]]
                          ELSE work[r] = {} /\ okIds[r] = {}
    /\ okIds \in [Readers -> SUBSET Events]
    /\ buffered \in [Events -> Nat]
    /\ durable \in [Events -> Nat]
    /\ pending \subseteq Events
    /\ store \subseteq Events
    /\ claim \in [kind : {"none", "checkpoint", "sigterm", "finalize"},
                  step : {"free", "commit", "flush"},
                  months : SUBSET Months, ids : SUBSET Events]
    /\ Unlocked <=> claim.step = "free"
    /\ accepted \subseteq Events
    /\ late \subseteq Events
    /\ failed \subseteq Events
    /\ kills \in 0..MaxKills
    /\ reruns \in 0..MaxReruns

\* An id is claimed only if index_event accepted its event: what the indexer
\* rejected is retried by a later run (the comment on IngestProgress::failed).
ClaimedWasAccepted == store \cup pending \cup claim.ids \subseteq accepted

\* A claimed id has a committed document, at every moment and so after any
\* kill: "a kill leaves the store *behind* at worst" (archive_ingest.rs).
ClaimedIsDurable == \A e \in store : durable[e] > 0

\* The same but for the ids whose document was added beside a claim that had
\* committed their month and had not taken the pending ids yet: claiming takes
\* only ids (commit_and_claim, then mem::take), never the documents of others.
ClaimTrailsCommit == \A e \in store : durable[e] > 0 \/ e \in late

\* No event has two documents: Tantivy has no unique key, so the id store and
\* the pending set are what prevents it (plan_index_work).
IndexedOnce == \A e \in Events : durable[e] + buffered[e] <= 1

\* An ingest that was not cancelled leaves every event of the archive committed,
\* except those the indexer refused in this run and the late ones a kill lost.
CompletedIsSearchable ==
    run = "done" /\ ~cancel =>
        \A c \in Chunks : \A e \in EventsOf(c) :
            e \in failed \/ durable[e] > 0 \/ e \in late
=============================================================================
