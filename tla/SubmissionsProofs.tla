-------------------------- MODULE SubmissionsProofs --------------------------
(* Proofs of the safety properties of Submissions, for every set of uploads, *)
(* whatever they hold, any number of workers, and any number of failures,    *)
(* stops, expired waits and kills.                                           *)
EXTENDS Submissions, FiniteSetTheorems, TLAPS

(* The inductive invariants, in named parts. *)

Busy == {"claimed", "spill", "read", "ingest", "save", "finish"}
Phase == {"none", "uploading", "queued", "processing", "lost"} \cup Settled
Saved == [state : Phase \ {"lost"}, cursor : Nat, counted : Nat]

\* The variables the proofs are about keep their types.
Typed ==
    /\ phase \in [Jobs -> Phase]
    /\ cursor \in [Jobs -> Nat] /\ counted \in [Jobs -> Nat]
    /\ meta \in [Jobs -> Saved] /\ snap \in [Jobs -> Saved]
    /\ upc \in [Jobs -> {"none", "receiving", "queuing", "writing", "returned"}]
    /\ wpc \in [Workers -> Busy \cup {"idle", "looking", "remove"}]
    /\ wjob \in [Workers -> Jobs \cup {NoJob}]
    /\ \A w \in Workers : wpc[w] \notin {"idle", "looking"} => wjob[w] \in Jobs
    /\ batch \in [Workers -> SUBSET (Nat \ {0})]
    /\ \A w \in Workers : IsFiniteSet(batch[w])
    /\ status \in [Workers -> [Events -> Statuses]]
    /\ wend \in [Workers -> {"more", "done", "stopped", "failed"}]
    /\ \A w \in Workers : wpc[w] = "finish" => wend[w] # "more"
    /\ archive \subseteq Events /\ sent \subseteq archive /\ store \subseteq sent
    /\ sinkOpen \in BOOLEAN /\ stopping \in BOOLEAN /\ cut \in BOOLEAN

\* A job that was not saved before a kill is in nobody's hands.
LostIsGone ==
    \A j \in Jobs : phase[j] = "lost" =>
        upc[j] \in {"none", "returned"} /\ \A w \in Workers : wjob[w] # j

\* What a worker holds in its hands and where it may be.
Hands ==
    \A w \in Workers :
        /\ wpc[w] # "save" => status[w] = NoStatus
        /\ wpc[w] \in {"idle", "looking", "claimed", "spill"} => batch[w] = {}
        /\ \A e \in Events : status[w][e] \in {"new", "duplicate"} => e \in archive

\* Once the writer is gone, no worker has anything in its hands.
NothingLeft ==
    /\ ~sinkOpen => stopping
    /\ ~sinkOpen /\ ~cut => \A w \in Workers : batch[w] = {} /\ status[w] = NoStatus

HandInv == Typed /\ LostIsGone /\ Hands /\ NothingLeft /\ ArchivedIsHandedOver

\* A place in a job where it may go on: all lines before it are counted, and
\* archived.
Archived(j, n) == Content[j][n] \in archive \cup {Bad}
Settles(j, c, k) ==
    /\ c = k /\ c <= Len(Content[j])
    /\ \A n \in 1..c : Archived(j, n)
GoodPlace(j) == Settles(j, cursor[j], counted[j])

\* What is saved of a job is such a place; what is in memory is one, while no
\* worker has the job; the upload's handler saves the job as it queued it.
SavedPlace(j) ==
    /\ meta[j].state \in {"queued", "processing", "done"} =>
           Settles(j, meta[j].cursor, meta[j].counted)
    /\ meta[j].state = "done" => meta[j].cursor = Len(Content[j])
    /\ meta[j].state \in {"none", "uploading"} => meta[j] = NoMeta
AtRest(j) ==
    /\ phase[j] \in {"none", "uploading", "queued"} => GoodPlace(j)
    /\ phase[j] = "done" => counted[j] = Len(Content[j])
Handler(j) ==
    /\ upc[j] = "receiving" => phase[j] = "uploading"
    /\ upc[j] \in {"queuing", "writing"} => phase[j] = "queued"
    /\ upc[j] = "writing" => snap[j] = Meta(j, "queued")
JobOK(j) == SavedPlace(j) /\ AtRest(j) /\ Handler(j)

\* A job has one worker at a time.
OneWorker ==
    /\ \A w \in Workers : wpc[w] \in Busy => phase[wjob[w]] = "processing"
    /\ \A v, w \in Workers : wpc[v] \in Busy /\ wpc[w] \in Busy /\ wjob[v] = wjob[w] => v = w

\* Events of a batch that have a result, and are still to count.
ToCount(w) == {e \in Events : status[w][e] # "none"}

\* Lines a worker has read are counted, or in its batch; lines before them are
\* archived, or will be when the batch is.
Reading(w, j) ==
    /\ cursor[j] <= Len(Content[j])
    /\ batch[w] \subseteq 1..cursor[j]
    /\ \A n \in 1..cursor[j] : n \in batch[w] \/ Archived(j, n)
    /\ wend[w] = "done" => cursor[j] = Len(Content[j])
Saving(w, j) ==
    /\ IsFiniteSet(ToCount(w)) /\ cursor[j] = counted[j] + Cardinality(ToCount(w))
    /\ \A n \in batch[w] : Archived(j, n) \/ status[w][Content[j][n]] \in {"todo", "error"}
Ending(w, j) ==
    /\ GoodPlace(j) /\ wend[w] \in {"done", "stopped"}
    /\ wend[w] = "done" => cursor[j] = Len(Content[j])
WorkOK(w) ==
    /\ wpc[w] \in {"idle", "looking", "claimed", "spill", "read"} => wend[w] = "more"
    /\ wpc[w] \in {"idle", "looking"} => wjob[w] = NoJob
    /\ wpc[w] \in {"claimed", "spill", "read", "ingest", "save"} => Reading(w, wjob[w])
    /\ wpc[w] \in {"claimed", "spill", "read", "ingest"} =>
           cursor[wjob[w]] = counted[wjob[w]] + Cardinality(batch[w])
    /\ wpc[w] = "save" => Saving(w, wjob[w])
    /\ wpc[w] = "finish" /\ wend[w] # "failed" => Ending(w, wjob[w])

PlaceInv ==
    /\ \A j \in Jobs : JobOK(j)
    /\ OneWorker
    /\ \A w \in Workers : WorkOK(w)

-----------------------------------------------------------------------------
(* Types. *)

\* A job is saved, or stays as it was saved.
LEMMA PersistFacts ==
    ASSUME meta \in [Jobs -> Saved], NEW j \in Jobs, NEW m \in Saved, NEW n, Persist(j, m, n)
    PROVE  /\ meta' \in [Jobs -> Saved]
           /\ meta' = meta \/ meta' = [meta EXCEPT ![j] = m]
BY DEF Persist

LEMMA MetaFacts ==
    ASSUME Typed, NEW j \in Jobs, NEW s \in Phase \ {"lost"}
    PROVE  /\ Meta(j, s) \in Saved /\ Meta(j, s).state = s
           /\ Meta(j, s).cursor = cursor[j] /\ Meta(j, s).counted = counted[j]
BY DEF Typed, Meta, Saved

LEMMA NoMetaType == NoMeta \in Saved
BY DEF NoMeta, Saved, Phase

\* The steps of an upload.
LEMMA TypedUpload ==
    ASSUME Typed, LostIsGone, NEW j \in Jobs, StartUpload(j) \/ UploadStep(j)
    PROVE  Typed'
<1>1. CASE StartUpload(j)
  BY <1>1 DEF Typed, StartUpload, workerVars, writerVars, nodeVars, saveVars, Phase
<1>2. CASE UploadFails(j) \/ UploadDropped(j)
  <2>1. PICK s \in {"failed", "interrupted"}, n \in {0, 1} : SetPhase(j, s, n)
    BY <1>2 DEF UploadFails, UploadDropped
  <2>2. s \in Phase \ {"lost"}
    BY DEF Phase, Settled
  <2>3. meta' \in [Jobs -> Saved] /\ phase' \in [Jobs -> Phase]
    BY <2>1, <2>2, PersistFacts, MetaFacts DEF Typed, SetPhase
  <2> QED
    BY <1>2, <2>3 DEF Typed, UploadFails, UploadDropped, workerVars, writerVars, nodeVars
<1>3. CASE QueueJob(j)
  BY <1>3 DEF Typed, QueueJob, workerVars, writerVars, nodeVars, saveVars, Phase
<1>4. CASE ReadForQueued(j)
  <2>1. Meta(j, phase[j]) \in Saved
    BY <1>4, MetaFacts DEF Typed, LostIsGone, ReadForQueued
  <2> QED
    BY <1>4, <2>1 DEF Typed, ReadForQueued, jobVars, saveVars, workerVars, writerVars, nodeVars
<1>5. CASE WriteQueued(j)
  <2>1. snap[j] \in Saved
    BY DEF Typed
  <2>2. meta' \in [Jobs -> Saved]
    BY <1>5, <2>1, PersistFacts DEF Typed, WriteQueued
  <2> QED
    BY <1>5, <2>2, NoMetaType DEF Typed, WriteQueued, workerVars, writerVars, nodeVars
<1> QED
  BY <1>1, <1>2, <1>3, <1>4, <1>5 DEF UploadStep

\* A worker between jobs, and at the start and the end of one.
LEMMA TypedJob ==
    ASSUME Typed, NEW w \in Workers,
           Look(w) \/ Claim(w) \/ NothingQueued(w) \/ Open(w) \/ Spill(w) \/ SpillFails(w)
             \/ ProcessFails(w) \/ Finish(w) \/ RemoveFiles(w)
    PROVE  Typed'
<1>1. CASE Look(w) \/ NothingQueued(w) \/ Open(w)
  <2>1. PICK pc \in {"looking", "idle", "spill", "read"} :
           wpc' = [wpc EXCEPT ![w] = pc] /\ (pc \in {"spill", "read"} => wpc[w] = "claimed")
    BY <1>1 DEF Look, NothingQueued, Open, Go
  <2>2. UNCHANGED <<jobVars, uploadVars, wjob, batch, status, wend, archive, writerVars,
                    nodeVars, cut>>
    BY <1>1 DEF Look, NothingQueued, Open
  <2> QED
    BY <2>1, <2>2 DEF Typed, Busy, jobVars, saveVars, uploadVars, writerVars, nodeVars
<1>2. CASE Claim(w)
  <2>1. PICK j \in Jobs : SetPhase(j, "processing", 0) /\ wjob' = [wjob EXCEPT ![w] = j]
    BY <1>2 DEF Claim
  <2>2. "processing" \in Phase \ {"lost"}
    BY DEF Phase
  <2>3. meta' \in [Jobs -> Saved] /\ phase' \in [Jobs -> Phase]
    BY <2>1, <2>2, PersistFacts, MetaFacts DEF Typed, SetPhase
  <2> QED
    BY <1>2, <2>1, <2>3 DEF Typed, Claim, Go, Busy, uploadVars, writerVars, nodeVars
<1>3. CASE Spill(w) \/ SpillFails(w) \/ ProcessFails(w)
  BY <1>3 DEF Typed, Spill, SpillFails, ProcessFails, Go, Busy, saveVars, uploadVars, writerVars, nodeVars
<1>4. CASE Finish(w)
  <2>1. wjob[w] \in Jobs
    BY <1>4 DEF Typed, Finish
  <2>2. PICK s \in Phase \ {"lost"} : SetPhase(wjob[w], s, 0)
    BY <1>4 DEF Finish, Typed, Phase, Settled
  <2>3. meta' \in [Jobs -> Saved] /\ phase' \in [Jobs -> Phase]
    BY <2>1, <2>2, PersistFacts, MetaFacts DEF Typed, SetPhase
  <2> QED
    BY <1>4, <2>3 DEF Typed, Finish, Go, uploadVars, writerVars, nodeVars
<1>5. CASE RemoveFiles(w)
  <2>1. NoStatus \in [Events -> Statuses]
    BY DEF NoStatus, Statuses
  <2> QED
    BY <1>5, <2>1, FS_EmptySet DEF Typed, RemoveFiles, Go, Free, saveVars, uploadVars, writerVars, nodeVars
<1> QED
  BY <1>1, <1>2, <1>3, <1>4, <1>5

\* A batch has no more events than lines.
LEMMA UniqueFacts ==
    ASSUME Typed, NEW w \in Workers
    PROVE  /\ IsFiniteSet(Unique(w) \ store)
           /\ Cardinality(Unique(w) \ store) \in Nat /\ Cardinality(batch[w]) \in Nat
           /\ Cardinality(Unique(w) \ store) <= Cardinality(batch[w])
<1> DEFINE line == [n \in batch[w] |-> Content[wjob[w]][n]]
           lines == {Content[wjob[w]][n] : n \in batch[w]}
<1>1. IsFiniteSet(batch[w]) /\ Cardinality(batch[w]) \in Nat
  BY FS_CardinalityType DEF Typed
<1>2. line \in Surjection(batch[w], lines)
  BY DEF Surjection
<1>3. IsFiniteSet(lines) /\ Cardinality(lines) <= Cardinality(batch[w])
  BY <1>1, <1>2, FS_Surjection
<1>4. Unique(w) \ store \in SUBSET lines
  BY DEF Unique
<1> HIDE DEF lines
<1>5. /\ IsFiniteSet(Unique(w) \ store)
      /\ Cardinality(Unique(w) \ store) <= Cardinality(lines)
      /\ Cardinality(Unique(w) \ store) \in Nat /\ Cardinality(lines) \in Nat
  BY <1>3, <1>4, FS_Subset, FS_CardinalityType
<1> QED
  BY <1>1, <1>3, <1>5

LEMMA CountedIsNat ==
    ASSUME Typed, NEW w \in Workers, wjob[w] \in Jobs
    PROVE  counted[wjob[w]] + CountedAtOnce(w) \in Nat
<1>1. counted[wjob[w]] \in Nat
  BY DEF Typed
<1>2. /\ Cardinality(Unique(w) \ store) \in Nat /\ Cardinality(batch[w]) \in Nat
      /\ Cardinality(Unique(w) \ store) <= Cardinality(batch[w])
  BY UniqueFacts
<1> QED
  BY <1>1, <1>2 DEF CountedAtOnce

\* A worker in the lines of a job.
LEMMA TypedLines ==
    ASSUME Typed, LostIsGone, Hands, NEW w \in Workers,
           ReadLine(w) \/ StopReading(w) \/ Screen(w) \/ SaveFailed(w) \/ Flushed(w)
             \/ (\E e \in Events : SaveEvent(w, e) \/ HandOver(w, e))
    PROVE  Typed'
<1>1. CASE ReadLine(w)
  <2>1. wjob[w] \in Jobs /\ cursor[wjob[w]] + 1 \in Nat \ {0}
    BY <1>1 DEF Typed, ReadLine
  <2>2. batch' = [batch EXCEPT ![w] = @ \cup {cursor[wjob[w]] + 1}]
    BY <1>1 DEF ReadLine
  <2>3. /\ batch' \in [Workers -> SUBSET (Nat \ {0})]
        /\ \A v \in Workers : IsFiniteSet(batch'[v])
    <3>1. IsFiniteSet(batch[w] \cup {cursor[wjob[w]] + 1})
      BY FS_AddElement DEF Typed
    <3> QED
      BY <2>1, <2>2, <3>1 DEF Typed
  <2> QED
    BY <1>1, <2>1, <2>3 DEF Typed, ReadLine, Go, Busy, saveVars, uploadVars, writerVars, nodeVars
<1>2. CASE StopReading(w)
  BY <1>2 DEF Typed, StopReading, LastBatch, Go, Busy, uploadVars, writerVars, nodeVars
<1>3. CASE Screen(w)
  <2>1. wjob[w] \in Jobs /\ counted[wjob[w]] + CountedAtOnce(w) \in Nat
    BY <1>3, CountedIsNat DEF Typed, Screen
  <2>2. status' \in [Workers -> [Events -> Statuses]]
    BY <1>3 DEF Typed, Screen, Statuses
  <2> QED
    BY <1>3, <2>1, <2>2 DEF Typed, Screen, Go, Busy, saveVars, uploadVars, writerVars, nodeVars
<1>4. CASE SaveFailed(w)
  <2>1. NoStatus \in [Events -> Statuses]
    BY DEF NoStatus, Statuses
  <2> QED
    BY <1>4, <2>1 DEF Typed, SaveFailed, Go, Busy, jobVars, saveVars, uploadVars, writerVars, nodeVars
<1>5. CASE Flushed(w)
  <2>1. wjob[w] \in Jobs /\ Meta(wjob[w], phase[wjob[w]]) \in Saved
    BY <1>5, MetaFacts DEF Typed, LostIsGone, Flushed
  <2>2. meta' \in [Jobs -> Saved]
    BY <1>5, <2>1, PersistFacts DEF Typed, Flushed
  <2> QED
    BY <1>5, <2>2, FS_EmptySet DEF Typed, Flushed, Go, Busy, uploadVars, writerVars, nodeVars
<1>6. ASSUME NEW e \in Events, SaveEvent(w, e)
      PROVE  Typed'
  <2>1. status' \in [Workers -> [Events -> Statuses]]
    <3>1. PICK x \in {"new", "duplicate", "error"} : status' = [status EXCEPT ![w][e] = x]
      BY <1>6 DEF SaveEvent
    <3> QED
      BY <3>1 DEF Typed, Statuses
  <2>2. archive \subseteq archive' /\ archive' \subseteq Events
    BY <1>6 DEF Typed, SaveEvent
  <2> QED
    BY <1>6, <2>1, <2>2 DEF Typed, SaveEvent, uploadVars, writerVars, nodeVars
<1>7. ASSUME NEW e \in Events, HandOver(w, e)
      PROVE  Typed'
  <2>1. wjob[w] \in Jobs /\ counted[wjob[w]] + 1 \in Nat
    BY <1>7 DEF Typed, HandOver
  <2>2. sent' \subseteq archive /\ sent \subseteq sent'
    BY <1>7 DEF Typed, Hands, HandOver
  <2>3. status' \in [Workers -> [Events -> Statuses]]
    BY <1>7 DEF Typed, HandOver, Statuses
  <2> QED
    BY <1>7, <2>1, <2>2, <2>3 DEF Typed, HandOver, saveVars, uploadVars, nodeVars
<1> QED
  BY <1>1, <1>2, <1>3, <1>4, <1>5, <1>6, <1>7

\* A new process starts from what was saved.
LEMMA TypedReload ==
    ASSUME Typed, Reload, UNCHANGED <<archive, writerVars>>, cut' \in BOOLEAN
    PROVE  Typed'
<1>1. \A j \in Jobs : ReloadedState(j) \in Phase \ {"lost"}
  <2> SUFFICES ASSUME NEW j \in Jobs PROVE ReloadedState(j) \in Phase \ {"lost"}
    OBVIOUS
  <2>1. meta[j].state \in Phase \ {"lost"}
    BY DEF Typed, Saved
  <2> QED
    BY <2>1 DEF ReloadedState, Phase, Settled
<1>2. /\ meta' \in [Jobs -> Saved] /\ cursor' \in [Jobs -> Nat] /\ counted' \in [Jobs -> Nat]
      /\ phase' \in [Jobs -> Phase]
  <2>1. meta' \in [Jobs -> Saved]
    <3> SUFFICES ASSUME NEW j \in Jobs PROVE [meta[j] EXCEPT !.state = ReloadedState(j)] \in Saved
      BY DEF Reload
    <3>1. meta[j] \in Saved
      BY DEF Typed
    <3> HIDE DEF ReloadedState
    <3> QED
      BY <1>1, <3>1 DEF Saved
  <2>2. cursor' \in [Jobs -> Nat] /\ counted' \in [Jobs -> Nat]
    BY DEF Typed, Reload, Saved
  <2>3. "lost" \in Phase
    BY DEF Phase
  <2>4. phase' \in [Jobs -> Phase]
    BY <1>1, <2>3 DEF Reload
  <2> QED
    BY <2>1, <2>2, <2>4
<1>3. snap' \in [Jobs -> Saved]
  BY NoMetaType DEF Reload
<1>4. status' \in [Workers -> [Events -> Statuses]]
  BY DEF Reload, NoStatus, Statuses
<1>5. \A w \in Workers : IsFiniteSet(batch'[w])
  BY FS_EmptySet DEF Reload
<1>6. batch' \in [Workers -> SUBSET (Nat \ {0})]
  BY DEF Reload
<1>7. upc' \in [Jobs -> {"none", "receiving", "queuing", "writing", "returned"}]
  BY DEF Reload
<1>8. /\ wpc' = [w \in Workers |-> "idle"] /\ wjob' = [w \in Workers |-> NoJob]
      /\ wend' = [w \in Workers |-> "more"] /\ stopping' = FALSE /\ sinkOpen' = TRUE
      /\ archive' = archive /\ sent' = sent /\ store' = store
  BY DEF Reload, writerVars
<1> QED
  BY <1>2, <1>3, <1>4, <1>5, <1>6, <1>7, <1>8 DEF Typed

LEMMA TypedNode ==
    ASSUME Typed,
           (\E e \in Events : WriterClaims(e)) \/ Stop \/ WaitEnds \/ WaitTimesOut
             \/ Exit \/ Kill \/ UNCHANGED vars
    PROVE  Typed'
<1>1. CASE \E e \in Events : WriterClaims(e)
  BY <1>1 DEF Typed, WriterClaims, jobVars, saveVars, uploadVars, workerVars, nodeVars
<1>2. CASE Stop \/ WaitEnds \/ WaitTimesOut
  BY <1>2 DEF Typed, Stop, WaitEnds, WaitTimesOut, jobVars, saveVars, uploadVars, workerVars, writerVars
<1>3. CASE Exit \/ Kill
  <2>1. Reload /\ UNCHANGED <<archive, writerVars>>
    BY <1>3 DEF Exit, Kill
  <2>2. cut' \in BOOLEAN
    BY <1>3 DEF Exit, Kill, Typed
  <2> QED
    BY <2>1, <2>2, TypedReload
<1>4. CASE UNCHANGED vars
  BY <1>4 DEF Typed, vars, jobVars, saveVars, uploadVars, workerVars, writerVars, nodeVars
<1> QED
  BY <1>1, <1>2, <1>3, <1>4

LEMMA TypedStep ==
    ASSUME Typed, LostIsGone, Hands, [Next]_vars
    PROVE  Typed'
BY TypedUpload, TypedJob, TypedLines, TypedNode DEF Next, UploadStep, WorkerStep

\* Only a reload loses a job, and it takes everything out of all hands.
LEMMA LostIsGoneStep ==
    ASSUME Typed, LostIsGone, [Next]_vars
    PROVE  LostIsGone'
<1>1. CASE Exit \/ Kill
  <2>1. Reload
    BY <1>1 DEF Exit, Kill
  <2> QED
    BY <2>1, ConstantsAssumption DEF LostIsGone, Reload
<1>2. ASSUME NEW j \in Jobs, StartUpload(j) \/ UploadStep(j)
      PROVE  LostIsGone'
  <2>1. wjob' = wjob /\ \A k \in Jobs \ {j} : upc'[k] = upc[k] /\ phase'[k] = phase[k]
    BY <1>2 DEF StartUpload, UploadStep, UploadFails, UploadDropped, QueueJob, ReadForQueued,
                WriteQueued, SetPhase, workerVars, jobVars, Typed
  <2>2. phase'[j] = "lost" => phase[j] = "lost" /\ upc'[j] \in {upc[j], "returned"}
    BY <1>2 DEF StartUpload, UploadStep, UploadFails, UploadDropped, QueueJob, ReadForQueued,
                WriteQueued, SetPhase, jobVars, Typed, LostIsGone
  <2> QED
    BY <2>1, <2>2 DEF LostIsGone
<1>3. ASSUME NEW w \in Workers, Claim(w)
      PROVE  LostIsGone'
  <2>1. PICK j \in Jobs : SetPhase(j, "processing", 0) /\ wjob' = [wjob EXCEPT ![w] = j]
    BY <1>3 DEF Claim
  <2>2. upc' = upc
    BY <1>3 DEF Claim, uploadVars
  <2> QED
    BY <2>1, <2>2 DEF LostIsGone, SetPhase, Typed
<1>4. ASSUME NEW w \in Workers, Finish(w)
      PROVE  LostIsGone'
  <2>1. upc' = upc /\ wjob' = wjob /\ wjob[w] \in Jobs
    BY <1>4 DEF Finish, uploadVars, Typed
  <2>2. \A k \in Jobs : phase'[k] = phase[k] \/ phase'[k] \in {"queued", "more", "done", "stopped", "failed"}
    BY <1>4 DEF Finish, SetPhase, Typed
  <2> QED
    BY <2>1, <2>2 DEF LostIsGone
<1>5. ASSUME phase' = phase, upc' = upc,
             \A w \in Workers : wjob'[w] = wjob[w] \/ wjob'[w] = NoJob
      PROVE  LostIsGone'
  BY <1>5, ConstantsAssumption DEF LostIsGone
<1>6. ASSUME NEW w \in Workers, WorkerStep(w), ~Claim(w), ~Finish(w)
      PROVE  LostIsGone'
  <2>1. phase' = phase /\ upc' = upc
    BY <1>6 DEF WorkerStep, Look, NothingQueued, Open, Spill, SpillFails, ReadLine, StopReading,
                ProcessFails, Screen, SaveEvent, HandOver, SaveFailed, Flushed, RemoveFiles,
                jobVars, uploadVars
  <2>2. \A v \in Workers : wjob'[v] = wjob[v] \/ wjob'[v] = NoJob
    BY <1>6 DEF WorkerStep, Look, NothingQueued, Open, Spill, SpillFails, ReadLine, StopReading,
                ProcessFails, Screen, SaveEvent, HandOver, SaveFailed, Flushed, RemoveFiles,
                Free, Typed
  <2> QED
    BY <1>5, <2>1, <2>2
<1>7. CASE (\E e \in Events : WriterClaims(e)) \/ Stop \/ WaitEnds \/ WaitTimesOut \/ UNCHANGED vars
  <2>1. phase' = phase /\ upc' = upc /\ wjob' = wjob
    BY <1>7 DEF WriterClaims, Stop, WaitEnds, WaitTimesOut, vars, jobVars, uploadVars, workerVars
  <2> QED
    BY <1>5, <2>1
<1> QED
  BY <1>1, <1>2, <1>3, <1>4, <1>6, <1>7 DEF Next

-----------------------------------------------------------------------------
(* The hand-over of archived events. *)

\* A worker's hands are empty but while it saves, and hold only what the
\* archive has.
LEMMA HandsStep ==
    ASSUME Typed, Hands, [Next]_vars
    PROVE  Hands'
<1>1. CASE Exit \/ Kill
  <2>1. Reload
    BY <1>1 DEF Exit, Kill
  <2> QED
    BY <2>1 DEF Hands, Reload, NoStatus
<1>2. ASSUME UNCHANGED workerVars, archive \subseteq archive'
      PROVE  Hands'
  BY <1>2 DEF Hands, workerVars
<1>3. ASSUME NEW w \in Workers, NEW e \in Events, SaveEvent(w, e)
      PROVE  Hands'
  <2>1. PICK x \in {"new", "duplicate", "error"} : status' = [status EXCEPT ![w][e] = x]
    BY <1>3 DEF SaveEvent
  <2>2. archive \subseteq archive' /\ (status'[w][e] \in {"new", "duplicate"} => e \in archive')
    BY <1>3 DEF SaveEvent, Typed
  <2>3. wpc' = wpc /\ batch' = batch /\ wpc[w] = "save"
    BY <1>3 DEF SaveEvent
  <2> QED
    BY <2>1, <2>2, <2>3 DEF Hands, Typed
<1>4. ASSUME NEW w \in Workers, NEW e \in Events, HandOver(w, e)
      PROVE  Hands'
  <2>1. /\ status' = [status EXCEPT ![w][e] = "none"] /\ wpc' = wpc /\ batch' = batch
        /\ archive' = archive /\ wpc[w] = "save"
    BY <1>4 DEF HandOver
  <2> QED
    BY <2>1 DEF Hands, Typed
<1>5. ASSUME NEW w \in Workers, Screen(w)
      PROVE  Hands'
  <2>1. /\ wpc' = [wpc EXCEPT ![w] = "save"] /\ batch' = batch /\ archive' = archive
        /\ \A v \in Workers \ {w} : status'[v] = status[v]
        /\ \A e \in Events : status'[w][e] \in {"none", "todo"}
    BY <1>5 DEF Screen, Go, Typed
  <2> QED
    BY <2>1 DEF Hands, Typed
<1>6. ASSUME NEW w \in Workers, status' = status \/ status' = [status EXCEPT ![w] = NoStatus],
             status'[w] = NoStatus, archive' = archive,
             \A v \in Workers \ {w} : wpc'[v] = wpc[v] /\ batch'[v] = batch[v],
             wpc'[w] \in {"idle", "looking", "claimed", "spill"} => batch'[w] = {}
      PROVE  Hands'
  <2>1. \A v \in Workers \ {w} : status'[v] = status[v]
    BY <1>6 DEF Typed
  <2>2. \A e \in Events : NoStatus[e] = "none"
    BY DEF NoStatus
  <2> QED
    BY <1>6, <2>1, <2>2 DEF Hands
<1>7. ASSUME NEW w \in Workers, SaveFailed(w) \/ RemoveFiles(w)
      PROVE  Hands'
  <2>1. status' = [status EXCEPT ![w] = NoStatus] /\ archive' = archive
    BY <1>7 DEF SaveFailed, RemoveFiles, Free
  <2>2. /\ \A v \in Workers \ {w} : wpc'[v] = wpc[v] /\ batch'[v] = batch[v]
        /\ wpc'[w] \in {"idle", "looking", "claimed", "spill"} => batch'[w] = {}
    BY <1>7 DEF SaveFailed, RemoveFiles, Free, Go, Typed
  <2>3. status'[w] = NoStatus
    BY <2>1 DEF Typed
  <2> QED
    BY <1>6, <2>1, <2>2, <2>3
<1>8. ASSUME NEW w \in Workers,
             Look(w) \/ Claim(w) \/ NothingQueued(w) \/ Open(w) \/ Spill(w) \/ SpillFails(w)
               \/ ReadLine(w) \/ StopReading(w) \/ ProcessFails(w) \/ Flushed(w) \/ Finish(w)
      PROVE  Hands'
  <2>1. status' = status /\ archive' = archive
    BY <1>8 DEF Look, Claim, NothingQueued, Open, Spill, SpillFails, ReadLine, StopReading,
                ProcessFails, Flushed, Finish
  <2>2. status[w] = NoStatus
    BY <1>8 DEF Look, Claim, NothingQueued, Open, Spill, SpillFails, ReadLine, StopReading,
                ProcessFails, Flushed, Finish, Hands
  <2>3. \A v \in Workers \ {w} : wpc'[v] = wpc[v] /\ batch'[v] = batch[v]
    BY <1>8 DEF Look, Claim, NothingQueued, Open, Spill, SpillFails, ReadLine, StopReading,
                ProcessFails, Flushed, Finish, Go, LastBatch, Typed
  <2>4. wpc'[w] \in {"idle", "looking", "claimed", "spill"} => batch'[w] = {}
    <3>1. CASE Look(w) \/ Claim(w) \/ NothingQueued(w) \/ Open(w) \/ Spill(w) \/ SpillFails(w)
      BY <3>1 DEF Look, Claim, NothingQueued, Open, Spill, SpillFails, Go, Hands, Typed
    <3>2. CASE ReadLine(w) \/ StopReading(w) \/ ProcessFails(w) \/ Flushed(w) \/ Finish(w)
      BY <3>2 DEF ReadLine, StopReading, ProcessFails, Flushed, Finish, Go, Typed
    <3> QED
      BY <1>8, <3>1, <3>2
  <2> QED
    BY <1>6, <2>1, <2>2, <2>3, <2>4
<1>9. ASSUME NEW j \in Jobs, StartUpload(j) \/ UploadStep(j)
      PROVE  Hands'
  BY <1>2, <1>9 DEF StartUpload, UploadStep, UploadFails, UploadDropped, QueueJob, ReadForQueued,
                    WriteQueued
<1>10. CASE (\E e \in Events : WriterClaims(e)) \/ Stop \/ WaitEnds \/ WaitTimesOut \/ UNCHANGED vars
  BY <1>2, <1>10 DEF WriterClaims, Stop, WaitEnds, WaitTimesOut, vars
<1> QED
  BY <1>1, <1>3, <1>4, <1>5, <1>7, <1>8, <1>9, <1>10 DEF Next, WorkerStep

\* The wait ends without a cut only when nobody has anything, and after that a
\* stopping node reads nothing.
LEMMA NothingLeftStep ==
    ASSUME Typed, Hands, NothingLeft, [Next]_vars
    PROVE  NothingLeft'
<1>1. CASE Exit \/ Kill
  <2>1. Reload
    BY <1>1 DEF Exit, Kill
  <2> QED
    BY <2>1 DEF NothingLeft, Reload
<1>2. CASE WaitEnds
  <2>1. \A w \in Workers : wpc[w] \in {"idle", "looking", "claimed"}
    BY <1>2 DEF WaitEnds, NoneRunning, Running
  <2>2. batch' = batch /\ status' = status /\ stopping' = stopping /\ stopping
    BY <1>2 DEF WaitEnds, workerVars
  <2> QED
    BY <2>1, <2>2 DEF Hands, NothingLeft
<1>3. CASE WaitTimesOut
  BY <1>3 DEF WaitTimesOut, NothingLeft
<1>4. ASSUME sinkOpen' = sinkOpen, stopping => stopping', cut => cut',
             \A w \in Workers : batch[w] = {} /\ stopping => batch'[w] = {},
             \A w \in Workers : batch[w] = {} /\ status[w] = NoStatus => status'[w] = NoStatus
      PROVE  NothingLeft'
  BY <1>4 DEF NothingLeft, Typed
<1>5. ASSUME NEW w \in Workers, WorkerStep(w)
      PROVE  NothingLeft'
  <2>1. sinkOpen' = sinkOpen /\ stopping' = stopping
    BY <1>5 DEF WorkerStep, Look, Claim, NothingQueued, Open, Spill, SpillFails, ReadLine,
                StopReading, ProcessFails, Screen, SaveEvent, HandOver, SaveFailed, Flushed,
                Finish, RemoveFiles, nodeVars
  <2>2. cut => cut'
    BY <1>5 DEF WorkerStep, Look, Claim, NothingQueued, Open, Spill, SpillFails, ReadLine,
                StopReading, ProcessFails, Screen, SaveEvent, HandOver, SaveFailed, Flushed,
                Finish, RemoveFiles
  <2>3. \A v \in Workers : batch[v] = {} /\ stopping => batch'[v] = {}
    BY <1>5 DEF WorkerStep, Look, Claim, NothingQueued, Open, Spill, SpillFails, ReadLine,
                StopReading, LastBatch, ProcessFails, Screen, SaveEvent, HandOver, SaveFailed,
                Flushed, Finish, RemoveFiles, Free, Typed
  <2>4. \A v \in Workers : batch[v] = {} /\ status[v] = NoStatus => status'[v] = NoStatus
    <3>1. CASE Screen(w)
      <4>1. status' = [status EXCEPT ![w] =
                [e \in Events |-> IF e \in Unique(w) \ store THEN "todo" ELSE "none"]]
        BY <1>5, <3>1 DEF Screen
      <4>2. batch[w] = {} => Unique(w) = {}
        BY DEF Unique
      <4> QED
        BY <4>1, <4>2 DEF NoStatus, Typed
    <3>2. CASE \E e \in Events : SaveEvent(w, e) \/ HandOver(w, e)
      <4>1. PICK e \in Events, x \in Statuses :
               status[w][e] # "none" /\ status' = [status EXCEPT ![w][e] = x]
        BY <3>2 DEF SaveEvent, HandOver, Statuses
      <4>2. status[w] # NoStatus
        BY <4>1 DEF NoStatus
      <4> QED
        BY <4>1, <4>2 DEF Typed
    <3>3. CASE SaveFailed(w) \/ RemoveFiles(w)
      BY <3>3 DEF SaveFailed, RemoveFiles, Free, Typed
    <3>4. CASE ~Screen(w) /\ ~(\E e \in Events : SaveEvent(w, e) \/ HandOver(w, e))
                 /\ ~SaveFailed(w) /\ ~RemoveFiles(w)
      BY <1>5, <3>4 DEF WorkerStep, Look, Claim, NothingQueued, Open, Spill, SpillFails, ReadLine,
                        StopReading, ProcessFails, Flushed, Finish
    <3> QED
      BY <3>1, <3>2, <3>3, <3>4
  <2> QED
    BY <1>4, <2>1, <2>2, <2>3, <2>4
<1>6. ASSUME NEW j \in Jobs, StartUpload(j) \/ UploadStep(j)
      PROVE  NothingLeft'
  <2>1. UNCHANGED <<workerVars, nodeVars, cut>>
    BY <1>6 DEF StartUpload, UploadStep, UploadFails, UploadDropped, QueueJob, ReadForQueued,
                WriteQueued
  <2> QED
    BY <2>1 DEF NothingLeft, workerVars, nodeVars
<1>7. CASE (\E e \in Events : WriterClaims(e)) \/ Stop \/ UNCHANGED vars
  <2>1. UNCHANGED <<workerVars, cut, sinkOpen>> /\ (stopping => stopping')
    BY <1>7 DEF WriterClaims, Stop, vars, nodeVars
  <2> QED
    BY <2>1 DEF NothingLeft, workerVars
<1> QED
  BY <1>1, <1>2, <1>3, <1>5, <1>6, <1>7 DEF Next

\* Every archived event that is not sent is in somebody's hands, or a cut took
\* it out of them.
LEMMA HandedOverStep ==
    ASSUME Typed, Hands, NothingLeft, ArchivedIsHandedOver, [Next]_vars
    PROVE  ArchivedIsHandedOver'
<1>1. CASE Kill
  <2>1. sent' = sent /\ archive' = archive /\ (InHands # {} => cut') /\ (cut => cut')
    BY <1>1 DEF Kill, writerVars
  <2> QED
    BY <2>1 DEF ArchivedIsHandedOver
<1>2. CASE Exit
  <2>1. ~sinkOpen /\ sent' = sent /\ archive' = archive /\ cut' = cut
    BY <1>2 DEF Exit, writerVars
  <2>2. cut \/ InHands = {}
    BY <2>1 DEF NothingLeft, InHands, NoStatus
  <2> QED
    BY <2>1, <2>2 DEF ArchivedIsHandedOver
<1>3. ASSUME cut => cut', archive' = archive, sent' = sent,
             \A w \in Workers : \A e \in Events : status[w][e] = "new" => status'[w][e] = "new" \/ cut'
      PROVE  ArchivedIsHandedOver'
  BY <1>3 DEF ArchivedIsHandedOver, InHands
<1>4. ASSUME NEW w \in Workers, NEW e \in Events, SaveEvent(w, e)
      PROVE  ArchivedIsHandedOver'
  <2>1. PICK x \in {"new", "duplicate", "error"} :
           /\ status' = [status EXCEPT ![w][e] = x]
           /\ IF x = "new" THEN archive' = archive \cup {e} ELSE archive' = archive
    BY <1>4 DEF SaveEvent
  <2>2. status[w][e] = "todo" /\ sent' = sent /\ cut' = cut
    BY <1>4 DEF SaveEvent, writerVars
  <2>3. \A f \in Events : f \in InHands => f \in InHands'
    BY <2>1, <2>2 DEF InHands, Typed
  <2>4. x = "new" => e \in InHands'
    BY <2>1 DEF InHands, Typed
  <2> QED
    BY <2>1, <2>2, <2>3, <2>4 DEF ArchivedIsHandedOver, Typed
<1>5. ASSUME NEW w \in Workers, NEW e \in Events, HandOver(w, e)
      PROVE  ArchivedIsHandedOver'
  <2>1. /\ status' = [status EXCEPT ![w][e] = "none"] /\ archive' = archive /\ cut' = cut
        /\ sent' = IF status[w][e] = "new" /\ sinkOpen THEN sent \cup {e} ELSE sent
        /\ status[w][e] \in {"new", "duplicate"}
    BY <1>5 DEF HandOver
  <2>2. cut \/ sinkOpen
    BY <2>1 DEF NothingLeft, NoStatus, Typed
  <2>3. \A f \in Events : f \in InHands => f \in InHands' \/ f \in sent' \/ cut
    <3> SUFFICES ASSUME NEW f \in Events, NEW v \in Workers, status[v][f] = "new", sinkOpen
                 PROVE  f \in InHands' \/ f \in sent'
      BY <2>2 DEF InHands
    <3>1. CASE v = w /\ f = e
      BY <2>1, <3>1
    <3>2. CASE ~(v = w /\ f = e)
      <4>1. status'[v][f] = "new"
        BY <2>1, <3>2 DEF Typed
      <4> QED
        BY <4>1 DEF InHands
    <3> QED
      BY <3>1, <3>2
  <2>4. sent \subseteq sent'
    BY <2>1
  <2> QED
    BY <2>1, <2>3, <2>4 DEF ArchivedIsHandedOver, Typed
<1>6. ASSUME NEW w \in Workers, SaveFailed(w)
      PROVE  ArchivedIsHandedOver'
  <2>1. /\ status' = [status EXCEPT ![w] = NoStatus] /\ archive' = archive /\ sent' = sent
        /\ cut' = (cut \/ \E e \in Events : status[w][e] = "new")
    BY <1>6 DEF SaveFailed, writerVars
  <2> QED
    BY <1>3, <2>1 DEF Typed
<1>7. ASSUME NEW w \in Workers, WorkerStep(w), ~SaveFailed(w),
             ~(\E e \in Events : SaveEvent(w, e) \/ HandOver(w, e))
      PROVE  ArchivedIsHandedOver'
  <2>1. archive' = archive /\ sent' = sent /\ cut' = cut
    BY <1>7 DEF WorkerStep, Look, Claim, NothingQueued, Open, Spill, SpillFails, ReadLine,
                StopReading, ProcessFails, Screen, Flushed, Finish, RemoveFiles, writerVars
  <2>2. \/ status' = status
        \/ status[w] = NoStatus /\ \A v \in Workers \ {w} : status'[v] = status[v]
    <3>1. CASE Screen(w) \/ RemoveFiles(w)
      BY <3>1 DEF Screen, RemoveFiles, Free, Hands, Typed
    <3>2. CASE ~Screen(w) /\ ~RemoveFiles(w)
      BY <1>7, <3>2 DEF WorkerStep, Look, Claim, NothingQueued, Open, Spill, SpillFails, ReadLine,
                        StopReading, ProcessFails, Flushed, Finish
    <3> QED
      BY <3>1, <3>2
  <2> QED
    BY <1>3, <2>1, <2>2 DEF NoStatus
<1>8. ASSUME NEW j \in Jobs, StartUpload(j) \/ UploadStep(j)
      PROVE  ArchivedIsHandedOver'
  <2>1. UNCHANGED <<workerVars, archive, writerVars, cut>>
    BY <1>8 DEF StartUpload, UploadStep, UploadFails, UploadDropped, QueueJob, ReadForQueued,
                WriteQueued
  <2> QED
    BY <1>3, <2>1 DEF workerVars, writerVars
<1>9. CASE (\E e \in Events : WriterClaims(e)) \/ Stop \/ WaitEnds \/ WaitTimesOut \/ UNCHANGED vars
  <2>1. UNCHANGED <<workerVars, archive, sent>> /\ (cut => cut')
    BY <1>9 DEF WriterClaims, Stop, WaitEnds, WaitTimesOut, vars, writerVars
  <2> QED
    BY <1>3, <2>1 DEF workerVars
<1> QED
  BY <1>1, <1>2, <1>4, <1>5, <1>6, <1>7, <1>8, <1>9 DEF Next

LEMMA HandInvInit ==
    Init => HandInv
<1> SUFFICES ASSUME Init PROVE HandInv
  OBVIOUS
<1>1. Typed
  BY NoMetaType, FS_EmptySet DEF Init, Typed, Phase, Busy, NoStatus, Statuses
<1> QED
  BY <1>1, ConstantsAssumption DEF Init, HandInv, LostIsGone, Hands, NothingLeft,
                                   ArchivedIsHandedOver, NoStatus

THEOREM HandInvHolds == Spec => []HandInv
<1>1. HandInv /\ [Next]_vars => HandInv'
  BY TypedStep, LostIsGoneStep, HandsStep, NothingLeftStep, HandedOverStep DEF HandInv
<1> QED
  BY HandInvInit, <1>1, PTL DEF Spec

\* An archived event of an upload reaches the writer: a graceful stop waits for
\* what workers have in their hands, and only a kill, an expired wait or a
\* failed save takes anything out of them.
THEOREM ArchivedReachesWriter == Spec => []ArchivedIsHandedOver
BY HandInvHolds, PTL DEF HandInv

-----------------------------------------------------------------------------
(* Places where a job goes on. *)

LEMMA LinesOfJob ==
    ASSUME NEW j \in Jobs
    PROVE  /\ Len(Content[j]) \in Nat
           /\ \A n \in 1..Len(Content[j]) : Content[j][n] \in Events \cup {Bad}
<1>1. Content[j] \in Seq(Events \cup {Bad})
  BY ConstantsAssumption
<1> QED
  BY <1>1

\* A job nobody touches, and a worker nobody touches, stay as they are while the
\* archive grows.
LEMMA JobFrame ==
    ASSUME NEW j \in Jobs, JobOK(j), archive \subseteq archive', phase'[j] = phase[j],
           cursor'[j] = cursor[j], counted'[j] = counted[j], meta'[j] = meta[j],
           upc'[j] = upc[j], snap'[j] = snap[j]
    PROVE  JobOK(j)'
<1>1. SavedPlace(j)'
  BY DEF JobOK, SavedPlace, Settles, Archived
<1>2. AtRest(j)'
  BY DEF JobOK, AtRest, GoodPlace, Settles, Archived
<1>3. Handler(j)'
  BY DEF JobOK, Handler, Meta
<1> QED
  BY <1>1, <1>2, <1>3 DEF JobOK

LEMMA WorkerFrame ==
    ASSUME NEW w \in Workers, WorkOK(w), archive \subseteq archive', wpc'[w] = wpc[w],
           wjob'[w] = wjob[w], batch'[w] = batch[w], status'[w] = status[w], wend'[w] = wend[w],
           wpc[w] \in Busy => cursor'[wjob[w]] = cursor[wjob[w]] /\ counted'[wjob[w]] = counted[wjob[w]]
    PROVE  WorkOK(w)'
<1>1. CASE wpc[w] \in Busy
  BY <1>1 DEF WorkOK, Reading, Saving, Ending, GoodPlace, Settles, Archived, ToCount
<1>2. CASE wpc[w] \notin Busy
  BY <1>2 DEF WorkOK, Busy
<1> QED
  BY <1>1, <1>2

\* A step of an upload touches its own job, which no worker has, and saves a
\* place only of a job at rest.
LEMMA UploadKeepsPlaces ==
    ASSUME Typed, LostIsGone, PlaceInv, NEW j \in Jobs, StartUpload(j) \/ UploadStep(j)
    PROVE  PlaceInv'
<1>1. /\ UNCHANGED workerVars /\ cursor' = cursor /\ counted' = counted /\ archive' = archive
      /\ \A k \in Jobs \ {j} : /\ phase'[k] = phase[k] /\ meta'[k] = meta[k]
                               /\ upc'[k] = upc[k] /\ snap'[k] = snap[k]
  <2>1. UNCHANGED workerVars /\ cursor' = cursor /\ counted' = counted /\ archive' = archive
    BY DEF StartUpload, UploadStep, UploadFails, UploadDropped, QueueJob, ReadForQueued,
           WriteQueued, jobVars
  <2>2. \A k \in Jobs \ {j} : /\ phase'[k] = phase[k] /\ upc'[k] = upc[k] /\ snap'[k] = snap[k]
    BY DEF StartUpload, UploadStep, UploadFails, UploadDropped, QueueJob, ReadForQueued,
           WriteQueued, SetPhase, jobVars, Typed
  <2>3. \A k \in Jobs \ {j} : meta'[k] = meta[k]
    BY DEF StartUpload, UploadStep, UploadFails, UploadDropped, QueueJob, ReadForQueued,
           WriteQueued, SetPhase, Persist, jobVars, saveVars, Typed
  <2> QED
    BY <2>1, <2>2, <2>3
<1>2. phase[j] # "processing"
  BY DEF StartUpload, UploadStep, UploadFails, UploadDropped, QueueJob, ReadForQueued,
         WriteQueued, PlaceInv, JobOK, Handler
<1>3. JobOK(j)
  BY DEF PlaceInv
<1>4. JobOK(j)'
  <2>1. CASE StartUpload(j)
    <3>1. /\ phase'[j] = "uploading" /\ phase[j] = "none" /\ upc'[j] = "receiving"
          /\ meta' = meta /\ snap' = snap
      BY <2>1 DEF StartUpload, saveVars, Typed
    <3> QED
      BY <1>1, <1>3, <3>1 DEF JobOK, SavedPlace, AtRest, Handler, GoodPlace, Settles, Archived
  <2>2. CASE UploadFails(j) \/ UploadDropped(j)
    <3>1. PICK s \in {"failed", "interrupted"}, n \in {0, 1} : SetPhase(j, s, n)
      BY <2>2 DEF UploadFails, UploadDropped
    <3>2. /\ phase'[j] = s /\ upc'[j] = "returned"
          /\ meta'[j] = meta[j] \/ meta'[j] = Meta(j, s)
      BY <2>2, <3>1 DEF UploadFails, UploadDropped, SetPhase, Persist, Typed
    <3>3. Meta(j, s).state = s
      BY DEF Meta
    <3> QED
      BY <1>1, <1>3, <3>2, <3>3 DEF JobOK, SavedPlace, AtRest, Handler, Settles, Archived
  <2>3. CASE QueueJob(j)
    <3>1. phase'[j] = "queued" /\ phase[j] = "uploading" /\ upc'[j] = "queuing" /\ meta' = meta
      BY <2>3, <1>3 DEF QueueJob, saveVars, Typed, JobOK, Handler
    <3> QED
      BY <1>1, <1>3, <3>1 DEF JobOK, SavedPlace, AtRest, Handler, GoodPlace, Settles, Archived
  <2>4. CASE ReadForQueued(j)
    <3>1. /\ phase' = phase /\ phase[j] = "queued" /\ upc'[j] = "writing" /\ meta' = meta
          /\ snap'[j] = Meta(j, "queued")
      BY <2>4, <1>3 DEF ReadForQueued, jobVars, saveVars, Typed, JobOK, Handler
    <3> QED
      BY <1>1, <1>3, <3>1 DEF JobOK, SavedPlace, AtRest, Handler, GoodPlace, Settles, Archived, Meta
  <2>5. CASE WriteQueued(j)
    <3>1. /\ phase' = phase /\ phase[j] = "queued" /\ upc'[j] = "returned"
          /\ meta'[j] = meta[j] \/ meta'[j] = Meta(j, "queued")
      BY <2>5, <1>3 DEF WriteQueued, Persist, Typed, JobOK, Handler
    <3>2. /\ Meta(j, "queued").state = "queued" /\ Meta(j, "queued").cursor = cursor[j]
          /\ Meta(j, "queued").counted = counted[j]
      BY DEF Meta
    <3> QED
      BY <1>1, <1>3, <3>1, <3>2 DEF JobOK, SavedPlace, AtRest, Handler, GoodPlace, Settles, Archived
  <2> QED
    BY <2>1, <2>2, <2>3, <2>4, <2>5 DEF UploadStep
<1>5. \A k \in Jobs : JobOK(k)'
  BY <1>1, <1>4, JobFrame DEF PlaceInv
<1>6. OneWorker'
  BY <1>1, <1>2 DEF PlaceInv, OneWorker, workerVars, Typed, Busy
<1>7. \A w \in Workers : WorkOK(w)'
  BY <1>1, WorkerFrame DEF PlaceInv, workerVars
<1> QED
  BY <1>5, <1>6, <1>7 DEF PlaceInv

\* A new process takes up every job at its saved place.
LEMMA ReloadKeepsPlaces ==
    ASSUME Typed, PlaceInv, Reload, archive' = archive
    PROVE  PlaceInv'
<1>1. ASSUME NEW j \in Jobs
      PROVE  JobOK(j)'
  <2>1. /\ meta'[j].state = ReloadedState(j) /\ meta'[j].cursor = meta[j].cursor
        /\ meta'[j].counted = meta[j].counted
        /\ cursor'[j] = meta[j].cursor /\ counted'[j] = meta[j].counted
        /\ phase'[j] \in {"lost", ReloadedState(j)} /\ upc'[j] \in {"none", "returned"}
    <3>1. meta[j] \in Saved
      BY DEF Typed
    <3>2. meta'[j] = [meta[j] EXCEPT !.state = ReloadedState(j)]
      BY DEF Reload
    <3> HIDE DEF ReloadedState
    <3> QED
      BY <3>1, <3>2 DEF Reload, Saved
  <2>2. JobOK(j)
    BY DEF PlaceInv
  <2>3. meta[j].state \in Phase \ {"lost"} /\ meta[j].state # "uploading"
    BY <2>2 DEF Typed, Saved, JobOK, SavedPlace, NoMeta
  <2>4. /\ ReloadedState(j) = "none" => meta[j].state = "none"
        /\ ReloadedState(j) = "done" => meta[j].state = "done"
        /\ ReloadedState(j) \in {"queued", "processing"} => meta[j].state \in {"queued", "processing"}
        /\ ReloadedState(j) # "uploading" /\ ReloadedState(j) # "processing"
    BY <2>3 DEF ReloadedState, Phase, Settled
  <2>5. meta[j].state = "none" => meta[j] = NoMeta /\ Settles(j, 0, 0)
    <3>1. 0 <= Len(Content[j]) /\ 1..0 = {}
      BY ConstantsAssumption
    <3> QED
      BY <2>2, <3>1 DEF JobOK, SavedPlace, Settles
  <2>6. SavedPlace(j)'
    <3>1. meta'[j].state = "none" => meta'[j] = NoMeta
      <4>1. meta'[j] = [meta[j] EXCEPT !.state = ReloadedState(j)]
        BY DEF Reload
      <4> HIDE DEF ReloadedState
      <4> QED
        BY <2>1, <2>4, <2>5, <4>1 DEF NoMeta
    <3> HIDE DEF ReloadedState
    <3> QED
      BY <2>1, <2>2, <2>4, <3>1 DEF JobOK, SavedPlace, Settles, Archived
  <2>7. AtRest(j)'
    <3> HIDE DEF ReloadedState
    <3>1. phase'[j] \in {"none", "uploading", "queued"} => Settles(j, meta[j].cursor, meta[j].counted)
      BY <2>1, <2>2, <2>4, <2>5 DEF JobOK, SavedPlace, NoMeta
    <3>2. phase'[j] = "done" => meta[j].counted = Len(Content[j])
      BY <2>1, <2>2, <2>4 DEF JobOK, SavedPlace, Settles
    <3> QED
      BY <2>1, <3>1, <3>2 DEF AtRest, GoodPlace, Settles, Archived
  <2>8. Handler(j)'
    BY <2>1 DEF Handler
  <2> QED
    BY <2>6, <2>7, <2>8 DEF JobOK
<1>2. \A w \in Workers : wpc'[w] = "idle" /\ wend'[w] = "more" /\ wjob'[w] = NoJob
  BY DEF Reload
<1>3. OneWorker' /\ \A w \in Workers : WorkOK(w)'
  BY <1>2 DEF OneWorker, WorkOK, Busy
<1> QED
  BY <1>1, <1>3 DEF PlaceInv

\* A worker's step touches its own job and nobody else's.
LEMMA WorkerStepFrame ==
    ASSUME Typed, PlaceInv, ~EarlyClaims, NEW w \in Workers, WorkerStep(w)
    PROVE  /\ upc' = upc /\ snap' = snap /\ archive \subseteq archive'
           /\ \A v \in Workers \ {w} : /\ wpc'[v] = wpc[v] /\ wjob'[v] = wjob[v]
                                       /\ batch'[v] = batch[v] /\ status'[v] = status[v]
                                       /\ wend'[v] = wend[v]
           /\ \A j \in Jobs \ {wjob'[w]} : /\ phase'[j] = phase[j] /\ meta'[j] = meta[j]
                                           /\ cursor'[j] = cursor[j] /\ counted'[j] = counted[j]
           /\ \A v \in Workers \ {w} : wpc[v] \in Busy => wjob[v] # wjob'[w]
<1>1. upc' = upc /\ snap' = snap /\ archive \subseteq archive'
  BY DEF WorkerStep, Look, Claim, NothingQueued, Open, Spill, SpillFails, ReadLine, StopReading,
         ProcessFails, Screen, SaveEvent, HandOver, SaveFailed, Flushed, Finish, RemoveFiles,
         uploadVars
<1>2. \A v \in Workers \ {w} : wpc'[v] = wpc[v] /\ wjob'[v] = wjob[v] /\ wend'[v] = wend[v]
  BY DEF WorkerStep, Look, Claim, NothingQueued, Open, Spill, SpillFails, ReadLine, StopReading,
         ProcessFails, Screen, SaveEvent, HandOver, SaveFailed, Flushed, Finish, RemoveFiles,
         Go, Free, Typed
<1>3. \A v \in Workers \ {w} : batch'[v] = batch[v] /\ status'[v] = status[v]
  BY DEF WorkerStep, Look, Claim, NothingQueued, Open, Spill, SpillFails, ReadLine, StopReading,
         ProcessFails, Screen, SaveEvent, HandOver, SaveFailed, Flushed, Finish, RemoveFiles,
         Go, Free, Typed
<1>4. CASE Claim(w)
  <2>1. PICK j \in Jobs : /\ FirstQueued(j) /\ SetPhase(j, "processing", 0)
                          /\ wjob' = [wjob EXCEPT ![w] = j]
    BY <1>4 DEF Claim
  <2>2. wjob'[w] = j /\ phase[j] = "queued"
    BY <2>1 DEF FirstQueued, Queued, Typed
  <2>3. \A k \in Jobs \ {j} : /\ phase'[k] = phase[k] /\ meta'[k] = meta[k]
                              /\ cursor'[k] = cursor[k] /\ counted'[k] = counted[k]
    BY <1>4, <2>1 DEF Claim, SetPhase, Persist, Typed
  <2> QED
    BY <1>1, <1>2, <1>3, <2>2, <2>3 DEF PlaceInv, OneWorker
<1>5. CASE RemoveFiles(w)
  <2>1. wjob'[w] = NoJob /\ phase' = phase /\ meta' = meta /\ cursor' = cursor /\ counted' = counted
    BY <1>5 DEF RemoveFiles, Free, saveVars, Typed
  <2> QED
    BY <1>1, <1>2, <1>3, <2>1, ConstantsAssumption DEF Typed, Busy
<1>6. CASE ~Claim(w) /\ ~RemoveFiles(w)
  <2>1. wjob' = wjob
    BY <1>6 DEF WorkerStep, Look, NothingQueued, Open, Spill, SpillFails, ReadLine, StopReading,
                ProcessFails, Screen, SaveEvent, HandOver, SaveFailed, Flushed, Finish
  <2>2. \A j \in Jobs \ {wjob[w]} : phase'[j] = phase[j] /\ meta'[j] = meta[j]
    BY <1>6 DEF WorkerStep, Look, NothingQueued, Open, Spill, SpillFails, ReadLine, StopReading,
                ProcessFails, Screen, SaveEvent, HandOver, SaveFailed, Flushed, Finish,
                SetPhase, Persist, jobVars, saveVars, Typed
  <2>3. \A j \in Jobs \ {wjob[w]} : cursor'[j] = cursor[j] /\ counted'[j] = counted[j]
    BY <1>6 DEF WorkerStep, Look, NothingQueued, Open, Spill, SpillFails, ReadLine, StopReading,
                ProcessFails, Screen, SaveEvent, HandOver, SaveFailed, Flushed, Finish,
                jobVars, Typed
  <2>4. wpc[w] \in Busy \cup {"idle", "looking"}
    BY <1>6 DEF WorkerStep, Look, NothingQueued, Open, Spill, SpillFails, ReadLine, StopReading,
                ProcessFails, Screen, SaveEvent, HandOver, SaveFailed, Flushed, Finish, Busy
  <2>5. \A v \in Workers \ {w} : wpc[v] \in Busy => wjob[v] # wjob[w]
    BY <2>4, ConstantsAssumption DEF PlaceInv, OneWorker, WorkOK, Typed, Busy
  <2> QED
    BY <1>1, <1>2, <1>3, <2>1, <2>2, <2>3, <2>5
<1> QED
  BY <1>4, <1>5, <1>6

\* So it keeps all places in order if it leaves the worker and its job in order.
InOrder(w) ==
    /\ WorkOK(w)
    /\ wjob[w] \in Jobs => JobOK(wjob[w])
    /\ wpc[w] \in Busy => phase[wjob[w]] = "processing"

LEMMA WorkerKeepsPlaces ==
    ASSUME Typed, PlaceInv, ~EarlyClaims, NEW w \in Workers, WorkerStep(w), InOrder(w)'
    PROVE  PlaceInv'
<1>1. \A j \in Jobs : JobOK(j)'
  BY WorkerStepFrame, JobFrame DEF PlaceInv, InOrder
<1>2. OneWorker'
  <2>1. ASSUME NEW v \in Workers \ {w}, wpc'[v] \in Busy
        PROVE  phase'[wjob'[v]] = "processing" /\ wjob'[v] # wjob'[w]
    <3>1. wpc[v] \in Busy /\ wjob'[v] = wjob[v] /\ wjob[v] # wjob'[w]
      BY <2>1, WorkerStepFrame
    <3>2. wjob[v] \in Jobs
      BY <3>1 DEF Typed, Busy
    <3> QED
      BY <3>1, <3>2, WorkerStepFrame DEF PlaceInv, OneWorker
  <2>2. ASSUME NEW u \in Workers \ {w}, NEW v \in Workers \ {w},
               wpc'[u] \in Busy, wpc'[v] \in Busy, wjob'[u] = wjob'[v]
        PROVE  u = v
    BY <2>2, WorkerStepFrame DEF PlaceInv, OneWorker
  <2> QED
    BY <2>1, <2>2 DEF OneWorker, InOrder
<1>3. ASSUME NEW v \in Workers
      PROVE  WorkOK(v)'
  <2>1. CASE v = w
    BY <2>1 DEF InOrder
  <2>2. CASE v # w
    <3>1. wpc[v] \in Busy => wjob[v] \in Jobs
      BY DEF Typed, Busy
    <3> QED
      BY <2>2, <3>1, WorkerStepFrame, WorkerFrame DEF PlaceInv
  <2> QED
    BY <2>1, <2>2
<1> QED
  BY <1>1, <1>2, <1>3 DEF PlaceInv

\* A worker takes a job that is at rest.
LEMMA ClaimInOrder ==
    ASSUME Typed, Hands, PlaceInv, ~EarlyClaims, NEW w \in Workers, Claim(w)
    PROVE  InOrder(w)'
<1>1. PICK j \in Jobs : /\ FirstQueued(j) /\ upc[j] = "returned" /\ SetPhase(j, "processing", 0)
                        /\ wjob' = [wjob EXCEPT ![w] = j]
  BY DEF Claim
<1>2. /\ phase[j] = "queued" /\ wjob'[w] = j /\ phase'[j] = "processing" /\ wpc'[w] = "claimed"
      /\ cursor' = cursor /\ counted' = counted /\ archive' = archive /\ upc' = upc
      /\ batch'[w] = {} /\ wend'[w] = "more"
  BY <1>1 DEF Claim, FirstQueued, Queued, SetPhase, Go, Hands, PlaceInv, WorkOK, Typed, uploadVars
<1>3. JobOK(j) /\ GoodPlace(j)
  BY <1>2 DEF PlaceInv, JobOK, AtRest
<1>4. JobOK(j)'
  <2>1. meta'[j] = meta[j] \/ meta'[j] = Meta(j, "processing")
    BY <1>1 DEF SetPhase, Persist, Typed
  <2>2. /\ Meta(j, "processing").state = "processing" /\ Meta(j, "processing").cursor = cursor[j]
        /\ Meta(j, "processing").counted = counted[j]
    BY DEF Meta
  <2> QED
    BY <1>1, <1>2, <1>3, <2>1, <2>2 DEF JobOK, SavedPlace, AtRest, Handler, GoodPlace, Settles, Archived
<1>5. WorkOK(w)'
  <2>1. cursor[j] \in Nat /\ counted[j] = cursor[j] /\ Cardinality({}) = 0
    BY <1>3, FS_EmptySet DEF GoodPlace, Settles, Typed
  <2>2. Reading(w, j)'
    BY <1>2, <1>3 DEF Reading, GoodPlace, Settles, Archived
  <2> QED
    BY <1>2, <2>1, <2>2 DEF WorkOK
<1> QED
  BY <1>2, <1>4, <1>5 DEF InOrder

\* Steps that change neither the job nor what the worker has read of it.
LEMMA LookingInOrder ==
    ASSUME Typed, Hands, PlaceInv, NEW w \in Workers,
           Look(w) \/ NothingQueued(w) \/ Open(w) \/ Spill(w) \/ SpillFails(w) \/ StopReading(w)
             \/ ProcessFails(w) \/ SaveFailed(w)
    PROVE  InOrder(w)'
<1>1. /\ phase' = phase /\ cursor' = cursor /\ counted' = counted /\ meta' = meta
      /\ upc' = upc /\ snap' = snap /\ archive' = archive /\ wjob' = wjob
  BY DEF Look, NothingQueued, Open, Spill, SpillFails, StopReading, ProcessFails, SaveFailed,
         jobVars, saveVars, uploadVars
<1>2. wjob'[w] \in Jobs => JobOK(wjob[w])'
  <2> SUFFICES ASSUME wjob[w] \in Jobs PROVE JobOK(wjob[w])'
    BY <1>1
  <2>1. JobOK(wjob[w])
    BY DEF PlaceInv
  <2> QED
    BY <1>1, <2>1 DEF JobOK, SavedPlace, AtRest, Handler, GoodPlace, Settles, Archived, Meta
<1>3. wpc'[w] \in Busy => wpc[w] \in Busy
  BY DEF Look, NothingQueued, Open, Spill, SpillFails, StopReading, ProcessFails, SaveFailed,
         Go, Busy, Typed
<1>4. WorkOK(w)
  BY DEF PlaceInv
<1>5. WorkOK(w)'
  <2>1. CASE Look(w) \/ NothingQueued(w)
    BY <1>1, <1>4, <2>1 DEF Look, NothingQueued, Go, Typed, WorkOK
  <2>2. CASE Open(w) \/ Spill(w)
    <3>1. /\ batch' = batch /\ wend' = wend /\ wpc'[w] \in {"spill", "read"}
          /\ wpc[w] \in {"claimed", "spill"}
      BY <2>2 DEF Open, Spill, Go, Typed
    <3> QED
      BY <1>1, <1>4, <3>1 DEF WorkOK, Reading, Archived
  <2>3. CASE SpillFails(w) \/ ProcessFails(w) \/ SaveFailed(w)
    BY <2>3 DEF SpillFails, ProcessFails, SaveFailed, Go, Typed, WorkOK
  <2>4. CASE StopReading(w)
    <3>1. PICK end \in {"done", "stopped", "failed"} :
             /\ wend' = [wend EXCEPT ![w] = end] /\ batch' = [batch EXCEPT ![w] = batch[w]]
             /\ end = "done" => AtEnd(wjob[w])
      BY <2>4 DEF StopReading, LastBatch
    <3>2. wend'[w] = end /\ batch'[w] = batch[w] /\ wpc[w] = "read" /\ wpc'[w] = "ingest"
      BY <2>4, <3>1 DEF StopReading, Go, Typed
    <3>3. wjob[w] \in Jobs /\ cursor[wjob[w]] \in Nat /\ Len(Content[wjob[w]]) \in Nat
      BY <3>2, LinesOfJob DEF Typed
    <3>4. Reading(w, wjob[w])'
      <4>1. end = "done" => cursor[wjob[w]] >= Len(Content[wjob[w]])
        BY <3>1 DEF AtEnd
      <4>2. Reading(w, wjob[w])
        BY <1>4, <3>2 DEF WorkOK
      <4>3. end = "done" => cursor[wjob[w]] = Len(Content[wjob[w]])
        BY <3>3, <4>1, <4>2 DEF Reading
      <4> QED
        BY <1>1, <3>2, <4>2, <4>3 DEF Reading, Archived
    <3> QED
      BY <1>1, <1>4, <3>2, <3>4 DEF WorkOK
  <2> QED
    BY <2>1, <2>2, <2>3, <2>4
<1>6. wpc'[w] \in Busy => phase'[wjob'[w]] = "processing"
  BY <1>1, <1>3 DEF PlaceInv, OneWorker
<1> QED
  BY <1>2, <1>5, <1>6 DEF InOrder

\* While a worker counts, its job is processing: only what the worker holds
\* has to stay in order.
LEMMA CountingInOrder ==
    ASSUME Typed, PlaceInv, NEW w \in Workers, wpc[w] \in Busy, wjob' = wjob, phase' = phase,
           meta' = meta, upc' = upc, snap' = snap, archive \subseteq archive', WorkOK(w)'
    PROVE  InOrder(w)'
<1>1. wjob[w] \in Jobs /\ phase[wjob[w]] = "processing" /\ JobOK(wjob[w])
  BY DEF Typed, PlaceInv, OneWorker, Busy
<1>2. JobOK(wjob[w])'
  <2>1. SavedPlace(wjob[w])'
    BY <1>1 DEF JobOK, SavedPlace, Settles, Archived
  <2>2. AtRest(wjob[w])' /\ Handler(wjob[w])'
    BY <1>1 DEF JobOK, AtRest, Handler
  <2> QED
    BY <2>1, <2>2 DEF JobOK
<1> QED
  BY <1>1, <1>2 DEF InOrder

LEMMA ReadInOrder ==
    ASSUME Typed, PlaceInv, NEW w \in Workers, ReadLine(w)
    PROVE  InOrder(w)'
<1>1. PICK j \in Jobs : j = wjob[w]
  BY DEF ReadLine, Typed
<1>2. /\ cursor[j] \in Nat /\ counted[j] \in Nat /\ Len(Content[j]) \in Nat
      /\ wpc[w] = "read" /\ cursor[j] < Len(Content[j])
  BY <1>1, LinesOfJob DEF ReadLine, Typed, AtEnd
<1>3. PICK n \in Nat : n = cursor[j] + 1
  BY <1>2
<1>4. /\ cursor'[j] = n /\ counted' = counted /\ batch'[w] = batch[w] \cup {n}
      /\ wpc'[w] \in {"ingest", "read"} /\ wjob' = wjob /\ wend' = wend /\ archive' = archive
      /\ phase' = phase /\ meta' = meta /\ upc' = upc /\ snap' = snap
  BY <1>1, <1>3 DEF ReadLine, Go, Typed, saveVars, uploadVars
<1>5. Reading(w, j) /\ cursor[j] = counted[j] + Cardinality(batch[w]) /\ wend[w] = "more"
  BY <1>1, <1>2 DEF PlaceInv, WorkOK
<1>6. Cardinality(batch[w] \cup {n}) = Cardinality(batch[w]) + 1 /\ Cardinality(batch[w]) \in Nat
  <2>1. n \notin batch[w]
    BY <1>2, <1>3, <1>5 DEF Reading
  <2> QED
    BY <2>1, FS_AddElement, FS_CardinalityType DEF Typed
<1>7. Reading(w, j)'
  <2>1. n <= Len(Content[j]) /\ 1..n = (1..cursor[j]) \cup {n}
    BY <1>2, <1>3
  <2> QED
    BY <1>4, <1>5, <2>1 DEF Reading, Archived
<1>8. cursor'[j] = counted'[j] + Cardinality(batch'[w])
  BY <1>2, <1>3, <1>4, <1>5, <1>6
<1>9. WorkOK(w)'
  BY <1>1, <1>4, <1>5, <1>7, <1>8 DEF WorkOK, Reading, Archived
<1> QED
  BY <1>2, <1>4, <1>9, CountingInOrder DEF Busy

\* Of a batch, what is not counted at once gets a result, and what gets none is
\* bad or archived.
LEMMA ScreenInOrder ==
    ASSUME Typed, PlaceInv, NEW w \in Workers, Screen(w)
    PROVE  InOrder(w)'
<1>1. PICK j \in Jobs : j = wjob[w]
  BY DEF Screen, Typed
<1>2. cursor[j] \in Nat /\ counted[j] \in Nat /\ Len(Content[j]) \in Nat /\ wpc[w] = "ingest"
  BY <1>1, LinesOfJob DEF Screen, Typed
<1>3. /\ counted'[j] = counted[j] + CountedAtOnce(w) /\ cursor' = cursor /\ batch' = batch
      /\ status'[w] = [e \in Events |-> IF e \in Unique(w) \ store THEN "todo" ELSE "none"]
      /\ wpc'[w] = "save" /\ wjob' = wjob /\ wend' = wend /\ archive' = archive
      /\ phase' = phase /\ meta' = meta /\ upc' = upc /\ snap' = snap
  BY <1>1 DEF Screen, Go, Typed, saveVars, uploadVars
<1>4. Reading(w, j) /\ cursor[j] = counted[j] + Cardinality(batch[w])
  BY <1>1, <1>2 DEF PlaceInv, WorkOK
<1>5. \A n \in batch[w] : Content[j][n] \in Events \cup {Bad}
  <2>1. batch[w] \subseteq 1..Len(Content[j])
    BY <1>2, <1>4 DEF Reading
  <2> QED
    BY <2>1, LinesOfJob
<1>6. ToCount(w)' = Unique(w) \ store
  <2>1. Unique(w) \subseteq Events
    BY <1>1, <1>5 DEF Unique
  <2> QED
    BY <1>3, <2>1 DEF ToCount
<1>7. IsFiniteSet(ToCount(w)') /\ cursor'[j] = counted'[j] + Cardinality(ToCount(w)')
  <2>1. PICK u : u = Unique(w) \ store
    OBVIOUS
  <2>2. IsFiniteSet(u) /\ Cardinality(u) \in Nat /\ Cardinality(batch[w]) \in Nat
    BY <2>1, UniqueFacts
  <2>3. counted'[j] = counted[j] + (Cardinality(batch[w]) - Cardinality(u))
    BY <1>3, <2>1 DEF CountedAtOnce
  <2> QED
    BY <1>2, <1>3, <1>4, <1>6, <2>1, <2>2, <2>3
<1>8. ASSUME NEW n \in batch[w]
      PROVE  Archived(j, n)' \/ status'[w][Content[j][n]] = "todo"
  <2>1. Content[j][n] = Bad \/ (Content[j][n] \in Events /\ Content[j][n] \in Unique(w))
    BY <1>1, <1>5 DEF Unique
  <2>2. store \subseteq archive
    BY DEF Typed
  <2> QED
    BY <1>3, <2>1, <2>2 DEF Archived
<1>9. WorkOK(w)'
  <2>1. Reading(w, j)'
    BY <1>3, <1>4 DEF Reading, Archived
  <2>2. Saving(w, j)'
    BY <1>3, <1>7, <1>8 DEF Saving
  <2>3. wjob'[w] = j
    BY <1>1, <1>3
  <2> QED
    BY <1>3, <2>1, <2>2, <2>3 DEF WorkOK, Reading, Saving, Archived, ToCount
<1> QED
  BY <1>2, <1>3, <1>9, CountingInOrder DEF Busy

LEMMA SaveInOrder ==
    ASSUME Typed, PlaceInv, NEW w \in Workers, NEW e \in Events, SaveEvent(w, e)
    PROVE  InOrder(w)'
<1>1. PICK j \in Jobs : j = wjob[w]
  BY DEF SaveEvent, Typed
<1>2. /\ wpc[w] = "save" /\ status[w][e] = "todo" /\ batch' = batch /\ wend' = wend
      /\ wpc' = wpc /\ wjob' = wjob /\ cursor' = cursor /\ counted' = counted
      /\ phase' = phase /\ meta' = meta /\ upc' = upc /\ snap' = snap /\ archive \subseteq archive'
  BY DEF SaveEvent, uploadVars
<1>3. PICK x \in {"new", "duplicate", "error"} :
         /\ status' = [status EXCEPT ![w][e] = x]
         /\ x \in {"new", "duplicate"} => e \in archive'
  BY DEF SaveEvent
<1>4. Reading(w, j) /\ Saving(w, j)
  BY <1>1, <1>2 DEF PlaceInv, WorkOK
<1>5. /\ status'[w][e] = x /\ \A f \in Events \ {e} : status'[w][f] = status[w][f]
      /\ ToCount(w)' = ToCount(w)
  BY <1>2, <1>3 DEF ToCount, Typed
<1>6. Reading(w, j)'
  BY <1>2, <1>4 DEF Reading, Archived
<1>7. Saving(w, j)'
  <2>1. ASSUME NEW n \in batch[w]
        PROVE  Archived(j, n)' \/ status'[w][Content[j][n]] \in {"todo", "error"}
    <3>1. Content[j][n] \in Events \cup {Bad}
      <4>1. n \in 1..Len(Content[j])
        BY <1>1, <1>4, LinesOfJob DEF Reading, Typed
      <4> QED
        BY <4>1, LinesOfJob
    <3>2. Archived(j, n) \/ status[w][Content[j][n]] \in {"todo", "error"}
      BY <1>4 DEF Saving
    <3> QED
      BY <1>2, <1>3, <1>5, <3>1, <3>2 DEF Archived
  <2> QED
    BY <1>2, <1>4, <1>5, <2>1 DEF Saving
<1>8. WorkOK(w)'
  BY <1>1, <1>2, <1>6, <1>7 DEF WorkOK, Reading, Saving, Archived, ToCount
<1> QED
  BY <1>2, <1>8, CountingInOrder DEF Busy

LEMMA HandOverInOrder ==
    ASSUME Typed, Hands, PlaceInv, NEW w \in Workers, NEW e \in Events, HandOver(w, e)
    PROVE  InOrder(w)'
<1>1. PICK j \in Jobs : j = wjob[w]
  BY DEF HandOver, Typed
<1>2. /\ wpc[w] = "save" /\ status[w][e] \in {"new", "duplicate"} /\ batch' = batch /\ wend' = wend
      /\ wpc' = wpc /\ wjob' = wjob /\ cursor' = cursor /\ counted'[j] = counted[j] + 1
      /\ phase' = phase /\ meta' = meta /\ upc' = upc /\ snap' = snap /\ archive' = archive
      /\ status' = [status EXCEPT ![w][e] = "none"]
  BY <1>1 DEF HandOver, uploadVars, saveVars, Typed
<1>3. Reading(w, j) /\ Saving(w, j)
  BY <1>1, <1>2 DEF PlaceInv, WorkOK
<1>4. /\ e \in archive /\ \A f \in Events \ {e} : status'[w][f] = status[w][f]
      /\ ToCount(w)' = ToCount(w) \ {e} /\ e \in ToCount(w)
  BY <1>2 DEF ToCount, Typed, Hands
<1>5. IsFiniteSet(ToCount(w)') /\ cursor'[j] = counted'[j] + Cardinality(ToCount(w)')
  <2>1. PICK t, u : t = ToCount(w) /\ u = ToCount(w)'
    OBVIOUS
  <2>2. /\ IsFiniteSet(t) /\ cursor[j] = counted[j] + Cardinality(t) /\ u = t \ {e} /\ e \in t
    BY <1>3, <1>4, <2>1 DEF Saving
  <2>3. IsFiniteSet(u) /\ Cardinality(u) = Cardinality(t) - 1 /\ Cardinality(t) \in Nat
    BY <2>2, FS_RemoveElement, FS_CardinalityType
  <2>4. cursor[j] \in Nat /\ counted[j] \in Nat
    BY DEF Typed
  <2>5. cursor'[j] = counted'[j] + Cardinality(u)
    BY <1>2, <2>2, <2>3, <2>4
  <2> QED
    BY <2>1, <2>3, <2>5
<1>6. Reading(w, j)'
  BY <1>2, <1>3 DEF Reading, Archived
<1>7. Saving(w, j)'
  <2>1. ASSUME NEW n \in batch[w]
        PROVE  Archived(j, n)' \/ status'[w][Content[j][n]] \in {"todo", "error"}
    <3>1. Content[j][n] \in Events \cup {Bad}
      <4>1. n \in 1..Len(Content[j])
        BY <1>1, <1>3, LinesOfJob DEF Reading, Typed
      <4> QED
        BY <4>1, LinesOfJob
    <3>2. Archived(j, n) \/ status[w][Content[j][n]] \in {"todo", "error"}
      BY <1>3 DEF Saving
    <3> QED
      BY <1>2, <1>4, <3>1, <3>2 DEF Archived
  <2> QED
    BY <1>2, <1>5, <2>1 DEF Saving
<1>8. WorkOK(w)'
  BY <1>1, <1>2, <1>6, <1>7 DEF WorkOK, Reading, Saving, Archived, ToCount
<1> QED
  BY <1>2, <1>8, CountingInOrder DEF Busy

\* A flushed batch leaves a place to go on from: it is saved, or the job ends at it.
LEMMA FlushInOrder ==
    ASSUME Typed, PlaceInv, NEW w \in Workers, Flushed(w)
    PROVE  InOrder(w)'
<1>1. PICK j \in Jobs : j = wjob[w]
  BY DEF Flushed, Typed
<1>2. /\ wpc[w] = "save" /\ status[w] = NoStatus /\ batch'[w] = {} /\ wend' = wend
      /\ wpc'[w] = (IF wend[w] = "more" THEN "read" ELSE "finish")
      /\ wjob' = wjob /\ cursor' = cursor /\ counted' = counted
      /\ phase' = phase /\ upc' = upc /\ snap' = snap /\ archive' = archive
  BY DEF Flushed, Go, uploadVars, Typed
<1>3. Reading(w, j) /\ Saving(w, j) /\ phase[j] = "processing" /\ JobOK(j)
  BY <1>1, <1>2 DEF PlaceInv, WorkOK, OneWorker, Busy
<1>4. GoodPlace(j) /\ cursor[j] \in Nat /\ counted[j] = cursor[j]
  <2>1. ToCount(w) = {}
    BY <1>2 DEF ToCount, NoStatus
  <2>2. cursor[j] \in Nat /\ counted[j] \in Nat /\ cursor[j] = counted[j]
    BY <1>3, <2>1, FS_EmptySet DEF Saving, Typed
  <2>3. ASSUME NEW n \in 1..cursor[j]
        PROVE  Archived(j, n)
    <3>1. Content[j][n] \in Events \cup {Bad}
      <4>1. n \in 1..Len(Content[j])
        BY <1>3, <2>2, LinesOfJob DEF Reading
      <4> QED
        BY <4>1, LinesOfJob
    <3>2. Content[j][n] \in Events => status[w][Content[j][n]] = "none"
      BY <1>2 DEF NoStatus
    <3> QED
      BY <1>3, <3>1, <3>2 DEF Reading, Saving, Archived
  <2> QED
    BY <1>3, <2>2, <2>3 DEF GoodPlace, Settles, Reading
<1>5. JobOK(j)'
  <2>1. meta'[j] = meta[j] \/ meta'[j] = Meta(j, "processing")
    BY <1>1, <1>3 DEF Flushed, Persist, Typed
  <2>2. /\ Meta(j, "processing").state = "processing" /\ Meta(j, "processing").cursor = cursor[j]
        /\ Meta(j, "processing").counted = counted[j]
    BY DEF Meta
  <2>3. SavedPlace(j)'
    BY <1>2, <1>3, <1>4, <2>1, <2>2 DEF JobOK, SavedPlace, GoodPlace, Settles, Archived
  <2>4. AtRest(j)' /\ Handler(j)'
    BY <1>2, <1>3 DEF JobOK, AtRest, Handler
  <2> QED
    BY <2>3, <2>4 DEF JobOK
<1>6. WorkOK(w)'
  <2>1. CASE wend[w] = "more"
    <3>1. Reading(w, j)'
      BY <1>2, <1>3, <1>4, <2>1 DEF Reading, GoodPlace, Settles, Archived
    <3>2. cursor'[j] = counted'[j] + Cardinality(batch'[w])
      BY <1>2, <1>4, FS_EmptySet
    <3> QED
      BY <1>1, <1>2, <2>1, <3>1, <3>2 DEF WorkOK, Reading, Archived
  <2>2. CASE wend[w] # "more"
    <3>1. wend[w] \in {"done", "stopped", "failed"}
      BY <2>2 DEF Typed
    <3>2. wend[w] # "failed" => Ending(w, j)'
      BY <1>2, <1>3, <1>4, <3>1 DEF Ending, Reading, GoodPlace, Settles, Archived
    <3> QED
      BY <1>1, <1>2, <2>2, <3>2 DEF WorkOK, Ending, GoodPlace, Settles, Archived
  <2> QED
    BY <2>1, <2>2
<1>7. wjob'[w] = j /\ phase'[j] = "processing"
  BY <1>1, <1>2, <1>3
<1> QED
  BY <1>1, <1>2, <1>5, <1>6, <1>7 DEF InOrder, JobOK, SavedPlace, AtRest, Handler, GoodPlace,
                                 Settles, Archived, Meta

\* A worker leaves a job at rest, or settled.
LEMMA FinishInOrder ==
    ASSUME Typed, PlaceInv, NEW w \in Workers, Finish(w)
    PROVE  InOrder(w)'
<1>1. PICK j \in Jobs : j = wjob[w]
  BY DEF Finish, Typed
<1>2. PICK s \in {"queued", "done", "failed"} :
         /\ SetPhase(j, s, 0)
         /\ s # "failed" => Ending(w, j) /\ (s = "done" => wend[w] = "done")
  <2>1. wpc[w] = "finish" /\ wend[w] \in {"done", "stopped", "failed"}
    BY DEF Finish, Typed
  <2>2. wend[w] # "failed" => Ending(w, j)
    BY <1>1, <2>1 DEF PlaceInv, WorkOK
  <2> QED
    BY <1>1, <2>1, <2>2 DEF Finish
<1>3. /\ phase'[j] = s /\ wpc'[w] = "remove" /\ wjob' = wjob /\ cursor' = cursor
      /\ counted' = counted /\ upc' = upc /\ snap' = snap /\ archive' = archive
  BY <1>2 DEF Finish, SetPhase, Go, uploadVars, Typed
<1>4. phase[j] = "processing" /\ JobOK(j)
  BY <1>1 DEF PlaceInv, OneWorker, Finish, Busy
<1>5. JobOK(j)'
  <2>1. meta'[j] = meta[j] \/ meta'[j] = Meta(j, s)
    BY <1>2 DEF SetPhase, Persist, Typed
  <2>2. Meta(j, s).state = s /\ Meta(j, s).cursor = cursor[j] /\ Meta(j, s).counted = counted[j]
    BY DEF Meta
  <2>3. SavedPlace(j)'
    BY <1>2, <1>3, <1>4, <2>1, <2>2 DEF JobOK, SavedPlace, Ending, GoodPlace, Settles, Archived
  <2>4. AtRest(j)'
    BY <1>2, <1>3 DEF AtRest, Ending, GoodPlace, Settles, Archived
  <2>5. Handler(j)'
    BY <1>3, <1>4 DEF JobOK, Handler
  <2> QED
    BY <2>3, <2>4, <2>5 DEF JobOK
<1>6. wjob'[w] = j
  BY <1>1, <1>3
<1>7. WorkOK(w)'
  BY <1>3 DEF WorkOK
<1> QED
  BY <1>3, <1>5, <1>6, <1>7 DEF InOrder, JobOK, SavedPlace, AtRest, Handler, GoodPlace,
                                Settles, Archived, Meta, Busy

LEMMA RemoveInOrder ==
    ASSUME Typed, NEW w \in Workers, RemoveFiles(w)
    PROVE  InOrder(w)'
<1>1. wpc'[w] = "idle" /\ wjob'[w] = NoJob /\ wend'[w] = "more"
  BY DEF RemoveFiles, Go, Free, Typed
<1> QED
  BY <1>1, ConstantsAssumption DEF InOrder, WorkOK, Busy

-----------------------------------------------------------------------------
LEMMA PlaceInvStep ==
    ASSUME HandInv, PlaceInv, ~EarlyClaims, [Next]_vars
    PROVE  PlaceInv'
<1> USE DEF HandInv
<1>1. ASSUME NEW j \in Jobs, StartUpload(j) \/ UploadStep(j)
      PROVE  PlaceInv'
  BY <1>1, UploadKeepsPlaces
<1>2. ASSUME NEW w \in Workers, WorkerStep(w)
      PROVE  PlaceInv'
  <2>1. InOrder(w)'
    BY <1>2, ClaimInOrder, LookingInOrder, ReadInOrder, ScreenInOrder, SaveInOrder,
       HandOverInOrder, FlushInOrder, FinishInOrder, RemoveInOrder DEF WorkerStep
  <2> QED
    BY <1>2, <2>1, WorkerKeepsPlaces
<1>3. CASE Exit \/ Kill
  BY <1>3, ReloadKeepsPlaces DEF Exit, Kill
<1>4. CASE (\E e \in Events : WriterClaims(e)) \/ Stop \/ WaitEnds \/ WaitTimesOut \/ UNCHANGED vars
  <2>1. UNCHANGED <<jobVars, uploadVars, workerVars, archive>>
    BY <1>4 DEF WriterClaims, Stop, WaitEnds, WaitTimesOut, vars
  <2>2. \A j \in Jobs : JobOK(j)'
    BY <2>1, JobFrame DEF PlaceInv, jobVars, saveVars, uploadVars
  <2>3. \A w \in Workers : WorkOK(w)'
    BY <2>1, WorkerFrame DEF PlaceInv, jobVars, workerVars
  <2>4. OneWorker'
    BY <2>1 DEF PlaceInv, OneWorker, jobVars, workerVars
  <2> QED
    BY <2>2, <2>3, <2>4 DEF PlaceInv
<1> QED
  BY <1>1, <1>2, <1>3, <1>4 DEF Next

LEMMA PlaceInvInit ==
    Init => PlaceInv
<1> SUFFICES ASSUME Init PROVE PlaceInv
  OBVIOUS
<1>1. ASSUME NEW j \in Jobs
      PROVE  JobOK(j)
  <2>1. 0 <= Len(Content[j]) /\ 1..0 = {}
    BY LinesOfJob
  <2> QED
    BY <2>1 DEF Init, JobOK, SavedPlace, AtRest, Handler, GoodPlace, Settles, NoMeta
<1>2. OneWorker /\ \A w \in Workers : WorkOK(w)
  BY DEF Init, OneWorker, WorkOK, Busy
<1> QED
  BY <1>1, <1>2 DEF PlaceInv

THEOREM PlaceInvHolds == ~EarlyClaims => (Spec => []PlaceInv)
<1> SUFFICES ASSUME ~EarlyClaims PROVE Spec => []PlaceInv
  OBVIOUS
<1>1. HandInv /\ PlaceInv /\ [Next]_vars => PlaceInv'
  BY PlaceInvStep
<1> QED
  BY HandInvHolds, PlaceInvInit, <1>1, PTL DEF Spec

\* Unless a job is claimed before its handler has saved it, processing that goes
\* on after a stop or a kill passes over no event that is not archived.
THEOREM ResumingSkipsNothing == ~EarlyClaims => (Spec => []ResumeSkipsNothing)
<1> SUFFICES ASSUME ~EarlyClaims PROVE Spec => []ResumeSkipsNothing
  OBVIOUS
<1>1. PlaceInv => ResumeSkipsNothing
  BY DEF PlaceInv, JobOK, SavedPlace, Settles, Archived, ResumeSkipsNothing
<1> QED
  BY <1>1, PlaceInvHolds, PTL

\* And the counts of a job add up to its lines, however often it was resumed.
THEOREM ResumedCountsAddUp == ~EarlyClaims => (Spec => []CountsAddUp)
<1> SUFFICES ASSUME ~EarlyClaims PROVE Spec => []CountsAddUp
  OBVIOUS
<1>1. PlaceInv => CountsAddUp
  BY DEF PlaceInv, JobOK, SavedPlace, AtRest, Settles, CountsAddUp
<1> QED
  BY <1>1, PlaceInvHolds, PTL

=============================================================================
