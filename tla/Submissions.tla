----------------------------- MODULE Submissions -----------------------------
(***************************************************************************)
(* Uploaded dumps (submit.rs): an upload is stored as a file, queued, and  *)
(* ingested in the background by workers that archive each event and hand  *)
(* the new ones to the writer.  A job's phase, cursor and counts are saved *)
(* in one file, so that processing goes on after a restart.                *)
(*                                                                         *)
(* Simplifications.  A line is an event or Bad (too long, malformed,       *)
(* forged, ephemeral, in the future); blank lines are left out.  The lines *)
(* of a strfry database are its payloads, in the order of StrfryDump's     *)
(* walk.  Writing and renaming a metadata file is one step.  A             *)
(* worker's persist reads and writes in one step, since after the claim    *)
(* only the upload's handler may still be persisting the same job, and its *)
(* two steps are kept apart.  Refused uploads change nothing.  A restart   *)
(* follows an exit or a kill at once.                                      *)
(***************************************************************************)
EXTENDS Integers, Sequences, FiniteSets

CONSTANTS
    Jobs, NoJob,    \* uploads; no upload
    Workers,        \* background workers (process_concurrency)
    Events, Bad,    \* valid events; a line that is not one
    Content,        \* job -> its lines
    Databases,      \* jobs that are a strfry database
    BatchLines,     \* lines per batch
    MaxConcurrent,  \* uploads at a time
    EarlyClaims,    \* whether a job may be claimed before it is saved as queued
    MaxErrors,      \* bound: failures of files, of the archive and of persisting
    MaxStops,       \* bound: graceful shutdowns
    MaxTimeouts,    \* bound: shutdowns that stop waiting for a worker
    MaxKills        \* bound: hard kills

ASSUME ConstantsAssumption ==
    /\ Bad \notin Events /\ NoJob \notin Jobs
    /\ Content \in [Jobs -> Seq(Events \cup {Bad})] /\ Databases \subseteq Jobs
    /\ BatchLines \in Nat \ {0}
    /\ MaxConcurrent \in Nat
    /\ EarlyClaims \in BOOLEAN /\ MaxErrors \in Nat
    /\ MaxStops \in Nat /\ MaxTimeouts \in Nat /\ MaxKills \in Nat

VARIABLES
    list,      \* SubmitState.jobs, in order of arrival
    phase, cursor, counted,   \* Job: its phase, cursor and the sum of its counts
    file,      \* the stored upload exists
    unpacked,  \* the copy of a database: none, part (.mdb.part) or whole (.mdb)
    meta,      \* the saved metadata of a job, or NoMeta
    upc, snap, \* where a job's upload handler is; what its persist has read
    wpc, wjob, \* where a worker is, and its job
    batch,     \* positions of the lines in a worker's batch
    status,    \* events of a worker's batch: to save, and the results of save_all
    wend,      \* what a worker's flush leads to
    archive,   \* external: events of the archive database
    sent,      \* events handed to the writer's channel
    store,     \* the id store, filled by the writer
    stopping, sinkOpen,
    accepted,  \* jobs whose upload was answered with 202
    unsaved,   \* jobs of which some persist failed
    errs,      \* failures so far
    cut,       \* a worker was cut off between archiving an event and sending it
    stops, timeouts, kills

saveVars == <<meta, unsaved, errs>>
jobVars == <<list, phase, cursor, counted, file, unpacked, saveVars>>
uploadVars == <<upc, snap, accepted>>
workerVars == <<wpc, wjob, batch, status, wend>>
writerVars == <<sent, store>>
nodeVars == <<stopping, sinkOpen, stops, timeouts, kills>>
vars == <<jobVars, uploadVars, workerVars, archive, writerVars, nodeVars, cut>>

NoMeta == [state |-> "none", cursor |-> 0, counted |-> 0]
Settled == {"done", "failed", "interrupted"}

Statuses == {"none", "todo", "new", "duplicate", "error"}
NoStatus == [e \in Events |-> "none"]

Init ==
    /\ list = <<>>
    /\ phase = [j \in Jobs |-> "none"]
    /\ cursor = [j \in Jobs |-> 0] /\ counted = [j \in Jobs |-> 0]
    /\ file = [j \in Jobs |-> FALSE] /\ unpacked = [j \in Jobs |-> "none"]
    /\ meta = [j \in Jobs |-> NoMeta]
    /\ upc = [j \in Jobs |-> "none"] /\ snap = [j \in Jobs |-> NoMeta]
    /\ wpc = [w \in Workers |-> "idle"] /\ wjob = [w \in Workers |-> NoJob]
    /\ batch = [w \in Workers |-> {}] /\ status = [w \in Workers |-> NoStatus]
    /\ wend = [w \in Workers |-> "more"]
    /\ archive = {} /\ sent = {} /\ store = {}
    /\ stopping = FALSE /\ sinkOpen = TRUE
    /\ accepted = {} /\ unsaved = {} /\ cut = FALSE
    /\ stops = 0 /\ timeouts = 0 /\ kills = 0 /\ errs = 0

-----------------------------------------------------------------------------
(* Saving a job. *)

\* Job::persist writes m, in a step in which n things failed before; a failure
\* is logged and the old file stays.
Persist(j, m, n) ==
    \/ /\ meta' = [meta EXCEPT ![j] = m]
       /\ errs' = errs + n
       /\ UNCHANGED unsaved
    \/ /\ errs + n < MaxErrors /\ errs' = errs + n + 1
       /\ unsaved' = unsaved \cup {j}
       /\ UNCHANGED meta

Meta(j, state) == [state |-> state, cursor |-> cursor[j], counted |-> counted[j]]

\* Job::set: the phase changes and the job is saved.
SetPhase(j, state, n) ==
    /\ phase' = [phase EXCEPT ![j] = state]
    /\ Persist(j, Meta(j, state), n)

-----------------------------------------------------------------------------
(* Uploads. *)

Uploading == {j \in Jobs : upc[j] \in {"receiving", "queuing", "writing"}}

\* The handler has a slot, lists the job and creates its file.  The job is not
\* saved before its phase changes.
StartUpload(j) ==
    /\ ~stopping
    /\ upc[j] = "none" /\ phase[j] = "none"
    /\ Cardinality(Uploading) < MaxConcurrent
    /\ list' = Append(list, j)
    /\ phase' = [phase EXCEPT ![j] = "uploading"]
    /\ file' = [file EXCEPT ![j] = TRUE]
    /\ upc' = [upc EXCEPT ![j] = "receiving"]
    /\ UNCHANGED <<unpacked, cursor, counted, saveVars, snap, accepted, workerVars,
                   archive, writerVars, nodeVars, cut>>

\* A write or the sync fails, or the free-space floor is reached.
UploadFails(j) ==
    /\ errs < MaxErrors
    /\ upc[j] = "receiving"
    /\ file' = [file EXCEPT ![j] = FALSE]
    /\ SetPhase(j, "failed", 1)
    /\ upc' = [upc EXCEPT ![j] = "returned"]
    /\ UNCHANGED <<unpacked, list, cursor, counted, snap, accepted, workerVars, archive,
                   writerVars, nodeVars, cut>>

\* The connection drops: UploadGuard discards what was received.
UploadDropped(j) ==
    /\ upc[j] = "receiving"
    /\ file' = [file EXCEPT ![j] = FALSE]
    /\ SetPhase(j, "interrupted", 0)
    /\ upc' = [upc EXCEPT ![j] = "returned"]
    /\ UNCHANGED <<unpacked, list, cursor, counted, snap, accepted, workerVars, archive,
                   writerVars, nodeVars, cut>>

\* Everything is received and synced.  From here a worker may claim the job,
\* before it is saved as queued.
QueueJob(j) ==
    /\ upc[j] = "receiving"
    /\ phase' = [phase EXCEPT ![j] = "queued"]
    /\ upc' = [upc EXCEPT ![j] = "queuing"]
    /\ UNCHANGED <<unpacked, list, cursor, counted, file, saveVars, snap, accepted,
                   workerVars, archive, writerVars, nodeVars, cut>>

\* persist reads the phase, the cursor and the counts ...
ReadForQueued(j) ==
    /\ upc[j] = "queuing"
    /\ snap' = [snap EXCEPT ![j] = Meta(j, phase[j])]
    /\ upc' = [upc EXCEPT ![j] = "writing"]
    /\ UNCHANGED <<jobVars, accepted, workerVars, archive, writerVars, nodeVars, cut>>

\* ... and writes what it has read; the client gets its 202.
WriteQueued(j) ==
    /\ upc[j] = "writing"
    /\ Persist(j, snap[j], 0)
    /\ snap' = [snap EXCEPT ![j] = NoMeta]
    /\ upc' = [upc EXCEPT ![j] = "returned"]
    /\ accepted' = accepted \cup {j}
    /\ UNCHANGED <<unpacked, list, phase, cursor, counted, file, workerVars, archive,
                   writerVars, nodeVars, cut>>

-----------------------------------------------------------------------------
(* Workers. *)

Free(w) ==
    /\ wjob' = [wjob EXCEPT ![w] = NoJob]
    /\ batch' = [batch EXCEPT ![w] = {}]
    /\ status' = [status EXCEPT ![w] = NoStatus]
    /\ wend' = [wend EXCEPT ![w] = "more"]

Go(w, pc) == wpc' = [wpc EXCEPT ![w] = pc]

\* The loop goes round, woken or after a second, while the node is not stopping.
Look(w) ==
    /\ wpc[w] = "idle" /\ ~stopping
    /\ Go(w, "looking")
    /\ UNCHANGED <<jobVars, uploadVars, wjob, batch, status, wend, archive,
                   writerVars, nodeVars, cut>>

\* Places in the list that hold a queued job; the job at the first of them.
Queued == {n \in DOMAIN list : phase[list[n]] = "queued"}
FirstQueued(j) == \E n \in Queued : list[n] = j /\ \A k \in Queued : n <= k

\* claim takes the first queued job, under the lock on the list.  Nothing makes
\* it wait for the upload's handler; without EarlyClaims the handler is faster.
Claim(w) ==
    /\ wpc[w] = "looking"
    /\ \E j \in Jobs :
         /\ FirstQueued(j)
         /\ EarlyClaims \/ upc[j] = "returned"
         /\ SetPhase(j, "processing", 0)
         /\ wjob' = [wjob EXCEPT ![w] = j]
    /\ Go(w, "claimed")
    /\ UNCHANGED <<unpacked, list, cursor, counted, file, uploadVars, batch, status, wend,
                   archive, writerVars, nodeVars, cut>>

NothingQueued(w) ==
    /\ wpc[w] = "looking"
    /\ Queued = {}
    /\ Go(w, "idle")
    /\ UNCHANGED <<jobVars, uploadVars, wjob, batch, status, wend, archive,
                   writerVars, nodeVars, cut>>

\* A worker counts as running only after its claim.
Running == {w \in Workers : wpc[w] \notin {"idle", "looking", "claimed"}}

\* It counts itself, opens the file and skips to the cursor.  A database is
\* copied out of its upload first, if no copy is there.
Open(w) ==
    /\ wpc[w] = "claimed"
    /\ Go(w, IF wjob[w] \in Databases /\ unpacked[wjob[w]] # "whole" THEN "spill" ELSE "read")
    /\ UNCHANGED <<jobVars, uploadVars, wjob, batch, status, wend, archive,
                   writerVars, nodeVars, cut>>

\* spill_to_disk writes a part, which is renamed once it is synced ...
Spill(w) ==
    /\ wpc[w] = "spill"
    /\ unpacked' = [unpacked EXCEPT ![wjob[w]] = IF @ = "part" THEN "whole" ELSE "part"]
    /\ Go(w, IF unpacked'[wjob[w]] = "whole" THEN "read" ELSE "spill")
    /\ UNCHANGED <<list, phase, cursor, counted, file, saveVars, uploadVars, wjob, batch,
                   status, wend, archive, writerVars, nodeVars, cut>>

\* ... or removed, if the upload does not decode or the disk is full.
SpillFails(w) ==
    /\ errs < MaxErrors /\ errs' = errs + 1
    /\ wpc[w] = "spill"
    /\ unpacked' = [unpacked EXCEPT ![wjob[w]] = "none"]
    /\ wend' = [wend EXCEPT ![w] = "failed"]
    /\ Go(w, "finish")
    /\ UNCHANGED <<list, phase, cursor, counted, file, meta, unsaved, uploadVars, wjob,
                   batch, status, archive, writerVars, nodeVars, cut>>

AtEnd(j) == cursor[j] >= Len(Content[j])

\* One line is read and pushed; a full batch is flushed.
ReadLine(w) ==
    LET j == wjob[w]
        n == cursor[j] + 1
    IN /\ wpc[w] = "read" /\ ~stopping /\ ~AtEnd(j)
       /\ cursor' = [cursor EXCEPT ![j] = n]
       /\ batch' = [batch EXCEPT ![w] = @ \cup {n}]
       /\ Go(w, IF Cardinality(batch'[w]) >= BatchLines THEN "ingest" ELSE "read")
       /\ UNCHANGED <<unpacked, list, phase, counted, file, saveVars, uploadVars, wjob,
                      status, wend, archive, writerVars, nodeVars, cut>>

\* The batch in hand when reading ends.  (Fault: a stopping worker drops it.)
LastBatchDropped(w, end) == IF end = "stopped" THEN {} ELSE batch[w]
LastBatch(w, end) == batch[w]

\* The last batch is flushed: at the end of the file, when the node stops, or
\* when reading a dump fails.  A walk looks whether the node stops at each
\* payload, and not behind the last.
StopReading(w) ==
    /\ wpc[w] = "read"
    /\ \E end \in {"done", "stopped", "failed"} :
         /\ CASE end = "done" -> AtEnd(wjob[w]) /\ (wjob[w] \in Databases \/ ~stopping)
              [] end = "stopped" -> stopping /\ (wjob[w] \in Databases => ~AtEnd(wjob[w]))
              [] end = "failed" -> errs < MaxErrors /\ ~stopping /\ wjob[w] \notin Databases
         /\ wend' = [wend EXCEPT ![w] = end]
         /\ batch' = [batch EXCEPT ![w] = LastBatch(w, end)]
         /\ errs' = IF end = "failed" THEN errs + 1 ELSE errs
    /\ Go(w, "ingest")
    /\ UNCHANGED <<unpacked, list, phase, cursor, counted, file, meta, unsaved, uploadVars,
                   wjob, status, archive, writerVars, nodeVars, cut>>

\* Opening, decoding or the walk fails, or process panics: nothing is flushed.
ProcessFails(w) ==
    /\ errs < MaxErrors /\ errs' = errs + 1
    /\ wpc[w] \in {"claimed", "read"}
    /\ wend' = [wend EXCEPT ![w] = "failed"]
    /\ Go(w, "finish")
    /\ UNCHANGED <<unpacked, list, phase, cursor, counted, file, meta, unsaved, uploadVars,
                   wjob, batch, status, archive, writerVars, nodeVars, cut>>

-----------------------------------------------------------------------------
(* A batch. *)

\* Events of the batch, repeats within it removed.
Unique(w) == {Content[wjob[w]][n] : n \in batch[w]} \ {Bad}

\* Bad lines, repeats and ids the store knows are counted; the rest is fresh.
\* (Fault: the last are not counted.)
CountedAtOnceFewer(w) == Cardinality(batch[w]) - Cardinality(Unique(w))
CountedAtOnce(w) == Cardinality(batch[w]) - Cardinality(Unique(w) \ store)

Screen(w) ==
    /\ wpc[w] = "ingest"
    /\ counted' = [counted EXCEPT ![wjob[w]] = @ + CountedAtOnce(w)]
    /\ status' = [status EXCEPT ![w] =
          [e \in Events |-> IF e \in Unique(w) \ store THEN "todo" ELSE "none"]]
    /\ Go(w, "save")
    /\ UNCHANGED <<unpacked, list, phase, cursor, file, saveVars, uploadVars, wjob, batch,
                   wend, archive, writerVars, nodeVars, cut>>

\* save_all: threads save the events of the batch, in any order.
SaveEvent(w, e) ==
    /\ wpc[w] = "save" /\ status[w][e] = "todo"
    /\ \/ /\ e \notin archive
          /\ archive' = archive \cup {e}
          /\ status' = [status EXCEPT ![w][e] = "new"]
          /\ UNCHANGED errs
       \/ /\ e \in archive
          /\ status' = [status EXCEPT ![w][e] = "duplicate"]
          /\ UNCHANGED <<archive, errs>>
       \/ /\ errs < MaxErrors /\ errs' = errs + 1
          /\ status' = [status EXCEPT ![w][e] = "error"]
          /\ UNCHANGED archive
    /\ UNCHANGED <<unpacked, list, phase, cursor, counted, file, meta, unsaved, uploadVars, wpc,
                   wjob, batch, wend, writerVars, nodeVars, cut>>

AllSaved(w) == \A e \in Events : status[w][e] # "todo"

\* The results are walked in the order of the file.
Position(w, e) == CHOOSE n \in batch[w] :
    /\ Content[wjob[w]][n] = e
    /\ \A k \in batch[w] : Content[wjob[w]][k] = e => n <= k
Current(w, e) ==
    /\ status[w][e] # "none"
    /\ \A f \in Events : status[w][f] # "none" => Position(w, e) <= Position(w, f)

\* A new event is sent, or lost if the writer has gone; either way it counts.
HandOver(w, e) ==
    /\ wpc[w] = "save" /\ AllSaved(w)
    /\ Current(w, e)
    /\ status[w][e] \in {"new", "duplicate"}
    /\ sent' = IF status[w][e] = "new" /\ sinkOpen THEN sent \cup {e} ELSE sent
    /\ counted' = [counted EXCEPT ![wjob[w]] = @ + 1]
    /\ status' = [status EXCEPT ![w][e] = "none"]
    /\ UNCHANGED <<unpacked, list, phase, cursor, file, saveVars, uploadVars, wpc, wjob,
                   batch, wend, archive, store, nodeVars, cut>>

\* Events a worker has archived and not yet sent.
InHands == {e \in Events : \E w \in Workers : status[w][e] = "new"}

\* The first failed save ends the batch, and the job; what comes after it in
\* the batch is archived and not sent.
SaveFailed(w) ==
    /\ wpc[w] = "save" /\ AllSaved(w)
    /\ \E e \in Events : Current(w, e) /\ status[w][e] = "error"
    /\ wend' = [wend EXCEPT ![w] = "failed"]
    /\ status' = [status EXCEPT ![w] = NoStatus]
    /\ cut' = (cut \/ \E e \in Events : status[w][e] = "new")
    /\ Go(w, "finish")
    /\ UNCHANGED <<jobVars, uploadVars, wjob, batch, archive, writerVars, nodeVars>>

\* The flush ends by saving the job.
Flushed(w) ==
    /\ wpc[w] = "save" /\ status[w] = NoStatus
    /\ Persist(wjob[w], Meta(wjob[w], phase[wjob[w]]), 0)
    /\ batch' = [batch EXCEPT ![w] = {}]
    /\ Go(w, IF wend[w] = "more" THEN "read" ELSE "finish")
    /\ UNCHANGED <<unpacked, list, phase, cursor, counted, file, uploadVars, wjob, status,
                   wend, archive, writerVars, nodeVars, cut>>

\* The result of process decides the phase: a stopped job is queued again.
Finish(w) ==
    /\ wpc[w] = "finish"
    /\ SetPhase(wjob[w], IF wend[w] = "stopped" THEN "queued" ELSE wend[w], 0)
    /\ Go(w, "remove")
    /\ UNCHANGED <<unpacked, list, cursor, counted, file, uploadVars, wjob, batch, status,
                   wend, archive, writerVars, nodeVars, cut>>

\* A settled job's files go, and the worker is no longer running.
RemoveFiles(w) ==
    /\ wpc[w] = "remove"
    /\ file' = [file EXCEPT ![wjob[w]] = @ /\ wend[w] = "stopped"]
    /\ unpacked' = [unpacked EXCEPT ![wjob[w]] = IF wend[w] = "stopped" THEN @ ELSE "none"]
    /\ Go(w, "idle")
    /\ Free(w)
    /\ UNCHANGED <<list, phase, cursor, counted, saveVars, uploadVars, archive,
                   writerVars, nodeVars, cut>>

\* The writer commits and claims what it was sent (WriterNode).
WriterClaims(e) ==
    /\ e \in sent \ store
    /\ store' = store \cup {e}
    /\ UNCHANGED <<jobVars, uploadVars, workerVars, archive, sent, nodeVars, cut>>

-----------------------------------------------------------------------------
(* Stopping and restarting the node. *)

\* The HTTP server has finished its requests; stop() is called.
Stop ==
    /\ ~stopping /\ stops < MaxStops
    /\ Uploading = {}
    /\ stopping' = TRUE
    /\ stops' = stops + 1
    /\ UNCHANGED <<jobVars, uploadVars, workerVars, archive, writerVars, sinkOpen,
                   timeouts, kills, cut>>

\* stop_and_wait returns when no worker runs, and the writer is shut down.
\* (Fault: it does not wait.)
NoWait == TRUE
NoneRunning == Running = {}

WaitEnds ==
    /\ stopping /\ sinkOpen
    /\ NoneRunning
    /\ sinkOpen' = FALSE
    /\ UNCHANGED <<jobVars, uploadVars, workerVars, archive, writerVars, stopping,
                   stops, timeouts, kills, cut>>

\* After 60 seconds it returns although a worker runs.
WaitTimesOut ==
    /\ stopping /\ sinkOpen
    /\ Running # {} /\ timeouts < MaxTimeouts
    /\ sinkOpen' = FALSE
    /\ timeouts' = timeouts + 1
    /\ cut' = TRUE
    /\ UNCHANGED <<jobVars, uploadVars, workerVars, archive, writerVars, stopping,
                   stops, kills>>

\* load_jobs: a job that was queued or processing is queued again if its upload
\* is there.  (Fault: only a queued one is.)
ReloadedStateQueuedOnly(j) ==
    CASE meta[j].state \in {"none", "processing"} \cup Settled -> meta[j].state
      [] meta[j].state = "queued" -> IF file[j] THEN "queued" ELSE "failed"
ReloadedState(j) ==
    CASE meta[j].state \in {"none"} \cup Settled -> meta[j].state
      [] meta[j].state = "uploading" -> "interrupted"
      [] meta[j].state \in {"queued", "processing"} ->
            IF file[j] THEN "queued" ELSE "failed"

\* A new process loads the jobs that were saved and removes the files of the
\* settled ones.  An upload that was never saved is not known to it.
Reload ==
    /\ list' = SelectSeq(list, LAMBDA j : meta[j] # NoMeta)
    /\ meta' = [j \in Jobs |-> [meta[j] EXCEPT !.state = ReloadedState(j)]]
    /\ phase' = [j \in Jobs |-> IF meta[j] = NoMeta /\ phase[j] # "none"
                                THEN "lost" ELSE ReloadedState(j)]
    /\ cursor' = [j \in Jobs |-> meta[j].cursor]
    /\ counted' = [j \in Jobs |-> meta[j].counted]
    /\ file' = [j \in Jobs |-> file[j] /\ meta[j].state \notin Settled]
    /\ unpacked' = [j \in Jobs |-> IF meta[j].state \in Settled /\ unpacked[j] = "whole"
                                   THEN "none" ELSE unpacked[j]]
    /\ upc' = [j \in Jobs |-> IF upc[j] = "none" THEN "none" ELSE "returned"]
    /\ snap' = [j \in Jobs |-> NoMeta]
    /\ wpc' = [w \in Workers |-> "idle"] /\ wjob' = [w \in Workers |-> NoJob]
    /\ batch' = [w \in Workers |-> {}] /\ status' = [w \in Workers |-> NoStatus]
    /\ wend' = [w \in Workers |-> "more"]
    /\ stopping' = FALSE /\ sinkOpen' = TRUE

Exit ==
    /\ stopping /\ ~sinkOpen
    /\ Reload
    /\ UNCHANGED <<unsaved, errs, accepted, archive, writerVars, stops, timeouts, kills, cut>>

Kill ==
    /\ kills < MaxKills
    /\ kills' = kills + 1
    /\ cut' = (cut \/ InHands # {})
    /\ Reload
    /\ UNCHANGED <<unsaved, errs, accepted, archive, writerVars, stops, timeouts>>

-----------------------------------------------------------------------------
UploadStep(j) ==
    \/ UploadFails(j) \/ UploadDropped(j) \/ QueueJob(j)
    \/ ReadForQueued(j) \/ WriteQueued(j)

WorkerStep(w) ==
    \/ Look(w) \/ Claim(w) \/ NothingQueued(w) \/ Open(w) \/ Spill(w) \/ SpillFails(w)
    \/ ReadLine(w) \/ StopReading(w) \/ ProcessFails(w)
    \/ Screen(w) \/ (\E e \in Events : SaveEvent(w, e) \/ HandOver(w, e))
    \/ SaveFailed(w) \/ Flushed(w) \/ Finish(w) \/ RemoveFiles(w)

Next ==
    \/ \E j \in Jobs : StartUpload(j) \/ UploadStep(j)
    \/ \E w \in Workers : WorkerStep(w)
    \/ \E e \in Events : WriterClaims(e)
    \/ Stop \/ WaitEnds \/ WaitTimesOut \/ Exit \/ Kill

Spec == Init /\ [][Next]_vars

\* Tasks and threads are scheduled, an upload's handler too once it has
\* received everything, and a stopping node exits.
FairSpec ==
    /\ Spec
    /\ \A w \in Workers : WF_vars(WorkerStep(w))
    /\ \A j \in Jobs : WF_vars(ReadForQueued(j) \/ WriteQueued(j))
    /\ WF_vars(WaitEnds) /\ WF_vars(Exit)

-----------------------------------------------------------------------------
(* Properties. *)

\* The variables keep their types, and what a worker holds fits where it is.
TypeOK ==
    /\ \A n \in DOMAIN list : list[n] \in Jobs
    /\ phase \in [Jobs -> {"none", "uploading", "queued", "processing", "lost"} \cup Settled]
    /\ cursor \in [Jobs -> Nat] /\ counted \in [Jobs -> Nat]
    /\ \A j \in Jobs : counted[j] <= cursor[j] /\ cursor[j] <= Len(Content[j])
    /\ file \in [Jobs -> BOOLEAN] /\ unpacked \in [Jobs -> {"none", "part", "whole"}]
    /\ meta \in [Jobs -> [state : {"none", "queued", "processing"} \cup Settled,
                          cursor : Nat, counted : Nat]]
    /\ upc \in [Jobs -> {"none", "receiving", "queuing", "writing", "returned"}]
    /\ wpc \in [Workers -> {"idle", "looking", "claimed", "spill", "read", "ingest", "save",
                            "finish", "remove"}]
    /\ \A w \in Workers : wjob[w] = NoJob <=> wpc[w] \in {"idle", "looking"}
    /\ \A w \in Workers : Cardinality(batch[w]) <= BatchLines
    /\ status \in [Workers -> [Events -> Statuses]]
    /\ wend \in [Workers -> {"more", "done", "stopped", "failed"}]
    /\ archive \subseteq Events /\ sent \subseteq archive /\ store \subseteq sent
    /\ stopping \in BOOLEAN /\ sinkOpen \in BOOLEAN /\ cut \in BOOLEAN
    /\ accepted \subseteq Jobs /\ unsaved \subseteq Jobs

\* Resuming skips nothing: whenever the node is killed, every event before the
\* saved cursor of a job that will go on, or is done, is in the archive
\* ("Ingest survives restarts and continues where it stopped").
ResumeSkipsNothing ==
    \A j \in Jobs : meta[j].state \in {"queued", "processing", "done"} =>
        \A n \in 1..meta[j].cursor : Content[j][n] \in archive \cup {Bad}

\* What is saved agrees: each line before the cursor is counted once, as bad,
\* duplicate or new, over any stops, kills and resumptions (the tests demand
\* that the counts of a resumed job add up to its lines).
CountsAddUp ==
    \A j \in Jobs :
        /\ meta[j].state \in {"queued", "processing", "done"} =>
               meta[j].counted = meta[j].cursor
        /\ phase[j] = "done" => counted[j] = Len(Content[j])

\* An archived event is sent to the writer, unless the node was killed, the
\* wait for workers timed out or a save failed while a worker still had events
\* to send: an event that is archived and not sent "would leave a permanent
\* hole" (EventSink::send).  A graceful stop alone never cuts a batch.
ArchivedIsHandedOver == cut \/ archive \subseteq sent \cup InHands

\* An upload that was answered with 202 is processed in the end, over stops
\* and kills, unless it could not be saved.
AcceptedIsProcessed ==
    \A j \in Jobs : j \in accepted ~> phase[j] \in {"done", "failed"} \/ j \in unsaved

=============================================================================
