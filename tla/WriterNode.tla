----------------------------- MODULE WriterNode -----------------------------
(***************************************************************************)
(* The node's writer thread: spawn_writer_with_reports of                  *)
(* crates/nostrsearch-server/src/node.rs, its producers and its shutdown   *)
(* (main.rs).                                                              *)
(*                                                                         *)
(* Relay and scraper archive an event and then send it over a bounded      *)
(* channel to the one thread that folds and indexes; so does the firehose, *)
(* by way of the notifications of its client, which it may lag behind      *)
(* (stream of crates/nostrsearch-indexer/src/firehose.rs).  That thread    *)
(* commits on a timer and records the ids it indexed only afterwards; on   *)
(* SIGTERM it drains the channel, commits and claims once more.            *)
(*                                                                         *)
(* Simplifications:                                                        *)
(*  - select is biased, so the timer and the shutdown arm run only when    *)
(*    the channel is empty; which of the two goes first is left open;      *)
(*  - the drain loop on shutdown is the same step as a receive;            *)
(*  - folds, resets, reports and deltas change nothing here                *)
(*    (StatsPipeline has the first two, Reports the others).               *)
(*                                                                         *)
(* NodeProofs extends this module together with Reports, hence the names   *)
(* WriterInit, WriterNext and so on.                                       *)
(***************************************************************************)
EXTENDS Naturals, Sequences, SequencesExt

CONSTANTS
    Events,        \* event ids
    Streamed,      \* those that come over the firehose
    QueueSize,     \* capacity of the channel
    Backlog,       \* external: notifications the client keeps for a receiver
    MaxFails,      \* bound: failed commits and id-store writes
    MaxKills       \* bound: hard kills

ASSUME ConstantsAssumption ==
    /\ Streamed \subseteq Events
    /\ QueueSize \in Nat \ {0} /\ Backlog \in Nat \ {0}
    /\ MaxFails \in Nat
    /\ MaxKills \in Nat

VARIABLES
    archive,    \* events the archive database holds
    notified,   \* archived events the firehose has still to be told of
    sending,    \* archived events whose producer waits for the channel
    queue,      \* the channel
    phase,      \* where the writer thread is
    shutdown,   \* the watch channel of WriterHandle
    inFlight,   \* what was in the channel when shutdown was signalled
    buffered,   \* indexed, not committed
    durable,    \* committed
    indexed,    \* IndexedIds
    idStore,    \* the id store
    dirty,      \* something was processed since the last commit tick
    refused,    \* events that reached no writer or whose processing panicked
    unreached,  \* archived events that will not reach the writer thread
    fails, kills

producerVars == <<archive, notified, sending>>
indexVars == <<buffered, durable>>
writerVars == <<producerVars, queue, phase, shutdown, inFlight, indexVars, indexed,
          idStore, dirty, refused, unreached, fails, kills>>

WriterInit ==
    /\ archive = {} /\ notified = <<>> /\ sending = {}
    /\ queue = <<>>
    /\ phase = "select"
    /\ shutdown = FALSE /\ inFlight = {}
    /\ buffered = {} /\ durable = {}
    /\ indexed = {} /\ idStore = {}
    /\ dirty = FALSE
    /\ refused = {} /\ unreached = {}
    /\ fails = 0 /\ kills = 0

-----------------------------------------------------------------------------
(* Producers. *)

\* save_event archives; only an event the archive did not have is sent.
SaveEvent(e) ==
    /\ e \notin archive \cup Streamed
    /\ archive' = archive \cup {e}
    /\ sending' = sending \cup {e}
    /\ UNCHANGED <<notified, queue, phase, shutdown, inFlight, indexVars, indexed, idStore,
                   dirty, refused, unreached, fails, kills>>

\* The firehose's client archives an event and then notifies; a receiver that is
\* behind by the backlog loses the oldest notification.
Notify(e) ==
    LET lags == Len(notified) >= Backlog IN
    /\ e \in Streamed \ archive
    /\ archive' = archive \cup {e}
    /\ notified' = Append(IF lags THEN Tail(notified) ELSE notified, e)
    /\ unreached' = IF lags THEN unreached \cup {Head(notified)} ELSE unreached
    /\ UNCHANGED <<sending, queue, phase, shutdown, inFlight, indexVars, indexed, idStore,
                   dirty, refused, fails, kills>>

\* stream takes the next notification once it has sent the last event.
Stream ==
    /\ notified # <<>> /\ sending \cap Streamed = {}
    /\ notified' = Tail(notified)
    /\ sending' = sending \cup {Head(notified)}
    /\ UNCHANGED <<archive, queue, phase, shutdown, inFlight, indexVars, indexed, idStore,
                   dirty, refused, unreached, fails, kills>>

\* The thread has ended, after a final commit that worked or one that failed.
Stopped == phase \in {"stopped", "aborted"}

\* EventSink::send waits for capacity.
Capacity == Len(queue) < QueueSize

SendEvent(e) ==
    /\ e \in sending
    /\ ~Stopped
    /\ Capacity
    /\ sending' = sending \ {e}
    /\ queue' = Append(queue, e)
    /\ UNCHANGED <<archive, notified, phase, shutdown, inFlight, indexVars, indexed, idStore,
                   dirty, refused, unreached, fails, kills>>

\* The receiver is gone: the event stays archived and is not indexed.
SendClosed(e) ==
    /\ e \in sending
    /\ Stopped
    /\ sending' = sending \ {e}
    /\ unreached' = unreached \cup {e}
    /\ UNCHANGED <<archive, notified, queue, phase, shutdown, inFlight, indexVars, indexed,
                   idStore, dirty, refused, fails, kills>>

-----------------------------------------------------------------------------
(* The writer thread. *)

\* process_guarded: the event is indexed and noted; or refused; or processing
\* panics before or after its document was added, and it is not noted.
\* (Fault: the event does not make the writer dirty.)
ReceiveClean ==
    /\ phase = "select" /\ queue # <<>>
    /\ queue' = Tail(queue)
    /\ buffered' = buffered \cup {Head(queue)}
    /\ indexed' = indexed \cup {Head(queue)}
    /\ UNCHANGED <<producerVars, phase, shutdown, inFlight, durable, idStore, dirty,
                   refused, unreached, fails, kills>>
ReceiveEvent ==
    /\ phase = "select" /\ queue # <<>>
    /\ queue' = Tail(queue)
    /\ dirty' = TRUE
    /\ \/ /\ buffered' = buffered \cup {Head(queue)}
          /\ indexed' = indexed \cup {Head(queue)}
          /\ UNCHANGED refused
       \/ /\ buffered' \in {buffered, buffered \cup {Head(queue)}}
          /\ refused' = refused \cup {Head(queue)}
          /\ UNCHANGED indexed
    /\ UNCHANGED <<producerVars, phase, shutdown, inFlight, durable, idStore, unreached,
                   fails, kills>>

\* A shard commits some documents on its own.
ShardCommit ==
    /\ \E docs \in (SUBSET buffered) \ {{}} :
         buffered' = buffered \ docs /\ durable' = durable \cup docs
    /\ UNCHANGED <<producerVars, queue, phase, shutdown, inFlight, indexed, idStore,
                   dirty, refused, unreached, fails, kills>>

\* The commit tick, and finish() after the loop, share what follows a commit.
Commit(from, to) ==
    /\ phase = from
    /\ buffered' = {} /\ durable' = durable \cup buffered
    /\ phase' = to
    /\ UNCHANGED <<producerVars, queue, shutdown, inFlight, indexed, idStore, dirty,
                   refused, unreached, fails, kills>>

TickCommit == queue = <<>> /\ dirty /\ Commit("select", "claim")

\* A failed commit is logged; the writer is no longer dirty all the same.
\* (Fault: the ids are claimed whatever the commit returned.)
TickFailsButClaims ==
    /\ phase = "select" /\ queue = <<>> /\ dirty
    /\ fails < MaxFails /\ fails' = fails + 1
    /\ phase' = "claim"
    /\ UNCHANGED <<producerVars, queue, shutdown, inFlight, indexVars, indexed,
                   idStore, dirty, refused, unreached, kills>>
TickFails ==
    /\ phase = "select" /\ queue = <<>> /\ dirty
    /\ fails < MaxFails /\ fails' = fails + 1
    /\ \E docs \in SUBSET buffered :
         buffered' = buffered \ docs /\ durable' = durable \cup docs
    /\ dirty' = FALSE
    /\ UNCHANGED <<producerVars, queue, phase, shutdown, inFlight, indexed, idStore,
                   refused, unreached, kills>>

\* IndexedIds::flush keeps the ids of a failed write for the next commit.
FlushIds(from, to) ==
    /\ phase = from
    /\ \/ /\ idStore' = idStore \cup indexed
          /\ indexed' = {}
          /\ UNCHANGED fails
       \/ /\ indexed # {}
          /\ fails < MaxFails /\ fails' = fails + 1
          /\ UNCHANGED <<idStore, indexed>>
    /\ phase' = to
    /\ dirty' = FALSE
    /\ queue' = IF to = "stopped" THEN <<>> ELSE queue
    /\ UNCHANGED <<producerVars, shutdown, inFlight, indexVars, refused, unreached, kills>>

Claim == FlushIds("claim", "select")

-----------------------------------------------------------------------------
(* Shutdown and restart. *)

SignalShutdown ==
    /\ ~shutdown
    /\ shutdown' = TRUE
    /\ inFlight' = ToSet(queue)
    /\ UNCHANGED <<producerVars, queue, phase, indexVars, indexed, idStore, dirty,
                   refused, unreached, fails, kills>>

\* The drain is over once the channel is empty.  (Fault: it is not drained.)
StopUndrained ==
    /\ shutdown /\ phase = "select"
    /\ phase' = "finish"
    /\ UNCHANGED <<producerVars, queue, shutdown, inFlight, indexVars, indexed,
                   idStore, dirty, refused, unreached, fails, kills>>
StopLoop ==
    /\ shutdown /\ phase = "select"
    /\ queue = <<>>
    /\ phase' = "finish"
    /\ UNCHANGED <<producerVars, queue, shutdown, inFlight, indexVars, indexed,
                   idStore, dirty, refused, unreached, fails, kills>>

FinalCommit == Commit("finish", "lastclaim")
LastClaim == FlushIds("lastclaim", "stopped")

FinalCommitFails ==
    /\ phase = "finish"
    /\ fails < MaxFails /\ fails' = fails + 1
    /\ phase' = "aborted"
    /\ queue' = <<>>
    /\ \E docs \in SUBSET buffered :
         buffered' = buffered \ docs /\ durable' = durable \cup docs
    /\ UNCHANGED <<producerVars, shutdown, inFlight, indexed, idStore, dirty, refused,
                   unreached, kills>>

\* The next process finds the archive, the committed documents and the store;
\* what is archived and not claimed is left to an archive ingest.
RestartWriter ==
    /\ notified' = <<>> /\ sending' = {} /\ queue' = <<>>
    /\ unreached' = archive \ idStore
    /\ phase' = "select"
    /\ shutdown' = FALSE /\ inFlight' = {}
    /\ buffered' = {} /\ indexed' = {}
    /\ dirty' = FALSE
    /\ refused' = {}
    /\ UNCHANGED <<archive, durable, idStore, fails>>

Exit == Stopped /\ RestartWriter /\ UNCHANGED kills

KillWriter == kills < MaxKills /\ kills' = kills + 1 /\ RestartWriter

WriterStep ==
    \/ ReceiveEvent \/ TickCommit \/ TickFails \/ Claim
    \/ StopLoop \/ FinalCommit \/ FinalCommitFails \/ LastClaim

WriterNext ==
    \/ \E e \in Events : SaveEvent(e) \/ Notify(e) \/ SendEvent(e) \/ SendClosed(e)
    \/ Stream
    \/ WriterStep
    \/ ShardCommit \/ SignalShutdown \/ Exit \/ KillWriter

WriterSpec == WriterInit /\ [][WriterNext]_writerVars

\* The writer has a thread of its own, and its timer keeps ticking; producers
\* are tasks, and the channel serves those that wait in turn.
FairWriterSpec ==
    /\ WriterSpec /\ WF_writerVars(WriterStep)
    /\ WF_writerVars(Stream) /\ \A e \in Events : WF_writerVars(SendEvent(e))

-----------------------------------------------------------------------------
(* Properties. *)

\* The variables keep their types, and the channel its capacity.
TypeOK ==
    /\ archive \subseteq Events /\ sending \subseteq archive
    /\ notified \in Seq(archive) /\ unreached \subseteq Events
    /\ queue \in Seq(archive) /\ Len(queue) <= QueueSize
    /\ phase \in {"select", "claim", "finish", "lastclaim", "stopped", "aborted"}
    /\ shutdown \in BOOLEAN /\ inFlight \subseteq Events
    /\ buffered \subseteq archive /\ durable \subseteq archive
    /\ indexed \subseteq archive /\ idStore \subseteq archive
    /\ dirty \in BOOLEAN
    /\ refused \subseteq Events
    /\ fails \in 0..MaxFails /\ kills \in 0..MaxKills

\* "record only after the commit that made the document searchable"
\* (IndexedIds): the id store is never ahead of the index.
ClaimedIsDurable == idStore \subseteq durable

\* A deploy does not drop in-flight events: what was in the channel at the
\* signal is committed when the writer has stopped, unless it was refused or
\* the final commit failed.
DrainedIsDurable == phase = "stopped" => inFlight \subseteq durable \cup refused

\* An archived event is indexed and claimed in the end, in a quiet period too,
\* unless the firehose lagged behind it, it was refused, the node is shut down
\* or killed or a write fails: the channel makes producers wait ("dropping here
\* would leave a permanent hole"), and the commit timer is independent of event
\* arrival.
ArchivedIsClaimed ==
    \A e \in Events :
        e \in archive ~> e \in idStore \cup refused \cup unreached \/ shutdown \/ fails + kills > 0
=============================================================================
