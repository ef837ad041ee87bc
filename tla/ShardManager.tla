---------------------------- MODULE ShardManager ----------------------------
(***************************************************************************)
(* The write side of the time-sharded index: ShardManager and OpenShard of *)
(* crates/nostrsearch-indexer/src/shard_writer.rs.                         *)
(*                                                                         *)
(* Several threads call index_event on one manager without any lock of     *)
(* their own (the archive readers do), while commit_all sweeps the open    *)
(* shards.  A step of this specification is one critical section of the    *)
(* code: one hold of the map mutex, one hold of a shard's writer guard, or *)
(* one atomic counter update that another thread can interleave with.      *)
(*                                                                         *)
(* Simplifications:                                                        *)
(*  - a document is the event it was built from; wot tier and language are *)
(*    computed from the event alone and change no control flow;            *)
(*  - fetch_add on docs_since_commit and the should_commit test after it   *)
(*    are one step: a commit by another thread between the two only turns  *)
(*    the commit that follows into the empty one commit() already skips;   *)
(*  - Tantivy is external: a commit makes the queued documents durable, a  *)
(*    failed one leaves them queued, and a writer dropped without a commit *)
(*    discards them.                                                       *)
(***************************************************************************)
EXTENDS Naturals, FiniteSets

CONSTANTS
    Threads,          \* callers of index_event
    Events,           \* the events they index, each of them once
    Months,           \* shard ids
    Insts,            \* identities of OpenShard values; one is reused once freed
    None,             \* no handle, no event, not in the map
    MonthOf,          \* the month of each event's created_at
    FutureEvents,     \* events dated past the clock skew
    Cap,              \* max_open_shards, after max(1)
    CommitEveryDocs,  \* commit_every_docs
    Overlap,          \* commit_all may run while index_event does: TRUE for the
                      \* archive ingest's checkpoint task, FALSE for the live
                      \* node, whose one task makes both calls
    IoErrors          \* whether Tantivy calls may fail

ASSUME ConstantsAssumption ==
    /\ None \notin Insts \cup Events \cup Months
    /\ MonthOf \in [Events -> Months]
    /\ FutureEvents \subseteq Events
    /\ Cap \in Nat \ {0}
    /\ CommitEveryDocs \in Nat
    /\ Overlap \in BOOLEAN
    /\ IoErrors \in BOOLEAN

VARIABLES
    open,       \* shards: the map from month to its OpenShard, or None
    month,      \* month[i]: the directory instance i was last opened on
    queued,     \* queued[i]: documents added to the writer, not committed
    counter,    \* counter[i]: docs_since_commit
    lastUsed,   \* lastUsed[i]: last_used
    tick,       \* ShardManager.tick
    durable,    \* documents committed on disk, over all shards
    pc,         \* where each thread is in index_event
    ev,         \* the event each thread is indexing
    held,       \* the Arc<OpenShard> each thread holds, or None
    stamp,      \* the tick value shard_for took
    tries,      \* iterations evict_if_needed has made
    victim,     \* the month evict_if_needed chose
    outcome,    \* what index_event returned for each event
    sweep       \* the state of commit_all

threadVars == <<pc, ev, held, stamp, tries, victim, outcome>>
instVars == <<month, queued, counter, lastUsed>>
vars == <<open, instVars, tick, durable, threadVars, sweep>>

-----------------------------------------------------------------------------
(* What the code reads from shared state. *)

\* The threads that hold instance i; with the sweep, what Arc::strong_count
\* counts beside the map's own handle.
Holders(i) == {t \in Threads : held[t] = i}
InSweep(i) == i \in sweep.handles
Mapped(i) == month[i] \in Months /\ open[month[i]] = i

\* An OpenShard, and with it Tantivy's lock file, lives while any handle does.
Alive(i) == Mapped(i) \/ Holders(i) # {} \/ InSweep(i)

\* Arc::strong_count(s) == 1.  (Fault: one handle too many is let through.)
UnsharedButOne(i) == Cardinality(Holders(i)) <= 1 /\ ~InSweep(i)
Unshared(i) == Holders(i) = {} /\ ~InSweep(i)

OpenMonths == {m \in Months : open[m] # None}

\* A thread between w.commit() and the release of the writer's write guard.
\* (Fault: the guard is released before the counter is reset.)
GuardReleasedEarly(i) == FALSE
Guarded(i) ==
    \/ \E t \in Threads : held[t] = i /\ pc[t] \in {"reset", "closeReset"}
    \/ i \in sweep.resetting

-----------------------------------------------------------------------------
Init ==
    /\ open = [m \in Months |-> None]
    /\ month = [i \in Insts |-> None]
    /\ queued = [i \in Insts |-> {}]
    /\ counter = [i \in Insts |-> 0]
    /\ lastUsed = [i \in Insts |-> 0]
    /\ tick = 0
    /\ durable = {}
    /\ pc = [t \in Threads |-> "idle"]
    /\ ev = [t \in Threads |-> None]
    /\ held = [t \in Threads |-> None]
    /\ stamp = [t \in Threads |-> 0]
    /\ tries = [t \in Threads |-> 0]
    /\ victim = [t \in Threads |-> None]
    /\ outcome = [e \in Events |-> "none"]
    /\ sweep = [pc |-> "idle", handles |-> {}, todo |-> {},
                resetting |-> {}, failed |-> FALSE, due |-> {}]

-----------------------------------------------------------------------------
(* index_event and shard_for. *)

\* Thread t's step leaves it at label l.
Goto(t, l) == pc' = [pc EXCEPT ![t] = l]

\* index_event returns r for the event of thread t and drops every handle.
Return(t, r) ==
    /\ outcome' = [outcome EXCEPT ![ev[t]] = r]
    /\ Goto(t, "idle")
    /\ ev' = [ev EXCEPT ![t] = None]
    /\ held' = [held EXCEPT ![t] = None]
    /\ victim' = [victim EXCEPT ![t] = None]
    /\ stamp' = [stamp EXCEPT ![t] = 0]
    /\ tries' = [tries EXCEPT ![t] = 0]

\* is_future: the event is refused before any shard is looked up.
RejectFuture(t, e) ==
    /\ pc[t] = "idle" /\ outcome[e] = "none"
    /\ e \in FutureEvents
    /\ outcome' = [outcome EXCEPT ![e] = "err"]
    /\ UNCHANGED <<open, instVars, tick, durable, pc, ev, held, stamp, tries,
                   victim, sweep>>

\* The first half of shard_for: take a tick, look the month up under the map
\* lock, and share the handle if it is there.
Lookup(t, e) ==
    /\ pc[t] = "idle" /\ outcome[e] = "none"
    /\ Overlap \/ sweep.pc # "running"
    /\ e \notin FutureEvents
    /\ tick' = tick + 1
    /\ stamp' = [stamp EXCEPT ![t] = tick + 1]
    /\ ev' = [ev EXCEPT ![t] = e]
    /\ outcome' = [outcome EXCEPT ![e] = "running"]
    /\ LET i == open[MonthOf[e]] IN
       IF i # None
       THEN /\ lastUsed' = [lastUsed EXCEPT ![i] = tick + 1]
            /\ held' = [held EXCEPT ![t] = i]
            /\ Goto(t, "add")
       ELSE /\ Goto(t, "evict")
            /\ UNCHANGED <<lastUsed, held>>
    /\ UNCHANGED <<open, month, queued, counter, durable, tries, victim, sweep>>

\* Tantivy's lock file of month m is held by a live writer.
LockBusy(m) == \E i \in Insts : Alive(i) /\ month[i] = m

\* The second half: look again, and open the shard if nobody else has.
OpenShard(t) ==
    /\ pc[t] = "open"
    /\ LET m == MonthOf[ev[t]] IN
       \/ /\ open[m] # None
          /\ lastUsed' = [lastUsed EXCEPT ![open[m]] = stamp[t]]
          /\ held' = [held EXCEPT ![t] = open[m]]
          /\ UNCHANGED <<open, month, queued, counter>>
       \/ /\ open[m] = None /\ ~LockBusy(m)
          /\ \E i \in Insts :
               /\ ~Alive(i)
               /\ open' = [open EXCEPT ![m] = i]
               /\ month' = [month EXCEPT ![i] = m]
               /\ queued' = [queued EXCEPT ![i] = {}]
               /\ counter' = [counter EXCEPT ![i] = 0]
               /\ lastUsed' = [lastUsed EXCEPT ![i] = stamp[t]]
               /\ held' = [held EXCEPT ![t] = i]
    /\ Goto(t, "add")
    /\ UNCHANGED <<tick, durable, ev, stamp, tries, victim, outcome, sweep>>

\* OpenShard::open or add_document fails: the error leaves index_event.
TantivyFails(t) ==
    /\ \/ /\ pc[t] = "open" /\ open[MonthOf[ev[t]]] = None
          /\ IoErrors \/ LockBusy(MonthOf[ev[t]])
       \/ pc[t] = "add" /\ IoErrors /\ ~Guarded(held[t])
    /\ Return(t, "err")
    /\ UNCHANGED <<open, instVars, tick, durable, sweep>>

\* add_document under the read guard; concurrent with other adds only.
AddDocument(t) ==
    /\ pc[t] = "add"
    /\ ~Guarded(held[t])
    /\ queued' = [queued EXCEPT ![held[t]] = @ \cup {ev[t]}]
    /\ Goto(t, "count")
    /\ UNCHANGED <<open, month, counter, lastUsed, tick, durable, ev, held,
                   stamp, tries, victim, outcome, sweep>>

\* fetch_add after the guard is released, then should_commit: at the document
\* threshold always, below it whenever the deadline happens to have passed.
CountDocument(t) ==
    /\ pc[t] = "count"
    /\ counter' = [counter EXCEPT ![held[t]] = @ + 1]
    /\ \/ /\ Goto(t, "commit")
          /\ UNCHANGED <<ev, held, stamp, tries, victim, outcome>>
       \/ /\ counter[held[t]] + 1 < CommitEveryDocs
          /\ Return(t, "ok")
    /\ UNCHANGED <<open, month, queued, lastUsed, tick, durable, sweep>>

-----------------------------------------------------------------------------
(* OpenShard::commit, from index_event ("commit") and close_shard            *)
(* ("closeCommit").                                                          *)

\* w.commit() under the write guard: everything queued becomes durable.
Flush(i) ==
    /\ ~Guarded(i)
    /\ counter[i] > 0
    /\ durable' = durable \cup queued[i]
    /\ queued' = [queued EXCEPT ![i] = {}]

\* docs_since_commit.store(0), still under the guard.
ResetCounter(i) == counter' = [counter EXCEPT ![i] = 0]

\* Where a thread goes after commit() returned Ok.
AfterCommit(t) ==
    IF pc[t] \in {"commit", "reset"}
    THEN Return(t, "ok")
    ELSE /\ Goto(t, "closeDrop")
         /\ UNCHANGED <<ev, held, stamp, tries, victim, outcome>>

CommitFlush(t) ==
    /\ pc[t] \in {"commit", "closeCommit"}
    /\ Flush(held[t])
    /\ Goto(t, IF pc[t] = "commit" THEN "reset" ELSE "closeReset")
    /\ UNCHANGED <<open, month, counter, lastUsed, tick, ev, held, stamp,
                   tries, victim, outcome, sweep>>

\* The re-check under the guard: another thread committed while this one waited.
CommitEmpty(t) ==
    /\ pc[t] \in {"commit", "closeCommit"}
    /\ ~Guarded(held[t])
    /\ counter[held[t]] = 0
    /\ AfterCommit(t)
    /\ UNCHANGED <<open, instVars, tick, durable, sweep>>

CommitReset(t) ==
    /\ pc[t] \in {"reset", "closeReset"}
    /\ ResetCounter(held[t])
    /\ AfterCommit(t)
    /\ UNCHANGED <<open, month, queued, lastUsed, tick, durable, sweep>>

\* w.commit()? fails: the error leaves index_event, from either caller.
CommitFails(t) ==
    /\ IoErrors
    /\ pc[t] \in {"commit", "closeCommit"}
    /\ ~Guarded(held[t])
    /\ counter[held[t]] > 0
    /\ Return(t, "err")
    /\ UNCHANGED <<open, instVars, tick, durable, sweep>>

-----------------------------------------------------------------------------
(* evict_if_needed and close_shard. *)

\* Shards nobody else holds, least recently written first.
Victims ==
    LET idle == {m \in OpenMonths : Unshared(open[m])}
    IN {m \in idle : \A n \in idle : lastUsed[open[m]] <= lastUsed[open[n]]}

\* map.len() < cap.
HasRoom == Cardinality(OpenMonths) < Cap

\* One iteration's choice under the map lock; at most Cap + 1 iterations.
EvictPick(t) ==
    /\ pc[t] = "evict"
    /\ IF tries[t] > Cap \/ HasRoom \/ Victims = {}
       THEN /\ Goto(t, "open")
            /\ UNCHANGED <<tries, victim>>
       ELSE /\ victim' \in {[victim EXCEPT ![t] = m] : m \in Victims}
            /\ tries' = [tries EXCEPT ![t] = @ + 1]
            /\ Goto(t, "close")
    /\ UNCHANGED <<open, instVars, tick, durable, ev, held, stamp, outcome,
                   sweep>>

\* Fault: the shard is closed without the commit.
CloseTakeNoCommit(t) ==
    /\ pc[t] = "close"
    /\ LET i == open[victim[t]] IN
       IF i = None
       THEN Goto(t, "evict") /\ UNCHANGED held
       ELSE Goto(t, "closeDrop") /\ held' = [held EXCEPT ![t] = i]
    /\ UNCHANGED <<open, instVars, tick, durable, ev, stamp, tries, victim,
                   outcome, sweep>>

\* close_shard takes a handle of its own, if the month is still open.
CloseTake(t) ==
    /\ pc[t] = "close"
    /\ LET i == open[victim[t]] IN
       IF i = None
       THEN Goto(t, "evict") /\ UNCHANGED held
       ELSE Goto(t, "closeCommit") /\ held' = [held EXCEPT ![t] = i]
    /\ UNCHANGED <<open, instVars, tick, durable, ev, stamp, tries, victim,
                   outcome, sweep>>

\* Fault: the second handle is kept across the removal.
CloseKeeps(t) ==
    /\ pc[t] = "closeDrop"
    /\ Goto(t, "closeRemove")
    /\ UNCHANGED <<open, instVars, tick, durable, ev, held, stamp, tries,
                   victim, outcome, sweep>>

\* drop(shard), before the map lock is taken again.
CloseDrop(t) ==
    /\ pc[t] = "closeDrop"
    /\ held' = [held EXCEPT ![t] = None]
    /\ Goto(t, "closeRemove")
    /\ UNCHANGED <<open, instVars, tick, durable, ev, stamp, tries, victim,
                   outcome, sweep>>

\* Remove and drop the writer under one map lock, unless someone shares it.
\* Whatever the writer still has queued goes with it.
CloseRemove(t) ==
    /\ pc[t] = "closeRemove"
    /\ LET i == open[victim[t]] IN
       IF i # None /\ Unshared(i)
       THEN /\ open' = [open EXCEPT ![victim[t]] = None]
            /\ queued' = [queued EXCEPT ![i] = {}]
            /\ counter' = [counter EXCEPT ![i] = 0]
            /\ UNCHANGED month
            /\ lastUsed' = [lastUsed EXCEPT ![i] = 0]
       ELSE UNCHANGED <<open, instVars>>
    /\ Goto(t, "evict")
    /\ UNCHANGED <<tick, durable, ev, held, stamp, tries, victim, outcome,
                   sweep>>

-----------------------------------------------------------------------------
(* commit_all: snapshot every handle, commit all of them in parallel, and    *)
(* report the first error once every thread has joined.                      *)

Accepted == {e \in Events : outcome[e] = "ok"}

\* The snapshot of handles.  (Fault: shards in use are skipped, as in eviction.)
IdleHandles == {i \in {open[m] : m \in OpenMonths} : Unshared(i)}
OpenHandles == {open[m] : m \in OpenMonths}

SweepStart ==
    /\ sweep.pc = "idle"
    /\ Overlap \/ \A t \in Threads : pc[t] = "idle"
    /\ LET hs == OpenHandles IN
       sweep' = [pc |-> "running", handles |-> hs, todo |-> hs,
                 resetting |-> {}, failed |-> FALSE, due |-> Accepted]
    /\ UNCHANGED <<open, instVars, tick, durable, threadVars>>

SweepFlush(i) ==
    /\ i \in sweep.todo
    /\ Flush(i)
    /\ sweep' = [sweep EXCEPT !.todo = @ \ {i}, !.resetting = @ \cup {i}]
    /\ UNCHANGED <<open, month, counter, lastUsed, tick, threadVars>>

SweepEmpty(i) ==
    /\ i \in sweep.todo
    /\ ~Guarded(i)
    /\ counter[i] = 0
    /\ sweep' = [sweep EXCEPT !.todo = @ \ {i}]
    /\ UNCHANGED <<open, instVars, tick, durable, threadVars>>

SweepReset(i) ==
    /\ i \in sweep.resetting
    /\ ResetCounter(i)
    /\ sweep' = [sweep EXCEPT !.resetting = @ \ {i}]
    /\ UNCHANGED <<open, month, queued, lastUsed, tick, durable, threadVars>>

SweepFails(i) ==
    /\ IoErrors
    /\ i \in sweep.todo
    /\ ~Guarded(i)
    /\ counter[i] > 0
    /\ sweep' = [sweep EXCEPT !.todo = @ \ {i}, !.failed = TRUE]
    /\ UNCHANGED <<open, instVars, tick, durable, threadVars>>

\* All threads joined: commit_all has its result in sweep.failed.
SweepJoin ==
    /\ sweep.pc = "running"
    /\ sweep.todo = {} /\ sweep.resetting = {}
    /\ sweep' = [sweep EXCEPT !.pc = "done", !.handles = {}]
    /\ UNCHANGED <<open, instVars, tick, durable, threadVars>>

\* The caller has seen the result; the next commit_all may start.
SweepReturn ==
    /\ sweep.pc = "done"
    /\ sweep' = [sweep EXCEPT !.pc = "idle", !.failed = FALSE, !.due = {}]
    /\ UNCHANGED <<open, instVars, tick, durable, threadVars>>

-----------------------------------------------------------------------------
IndexStep(t) ==
    \/ OpenShard(t) \/ TantivyFails(t) \/ AddDocument(t) \/ CountDocument(t)
    \/ CommitFlush(t) \/ CommitEmpty(t) \/ CommitReset(t) \/ CommitFails(t)
    \/ EvictPick(t) \/ CloseTake(t) \/ CloseDrop(t) \/ CloseRemove(t)

SweepStep ==
    \/ \E i \in Insts : SweepFlush(i) \/ SweepEmpty(i) \/ SweepReset(i)
                        \/ SweepFails(i)
    \/ SweepJoin \/ SweepReturn

Next ==
    \/ \E t \in Threads, e \in Events : RejectFuture(t, e) \/ Lookup(t, e)
    \/ \E t \in Threads : IndexStep(t)
    \/ SweepStart
    \/ SweepStep

Spec == Init /\ [][Next]_vars

-----------------------------------------------------------------------------
(* Properties. *)

Labels == {"idle", "evict", "close", "closeCommit", "closeReset", "closeDrop",
           "closeRemove", "open", "add", "count", "commit", "reset"}

\* Every variable keeps its type; a thread holds a shard exactly where the code
\* has an Arc in scope.
TypeOK ==
    /\ open \in [Months -> Insts \cup {None}]
    /\ month \in [Insts -> Months \cup {None}]
    /\ queued \in [Insts -> SUBSET Events]
    /\ counter \in [Insts -> Nat]
    /\ lastUsed \in [Insts -> Nat]
    /\ tick \in Nat
    /\ durable \in SUBSET Events
    /\ pc \in [Threads -> Labels]
    /\ ev \in [Threads -> Events \cup {None}]
    /\ held \in [Threads -> Insts \cup {None}]
    /\ stamp \in [Threads -> Nat]
    /\ tries \in [Threads -> Nat]
    /\ victim \in [Threads -> Months \cup {None}]
    /\ outcome \in [Events -> {"none", "running", "ok", "err"}]
    /\ sweep \in [pc : {"idle", "running", "done"}, handles : SUBSET Insts,
                  todo : SUBSET Insts, resetting : SUBSET Insts,
                  failed : BOOLEAN, due : SUBSET Events]
    /\ \A t \in Threads :
         /\ ev[t] = None <=> pc[t] = "idle"
         /\ held[t] # None <=> pc[t] \in {"closeCommit", "closeReset", "closeDrop",
                                          "add", "count", "commit", "reset"}
         /\ pc[t] \in {"close", "closeCommit", "closeReset", "closeDrop",
                       "closeRemove"} => victim[t] # None

\* A live writer is the one the map holds for its month.  A writer that
\* outlived its map entry would keep Tantivy's lock file, and the next thread
\* to want the month would fail with LockBusy and lose its event (comments in
\* evict_if_needed and close_shard; tests/shard_eviction_race.rs).
NoOrphanWriter == \A i \in Insts : Alive(i) => Mapped(i)

\* A commit skipped because docs_since_commit is zero skips nothing: a queued
\* document is counted, or its thread is still between add_document and the
\* fetch_add and has not reported success (OpenShard::add and ::commit).
CounterCoversQueue ==
    \A i \in Insts : Alive(i) /\ counter[i] = 0 =>
        \A e \in queued[i] :
            \E t \in Threads : held[t] = i /\ ev[t] = e /\ pc[t] = "count"

\* When commit_all returns Ok, no document accepted before it started is still
\* waiting in an open writer: this is what lets a caller claim ids after it.
CommitAllCovers ==
    sweep.pc = "done" /\ ~sweep.failed =>
        \A i \in Insts : Alive(i) => queued[i] \cap sweep.due = {}

\* An event whose index_event returned Ok is committed or waiting to be: an
\* evicted shard still holds its data (max_open_shards' comment: "the
\* least-recently-written shard is committed and closed").
AcceptedIsKept ==
    \A e \in Accepted :
        e \in durable \/ \E i \in Insts : Alive(i) /\ e \in queued[i]
=============================================================================
