---------------------------- MODULE EvictionRace ----------------------------
(***************************************************************************)
(* ShardManager with a history of the one race between writers and an      *)
(* eviction: events that are written while close_shard, on another thread, *)
(* is between the commit of their month and the removal of its writer.     *)
(***************************************************************************)
EXTENDS ShardManager

VARIABLE raced    \* events whose writer was being evicted beside them, and that
                  \* are not committed yet

\* An eviction of month m is between its commit and its removal of the writer.
Evicting(m) ==
    \E t \in Threads :
        victim[t] = m /\ pc[t] \in {"closeReset", "closeDrop", "closeRemove"}

RacedNow ==
    {ev[t] : t \in {u \in Threads : /\ pc[u] \in {"add", "count", "commit", "reset"}
                                    /\ Evicting(MonthOf[ev[u]])}}

RacedInit == Init /\ raced = {}
RacedNext == Next /\ raced' = (raced \cup RacedNow) \ durable'
RacedSpec == RacedInit /\ [][RacedNext]_<<vars, raced>>

\* An event whose index_event returned Ok is committed or waits in a live
\* writer, unless its thread wrote while another one's close_shard was between
\* its commit and the removal: nothing else loses an accepted event, neither an
\* eviction, nor a failed commit, nor a commit_all beside both.
KeptUnlessRaced ==
    \A e \in Accepted \ raced :
        e \in durable \/ \E i \in Insts : Alive(i) /\ e \in queued[i]
=============================================================================
