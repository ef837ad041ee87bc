------------------------- MODULE ShardManagerProofs -------------------------
(* Proofs of the safety properties of ShardManager, for every number of      *)
(* threads, events, months and writers and every cap.                        *)
EXTENDS EvictionRace, TLAPS

\* Init and every action preserve the types of the variables and the
\* correspondence between where a thread is and the handle it holds.
LEMMA TypeStep == TypeOK /\ [Next]_vars => TypeOK'
<1> USE ConstantsAssumption
<1> SUFFICES ASSUME TypeOK, [Next]_vars PROVE TypeOK'
  OBVIOUS
<1> USE DEF TypeOK, Labels, instVars, threadVars, Goto, Return
<1>1. ASSUME NEW t \in Threads, NEW e \in Events, RejectFuture(t, e)
      PROVE  TypeOK'
  BY <1>1 DEF RejectFuture
<1>2. ASSUME NEW t \in Threads, NEW e \in Events, Lookup(t, e)
      PROVE  TypeOK'
  BY <1>2 DEF Lookup
<1>3. ASSUME NEW t \in Threads, IndexStep(t)
      PROVE  TypeOK'
  <2>1. CASE OpenShard(t)
    <3> DEFINE m == MonthOf[ev[t]]
    <3>0. m \in Months /\ held[t] = None /\ ev[t] # None
      BY <2>1 DEF OpenShard
    <3>1. CASE open[m] # None
      BY <2>1, <3>0, <3>1 DEF OpenShard
    <3>2. CASE open[m] = None
      <4>1. PICK i \in Insts :
              /\ open' = [open EXCEPT ![m] = i]
              /\ month' = [month EXCEPT ![i] = m]
              /\ queued' = [queued EXCEPT ![i] = {}]
              /\ counter' = [counter EXCEPT ![i] = 0]
              /\ lastUsed' = [lastUsed EXCEPT ![i] = stamp[t]]
              /\ held' = [held EXCEPT ![t] = i]
        BY <2>1, <3>2 DEF OpenShard
      <4>2. /\ pc' = [pc EXCEPT ![t] = "add"]
            /\ UNCHANGED <<tick, durable, ev, stamp, tries, victim, outcome, sweep>>
        BY <2>1 DEF OpenShard
      <4>3. /\ open' \in [Months -> Insts \cup {None}]
            /\ month' \in [Insts -> Months \cup {None}]
            /\ queued' \in [Insts -> SUBSET Events]
            /\ counter' \in [Insts -> Nat]
            /\ lastUsed' \in [Insts -> Nat]
            /\ held' \in [Threads -> Insts \cup {None}]
            /\ pc' \in [Threads -> Labels]
        BY <3>0, <4>1, <4>2
      <4>4. /\ \A s \in Threads \ {t} : held'[s] = held[s] /\ pc'[s] = pc[s]
            /\ held'[t] = i /\ i # None /\ pc'[t] = "add"
        BY <4>1, <4>2
      <4> QED
        BY <3>0, <4>2, <4>3, <4>4
    <3> QED
      BY <3>1, <3>2
  <2>2. CASE TantivyFails(t)
    BY <2>2 DEF TantivyFails
  <2>3. CASE AddDocument(t)
    BY <2>3 DEF AddDocument
  <2>4. CASE CountDocument(t)
    BY <2>4 DEF CountDocument
  <2>5. CASE CommitFlush(t)
    BY <2>5 DEF CommitFlush, Flush
  <2>6. CASE CommitEmpty(t)
    <3>1. CASE pc[t] \in {"commit", "reset"}
      BY <2>6, <3>1 DEF CommitEmpty, AfterCommit
    <3>2. CASE pc[t] \notin {"commit", "reset"}
      BY <2>6, <3>2 DEF CommitEmpty, AfterCommit
    <3> QED
      BY <3>1, <3>2
  <2>7. CASE CommitReset(t)
    <3>0. counter' \in [Insts -> Nat]
      BY <2>7 DEF CommitReset, ResetCounter
    <3>1. CASE pc[t] \in {"commit", "reset"}
      <4>1. Return(t, "ok") /\ ev[t] \in Events
        BY <2>7, <3>1 DEF CommitReset, AfterCommit
      <4>2. UNCHANGED <<open, month, queued, lastUsed, tick, durable, sweep>>
        BY <2>7 DEF CommitReset
      <4> QED
        BY <3>0, <4>1, <4>2
    <3>2. CASE pc[t] \notin {"commit", "reset"}
      BY <2>7, <3>0, <3>2 DEF CommitReset, AfterCommit
    <3> QED
      BY <3>1, <3>2
  <2>8. CASE CommitFails(t)
    BY <2>8 DEF CommitFails
  <2>9. CASE EvictPick(t)
    BY <2>9 DEF EvictPick, Victims, OpenMonths
  <2>10. CASE CloseTake(t)
    BY <2>10 DEF CloseTake
  <2>11. CASE CloseDrop(t)
    BY <2>11 DEF CloseDrop
  <2>12. CASE CloseRemove(t)
    BY <2>12 DEF CloseRemove
  <2> QED
    BY <1>3, <2>1, <2>2, <2>3, <2>4, <2>5, <2>6, <2>7, <2>8, <2>9, <2>10,
       <2>11, <2>12 DEF IndexStep
<1>4. CASE SweepStart
  BY <1>4 DEF SweepStart, OpenHandles, OpenMonths, Accepted
<1>5. CASE SweepStep
  <2>1. ASSUME NEW i \in Insts, SweepFlush(i)
        PROVE  TypeOK'
    BY <2>1 DEF SweepFlush, Flush
  <2>2. ASSUME NEW i \in Insts, SweepEmpty(i)
        PROVE  TypeOK'
    BY <2>2 DEF SweepEmpty
  <2>3. ASSUME NEW i \in Insts, SweepReset(i)
        PROVE  TypeOK'
    BY <2>3 DEF SweepReset, ResetCounter
  <2>4. ASSUME NEW i \in Insts, SweepFails(i)
        PROVE  TypeOK'
    BY <2>4 DEF SweepFails
  <2>5. CASE SweepJoin
    BY <2>5 DEF SweepJoin
  <2>6. CASE SweepReturn
    BY <2>6 DEF SweepReturn
  <2> QED
    BY <1>5, <2>1, <2>2, <2>3, <2>4, <2>5, <2>6 DEF SweepStep
<1>6. CASE UNCHANGED vars
  BY <1>6 DEF vars
<1> QED
  BY <1>1, <1>2, <1>3, <1>4, <1>5, <1>6 DEF Next

\* Type correctness of the whole manager.
THEOREM TypeCorrect == Spec => []TypeOK
<1>1. Init => TypeOK
  BY ConstantsAssumption DEF Init, TypeOK, Labels
<1> QED
  BY <1>1, TypeStep, PTL DEF Spec

-----------------------------------------------------------------------------
(* The map and the handles agree. *)

MapConsistent == \A m \in Months : open[m] # None => month[open[m]] = m

HandlesMapped ==
    /\ \A t \in Threads : held[t] # None => Mapped(held[t])
    /\ \A i \in sweep.handles : Mapped(i)

MapInv == TypeOK /\ MapConsistent /\ HandlesMapped

\* A step keeps the map and the handles in agreement: only close_shard removes
\* an entry, and it does so when nobody but the map holds the shard.
LEMMA MapStep == MapInv /\ [Next]_vars => MapInv'
<1> USE ConstantsAssumption
<1> SUFFICES ASSUME MapInv, [Next]_vars
             PROVE  MapConsistent' /\ HandlesMapped'
  BY TypeStep DEF MapInv
<1>0. TypeOK /\ MapConsistent /\ HandlesMapped /\ TypeOK'
  BY TypeStep DEF MapInv
<1> USE <1>0 DEF TypeOK, MapConsistent, HandlesMapped, Mapped, instVars,
                 threadVars, Goto, Return
<1>1. ASSUME NEW t \in Threads, NEW e \in Events, RejectFuture(t, e)
      PROVE  MapConsistent' /\ HandlesMapped'
  BY <1>1 DEF RejectFuture
<1>2. ASSUME NEW t \in Threads, NEW e \in Events, Lookup(t, e)
      PROVE  MapConsistent' /\ HandlesMapped'
  BY <1>2 DEF Lookup
<1>3. ASSUME NEW t \in Threads, IndexStep(t)
      PROVE  MapConsistent' /\ HandlesMapped'
  <2>1. CASE OpenShard(t)
    <3> DEFINE m == MonthOf[ev[t]]
    <3>0. m \in Months
      BY <2>1 DEF OpenShard
    <3>1. CASE open[m] # None
      BY <2>1, <3>0, <3>1 DEF OpenShard
    <3>2. CASE open[m] = None
      <4>1. PICK i \in Insts :
              /\ ~Alive(i)
              /\ open' = [open EXCEPT ![m] = i]
              /\ month' = [month EXCEPT ![i] = m]
              /\ held' = [held EXCEPT ![t] = i]
        BY <2>1, <3>2 DEF OpenShard
      <4>2. sweep' = sweep
        BY <2>1 DEF OpenShard
      <4>3. \A n \in Months : open[n] # i
        BY <4>1 DEF Alive
      <4>4. MapConsistent'
        BY <3>0, <4>1, <4>3
      <4>5. HandlesMapped'
        BY <3>0, <3>2, <4>1, <4>2 DEF Alive, Holders, InSweep
      <4> QED
        BY <4>4, <4>5
    <3> QED
      BY <3>1, <3>2
  <2>2. CASE TantivyFails(t)
    BY <2>2 DEF TantivyFails
  <2>3. CASE AddDocument(t)
    BY <2>3 DEF AddDocument
  <2>4. CASE CountDocument(t)
    BY <2>4 DEF CountDocument
  <2>5. CASE CommitFlush(t)
    BY <2>5 DEF CommitFlush
  <2>6. CASE CommitEmpty(t)
    BY <2>6 DEF CommitEmpty, AfterCommit
  <2>7. CASE CommitReset(t)
    BY <2>7 DEF CommitReset, AfterCommit
  <2>8. CASE CommitFails(t)
    BY <2>8 DEF CommitFails
  <2>9. CASE EvictPick(t)
    BY <2>9 DEF EvictPick
  <2>10. CASE CloseTake(t)
    BY <2>10 DEF CloseTake
  <2>11. CASE CloseDrop(t)
    BY <2>11 DEF CloseDrop
  <2>12. CASE CloseRemove(t)
    BY <2>12 DEF CloseRemove, Unshared, Holders, InSweep
  <2> QED
    BY <1>3, <2>1, <2>2, <2>3, <2>4, <2>5, <2>6, <2>7, <2>8, <2>9, <2>10,
       <2>11, <2>12 DEF IndexStep
<1>4. CASE SweepStart
  BY <1>4 DEF SweepStart, OpenHandles, OpenMonths
<1>5. CASE SweepStep
  <2>1. open' = open /\ month' = month /\ held' = held
    BY <1>5 DEF SweepStep, SweepFlush, SweepEmpty, SweepReset, SweepFails,
                SweepJoin, SweepReturn
  <2>2. sweep'.handles \subseteq sweep.handles
    <3>1. ASSUME NEW i \in Insts,
                 SweepFlush(i) \/ SweepEmpty(i) \/ SweepReset(i) \/ SweepFails(i)
          PROVE  sweep'.handles = sweep.handles
      <4>1. CASE SweepFlush(i)
        BY <4>1 DEF SweepFlush
      <4>2. CASE SweepEmpty(i)
        BY <4>2 DEF SweepEmpty
      <4>3. CASE SweepReset(i)
        BY <4>3 DEF SweepReset
      <4>4. CASE SweepFails(i)
        BY <4>4 DEF SweepFails
      <4> QED
        BY <3>1, <4>1, <4>2, <4>3, <4>4
    <3>2. CASE SweepJoin
      BY <3>2 DEF SweepJoin
    <3>3. CASE SweepReturn
      BY <3>3 DEF SweepReturn
    <3> QED
      BY <1>5, <3>1, <3>2, <3>3 DEF SweepStep
  <2> QED
    BY <2>1, <2>2
<1>6. CASE UNCHANGED vars
  BY <1>6 DEF vars
<1> QED
  BY <1>1, <1>2, <1>3, <1>4, <1>5, <1>6 DEF Next

-----------------------------------------------------------------------------
(* Counters cover queues, and a commit_all covers what was accepted before. *)

\* While a writer is guarded its queue is empty: nothing slips in between
\* w.commit() and the reset of the counter.
GuardedIsEmpty == \A i \in Insts : Guarded(i) => queued[i] = {}

\* An uncounted document belongs to a thread that has yet to count it.
Counted ==
    \A i \in Insts : counter[i] = 0 =>
        \A e \in queued[i] :
            \E t \in Threads : held[t] = i /\ ev[t] = e /\ pc[t] = "count"

CountInv == MapInv /\ GuardedIsEmpty /\ Counted

\* Only one critical section of commit() runs at a time, adds are excluded from
\* it, and a thread that leaves "count" leaves the counter positive.
LEMMA CountStep == CountInv /\ [Next]_vars => CountInv'
<1> USE ConstantsAssumption
<1> SUFFICES ASSUME CountInv, [Next]_vars
             PROVE  GuardedIsEmpty' /\ Counted'
  BY MapStep DEF CountInv
<1>0. TypeOK /\ GuardedIsEmpty /\ Counted
  BY DEF CountInv, MapInv
<1> USE <1>0 DEF TypeOK, GuardedIsEmpty, Counted, Guarded, instVars, threadVars,
                 Goto, Return
<1>1. ASSUME NEW t \in Threads, NEW e \in Events, RejectFuture(t, e)
      PROVE  GuardedIsEmpty' /\ Counted'
  BY <1>1 DEF RejectFuture
<1>2. ASSUME NEW t \in Threads, NEW e \in Events, Lookup(t, e)
      PROVE  GuardedIsEmpty' /\ Counted'
  BY <1>2 DEF Lookup
<1>3. ASSUME NEW t \in Threads, IndexStep(t)
      PROVE  GuardedIsEmpty' /\ Counted'
  <2>1. CASE OpenShard(t)
    <3> DEFINE m == MonthOf[ev[t]]
    <3>1. CASE open[m] # None
      BY <2>1, <3>1 DEF OpenShard
    <3>2. CASE open[m] = None
      <4>1. PICK i \in Insts :
              /\ ~Alive(i)
              /\ queued' = [queued EXCEPT ![i] = {}]
              /\ counter' = [counter EXCEPT ![i] = 0]
              /\ held' = [held EXCEPT ![t] = i]
        BY <2>1, <3>2 DEF OpenShard
      <4>2. /\ \A s \in Threads : held[s] # i
            /\ \A s \in Threads \ {t} : held'[s] = held[s] /\ pc'[s] = pc[s]
            /\ held'[t] = i /\ pc'[t] = "add" /\ held[t] = None
            /\ \A j \in Insts \ {i} : queued'[j] = queued[j] /\ counter'[j] = counter[j]
            /\ queued'[i] = {}
            /\ ev' = ev /\ sweep' = sweep
        <5>1. /\ held[t] = None /\ pc' = [pc EXCEPT ![t] = "add"]
              /\ ev' = ev /\ sweep' = sweep
          BY <2>1 DEF OpenShard
        <5>2. \A s \in Threads : held[s] # i
          BY <4>1 DEF Alive, Holders
        <5> QED
          BY <4>1, <5>1, <5>2
      <4>3. GuardedIsEmpty'
        BY <4>2
      <4>4. Counted'
        BY <4>2
      <4> QED
        BY <4>3, <4>4
    <3> QED
      BY <3>1, <3>2
  <2>2. CASE TantivyFails(t)
    BY <2>2 DEF TantivyFails
  <2>3. CASE AddDocument(t)
    BY <2>3 DEF AddDocument
  <2>4. CASE CountDocument(t)
    BY <2>4 DEF CountDocument
  <2>5. CASE CommitFlush(t)
    BY <2>5 DEF CommitFlush, Flush
  <2>6. CASE CommitEmpty(t)
    BY <2>6 DEF CommitEmpty, AfterCommit
  <2>7. CASE CommitReset(t)
    <3>1. held[t] \in Insts /\ queued[held[t]] = {} /\ pc[t] # "count"
      BY <2>7 DEF CommitReset
    <3>2. /\ queued' = queued /\ sweep' = sweep
          /\ counter' = [counter EXCEPT ![held[t]] = 0]
      BY <2>7 DEF CommitReset, ResetCounter
    <3>3. /\ pc'[t] \in {"idle", "closeDrop"}
          /\ \A s \in Threads \ {t} :
               pc'[s] = pc[s] /\ held'[s] = held[s] /\ ev'[s] = ev[s]
      BY <2>7 DEF CommitReset, AfterCommit
    <3>4. GuardedIsEmpty'
      BY <3>1, <3>2, <3>3
    <3>5. Counted'
      BY <3>1, <3>2, <3>3
    <3> QED
      BY <3>4, <3>5
  <2>8. CASE CommitFails(t)
    BY <2>8 DEF CommitFails
  <2>9. CASE EvictPick(t)
    BY <2>9 DEF EvictPick
  <2>10. CASE CloseTake(t)
    BY <2>10 DEF CloseTake
  <2>11. CASE CloseDrop(t)
    BY <2>11 DEF CloseDrop
  <2>12. CASE CloseRemove(t)
    <3>1. /\ pc[t] = "closeRemove" /\ pc' = [pc EXCEPT ![t] = "evict"]
          /\ held' = held /\ ev' = ev /\ sweep' = sweep
      BY <2>12 DEF CloseRemove
    <3>2. \A i \in Insts :
            \/ queued'[i] = {}
            \/ queued'[i] = queued[i] /\ counter'[i] = counter[i]
      BY <2>12 DEF CloseRemove
    <3>3. ASSUME NEW s \in Threads
          PROVE  /\ pc'[s] \in {"reset", "closeReset"} => pc[s] = pc'[s]
                 /\ pc[s] = "count" => pc'[s] = "count"
      BY <3>1
    <3>4. GuardedIsEmpty'
      BY <3>1, <3>2, <3>3
    <3>5. Counted'
      BY <3>1, <3>2, <3>3
    <3> QED
      BY <3>4, <3>5
  <2> QED
    BY <1>3, <2>1, <2>2, <2>3, <2>4, <2>5, <2>6, <2>7, <2>8, <2>9, <2>10,
       <2>11, <2>12 DEF IndexStep
<1>4. CASE SweepStart
  BY <1>4 DEF SweepStart
<1>5. CASE SweepStep
  <2>1. ASSUME NEW i \in Insts, SweepFlush(i)
        PROVE  GuardedIsEmpty' /\ Counted'
    BY <2>1 DEF SweepFlush, Flush
  <2>2. ASSUME NEW i \in Insts, SweepEmpty(i)
        PROVE  GuardedIsEmpty' /\ Counted'
    BY <2>2 DEF SweepEmpty
  <2>3. ASSUME NEW i \in Insts, SweepReset(i)
        PROVE  GuardedIsEmpty' /\ Counted'
    BY <2>3 DEF SweepReset, ResetCounter
  <2>4. ASSUME NEW i \in Insts, SweepFails(i)
        PROVE  GuardedIsEmpty' /\ Counted'
    BY <2>4 DEF SweepFails
  <2>5. CASE SweepJoin
    BY <2>5 DEF SweepJoin
  <2>6. CASE SweepReturn
    BY <2>6 DEF SweepReturn
  <2> QED
    BY <1>5, <2>1, <2>2, <2>3, <2>4, <2>5, <2>6 DEF SweepStep
<1>6. CASE UNCHANGED vars
  BY <1>6 DEF vars
<1> QED
  BY <1>1, <1>2, <1>3, <1>4, <1>5, <1>6 DEF Next

\* The event of a running call is not settled, and is nobody else's.
CallsDistinct ==
    \A t \in Threads : pc[t] # "idle" =>
        /\ outcome[ev[t]] = "running"
        /\ \A s \in Threads \ {t} : ev[s] # ev[t]

DueAccepted == sweep.due \subseteq Accepted

CallInv == TypeOK /\ CallsDistinct /\ DueAccepted

\* What a commit_all owes its caller is never un-accepted while it runs: an
\* outcome changes only from "none" or "running".
LEMMA CallStep == CallInv /\ [Next]_vars => CallInv'
<1> USE ConstantsAssumption
<1> SUFFICES ASSUME CallInv, [Next]_vars
             PROVE  CallsDistinct' /\ DueAccepted'
  BY TypeStep DEF CallInv
<1>0. TypeOK /\ CallsDistinct /\ DueAccepted
  BY DEF CallInv
<1> USE <1>0 DEF TypeOK, CallsDistinct, DueAccepted, Accepted, instVars,
                 threadVars
<1>1. ASSUME NEW t \in Threads, NEW e \in Events, RejectFuture(t, e)
      PROVE  CallsDistinct' /\ DueAccepted'
  BY <1>1 DEF RejectFuture
<1>2. ASSUME NEW t \in Threads, NEW e \in Events, Lookup(t, e)
      PROVE  CallsDistinct' /\ DueAccepted'
  BY <1>2 DEF Lookup, Goto
<1>3. ASSUME NEW t \in Threads, NEW r \in {"ok", "err"}, pc[t] # "idle",
             Return(t, r), sweep' = sweep
      PROVE  CallsDistinct' /\ DueAccepted'
  BY <1>3 DEF Return, Goto
<1>4. ASSUME NEW t \in Threads, NEW l, l # "idle", pc[t] # "idle", Goto(t, l),
             UNCHANGED <<ev, outcome, sweep>>
      PROVE  CallsDistinct' /\ DueAccepted'
  BY <1>4 DEF Goto
<1>5. ASSUME NEW t \in Threads, IndexStep(t)
      PROVE  CallsDistinct' /\ DueAccepted'
  <2>1. CASE OpenShard(t) \/ AddDocument(t) \/ CloseDrop(t) \/ CloseRemove(t)
    BY <1>4, <2>1 DEF OpenShard, AddDocument, CloseDrop, CloseRemove
  <2>2. CASE TantivyFails(t) \/ CommitFails(t)
    BY <1>3, <2>2 DEF TantivyFails, CommitFails
  <2>3. CASE CountDocument(t)
    BY <1>3, <1>4, <2>3 DEF CountDocument
  <2>4. CASE CommitFlush(t)
    BY <1>4, <2>4 DEF CommitFlush
  <2>5. CASE CommitEmpty(t)
    BY <1>3, <1>4, <2>5 DEF CommitEmpty, AfterCommit
  <2>6. CASE CommitReset(t)
    BY <1>3, <1>4, <2>6 DEF CommitReset, AfterCommit
  <2>7. CASE EvictPick(t)
    BY <1>4, <2>7 DEF EvictPick
  <2>8. CASE CloseTake(t)
    BY <1>4, <2>8 DEF CloseTake
  <2> QED
    BY <1>5, <2>1, <2>2, <2>3, <2>4, <2>5, <2>6, <2>7, <2>8 DEF IndexStep
<1>6. CASE SweepStart
  BY <1>6 DEF SweepStart
<1>7. CASE SweepStep
  <2>1. UNCHANGED threadVars
    BY <1>7 DEF SweepStep, SweepFlush, SweepEmpty, SweepReset, SweepFails,
                SweepJoin, SweepReturn
  <2>2. ASSUME NEW i \in Insts,
               SweepFlush(i) \/ SweepEmpty(i) \/ SweepReset(i) \/ SweepFails(i)
        PROVE  sweep'.due = sweep.due
    <3>1. CASE SweepFlush(i)
      BY <3>1 DEF SweepFlush
    <3>2. CASE SweepEmpty(i)
      BY <3>2 DEF SweepEmpty
    <3>3. CASE SweepReset(i)
      BY <3>3 DEF SweepReset
    <3>4. CASE SweepFails(i)
      BY <3>4 DEF SweepFails
    <3> QED
      BY <2>2, <3>1, <3>2, <3>3, <3>4
  <2>3. SweepJoin => sweep'.due = sweep.due
    BY DEF SweepJoin
  <2>4. SweepReturn => sweep'.due = {}
    BY DEF SweepReturn
  <2> QED
    BY <1>7, <2>1, <2>2, <2>3, <2>4 DEF SweepStep
<1>8. CASE UNCHANGED vars
  BY <1>8 DEF vars
<1> QED
  BY <1>1, <1>2, <1>5, <1>6, <1>7, <1>8 DEF Next

\* What is queued is queued in a mapped writer, and what a commit_all owes its
\* caller is queued only in writers the sweep has yet to commit.
QueuedIsMapped == \A i \in Insts : queued[i] # {} => Mapped(i)

SweepOwes ==
    /\ sweep.pc # "running" => sweep.todo = {}
    /\ ~sweep.failed => \A i \in Insts : queued[i] \cap sweep.due # {} => i \in sweep.todo

CoverInv == CountInv /\ CallInv /\ QueuedIsMapped /\ SweepOwes

\* A commit_all that skips a writer because its counter is zero skips only
\* documents whose threads have not returned, and those it does not owe.
LEMMA CoverStep == CoverInv /\ [Next]_vars => CoverInv'
<1> USE ConstantsAssumption
<1> SUFFICES ASSUME CoverInv, [Next]_vars
             PROVE  QueuedIsMapped' /\ SweepOwes'
  BY CountStep, CallStep DEF CoverInv
<1>0. /\ TypeOK /\ MapConsistent /\ HandlesMapped /\ Counted /\ CallsDistinct
      /\ DueAccepted /\ QueuedIsMapped /\ SweepOwes
  BY DEF CoverInv, CountInv, CallInv, MapInv
<1> USE <1>0 DEF TypeOK, QueuedIsMapped, SweepOwes, Mapped, instVars, threadVars
<1>1. ASSUME UNCHANGED <<open, month, queued, sweep>>
      PROVE  QueuedIsMapped' /\ SweepOwes'
  BY <1>1
<1>2. ASSUME NEW t \in Threads, NEW e \in Events, RejectFuture(t, e) \/ Lookup(t, e)
      PROVE  QueuedIsMapped' /\ SweepOwes'
  BY <1>1, <1>2 DEF RejectFuture, Lookup
<1>3. ASSUME NEW t \in Threads, IndexStep(t)
      PROVE  QueuedIsMapped' /\ SweepOwes'
  <2>1. CASE OpenShard(t)
    <3> DEFINE m == MonthOf[ev[t]]
    <3>0. m \in Months
      BY <2>1 DEF OpenShard
    <3>1. CASE open[m] # None
      BY <1>1, <2>1, <3>1 DEF OpenShard
    <3>2. CASE open[m] = None
      <4>1. PICK i \in Insts :
              /\ open' = [open EXCEPT ![m] = i]
              /\ month' = [month EXCEPT ![i] = m]
              /\ queued' = [queued EXCEPT ![i] = {}]
        BY <2>1, <3>2 DEF OpenShard
      <4>2. sweep' = sweep
        BY <2>1 DEF OpenShard
      <4> QED
        BY <3>0, <3>2, <4>1, <4>2
    <3> QED
      BY <3>1, <3>2
  <2>2. CASE TantivyFails(t) \/ CountDocument(t) \/ CommitEmpty(t)
             \/ CommitReset(t) \/ CommitFails(t) \/ EvictPick(t)
             \/ CloseTake(t) \/ CloseDrop(t)
    BY <1>1, <2>2 DEF TantivyFails, CountDocument, CommitEmpty, CommitReset,
                      CommitFails, EvictPick, CloseTake, CloseDrop
  <2>3. CASE AddDocument(t)
    <3>1. held[t] \in Insts /\ Mapped(held[t])
      BY <2>3 DEF AddDocument, HandlesMapped
    <3>2. ev[t] \notin sweep.due
      BY <2>3 DEF AddDocument, CallsDistinct, DueAccepted, Accepted
    <3> QED
      BY <2>3, <3>1, <3>2 DEF AddDocument
  <2>4. CASE CommitFlush(t)
    BY <2>4 DEF CommitFlush, Flush
  <2>5. CASE CloseRemove(t)
    BY <2>5 DEF CloseRemove
  <2> QED
    BY <1>3, <2>1, <2>2, <2>3, <2>4, <2>5 DEF IndexStep
<1>4. CASE SweepStart
  <2>1. \A i \in Insts : queued[i] # {} => i \in OpenHandles
    BY DEF OpenHandles, OpenMonths
  <2> QED
    BY <1>4, <2>1 DEF SweepStart
<1>5. ASSUME NEW i \in Insts, SweepFlush(i)
      PROVE  QueuedIsMapped' /\ SweepOwes'
  BY <1>5 DEF SweepFlush, Flush
<1>6. ASSUME NEW i \in Insts, SweepEmpty(i)
      PROVE  QueuedIsMapped' /\ SweepOwes'
  <2>1. queued[i] \cap sweep.due = {}
    <3>1. \A e \in queued[i] : \E t \in Threads : ev[t] = e /\ pc[t] = "count"
      BY <1>6 DEF SweepEmpty, Counted
    <3> QED
      BY <3>1 DEF CallsDistinct, DueAccepted, Accepted
  <2> QED
    BY <1>6, <2>1 DEF SweepEmpty
<1>7. ASSUME NEW i \in Insts, SweepReset(i)
      PROVE  QueuedIsMapped' /\ SweepOwes'
  BY <1>7 DEF SweepReset
<1>8. ASSUME NEW i \in Insts, SweepFails(i)
      PROVE  QueuedIsMapped' /\ SweepOwes'
  BY <1>8 DEF SweepFails
<1>9. CASE SweepJoin
  BY <1>9 DEF SweepJoin
<1>10. CASE SweepReturn
  BY <1>10 DEF SweepReturn
<1>11. CASE UNCHANGED vars
  BY <1>1, <1>11 DEF vars
<1> QED
  BY <1>2, <1>3, <1>4, <1>5, <1>6, <1>7, <1>8, <1>9, <1>10, <1>11
     DEF Next, SweepStep

\* In every behaviour a live writer is the one the map holds for its month, so
\* opening a shard never meets a lock file held by an evicted writer.
THEOREM WritersAreMapped == Spec => []NoOrphanWriter
<1>1. Init => MapInv
  BY ConstantsAssumption DEF Init, MapInv, TypeOK, Labels, MapConsistent, HandlesMapped
<1>2. MapInv => NoOrphanWriter
  BY ConstantsAssumption DEF MapInv, TypeOK, HandlesMapped, NoOrphanWriter, Alive,
                             Holders, InSweep
<1> QED
  BY <1>1, <1>2, MapStep, PTL DEF Spec

\* In every behaviour a commit that is skipped for a zero counter skips nothing
\* a caller was told is indexed.
THEOREM CountersCover == Spec => []CounterCoversQueue
<1>1. Init => CountInv
  BY ConstantsAssumption DEF Init, CountInv, MapInv, TypeOK, Labels, MapConsistent,
                             HandlesMapped, GuardedIsEmpty, Guarded, Counted
<1>2. CountInv => CounterCoversQueue
  BY DEF CountInv, Counted, CounterCoversQueue
<1> QED
  BY <1>1, <1>2, CountStep, PTL DEF Spec

\* An empty manager covers everything.
LEMMA CoverInit == Init => CoverInv
BY ConstantsAssumption DEF Init, CoverInv, CountInv, MapInv, TypeOK, Labels,
     MapConsistent, HandlesMapped, GuardedIsEmpty, Guarded, Counted, CallInv,
     CallsDistinct, DueAccepted, QueuedIsMapped, SweepOwes

\* In every behaviour a commit_all that returns Ok leaves no document accepted
\* before it started waiting in an open writer.
THEOREM CommitAllIsComplete == Spec => []CommitAllCovers
<1>1. CoverInv => CommitAllCovers
  BY DEF CoverInv, SweepOwes, CommitAllCovers
<1> QED
  BY <1>1, CoverInit, CoverStep, PTL DEF Spec

-----------------------------------------------------------------------------
(* The race beside an eviction is the only way to lose an accepted event. *)

\* A thread holds the writer of its event's month, or of the month it closes.
HandleMonths ==
    \A t \in Threads :
        /\ pc[t] \in {"closeCommit", "closeReset", "closeDrop"} => month[held[t]] = victim[t]
        /\ pc[t] \in {"add", "count", "commit", "reset"} => month[held[t]] = MonthOf[ev[t]]

\* What a thread has added is in the writer it holds until it is committed.
Placed ==
    \A t \in Threads : pc[t] \in {"count", "commit", "reset"} =>
        ev[t] \in durable \cup queued[held[t]]

\* What is queued in a writer behind its last commit has raced.
QueuedBehindIsRaced ==
    \A i \in Insts : Evicting(month[i]) => queued[i] \subseteq raced \cup durable \cup RacedNow

KeptInv == CoverInv /\ HandleMonths /\ Placed /\ QueuedBehindIsRaced /\ KeptUnlessRaced

\* A writer with queued documents is the map's for its month, so two writers of
\* one month are the same.
LEMMA OneWriterPerMonth ==
    ASSUME CoverInv, NEW i \in Insts, NEW t \in Threads, held[t] \in Insts,
           queued[i] # {}, month[i] = month[held[t]]
    PROVE  i = held[t]
BY ConstantsAssumption
   DEF CoverInv, CountInv, MapInv, TypeOK, HandlesMapped, QueuedIsMapped, Mapped

\* A commit_all touches no thread and no entry of the map.
LEMMA SweepFrame ==
    ASSUME SweepStart \/ SweepStep
    PROVE  UNCHANGED <<open, month, pc, ev, held, victim, outcome>>
<1>1. CASE SweepStart
  BY <1>1 DEF SweepStart, instVars, threadVars
<1>2. ASSUME NEW i \in Insts,
             SweepFlush(i) \/ SweepEmpty(i) \/ SweepReset(i) \/ SweepFails(i)
      PROVE  UNCHANGED <<open, month, pc, ev, held, victim, outcome>>
  BY <1>2 DEF SweepFlush, SweepEmpty, SweepReset, SweepFails, instVars, threadVars
<1>3. CASE SweepJoin \/ SweepReturn
  BY <1>3 DEF SweepJoin, SweepReturn, instVars, threadVars
<1> QED
  BY <1>1, <1>2, <1>3 DEF SweepStep

\* Handles keep their months: a month is set on a writer nobody holds.
LEMMA HandleMonthsStep == CoverInv /\ HandleMonths /\ [Next]_vars => HandleMonths'
<1> USE ConstantsAssumption
<1> SUFFICES ASSUME CoverInv, HandleMonths, [Next]_vars PROVE HandleMonths'
  OBVIOUS
<1>0. TypeOK /\ MapConsistent
  BY DEF CoverInv, CountInv, MapInv
<1> USE <1>0 DEF TypeOK, MapConsistent, HandleMonths, instVars, threadVars, Goto, Return
<1>1. ASSUME NEW t \in Threads, NEW e \in Events, RejectFuture(t, e) \/ Lookup(t, e)
      PROVE  HandleMonths'
  BY <1>1 DEF RejectFuture, Lookup
<1>2. ASSUME NEW t \in Threads, OpenShard(t)
      PROVE  HandleMonths'
  <2> DEFINE m == MonthOf[ev[t]]
  <2>0. m \in Months /\ held[t] = None /\ ev[t] # None
    BY <1>2 DEF OpenShard
  <2>1. CASE open[m] # None
    BY <1>2, <2>0, <2>1 DEF OpenShard
  <2>2. CASE open[m] = None
    <3>1. PICK i \in Insts :
            /\ ~Alive(i)
            /\ month' = [month EXCEPT ![i] = m]
            /\ held' = [held EXCEPT ![t] = i]
      BY <1>2, <2>2 DEF OpenShard
    <3>2. \A u \in Threads : held[u] # i
      BY <3>1 DEF Alive, Holders
    <3> QED
      BY <1>2, <2>0, <3>1, <3>2 DEF OpenShard
  <2> QED
    BY <2>1, <2>2
<1>3. ASSUME NEW t \in Threads, IndexStep(t), ~OpenShard(t)
      PROVE  HandleMonths'
  BY <1>3 DEF IndexStep, TantivyFails, AddDocument, CountDocument, CommitFlush, CommitEmpty,
              CommitReset, CommitFails, AfterCommit, EvictPick, CloseTake, CloseDrop,
              CloseRemove
<1>4. CASE SweepStart \/ SweepStep
  BY <1>4, SweepFrame
<1>5. CASE UNCHANGED vars
  BY <1>5 DEF vars
<1> QED
  BY <1>1, <1>2, <1>3, <1>4, <1>5 DEF Next

\* What was committed stays committed.
LEMMA DurableGrows == [Next]_vars => durable \subseteq durable'
<1> SUFFICES ASSUME [Next]_vars PROVE durable \subseteq durable'
  OBVIOUS
<1>1. ASSUME NEW t \in Threads, NEW e \in Events, RejectFuture(t, e) \/ Lookup(t, e)
      PROVE  durable' = durable
  BY <1>1 DEF RejectFuture, Lookup
<1>2. ASSUME NEW t \in Threads, IndexStep(t)
      PROVE  durable \subseteq durable'
  <2>1. CASE CommitFlush(t)
    BY <2>1 DEF CommitFlush, Flush
  <2> QED
    BY <1>2, <2>1 DEF IndexStep, OpenShard, TantivyFails, AddDocument, CountDocument,
         CommitEmpty, CommitReset, CommitFails, EvictPick, CloseTake, CloseDrop,
         CloseRemove
<1>3. ASSUME NEW i \in Insts, SweepFlush(i)
      PROVE  durable \subseteq durable'
  BY <1>3 DEF SweepFlush, Flush
<1>4. ASSUME NEW i \in Insts, SweepEmpty(i) \/ SweepReset(i) \/ SweepFails(i)
      PROVE  durable' = durable
  BY <1>4 DEF SweepEmpty, SweepReset, SweepFails
<1>5. CASE SweepStart \/ SweepJoin \/ SweepReturn
  BY <1>5 DEF SweepStart, SweepJoin, SweepReturn
<1> QED
  BY <1>1, <1>2, <1>3, <1>4, <1>5 DEF Next, SweepStep, vars

\* A queued document stays queued in its writer until it is committed, or until
\* close_shard removes a writer nobody else holds.
LEMMA QueuedStays ==
    ASSUME CoverInv, [Next]_vars, NEW i \in Insts, NEW e \in queued[i]
    PROVE  \/ e \in queued'[i] \cup durable'
           \/ \E t \in Threads : /\ pc[t] = "closeRemove"
                                 /\ i = open[victim[t]] /\ Holders(i) = {}
<1> USE ConstantsAssumption
<1>0. TypeOK /\ Mapped(i)
  BY DEF CoverInv, CountInv, MapInv, QueuedIsMapped
<1> DEFINE Stays == e \in queued'[i] \cup durable'
<1>1. ASSUME NEW t \in Threads, NEW f \in Events, RejectFuture(t, f) \/ Lookup(t, f)
      PROVE  Stays
  BY <1>1 DEF RejectFuture, Lookup, instVars
<1>2. ASSUME NEW t \in Threads, OpenShard(t)
      PROVE  Stays
  BY <1>0, <1>2 DEF OpenShard, Alive, TypeOK
<1>3. ASSUME NEW t \in Threads, AddDocument(t) \/ CommitFlush(t)
      PROVE  Stays
  BY <1>0, <1>3 DEF AddDocument, CommitFlush, Flush, TypeOK
<1>4. ASSUME NEW t \in Threads, CloseRemove(t), ~Stays
      PROVE  pc[t] = "closeRemove" /\ i = open[victim[t]] /\ Holders(i) = {}
  BY <1>0, <1>4 DEF CloseRemove, Unshared, TypeOK, instVars
<1>5. ASSUME NEW t \in Threads,
             TantivyFails(t) \/ CountDocument(t) \/ CommitEmpty(t) \/ CommitReset(t)
               \/ CommitFails(t) \/ EvictPick(t) \/ CloseTake(t) \/ CloseDrop(t)
      PROVE  Stays
  BY <1>5 DEF TantivyFails, CountDocument, CommitEmpty, CommitReset, CommitFails,
              EvictPick, CloseTake, CloseDrop, instVars
<1>6. ASSUME NEW j \in Insts, SweepFlush(j)
      PROVE  Stays
  BY <1>0, <1>6 DEF SweepFlush, Flush, TypeOK
<1>7. ASSUME NEW j \in Insts, SweepEmpty(j) \/ SweepReset(j) \/ SweepFails(j)
      PROVE  Stays
  BY <1>7 DEF SweepEmpty, SweepReset, SweepFails, instVars
<1>8. CASE SweepStart \/ SweepJoin \/ SweepReturn
  BY <1>8 DEF SweepStart, SweepJoin, SweepReturn, instVars
<1>9. CASE UNCHANGED vars
  BY <1>9 DEF vars, instVars
<1> QED
  BY <1>1, <1>2, <1>3, <1>4, <1>5, <1>6, <1>7, <1>8, <1>9 DEF Next, IndexStep, SweepStep

\* Only add_document queues anything, and it queues the thread's event in the
\* writer of that event's month.
LEMMA QueuedComes ==
    ASSUME CoverInv, [Next]_vars, NEW i \in Insts, NEW e \in queued'[i], e \notin queued[i]
    PROVE  /\ UNCHANGED <<month, victim, ev>>
           /\ \E t \in Threads : /\ pc[t] = "add" /\ held[t] = i /\ ev[t] = e
                                 /\ pc' = [pc EXCEPT ![t] = "count"]
<1> USE ConstantsAssumption
<1>0. TypeOK
  BY DEF CoverInv, CountInv, MapInv
<1> USE <1>0 DEF TypeOK
<1>1. ASSUME NEW t \in Threads, NEW f \in Events, RejectFuture(t, f) \/ Lookup(t, f)
      PROVE  FALSE
  BY <1>1 DEF RejectFuture, Lookup, instVars
<1>2. ASSUME NEW t \in Threads,
             OpenShard(t) \/ CommitFlush(t) \/ CloseRemove(t)
      PROVE  FALSE
  BY <1>2 DEF OpenShard, CommitFlush, Flush, CloseRemove, instVars
<1>3. ASSUME NEW t \in Threads, AddDocument(t)
      PROVE  /\ UNCHANGED <<month, victim, ev>>
             /\ pc[t] = "add" /\ held[t] = i /\ ev[t] = e
             /\ pc' = [pc EXCEPT ![t] = "count"]
  BY <1>3 DEF AddDocument, Goto
<1>5. ASSUME NEW t \in Threads,
             TantivyFails(t) \/ CountDocument(t) \/ CommitEmpty(t) \/ CommitReset(t)
               \/ CommitFails(t) \/ EvictPick(t) \/ CloseTake(t) \/ CloseDrop(t)
      PROVE  FALSE
  BY <1>5 DEF TantivyFails, CountDocument, CommitEmpty, CommitReset, CommitFails,
              EvictPick, CloseTake, CloseDrop, instVars
<1>6. ASSUME NEW j \in Insts, SweepFlush(j)
      PROVE  FALSE
  BY <1>6 DEF SweepFlush, Flush
<1>7. ASSUME NEW j \in Insts, SweepEmpty(j) \/ SweepReset(j) \/ SweepFails(j)
      PROVE  FALSE
  BY <1>7 DEF SweepEmpty, SweepReset, SweepFails, instVars
<1>8. CASE SweepStart \/ SweepJoin \/ SweepReturn
  BY <1>8 DEF SweepStart, SweepJoin, SweepReturn, instVars
<1>9. CASE UNCHANGED vars
  BY <1>9 DEF vars, instVars
<1> QED
  BY <1>1, <1>2, <1>3, <1>5, <1>6, <1>7, <1>8, <1>9 DEF Next, IndexStep, SweepStep

\* close_shard passes its commit in one of two ways: it emptied the queue, or it
\* found the counter at zero.
LEMMA EvictionStarts ==
    ASSUME CoverInv, HandleMonths, [Next]_vars, NEW m \in Months, Evicting(m)', ~Evicting(m)
    PROVE  \E t \in Threads :
             /\ pc[t] = "closeCommit" /\ held[t] \in Insts /\ month[held[t]] = m
             /\ UNCHANGED <<month, ev>>
             /\ \A s \in Threads \ {t} : pc'[s] = pc[s]
             /\ \/ queued'[held[t]] = {}
                \/ counter[held[t]] = 0 /\ queued' = queued
<1> USE ConstantsAssumption
<1>0. TypeOK
  BY DEF CoverInv, CountInv, MapInv
<1> USE <1>0 DEF TypeOK, Goto, Return
<1>1. PICK u \in Threads : /\ victim'[u] = m
                           /\ pc'[u] \in {"closeReset", "closeDrop", "closeRemove"}
                           /\ ~ (/\ victim[u] = m
                                 /\ pc[u] \in {"closeReset", "closeDrop", "closeRemove"})
  BY DEF Evicting
<1> HIDE DEF Evicting
<1>2. ASSUME NEW t \in Threads, NEW f \in Events, RejectFuture(t, f) \/ Lookup(t, f)
      PROVE  FALSE
  BY <1>1, <1>2 DEF RejectFuture, Lookup
<1>3. ASSUME NEW t \in Threads,
             \/ OpenShard(t) \/ TantivyFails(t) \/ AddDocument(t) \/ CountDocument(t)
             \/ CommitReset(t) \/ CommitFails(t) \/ EvictPick(t) \/ CloseTake(t)
             \/ CloseDrop(t) \/ CloseRemove(t)
      PROVE  FALSE
  BY <1>1, <1>3 DEF OpenShard, TantivyFails, AddDocument, CountDocument, CommitReset,
       AfterCommit, CommitFails, EvictPick, CloseTake, CloseDrop, CloseRemove
<1>4. ASSUME NEW t \in Threads, CommitFlush(t) \/ CommitEmpty(t)
      PROVE  /\ pc[t] = "closeCommit" /\ held[t] \in Insts /\ month[held[t]] = m
             /\ UNCHANGED <<month, ev>>
             /\ \A s \in Threads \ {t} : pc'[s] = pc[s]
             /\ \/ queued'[held[t]] = {}
                \/ counter[held[t]] = 0 /\ queued' = queued
  <2>1. pc[t] = "closeCommit" /\ u = t /\ victim' = victim /\ held[t] \in Insts
    BY <1>1, <1>4 DEF CommitFlush, CommitEmpty, AfterCommit
  <2>2. month[held[t]] = m
    BY <1>1, <2>1 DEF HandleMonths
  <2> QED
    BY <1>4, <2>1, <2>2 DEF CommitFlush, Flush, CommitEmpty, AfterCommit, instVars
<1>5. CASE SweepStart \/ SweepStep
  BY <1>1, <1>5, SweepFrame
<1>6. CASE UNCHANGED vars
  BY <1>1, <1>6 DEF vars, threadVars
<1> QED
  BY <1>2, <1>3, <1>4, <1>5, <1>6 DEF Next, IndexStep

\* A writer with queued documents stays the writer of its month.
LEMMA MonthStays ==
    ASSUME CoverInv, [Next]_vars, NEW i \in Insts, queued[i] # {}
    PROVE  month'[i] = month[i]
<1> USE ConstantsAssumption
<1>0. TypeOK /\ Mapped(i)
  BY DEF CoverInv, CountInv, MapInv, QueuedIsMapped
<1>1. ASSUME NEW t \in Threads, NEW f \in Events, RejectFuture(t, f) \/ Lookup(t, f)
      PROVE  month' = month
  BY <1>1 DEF RejectFuture, Lookup, instVars
<1>2. ASSUME NEW t \in Threads, OpenShard(t)
      PROVE  month'[i] = month[i]
  BY <1>0, <1>2 DEF OpenShard, Alive, TypeOK
<1>3. ASSUME NEW t \in Threads, IndexStep(t), ~OpenShard(t)
      PROVE  month' = month
  BY <1>3 DEF IndexStep, TantivyFails, AddDocument, CountDocument, CommitFlush, CommitEmpty,
              CommitReset, CommitFails, EvictPick, CloseTake, CloseDrop, CloseRemove,
              instVars
<1>4. CASE UNCHANGED vars
  BY <1>4 DEF vars, instVars
<1> QED
  BY <1>1, <1>2, <1>3, <1>4, SweepFrame DEF Next

\* Whatever has raced, or races now, is remembered until it is committed.
LEMMA RacedStays ==
    ASSUME RacedNext, NEW e \in raced \cup durable \cup RacedNow
    PROVE  e \in raced' \cup durable'
BY DurableGrows DEF RacedNext

\* A document is queued behind the last commit of a writer only by a thread that
\* writes beside the eviction of its month.
LEMMA QueuedBehindStep ==
    CoverInv /\ HandleMonths /\ QueuedBehindIsRaced /\ RacedNext => QueuedBehindIsRaced'
<1> SUFFICES ASSUME CoverInv, HandleMonths, QueuedBehindIsRaced, RacedNext,
                    NEW i \in Insts, Evicting(month[i])', NEW e \in queued'[i]
             PROVE  e \in (raced \cup durable \cup RacedNow)'
  BY DEF QueuedBehindIsRaced
<1> DEFINE m == month'[i]
<1>1. /\ [Next]_vars /\ CoverInv' /\ TypeOK /\ TypeOK' /\ Counted /\ QueuedIsMapped
      /\ m \in Months
  BY CoverStep DEF RacedNext, CoverInv, CountInv, MapInv, QueuedIsMapped, Mapped
<1>2. CASE e \notin queued[i]
  <2>1. UNCHANGED <<month, victim, ev>>
    BY <1>1, <1>2, QueuedComes
  <2>2. PICK t \in Threads : /\ pc[t] = "add" /\ held[t] = i /\ ev[t] = e
                             /\ pc' = [pc EXCEPT ![t] = "count"]
    BY <1>1, <1>2, QueuedComes
  <2>3. Evicting(m)
    BY <1>1, <2>1, <2>2 DEF Evicting, TypeOK
  <2>4. MonthOf[ev[t]] = m
    BY <2>1, <2>2 DEF HandleMonths
  <2>5. e \in RacedNow
    BY <2>2, <2>3, <2>4 DEF RacedNow
  <2> QED
    BY <2>5, RacedStays
<1>3. CASE e \in queued[i]
  <2>1. month[i] = m
    BY <1>1, <1>3, MonthStays
  <2>2. CASE Evicting(m)
    <3>1. e \in raced \cup durable \cup RacedNow
      BY <1>3, <2>1, <2>2 DEF QueuedBehindIsRaced
    <3> QED
      BY <3>1, RacedStays
  <2>3. CASE ~Evicting(m)
    <3>1. PICK t \in Threads :
             /\ pc[t] = "closeCommit" /\ held[t] \in Insts /\ month[held[t]] = m
             /\ UNCHANGED <<month, ev>>
             /\ \A s \in Threads \ {t} : pc'[s] = pc[s]
             /\ \/ queued'[held[t]] = {}
                \/ counter[held[t]] = 0 /\ queued' = queued
      BY <1>1, <2>3, EvictionStarts
    <3>2. i = held[t]
      BY <1>3, <2>1, <3>1, OneWriterPerMonth
    <3>3. PICK u \in Threads : held[u] = i /\ ev[u] = e /\ pc[u] = "count"
      BY <1>1, <1>3, <3>1, <3>2 DEF Counted
    <3>4. MonthOf[ev[u]] = m
      BY <2>1, <3>3 DEF HandleMonths
    <3>5. ev'[u] = e /\ pc'[u] = "count" /\ Evicting(MonthOf[ev[u]])'
      BY <3>1, <3>3, <3>4
    <3>6. e \in RacedNow'
      BY <3>5 DEF RacedNow
    <3> QED
      BY <3>6
  <2> QED
    BY <2>2, <2>3
<1> QED
  BY <1>2, <1>3

\* A thread comes to "count" by adding its document, and keeps its writer and its
\* event from there to the end of its commit.
LEMMA InHandStays ==
    ASSUME CoverInv, [Next]_vars, NEW t \in Threads, pc'[t] \in {"count", "commit", "reset"}
    PROVE  /\ held[t] \in Insts /\ held'[t] = held[t] /\ ev'[t] = ev[t]
           /\ \/ pc[t] \in {"count", "commit", "reset"}
              \/ ev[t] \in queued'[held[t]]
<1> USE ConstantsAssumption
<1>0. TypeOK
  BY DEF CoverInv, CountInv, MapInv
<1> USE <1>0 DEF TypeOK, Goto, Return
<1> DEFINE Q == /\ held[t] \in Insts /\ held'[t] = held[t] /\ ev'[t] = ev[t]
                /\ \/ pc[t] \in {"count", "commit", "reset"}
                   \/ ev[t] \in queued'[held[t]]
<1>1. ASSUME NEW s \in Threads, NEW f \in Events, RejectFuture(s, f) \/ Lookup(s, f)
      PROVE  Q
  BY <1>1 DEF RejectFuture, Lookup
<1>2. ASSUME NEW s \in Threads, AddDocument(s)
      PROVE  Q
  BY <1>2 DEF AddDocument
<1>3. ASSUME NEW s \in Threads, IndexStep(s), ~AddDocument(s)
      PROVE  Q
  BY <1>3 DEF IndexStep, OpenShard, TantivyFails, CountDocument, CommitFlush, CommitEmpty,
              CommitReset, CommitFails, AfterCommit, EvictPick, CloseTake, CloseDrop,
              CloseRemove
<1>4. CASE UNCHANGED vars
  BY <1>4 DEF vars, threadVars
<1>5. CASE SweepStart \/ SweepStep
  BY <1>5, SweepFrame
<1> QED
  BY <1>1, <1>2, <1>3, <1>4, <1>5 DEF Next

\* No step takes a document from the writer its thread holds but to commit it.
LEMMA PlacedStep == CoverInv /\ Placed /\ [Next]_vars => Placed'
<1> SUFFICES ASSUME CoverInv, Placed, [Next]_vars,
                    NEW t \in Threads, pc'[t] \in {"count", "commit", "reset"}
             PROVE  ev'[t] \in durable' \cup queued'[held'[t]]
  BY DEF Placed
<1>1. /\ held[t] \in Insts /\ held'[t] = held[t] /\ ev'[t] = ev[t]
      /\ \/ pc[t] \in {"count", "commit", "reset"}
         \/ ev[t] \in queued'[held[t]]
  BY InHandStays
<1>2. CASE ev[t] \in durable
  BY <1>1, <1>2, DurableGrows
<1>3. CASE ev[t] \in queued[held[t]]
  <2>1. Holders(held[t]) # {}
    BY <1>1 DEF Holders
  <2> QED
    BY <1>1, <1>3, <2>1, QueuedStays
<1> QED
  BY <1>1, <1>2, <1>3 DEF Placed

\* index_event returns Ok only for a document that is placed.
LEMMA AcceptedWasPlaced ==
    ASSUME CoverInv, [Next]_vars, NEW e \in Accepted', e \notin Accepted
    PROVE  \E t \in Threads : pc[t] \in {"count", "commit", "reset"} /\ ev[t] = e
<1> USE ConstantsAssumption
<1>0. TypeOK /\ e \in Events /\ outcome'[e] = "ok" /\ outcome[e] # "ok"
  BY DEF CoverInv, CountInv, MapInv, Accepted
<1> USE <1>0 DEF TypeOK, Goto, Return
<1>1. ASSUME NEW t \in Threads, NEW f \in Events, RejectFuture(t, f) \/ Lookup(t, f)
      PROVE  FALSE
  BY <1>1 DEF RejectFuture, Lookup
<1>2. ASSUME NEW t \in Threads, CountDocument(t) \/ CommitEmpty(t) \/ CommitReset(t)
      PROVE  pc[t] \in {"count", "commit", "reset"} /\ ev[t] = e
  BY <1>2 DEF CountDocument, CommitEmpty, CommitReset, AfterCommit
<1>3. ASSUME NEW t \in Threads,
             OpenShard(t) \/ TantivyFails(t) \/ AddDocument(t) \/ CommitFlush(t)
               \/ CommitFails(t) \/ EvictPick(t) \/ CloseTake(t) \/ CloseDrop(t)
               \/ CloseRemove(t)
      PROVE  FALSE
  BY <1>3 DEF OpenShard, TantivyFails, AddDocument, CommitFlush, CommitFails, EvictPick,
              CloseTake, CloseDrop, CloseRemove
<1>4. CASE UNCHANGED vars
  BY <1>4 DEF vars, threadVars
<1>5. CASE SweepStart \/ SweepStep
  BY <1>5, SweepFrame
<1> QED
  BY <1>1, <1>2, <1>3, <1>4, <1>5 DEF Next, IndexStep

\* A step loses an accepted document only where close_shard removes its writer,
\* and then the document has raced.
LEMMA KeptStep ==
    CoverInv /\ Placed /\ QueuedBehindIsRaced /\ KeptUnlessRaced /\ RacedNext
        => KeptUnlessRaced'
<1> SUFFICES ASSUME CoverInv, Placed, QueuedBehindIsRaced, KeptUnlessRaced, RacedNext,
                    NEW e \in Accepted', e \notin raced', e \notin durable'
             PROVE  \E i \in Insts : Alive(i)' /\ e \in queued'[i]
  BY DEF KeptUnlessRaced
<1>1. [Next]_vars /\ CoverInv' /\ TypeOK /\ MapConsistent /\ QueuedIsMapped
  BY CoverStep DEF RacedNext, CoverInv, CountInv, MapInv
<1>2. e \notin raced \cup durable \cup RacedNow
  BY RacedStays
<1>3. PICK i \in Insts : e \in queued[i]
  <2>1. CASE e \in Accepted
    BY <1>2, <2>1 DEF KeptUnlessRaced
  <2>2. CASE e \notin Accepted
    <3>1. PICK t \in Threads : pc[t] \in {"count", "commit", "reset"} /\ ev[t] = e
      BY <1>1, <2>2, AcceptedWasPlaced
    <3>2. held[t] \in Insts
      BY <1>1, <3>1 DEF TypeOK
    <3> QED
      BY <1>2, <3>1, <3>2 DEF Placed
  <2> QED
    BY <2>1, <2>2
<1>4. ASSUME NEW t \in Threads, pc[t] = "closeRemove", i = open[victim[t]]
      PROVE  FALSE
  <2>1. victim[t] \in Months /\ month[i] = victim[t]
    BY <1>1, <1>4, ConstantsAssumption DEF TypeOK, MapConsistent
  <2>2. Evicting(month[i])
    BY <1>4, <2>1 DEF Evicting
  <2> QED
    BY <1>2, <1>3, <2>2 DEF QueuedBehindIsRaced
<1>5. e \in queued'[i]
  BY <1>1, <1>3, <1>4, QueuedStays
<1>6. Alive(i)'
  BY <1>1, <1>5 DEF CoverInv, QueuedIsMapped, Alive
<1> QED
  BY <1>5, <1>6

\* The whole invariant, and the stutters of both specifications.
LEMMA KeptInvStep == KeptInv /\ [RacedNext]_<<vars, raced>> => KeptInv'
<1> SUFFICES ASSUME KeptInv, [RacedNext]_<<vars, raced>> PROVE KeptInv'
  OBVIOUS
<1>1. CASE RacedNext
  <2>1. [Next]_vars
    BY <1>1 DEF RacedNext
  <2> QED
    BY <1>1, <2>1, CoverStep, HandleMonthsStep, PlacedStep, QueuedBehindStep, KeptStep
       DEF KeptInv
<1>2. CASE UNCHANGED <<vars, raced>>
  <2>1. [Next]_vars
    BY <1>2
  <2>2. CoverInv' /\ HandleMonths' /\ Placed'
    BY <2>1, CoverStep, HandleMonthsStep, PlacedStep DEF KeptInv
  <2>3. QueuedBehindIsRaced'
    BY <1>2 DEF KeptInv, QueuedBehindIsRaced, Evicting, RacedNow, vars, threadVars, instVars
  <2>4. KeptUnlessRaced'
    BY <1>2 DEF KeptInv, KeptUnlessRaced, Accepted, Alive, Mapped, Holders, InSweep,
                vars, threadVars, instVars
  <2> QED
    BY <2>2, <2>3, <2>4 DEF KeptInv
<1> QED
  BY <1>1, <1>2

\* In every behaviour an accepted document is committed or queued in a live
\* writer, unless its thread wrote beside close_shard of its month on another.
THEOREM OnlyTheRaceLoses == RacedSpec => []KeptUnlessRaced
<1>1. RacedInit => KeptInv
  <2> SUFFICES ASSUME RacedInit PROVE KeptInv
    OBVIOUS
  <2>1. CoverInv
    BY CoverInit DEF RacedInit
  <2>2. HandleMonths /\ Placed /\ QueuedBehindIsRaced /\ KeptUnlessRaced
    BY DEF RacedInit, Init, HandleMonths, Placed, QueuedBehindIsRaced, KeptUnlessRaced,
           Accepted
  <2> QED
    BY <2>1, <2>2 DEF KeptInv
<1>2. KeptInv => KeptUnlessRaced
  BY DEF KeptInv
<1> QED
  BY <1>1, <1>2, KeptInvStep, PTL DEF RacedSpec
=============================================================================
