------------------------ MODULE ArchiveIngestProofs -------------------------
(* Proofs of the safety properties of ArchiveIngest, for any number of       *)
(* readers, chunks, events and months and any number of kills and reruns.    *)
EXTENDS ArchiveIngest, TLAPS

\* Every step keeps the types and the correspondence between a reader's place
\* in the callback and what it holds.
LEMMA TypeStep == TypeOK /\ [Next]_vars => TypeOK'
<1> USE ConstantsAssumption
<1> SUFFICES ASSUME TypeOK, [Next]_vars PROVE TypeOK'
  OBVIOUS
<1> USE DEF TypeOK, readerVars, indexVars, NoClaim, Unlocked
<1>1. ASSUME NEW r \in Readers, ReaderStep(r)
      PROVE  TypeOK'
  <2>1. CASE TakeChunk(r)
    BY <2>1 DEF TakeChunk, EventsOf
  <2>2. CASE PlanIndexWork(r)
    BY <2>2 DEF PlanIndexWork, ToIndex
  <2>3. CASE FoldBatch(r)
    BY <2>3 DEF FoldBatch
  <2>4. CASE IndexOk(r)
    BY <2>4 DEF IndexOk
  <2>5. CASE IndexFails(r)
    BY <2>5 DEF IndexFails
  <2>6. CASE ExtendPending(r)
    BY <2>6 DEF ExtendPending
  <2> QED
    BY <1>1, <2>1, <2>2, <2>3, <2>4, <2>5, <2>6 DEF ReaderStep
<1>2. ASSUME NEW m \in Months, ShardCommit(m)
      PROVE  TypeOK'
  BY <1>2 DEF ShardCommit, CommitMonth
<1>3. ASSUME NEW kind \in {"checkpoint", "sigterm", "finalize"}, StartClaim(kind)
      PROVE  TypeOK'
  BY <1>3 DEF StartClaim
<1>4. CASE ClaimStep
  <2>1. ASSUME NEW m \in Months, CommitShard(m)
        PROVE  TypeOK'
    BY <2>1 DEF CommitShard, CommitMonth
  <2>2. CASE TakePending
    BY <2>2 DEF TakePending
  <2>3. CASE FlushIds
    <3>1. cancel' \in BOOLEAN
      BY <2>3 DEF FlushIds, Restarted
    <3> QED
      BY <2>3, <3>1 DEF FlushIds, Restarted
  <2>4. CASE ClaimFails
    <3>1. cancel' \in BOOLEAN
      BY <2>4 DEF ClaimFails, Restarted
    <3> QED
      BY <2>4, <3>1 DEF ClaimFails, Restarted
  <2> QED
    BY <1>4, <2>1, <2>2, <2>3, <2>4 DEF ClaimStep
<1>5. CASE Cancel
  BY <1>5 DEF Cancel
<1>6. CASE Kill
  <2>1. cancel' \in BOOLEAN
    BY <1>6 DEF Kill, Restarted
  <2> QED
    BY <1>6, <2>1 DEF Kill, Restarted
<1>7. CASE Rerun
  <2>1. cancel' \in BOOLEAN
    BY <1>7 DEF Rerun
  <2> QED
    BY <1>7, <2>1 DEF Rerun
<1>8. CASE Idle
  BY <1>8 DEF Idle, vars
<1>9. CASE UNCHANGED vars
  BY <1>9 DEF vars
<1> QED
  BY <1>1, <1>2, <1>3, <1>4, <1>5, <1>6, <1>7, <1>8, <1>9 DEF Next

\* The initial state is well typed.
LEMMA InitTypes == Init => TypeOK
<1> SUFFICES ASSUME Init PROVE TypeOK
  OBVIOUS
<1>1. cancel \in BOOLEAN
  BY DEF Init
<1> QED
  BY <1>1, ConstantsAssumption DEF Init, TypeOK, NoClaim, Unlocked

\* Type correctness of an ingest, its claims, its kills and its reruns.
THEOREM TypeCorrect == Spec => []TypeOK
<1>1. Init => TypeOK
  BY InitTypes
<1> QED
  BY <1>1, TypeStep, PTL DEF Spec

-----------------------------------------------------------------------------
(* An id on its way to the store is the id of an accepted event. *)

AcceptInv ==
    /\ TypeOK
    /\ ClaimedWasAccepted
    /\ \A r \in Readers : okIds[r] \subseteq accepted

\* Ids enter the pending set only from a reader's accepted ids, and the store
\* only from the pending set.
LEMMA AcceptStep == AcceptInv /\ [Next]_vars => AcceptInv'
<1> USE ConstantsAssumption
<1> SUFFICES ASSUME AcceptInv, [Next]_vars PROVE AcceptInv'
  OBVIOUS
<1> USE DEF AcceptInv, ClaimedWasAccepted, TypeOK, readerVars, indexVars, NoClaim
<1>0. TypeOK'
  BY TypeStep
<1>1. ASSUME NEW r \in Readers, ReaderStep(r)
      PROVE  AcceptInv'
  <2>1. CASE TakeChunk(r)
    BY <1>0, <2>1 DEF TakeChunk
  <2>2. CASE PlanIndexWork(r)
    BY <1>0, <2>2 DEF PlanIndexWork
  <2>3. CASE FoldBatch(r)
    BY <1>0, <2>3 DEF FoldBatch
  <2>4. CASE IndexOk(r)
    BY <1>0, <2>4 DEF IndexOk
  <2>5. CASE IndexFails(r)
    BY <1>0, <2>5 DEF IndexFails
  <2>6. CASE ExtendPending(r)
    BY <1>0, <2>6 DEF ExtendPending
  <2> QED
    BY <1>1, <2>1, <2>2, <2>3, <2>4, <2>5, <2>6 DEF ReaderStep
<1>2. ASSUME NEW m \in Months, ShardCommit(m)
      PROVE  AcceptInv'
  BY <1>0, <1>2 DEF ShardCommit
<1>3. ASSUME NEW kind \in {"checkpoint", "sigterm", "finalize"}, StartClaim(kind)
      PROVE  AcceptInv'
  BY <1>0, <1>3 DEF StartClaim
<1>4. CASE ClaimStep
  <2>1. ASSUME NEW m \in Months, CommitShard(m)
        PROVE  AcceptInv'
    BY <1>0, <2>1 DEF CommitShard
  <2>2. CASE TakePending
    BY <1>0, <2>2 DEF TakePending
  <2>3. CASE FlushIds
    BY <1>0, <2>3 DEF FlushIds, Restarted
  <2>4. CASE ClaimFails
    BY <1>0, <2>4 DEF ClaimFails, Restarted
  <2> QED
    BY <1>4, <2>1, <2>2, <2>3, <2>4 DEF ClaimStep
<1>5. CASE Cancel
  BY <1>0, <1>5 DEF Cancel
<1>6. CASE Kill
  BY <1>0, <1>6 DEF Kill, Restarted
<1>7. CASE Rerun
  BY <1>0, <1>7 DEF Rerun
<1>8. CASE Idle \/ UNCHANGED vars
  BY <1>0, <1>8 DEF Idle, vars
<1> QED
  BY <1>1, <1>2, <1>3, <1>4, <1>5, <1>6, <1>7, <1>8 DEF Next

\* Whatever the indexer refused is not claimed, so a later run retries it.
THEOREM OnlyAcceptedIsClaimed == Spec => []ClaimedWasAccepted
<1>1. Init => AcceptInv
  BY InitTypes DEF Init, AcceptInv, ClaimedWasAccepted, NoClaim
<1>2. AcceptInv => ClaimedWasAccepted
  BY DEF AcceptInv
<1> QED
  BY <1>1, <1>2, AcceptStep, PTL DEF Spec

-----------------------------------------------------------------------------
(* Claims trail commits. *)

HasDocument(e) == buffered[e] > 0 \/ durable[e] > 0

\* What an id on its way to the store is owed: a committed document, unless the
\* document was added behind the commit of the claim under way.
Backed(e) == durable[e] > 0 \/ e \in late

\* What is not claimed yet has a document, and a claim has committed the months
\* it no longer lists before it takes ids.
DurableInv ==
    /\ TypeOK
    /\ \A r \in Readers : \A e \in okIds[r] : HasDocument(e)
    /\ \A e \in pending : HasDocument(e)
    /\ claim.step = "commit" =>
         /\ \A e \in pending : MonthOf[e] \in claim.months \/ Backed(e)
         /\ \A r \in Readers : \A e \in okIds[r] :
              MonthOf[e] \in claim.months \/ Backed(e)
    /\ claim.step = "flush" => \A e \in claim.ids : Backed(e)
    /\ ClaimTrailsCommit

\* Committing a month loses no document and makes the month's durable.
LEMMA CommitMonthFacts ==
    ASSUME TypeOK, NEW m \in Months, CommitMonth(m)
    PROVE  \A e \in Events :
             /\ durable[e] > 0 => durable'[e] > 0
             /\ HasDocument(e) => HasDocument(e)'
             /\ MonthOf[e] = m /\ HasDocument(e) => durable'[e] > 0
BY ConstantsAssumption DEF TypeOK, CommitMonth, HasDocument

\* Every step keeps DurableInv: what a claim takes was added before its month
\* was committed, or is late.
LEMMA DurableStep == DurableInv /\ [Next]_vars => DurableInv'
<1> USE ConstantsAssumption
<1> SUFFICES ASSUME DurableInv, [Next]_vars PROVE DurableInv'
  OBVIOUS
<1>0. TypeOK'
  BY TypeStep DEF DurableInv
<1> USE DEF DurableInv, HasDocument, Backed, ClaimTrailsCommit, TypeOK, Unlocked,
            readerVars, indexVars, NoClaim
<1>1. ASSUME NEW r \in Readers, ReaderStep(r)
      PROVE  DurableInv'
  <2>1. CASE TakeChunk(r)
    BY <1>0, <2>1 DEF TakeChunk
  <2>2. CASE PlanIndexWork(r)
    BY <1>0, <2>2 DEF PlanIndexWork
  <2>3. CASE FoldBatch(r)
    BY <1>0, <2>3 DEF FoldBatch
  <2>4. CASE IndexOk(r)
    BY <1>0, <2>4 DEF IndexOk
  <2>5. CASE IndexFails(r)
    BY <1>0, <2>5 DEF IndexFails
  <2>6. CASE ExtendPending(r)
    BY <1>0, <2>6 DEF ExtendPending
  <2> QED
    BY <1>1, <2>1, <2>2, <2>3, <2>4, <2>5, <2>6 DEF ReaderStep
<1>2. ASSUME NEW m \in Months, ShardCommit(m)
      PROVE  DurableInv'
  BY <1>0, <1>2, CommitMonthFacts DEF ShardCommit
<1>3. ASSUME NEW kind \in {"checkpoint", "sigterm", "finalize"}, StartClaim(kind)
      PROVE  DurableInv'
  BY <1>0, <1>3 DEF StartClaim
<1>4. CASE ClaimStep
  <2>1. ASSUME NEW m \in Months, CommitShard(m)
        PROVE  DurableInv'
    BY <1>0, <2>1, CommitMonthFacts DEF CommitShard
  <2>2. CASE TakePending
    BY <1>0, <2>2 DEF TakePending
  <2>3. CASE FlushIds
    BY <1>0, <2>3 DEF FlushIds, Restarted
  <2>4. CASE ClaimFails
    BY <1>0, <2>4 DEF ClaimFails, Restarted
  <2> QED
    BY <1>4, <2>1, <2>2, <2>3, <2>4 DEF ClaimStep
<1>5. CASE Cancel
  BY <1>0, <1>5 DEF Cancel
<1>6. CASE Kill
  BY <1>0, <1>6 DEF Kill, Restarted
<1>7. CASE Rerun
  BY <1>0, <1>7 DEF Rerun
<1>8. CASE Idle \/ UNCHANGED vars
  BY <1>0, <1>8 DEF Idle, vars
<1> QED
  BY <1>1, <1>2, <1>3, <1>4, <1>5, <1>6, <1>7, <1>8 DEF Next

\* Whoever claims, whatever fails and whenever the process is killed, the store
\* is ahead of the index only for documents added behind a running commit.
THEOREM ClaimsTrailCommits == Spec => []ClaimTrailsCommit
<1>1. Init => DurableInv
  BY InitTypes DEF Init, DurableInv, ClaimTrailsCommit, NoClaim
<1>2. DurableInv => ClaimTrailsCommit
  BY DEF DurableInv
<1> QED
  BY <1>1, <1>2, DurableStep, PTL DEF Spec

-----------------------------------------------------------------------------
(* A run that ends has seen every event of the archive. *)

\* What became of an event that no reader has to look at any more in this run.
Settled(e) == e \in failed \/ HasDocument(e) \/ e \in late
Answered(e) == e \in failed \/ durable[e] > 0 \/ e \in late

\* Reader r still has position n of chunk c before it.
InHand(r, c, n) ==
    chunk[r] = c /\ (rpc[r] = "plan" \/ n \in work[r])

\* Every event is in a chunk that waits, before a reader, or settled; and once
\* finalize runs behind readers that are done, what it has still to commit is
\* in the months it lists.
CompleteInv ==
    /\ DurableInv
    /\ \A r \in Readers : known[r] \subseteq store
    /\ \A c \in Chunks \ todo : \A n \in DOMAIN Batch[c] :
         Settled(Batch[c][n]) \/ \E r \in Readers : InHand(r, c, n)
    /\ claim.kind = "finalize" =>
         /\ run = "reading"
         /\ ~cancel =>
              /\ ReadersDone
              /\ \A c \in Chunks : \A n \in DOMAIN Batch[c] :
                   \/ Answered(Batch[c][n])
                   \/ claim.step = "commit" /\ MonthOf[Batch[c][n]] \in claim.months
    /\ CompletedIsSearchable

\* Committing a month, with a claim or without one, keeps CompleteInv: the
\* months a finalize step no longer lists have committed what they buffered.
LEMMA CompleteCommit ==
    ASSUME CompleteInv, DurableInv', TypeOK, TypeOK', NEW m \in Months,
           CommitMonth(m),
           UNCHANGED <<run, cancel, todo, readerVars, pending, store, late, failed>>,
           claim' = claim \/ claim' = [claim EXCEPT !.months = @ \ {m}]
    PROVE  CompleteInv'
<1> USE ConstantsAssumption
<1>1. \A c \in Chunks : \A n \in DOMAIN Batch[c] :
         Batch[c][n] \in Events /\ MonthOf[Batch[c][n]] \in Months
  OBVIOUS
<1>2. claim'.kind = claim.kind /\ claim'.step = claim.step
  BY DEF TypeOK
<1>3. claim'.months = claim.months \/ claim'.months = claim.months \ {m}
  BY DEF TypeOK
<1>4. \A e \in Events :
         /\ Settled(e) => Settled(e)'
         /\ Answered(e) => Answered(e)'
         /\ Settled(e) /\ MonthOf[e] = m => Answered(e)'
  BY CommitMonthFacts DEF Settled, Answered, HasDocument
<1>5. \A r \in Readers : \A c, n : InHand(r, c, n) => InHand(r, c, n)'
  BY DEF InHand, readerVars
<1>6. ReadersDone => ReadersDone' /\ \A r \in Readers : \A c, n : ~InHand(r, c, n)
  BY DEF ReadersDone, InHand, readerVars, TypeOK
<1>7. (\A r \in Readers : known[r] \subseteq store)'
  BY DEF CompleteInv, readerVars
<1>8. (\A c \in Chunks \ todo : \A n \in DOMAIN Batch[c] :
         Settled(Batch[c][n]) \/ \E r \in Readers : InHand(r, c, n))'
  BY <1>1, <1>4, <1>5 DEF CompleteInv
<1>9. ASSUME claim'.kind = "finalize"
      PROVE  /\ run' = "reading"
             /\ ~cancel' =>
                  /\ ReadersDone'
                  /\ \A c \in Chunks : \A n \in DOMAIN Batch[c] :
                       \/ Answered(Batch[c][n])'
                       \/ claim'.step = "commit" /\ MonthOf[Batch[c][n]] \in claim'.months
  <2>1. run' = "reading" /\ (~cancel' => ReadersDone /\ ReadersDone' /\ todo = {})
    BY <1>2, <1>6, <1>9 DEF CompleteInv, ReadersDone
  <2>2. ASSUME ~cancel', NEW c \in Chunks, NEW n \in DOMAIN Batch[c],
               ~Answered(Batch[c][n])'
        PROVE  claim'.step = "commit" /\ MonthOf[Batch[c][n]] \in claim'.months
    <3>1. Settled(Batch[c][n])
      BY <1>6, <2>1, <2>2 DEF CompleteInv
    <3>2. MonthOf[Batch[c][n]] # m
      BY <1>1, <1>4, <2>2, <3>1
    <3>3. claim.step = "commit" /\ MonthOf[Batch[c][n]] \in claim.months
      BY <1>1, <1>2, <1>4, <1>9, <2>2 DEF CompleteInv
    <3> QED
      BY <1>2, <1>3, <3>2, <3>3
  <2> QED
    BY <2>1, <2>2
<1>10. CompletedIsSearchable'
  BY <1>1, <1>4 DEF CompleteInv, CompletedIsSearchable, EventsOf, Answered
<1> QED
  BY <1>7, <1>8, <1>9, <1>10 DEF CompleteInv

\* Every step keeps CompleteInv.
LEMMA CompleteStep == CompleteInv /\ [Next]_vars => CompleteInv'
<1> USE ConstantsAssumption
<1> SUFFICES ASSUME CompleteInv, [Next]_vars PROVE CompleteInv'
  OBVIOUS
<1>0. DurableInv' /\ TypeOK /\ TypeOK'
  BY DurableStep, TypeStep DEF CompleteInv, DurableInv
<1>1. \A c \in Chunks : \A n \in DOMAIN Batch[c] : Batch[c][n] \in Events
  OBVIOUS
<1>2. \A e \in store : Answered(e)
  BY DEF CompleteInv, DurableInv, ClaimTrailsCommit, Answered
<1>3. \A e \in pending : Settled(e)
  BY DEF CompleteInv, DurableInv, Settled
<1> USE DEF CompleteInv, TypeOK, Unlocked, readerVars, indexVars, NoClaim
<1>4. ASSUME NEW r \in Readers, ReaderStep(r)
      PROVE  CompleteInv'
  <2>1. CASE TakeChunk(r)
    BY <1>0, <2>1 DEF TakeChunk, InHand, Settled, Answered, HasDocument, ReadersDone,
                      CompletedIsSearchable
  <2>2. CASE PlanIndexWork(r)
    BY <1>0, <1>1, <1>2, <1>3, <2>2
    DEF PlanIndexWork, ToIndex, InHand, Settled, Answered, HasDocument, ReadersDone,
        CompletedIsSearchable
  <2>3. CASE FoldBatch(r)
    BY <1>0, <2>3 DEF FoldBatch, InHand, Settled, Answered, HasDocument, ReadersDone,
                      CompletedIsSearchable
  <2>4. CASE IndexOk(r)
    BY <1>0, <1>1, <2>4 DEF IndexOk, InHand, Settled, Answered, HasDocument, ReadersDone,
                      CompletedIsSearchable, EventsOf
  <2>5. CASE IndexFails(r)
    BY <1>0, <1>1, <2>5 DEF IndexFails, InHand, Settled, Answered, HasDocument,
                      ReadersDone, CompletedIsSearchable, EventsOf
  <2>6. CASE ExtendPending(r)
    BY <1>0, <2>6 DEF ExtendPending, InHand, Settled, Answered, HasDocument, ReadersDone,
                      CompletedIsSearchable
  <2> QED
    BY <1>4, <2>1, <2>2, <2>3, <2>4, <2>5, <2>6 DEF ReaderStep
<1>5. ASSUME NEW m \in Months, ShardCommit(m)
      PROVE  CompleteInv'
  BY <1>0, <1>5, CompleteCommit DEF ShardCommit
<1>6. ASSUME NEW kind \in {"checkpoint", "sigterm", "finalize"}, StartClaim(kind)
      PROVE  CompleteInv'
  BY <1>0, <1>1, <1>6 DEF StartClaim, InHand, Settled, Answered, HasDocument, ReadersDone,
                    CompletedIsSearchable
<1>7. CASE ClaimStep
  <2>1. ASSUME NEW m \in Months, CommitShard(m)
        PROVE  CompleteInv'
    BY <1>0, <2>1, CompleteCommit DEF CommitShard
  <2>2. CASE TakePending
    BY <1>0, <2>2 DEF TakePending, InHand, Settled, Answered, HasDocument, ReadersDone,
                      CompletedIsSearchable
  <2>3. CASE FlushIds
    BY <1>0, <1>1, <2>3 DEF FlushIds, Restarted, InHand, Settled, Answered, HasDocument,
                      ReadersDone, CompletedIsSearchable, EventsOf
  <2>4. CASE ClaimFails
    BY <1>0, <2>4 DEF ClaimFails, Restarted, InHand, Settled, Answered, HasDocument,
                      ReadersDone, CompletedIsSearchable
  <2> QED
    BY <1>7, <2>1, <2>2, <2>3, <2>4 DEF ClaimStep
<1>8. CASE Cancel
  BY <1>0, <1>8 DEF Cancel, InHand, Settled, Answered, HasDocument, ReadersDone,
                    CompletedIsSearchable
<1>9. CASE Kill \/ Rerun
  BY <1>0, <1>9 DEF Kill, Rerun, Restarted, InHand, ReadersDone, CompletedIsSearchable
<1>10. CASE Idle \/ UNCHANGED vars
  BY <1>0, <1>10 DEF Idle, vars, InHand, Settled, Answered, HasDocument, ReadersDone,
                     CompletedIsSearchable
<1> QED
  BY <1>4, <1>5, <1>6, <1>7, <1>8, <1>9, <1>10 DEF Next

\* A run that ends without being cancelled leaves the archive searchable, but
\* for what the indexer refused and what was added behind a running commit.
THEOREM CompletedRunIsSearchable == Spec => []CompletedIsSearchable
<1>1. Init => CompleteInv
  BY InitTypes DEF Init, CompleteInv, DurableInv, ClaimTrailsCommit, NoClaim,
                   CompletedIsSearchable
<1>2. CompleteInv => CompletedIsSearchable
  BY DEF CompleteInv
<1> QED
  BY <1>1, <1>2, CompleteStep, PTL DEF Spec

-----------------------------------------------------------------------------
(* Without a claimer beside the readers nothing is late. *)

AloneInv ==
    /\ DurableInv
    /\ ~Unlocked => claim.kind = "finalize" /\ ReadersDone
    /\ late = {}

\* The finalize step claims only once the readers are done, so no document is
\* added beside it.
LEMMA AloneStep ==
    ASSUME Claimers = {}
    PROVE  AloneInv /\ [Next]_vars => AloneInv'
<1> USE ConstantsAssumption
<1> SUFFICES ASSUME AloneInv, [Next]_vars PROVE AloneInv'
  OBVIOUS
<1>0. DurableInv' /\ TypeOK
  BY DurableStep DEF AloneInv, DurableInv
<1> USE DEF AloneInv, TypeOK, Unlocked, ReadersDone, readerVars, NoClaim
<1>1. ASSUME NEW r \in Readers, ReaderStep(r)
      PROVE  AloneInv'
  <2>1. Unlocked
    BY <1>0, <1>1 DEF ReaderStep, TakeChunk, PlanIndexWork, FoldBatch, IndexOk,
                      IndexFails, ExtendPending
  <2> QED
    BY <1>0, <1>1, <2>1 DEF ReaderStep, TakeChunk, PlanIndexWork, FoldBatch, IndexOk,
                            IndexFails, ExtendPending
<1>2. ASSUME NEW m \in Months, ShardCommit(m)
      PROVE  AloneInv'
  BY <1>0, <1>2 DEF ShardCommit
<1>3. ASSUME NEW kind \in {"checkpoint", "sigterm", "finalize"}, StartClaim(kind)
      PROVE  AloneInv'
  BY <1>0, <1>3, Claimers = {} DEF StartClaim
<1>4. CASE ClaimStep
  <2>1. ASSUME NEW m \in Months, CommitShard(m)
        PROVE  AloneInv'
    BY <1>0, <2>1 DEF CommitShard
  <2>2. CASE TakePending
    BY <1>0, <2>2 DEF TakePending
  <2>3. CASE FlushIds
    BY <1>0, <2>3 DEF FlushIds, Restarted
  <2>4. CASE ClaimFails
    BY <1>0, <2>4 DEF ClaimFails, Restarted
  <2> QED
    BY <1>4, <2>1, <2>2, <2>3, <2>4 DEF ClaimStep
<1>5. CASE Cancel \/ Kill \/ Rerun
  BY <1>0, <1>5 DEF Cancel, Kill, Rerun, Restarted
<1>6. CASE Idle \/ UNCHANGED vars
  BY <1>0, <1>6 DEF Idle, vars
<1> QED
  BY <1>1, <1>2, <1>3, <1>4, <1>5, <1>6 DEF Next

\* When nothing commits and claims beside the readers - no checkpoint before
\* the end, no SIGTERM handler - the store is never ahead of the index.
THEOREM ClaimsTrailCommitsAlone ==
    ASSUME Claimers = {}
    PROVE  Spec => []ClaimedIsDurable
<1>1. Init => AloneInv
  BY InitTypes DEF Init, AloneInv, DurableInv, ClaimTrailsCommit, NoClaim, Unlocked
<1>2. AloneInv /\ [Next]_vars => AloneInv'
  BY AloneStep, Claimers = {}
<1>3. AloneInv => ClaimedIsDurable
  BY DEF AloneInv, DurableInv, ClaimTrailsCommit, ClaimedIsDurable
<1> QED
  BY <1>1, <1>2, <1>3, PTL DEF Spec
=============================================================================
