--------------------------- MODULE LongTermMemory ---------------------------
(* Long-term memory as the container runs it: the writers of the mirror table *)
(* (document ingestion and consolidation), the sync, reconciliation and       *)
(* retention workers and erasure requests, interleaved at every await between *)
(* two transactions or provider calls. Several processes of a kind stand for  *)
(* several replicas of the service.                                           *)
EXTENDS VectorSyncWorker, ReconciliationJob, MemoryRetentionJob,
        ConsolidationWorker, UserMemoryEraser

CONSTANT MaxFaults   \* bound: provider calls that raise, database errors and crashes
ASSUME FaultsAssumption == MaxFaults \in Nat

VARIABLE faults      \* how many of them there have been

vars == <<mirrorVars, convVars, sync, rec, ret, con, er, faults>>

TypeOK ==
    /\ MirrorTypeOK /\ ConvTypeOK
    /\ SyncTypeOK /\ RecTypeOK /\ RetTypeOK /\ ConTypeOK /\ ErTypeOK
    /\ faults \in 0 .. MaxFaults

Init == /\ MirrorInit /\ ConvInit
        /\ SyncInit /\ RecInit /\ RetInit /\ ConInit /\ ErInit
        /\ faults = 0

(* Whose step it is: everybody else's local state is untouched.               *)
WriterOrClock == UNCHANGED <<sync, rec, ret, con, er>>
SyncOnly == UNCHANGED <<convVars, rec, ret, con, er>>
RecOnly == UNCHANGED <<convVars, sync, ret, con, er>>
RetOnly == UNCHANGED <<convVars, sync, rec, con, er>>
ConOnly == UNCHANGED <<sync, rec, ret, er>>
ErOnly == UNCHANGED <<sync, rec, ret, con>>

Environment ==
    /\ \/ (RecordDocumentChunk \/ ExpiryPasses) /\ UNCHANGED convVars
       \/ (ConversationGoesIdle \/ TurnsExpire) /\ UNCHANGED mirrorVars
    /\ WriterOrClock

Work ==
    \/ \E w \in SyncWorkers : SyncStep(w) /\ SyncOnly
    \/ \E r \in Reconcilers : ReconciliationStep(r) /\ RecOnly
    \/ \E t \in RetentionJobs : RetentionStep(t) /\ RetOnly
    \/ \E c \in Consolidators : ConsolidationStep(c) /\ ConOnly
    \/ \E e \in Erasers : (CollectMatchedRows(e) \/ ErasureStep(e)) /\ ErOnly

Restart ==
    \/ \E w \in SyncWorkers : SyncRestarts(w) /\ SyncOnly
    \/ \E r \in Reconcilers : ReconciliationRestarts(r) /\ RecOnly
    \/ \E t \in RetentionJobs : RetentionRestarts(t) /\ RetOnly
    \/ \E c \in Consolidators : ConsolidationRestarts(c) /\ ConOnly

ProviderFailure ==
    \/ \E w \in SyncWorkers : (SyncFails(w) \/ BackoffOverflows(w)) /\ SyncOnly
    \/ \E r \in Reconcilers : ReconciliationFails(r) /\ RecOnly
    \/ \E t \in RetentionJobs : RetentionFails(t) /\ RetOnly
    \/ \E c \in Consolidators : ExtractionFails(c) /\ ConOnly
    \/ \E e \in Erasers : ErasureFails(e) /\ ErOnly

Crash ==
    \/ \E w \in SyncWorkers : SyncCrashes(w) /\ SyncOnly
    \/ \E r \in Reconcilers : ReconciliationCrashes(r) /\ RecOnly
    \/ \E t \in RetentionJobs : RetentionCrashes(t) /\ RetOnly
    \/ \E c \in Consolidators : ConsolidationCrashes(c) /\ ConOnly
    \/ \E e \in Erasers : ErasureCrashes(e) /\ ErOnly

Next == \/ (Environment \/ Work \/ Restart) /\ UNCHANGED faults
        \/ /\ ProviderFailure \/ Crash
           /\ faults < MaxFaults /\ faults' = faults + 1

Spec == Init /\ [][Next]_vars

(* asyncio runs every ready task, PostgreSQL grants every free lock, and      *)
(* providers answer: each process takes its next step if it stays enabled.    *)
(* SyncStep and SelectFact are strongly fair: their guard comes and goes with *)
(* the locks of others, which the lock queue, or the next poll, gets past.    *)
(* Nothing makes a dead task restart.                                         *)
Fairness ==
    /\ \A w \in SyncWorkers : SF_vars(SyncStep(w) /\ SyncOnly /\ UNCHANGED faults)
    /\ \A r \in Reconcilers :
          WF_vars(ReconciliationStep(r) /\ RecOnly /\ UNCHANGED faults)
    /\ \A t \in RetentionJobs :
          WF_vars(RetentionStep(t) /\ RetOnly /\ UNCHANGED faults)
    /\ \A c \in Consolidators :
          SF_vars(ConsolidationStep(c) /\ ConOnly /\ UNCHANGED faults)
    /\ \A e \in Erasers : SF_vars(ErasureStep(e) /\ ErOnly /\ UNCHANGED faults)

FairSpec == Spec /\ Fairness
-----------------------------------------------------------------------------
Indexed(m) == \E n \in Namespaces : m \in vectors[n]

(* The rows a sync worker took are live and locked by it until its commit:    *)
(* neither retention (SKIP LOCKED) nor an erasure (which waits) deletes a row *)
(* while its embedding is on the way to the index.                            *)
SyncingRowsStayLive ==
    \A w \in SyncWorkers :
        \A m \in sync[w].todo \cup sync[w].stamped \cup sync[w].failed :
            Live(m) /\ lockedBy[m] = w

(* "Every vector has a mirror row": true of sync, reconciliation, retention   *)
(* and every crash among them, as long as nobody erases a user.               *)
VectorsHaveRows ==
    \A n \in Namespaces : \A m \in vectors[n] : rows[m].state \in {"live", "soft"}

(* A vector appears only while its row is live, before and after the step: a  *)
(* sync never brings back what retention or an erasure has removed.           *)
OnlyLiveRowsArePublished ==
    [][\A n \in Namespaces : \A m \in vectors'[n] \ vectors[n] : Live(m) /\ Live(m)']_vars

(* synced_at is a promise: the vector of a live row that carries it is there. *)
(* A worker stamps a row in a transaction it commits long after the upsert,   *)
(* and no worker looks at the row again. A promise that was kept, or not yet  *)
(* made, is broken by nothing but a deletion of the vector while the row is   *)
(* live: never by a stamp, a failure after the effect, a crash or a race.     *)
Promised(m) == /\ Live(m)
               /\ rows[m].synced \/ \E w \in SyncWorkers : m \in sync[w].stamped
VectorOf(m) == m \in vectors[Namespace(m)]
BrokenPromise(m) == Promised(m) /\ ~VectorOf(m)
StampsFailOnlyWithVectors ==
    [][\A m \in MemoryIds :
          BrokenPromise(m)' => BrokenPromise(m) \/ (Live(m) /\ VectorOf(m))]_vars

(* Who can take the vector of a live row: an erasure, of a row it matched, and *)
(* a reconciliation job, of a row inserted after it had read its ids. Nobody  *)
(* else, whatever fails or crashes.                                           *)
TakenByErasure(m) == \E e \in Erasers : er'[e] # er[e] /\ m \in er[e].matched
TakenAsOrphan(m) ==
    \E r \in Reconcilers :
        rec'[r] # rec[r] /\ m \in rec[r].orphans \ rec[r].inserted
LiveVectorsAreKept ==
    [][\A n \in Namespaces : \A m \in vectors[n] \ vectors'[n] :
          Live(m) => TakenByErasure(m) \/ TakenAsOrphan(m)]_vars

(* "Reconciliation deletes only orphans": no step of a job takes the vector   *)
(* of a row that is live.                                                     *)
ReconciliationDeletesOnlyOrphans ==
    [][\A r \in Reconcilers : rec'[r] # rec[r] =>
          \A n \in Namespaces : \A m \in vectors[n] \ vectors'[n] : ~Live(m)]_vars

(* "Concurrent duplicate promotion creates one active record" per user fact.  *)
OneActiveRowPerFact ==
    \A user \in Users, f \in Facts : Cardinality(ActiveFact(user, f)) <= 1

(* "A duplicate preserves source-turn lineage": whatever record a candidate   *)
(* was promoted to names the candidate's conversation among its sources.      *)
LineagePreserved ==
    \A p \in promotions : rows[p.record].state \in {"live", "soft"}
                             => p.conv \in rows[p.record].sources

(* An erasure collects rows of its own user only, although it also matches by *)
(* lineage: "while preserving other users".                                   *)
ErasureTouchesOwnRowsOnly ==
    \A e \in Erasers : \A m \in er[e].matched :
        Gone(m) \/ rows[m].owner = er[e].user

(* "After EraseUserMemory, zero vectors remain for that owner_user_id": here  *)
(* only for the rows the erasure itself collected and deleted.                *)
ErasedRowsAreUnindexed ==
    \A e \in Erasers : er[e].pc = "done" => \A m \in er[e].matched : ~Indexed(m)

(* A live row is eventually synced, unless it leaves or an erasure locks it   *)
(* first: a failed provider call is retried by a later poll, as long as a     *)
(* worker is alive.                                                           *)
EveryRowIsSynced ==
    \A m \in MemoryIds :
        Live(m) /\ ~rows[m].synced
            ~> \/ rows[m].synced \/ ~Live(m) \/ lockedBy[m] \in Erasers
               \/ \A w \in SyncWorkers : sync[w].pc = "dead"

(* What expired is eventually out of the table and out of the index, unless   *)
(* the job has died: nothing in the code restarts it.                         *)
ExpiredMemoryIsPurged ==
    \A m \in MemoryIds :
        rows[m].expiry = "passed"
            ~> \/ Gone(m) /\ ~Indexed(m)
               \/ \A t \in RetentionJobs : ret[t].pc = "dead"

(* A vector whose row is gone is eventually swept, unless the job has died.   *)
OrphansAreSwept ==
    \A m \in MemoryIds :
        Gone(m) /\ Indexed(m)
            ~> ~Indexed(m) \/ \A r \in Reconcilers : rec[r].pc = "dead"

(* An erasure request that begins comes to an end.                            *)
ErasureCompletes ==
    \A e \in Erasers : er[e].pc = "vectors" ~> er[e].pc \in {"done", "idle"}

(* An idle conversation is eventually consolidated, or erased, unless every   *)
(* worker has died.                                                           *)
IdleConversationsAreConsolidated ==
    \A v \in Convs :
        convs[v] = "idle"
            ~> \/ convs[v] \in {"consolidated", "gone"}
               \/ \A c \in Consolidators : con[c].pc = "dead"

(* Long-term memory implements the mirrored index: with the promise that      *)
(* every vector has its row where there are no erasures, else without it.     *)
Mirror == INSTANCE MirroredIndex
              WITH Ids <- MemoryIds,
                   Erasing <- Erasers # {},
                   state <- [m \in MemoryIds |-> rows[m].state],
                   index <- {m \in MemoryIds : Indexed(m)}
ImplementsMirroredIndex == Mirror!Spec
=============================================================================
