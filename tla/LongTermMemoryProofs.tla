------------------------ MODULE LongTermMemoryProofs ------------------------
(* Proofs about LongTermMemory for any number of rows, users, conversations   *)
(* and processes: its types, the fate of the rows a sync worker has locked,   *)
(* and, where nobody erases, the refinement of MirroredIndex.                 *)
EXTENDS LongTermMemory, TLAPS

(* A row whose embedding failed in this pass was below the retry bound, and   *)
(* is still: its lock keeps other workers from counting the same failure.     *)
FailedRowsMayRetry ==
    \A w \in SyncWorkers : \A m \in sync[w].failed : rows[m].retries < MaxBackoffExponent

(* What a promotion needs is known by the time it needs it.                   *)
PromotionHasItsParts ==
    \A c \in Consolidators :
        /\ con[c].pc \in {"promote", "insert", "reselect", "mark"} => con[c].conv \in Convs
        /\ con[c].pc \in {"insert", "reselect", "mark"} => con[c].fact \in Facts
        /\ con[c].pc = "mark" => con[c].record \in MemoryIds

(* TypeOK and SyncingRowsStayLive lean on each other, so they are proved as one. *)
IInv == TypeOK /\ SyncingRowsStayLive /\ FailedRowsMayRetry /\ PromotionHasItsParts
-----------------------------------------------------------------------------
(* Helpers on rows stay within the type of rows.                              *)

(* Every insertion of the repositories yields a well-formed row.              *)
LEMMA InsertedRowType ==
    ASSUME NEW kind \in Kinds, NEW owner \in Users \cup {NoOwner},
           NEW fact \in Facts \cup {NoFact}, NEW sources \in SUBSET Convs,
           NEW expiry \in {"never", "ahead", "passed"}
    PROVE  InsertedRow(kind, owner, fact, sources, expiry) \in Row
BY BackoffAssumption DEF InsertedRow, Row, RowStates, Kinds

(* Rows change one field at a time.                                           *)
LEMMA RowUpdateType ==
    ASSUME NEW row \in Row
    PROVE  /\ \A s \in RowStates : [row EXCEPT !.state = s] \in Row
           /\ [row EXCEPT !.expiry = "passed"] \in Row
           /\ [row EXCEPT !.synced = TRUE] \in Row
           /\ \A k \in 0 .. MaxBackoffExponent : [row EXCEPT !.retries = k] \in Row
           /\ \A S \in SUBSET Convs : [row EXCEPT !.sources = S] \in Row
BY DEF Row

(* The slot of a row that was never inserted is well-formed.                  *)
LEMMA UnusedRowType == UnusedRow \in Row
<1>1. InsertedRow("document_chunk", NoOwner, NoFact, {}, "never") \in Row
  BY InsertedRowType DEF Kinds
<1> QED BY <1>1, RowUpdateType DEF UnusedRow, RowStates

(* So is that of a deleted row.                                               *)
LEMMA DeletedRowType == ASSUME NEW row \in Row PROVE DeletedRow(row) \in Row
<1>1. [UnusedRow EXCEPT !.state = "gone"] \in Row
  BY UnusedRowType, RowUpdateType DEF RowStates
<1>2. DeletedRow(row) = [[UnusedRow EXCEPT !.state = "gone"]
                            EXCEPT !.kind = row.kind, !.owner = row.owner]
  BY UnusedRowType DEF DeletedRow, Row
<1> QED BY <1>1, <1>2 DEF Row

(* A vector lives under the namespace of its row's kind.                      *)
LEMMA NamespaceType == ASSUME NEW m PROVE Namespace(m) \in Namespaces
BY DEF Namespace, NamespaceFor, Namespaces

(* The hard delete of a set of rows keeps the table well-formed.              *)
LEMMA DeleteRowsType ==
    ASSUME NEW S, rows \in [MemoryIds -> Row], DeleteRowsOf(S)
    PROVE  rows' \in [MemoryIds -> Row]
BY DeletedRowType DEF DeleteRowsOf

(* Ending a transaction releases its locks and no others.                     *)
LEMMA ReleaseLocksType ==
    ASSUME NEW s, lockedBy \in [MemoryIds -> SyncWorkers \cup Erasers \cup {Nobody}],
           ReleaseLocks(s)
    PROVE  /\ lockedBy' \in [MemoryIds -> SyncWorkers \cup Erasers \cup {Nobody}]
           /\ \A m \in MemoryIds : lockedBy[m] # s => lockedBy'[m] = lockedBy[m]
BY DEF ReleaseLocks

(* Deleting ids from a namespace only takes vectors away.                     *)
LEMMA DeleteIdsType ==
    ASSUME NEW n \in Namespaces, NEW S, vectors \in [Namespaces -> SUBSET MemoryIds],
           DeleteIds(n, S)
    PROVE  vectors' \in [Namespaces -> SUBSET MemoryIds]
BY DEF DeleteIds
-----------------------------------------------------------------------------
(* What the table, its locks and the passes of the sync workers owe to each   *)
(* other, apart from the types.                                               *)
SyncInv == /\ MirrorTypeOK /\ SyncTypeOK
           /\ SyncingRowsStayLive /\ FailedRowsMayRetry

(* The rows a sync worker took are safe from whoever leaves locked rows, and  *)
(* the locks of sync workers, alone.                                          *)
LEMMA LockedRowsKept ==
    ASSUME SyncInv, sync' = sync, MirrorTypeOK',
           \A m \in MemoryIds : lockedBy[m] \in SyncWorkers /\ Live(m) =>
               /\ Live(m)' /\ rows'[m].retries = rows[m].retries
               /\ lockedBy'[m] = lockedBy[m]
    PROVE  SyncInv'
<1>1. \A w \in SyncWorkers : sync[w].todo \cup sync[w].stamped \cup sync[w].failed
                                 \subseteq MemoryIds
  BY DEF SyncInv, SyncTypeOK, SyncLocal
<1> QED
  BY <1>1 DEF SyncInv, SyncTypeOK, SyncingRowsStayLive, FailedRowsMayRetry, Live

(* A step of worker w that leaves alone what other workers have locked keeps  *)
(* the invariant if w itself keeps it.                                        *)
LEMMA OthersKept ==
    ASSUME SyncInv, NEW w \in SyncWorkers, MirrorTypeOK', SyncTypeOK',
           \A v \in SyncWorkers : v # w => sync'[v] = sync[v],
           \A m \in MemoryIds : lockedBy[m] \in SyncWorkers \ {w} =>
               rows'[m] = rows[m] /\ lockedBy'[m] = lockedBy[m],
           \A m \in sync'[w].todo \cup sync'[w].stamped \cup sync'[w].failed :
               Live(m)' /\ lockedBy'[m] = w,
           \A m \in sync'[w].failed : rows'[m].retries < MaxBackoffExponent
    PROVE  SyncInv'
<1>1. \A v \in SyncWorkers : sync[v].todo \cup sync[v].stamped \cup sync[v].failed
                                 \subseteq MemoryIds
  BY DEF SyncInv, SyncTypeOK, SyncLocal
<1>2. ASSUME NEW v \in SyncWorkers, v # w,
             NEW m \in sync[v].todo \cup sync[v].stamped \cup sync[v].failed
      PROVE  Live(m) /\ lockedBy[m] = v /\ rows'[m] = rows[m] /\ lockedBy'[m] = v
  BY <1>1, <1>2 DEF SyncInv, SyncingRowsStayLive
<1>3. SyncingRowsStayLive'
  BY <1>2 DEF SyncingRowsStayLive, Live
<1>4. FailedRowsMayRetry'
  BY <1>2 DEF SyncInv, FailedRowsMayRetry
<1> QED BY <1>3, <1>4 DEF SyncInv

(* A worker between two passes holds nothing.                                 *)
LEMMA IdleSyncType ==
    /\ IdleSync \in SyncLocal
    /\ IdleSync.todo = {} /\ IdleSync.stamped = {} /\ IdleSync.failed = {}
    /\ [IdleSync EXCEPT !.pc = "dead"] \in SyncLocal
    /\ [IdleSync EXCEPT !.pc = "dead"].todo = {}
    /\ [IdleSync EXCEPT !.pc = "dead"].stamped = {}
    /\ [IdleSync EXCEPT !.pc = "dead"].failed = {}
BY DEF IdleSync, SyncLocal

(* A poll takes rows that are live and locked by nobody.                      *)
LEMMA PollPreserves ==
    ASSUME SyncInv, NEW w \in SyncWorkers, PollUnsynced(w)
    PROVE  SyncInv'
<1> DEFINE batch == FirstOf(SyncCandidates, SyncBatchSize)
<1>1. batch \subseteq MemoryIds /\ \A m \in batch : Live(m) /\ Unlocked(m)
  BY DEF FirstOf, SyncCandidates
<1>2. /\ lockedBy' = [m \in MemoryIds |-> IF m \in batch THEN w ELSE lockedBy[m]]
      /\ sync' = [sync EXCEPT ![w] = [IdleSync EXCEPT !.pc = "syncing", !.todo = batch]]
      /\ UNCHANGED <<rows, vectors, promotions>>
  BY DEF PollUnsynced
<1> HIDE DEF batch
<1>3. /\ [IdleSync EXCEPT !.pc = "syncing", !.todo = batch] \in SyncLocal
      /\ [IdleSync EXCEPT !.pc = "syncing", !.todo = batch].todo = batch
      /\ [IdleSync EXCEPT !.pc = "syncing", !.todo = batch].stamped = {}
      /\ [IdleSync EXCEPT !.pc = "syncing", !.todo = batch].failed = {}
  BY <1>1, IdleSyncType DEF SyncLocal
<1>4. MirrorTypeOK' /\ SyncTypeOK'
  BY <1>1, <1>2, <1>3 DEF SyncInv, MirrorTypeOK, SyncTypeOK
<1>5. \A v \in SyncWorkers : v # w => sync'[v] = sync[v]
  BY <1>2 DEF SyncInv, SyncTypeOK
<1>6. sync'[w].todo = batch /\ sync'[w].stamped = {} /\ sync'[w].failed = {}
  BY <1>2, <1>3 DEF SyncInv, SyncTypeOK
<1>7. \A m \in MemoryIds : lockedBy[m] \in SyncWorkers =>
          rows'[m] = rows[m] /\ lockedBy'[m] = lockedBy[m]
  BY <1>1, <1>2, SessionsAssumption DEF Unlocked
<1>8. \A m \in batch : Live(m)' /\ lockedBy'[m] = w
  BY <1>1, <1>2 DEF Live
<1> QED BY <1>4, <1>5, <1>6, <1>7, <1>8, OthersKept

(* One call to the providers moves one row out of todo: to stamped or failed. *)
LEMMA ProviderCallPreserves ==
    ASSUME SyncInv, NEW w \in SyncWorkers, EmbedAndUpsert(w) \/ SyncFails(w)
    PROVE  SyncInv'
<1>1. PICK m \in MemoryIds :
          /\ NextToSync(w, m)
          /\ vectors' = vectors \/ vectors' = [vectors EXCEPT ![Namespace(m)] = @ \cup {m}]
          /\ \/ sync' = [sync EXCEPT ![w].todo = @ \ {m}, ![w].stamped = @ \cup {m}]
             \/ /\ sync' = [sync EXCEPT ![w].todo = @ \ {m}, ![w].failed = @ \cup {m}]
                /\ rows[m].retries < MaxBackoffExponent
  BY DEF EmbedAndUpsert, SyncFails
<1>2. UNCHANGED <<rows, lockedBy, promotions>>
  BY DEF EmbedAndUpsert, SyncFails
<1>3. m \in sync[w].todo
  BY <1>1 DEF NextToSync, FirstOf
<1>4. MirrorTypeOK'
  BY <1>1, <1>2, NamespaceType DEF SyncInv, MirrorTypeOK
<1>5. SyncTypeOK' /\ \A v \in SyncWorkers : v # w => sync'[v] = sync[v]
  BY <1>1 DEF SyncInv, SyncTypeOK, SyncLocal
<1>6. /\ sync'[w].todo \cup sync'[w].stamped \cup sync'[w].failed
            \subseteq sync[w].todo \cup sync[w].stamped \cup sync[w].failed
      /\ sync'[w].failed = sync[w].failed
            \/ /\ sync'[w].failed = sync[w].failed \cup {m}
               /\ rows[m].retries < MaxBackoffExponent
  BY <1>1, <1>3 DEF SyncInv, SyncTypeOK, SyncLocal
<1>7. \A k \in sync'[w].todo \cup sync'[w].stamped \cup sync'[w].failed :
          Live(k)' /\ lockedBy'[k] = w
  BY <1>2, <1>6 DEF SyncInv, SyncingRowsStayLive, Live
<1>8. \A k \in sync'[w].failed : rows'[k].retries < MaxBackoffExponent
  BY <1>2, <1>6 DEF SyncInv, FailedRowsMayRetry
<1> QED BY <1>2, <1>4, <1>5, <1>7, <1>8, OthersKept

(* A pass that ends, by its commit or by an exception, leaves no row behind.  *)
LEMMA PassEndPreserves ==
    ASSUME SyncInv, NEW w \in SyncWorkers, CommitSync(w) \/ SyncAborts(w)
    PROVE  SyncInv'
<1>1. ReleaseLocks(w) /\ UNCHANGED <<vectors, promotions>>
  BY DEF CommitSync, SyncAborts
<1>2. rows' \in [MemoryIds -> Row]
  <2>1. CASE CommitSync(w)
    <3>1. ASSUME NEW m \in sync[w].failed
          PROVE  rows[m].retries + 1 \in 0 .. MaxBackoffExponent
      BY BackoffAssumption, <3>1
         DEF SyncInv, FailedRowsMayRetry, MirrorTypeOK, SyncTypeOK, SyncLocal, Row
    <3> QED
      BY <2>1, <3>1, RowUpdateType DEF CommitSync, SyncInv, MirrorTypeOK
  <2>2. CASE SyncAborts(w)
    BY <2>2 DEF SyncAborts, SyncInv, MirrorTypeOK
  <2> QED BY <2>1, <2>2
<1>3. MirrorTypeOK'
  BY <1>1, <1>2, ReleaseLocksType DEF SyncInv, MirrorTypeOK
<1>4. \/ sync' = [sync EXCEPT ![w] = IdleSync]
      \/ sync' = [sync EXCEPT ![w] = [IdleSync EXCEPT !.pc = "dead"]]
  BY DEF CommitSync, SyncAborts
<1>5. /\ SyncTypeOK' /\ \A v \in SyncWorkers : v # w => sync'[v] = sync[v]
      /\ sync'[w].todo = {} /\ sync'[w].stamped = {} /\ sync'[w].failed = {}
  BY <1>4, IdleSyncType DEF SyncInv, SyncTypeOK
<1>6. ASSUME NEW m \in MemoryIds, lockedBy[m] \in SyncWorkers \ {w}
      PROVE  rows'[m] = rows[m] /\ lockedBy'[m] = lockedBy[m]
  <2>1. m \notin sync[w].stamped \cup sync[w].failed
    BY <1>6 DEF SyncInv, SyncingRowsStayLive
  <2> QED
    BY <1>1, <1>6, <2>1, ReleaseLocksType
       DEF CommitSync, SyncAborts, SyncInv, MirrorTypeOK
<1> QED BY <1>3, <1>5, <1>6, OthersKept

(* A restarted worker starts between two passes.                              *)
LEMMA SyncRestartPreserves ==
    ASSUME SyncInv, NEW w \in SyncWorkers, SyncRestarts(w)
    PROVE  SyncInv'
<1>1. sync' = [sync EXCEPT ![w] = IdleSync] /\ UNCHANGED mirrorVars
  BY DEF SyncRestarts
<1>2. MirrorTypeOK'
  BY <1>1 DEF SyncInv, MirrorTypeOK, mirrorVars
<1>3. /\ SyncTypeOK' /\ \A v \in SyncWorkers : v # w => sync'[v] = sync[v]
      /\ sync'[w].todo = {} /\ sync'[w].stamped = {} /\ sync'[w].failed = {}
  BY <1>1, IdleSyncType DEF SyncInv, SyncTypeOK
<1> QED BY <1>1, <1>2, <1>3, OthersKept DEF mirrorVars

(* The steps of the sync workers, together.                                   *)
SyncAction(w) == \/ SyncStep(w) \/ SyncFails(w) \/ BackoffOverflows(w)
                 \/ SyncCrashes(w) \/ SyncRestarts(w)

LEMMA SyncPreserves ==
    ASSUME SyncInv, NEW w \in SyncWorkers, SyncAction(w)
    PROVE  SyncInv'
BY PollPreserves, ProviderCallPreserves, PassEndPreserves, SyncRestartPreserves
   DEF SyncAction, SyncStep, BackoffOverflows, SyncCrashes
-----------------------------------------------------------------------------
(* Reconciliation touches the index alone.                                    *)
RecAction(r) == \/ ReconciliationStep(r) \/ ReconciliationFails(r)
                \/ ReconciliationCrashes(r) \/ ReconciliationRestarts(r)

LEMMA IdleRecType ==
    /\ IdleRec \in RecLocal
    /\ [IdleRec EXCEPT !.pc = "dead"] \in RecLocal
    /\ \A A, I \in SUBSET MemoryIds :
          [IdleRec EXCEPT !.pc = "list", !.active = A, !.inserted = I,
                          !.todo = Namespaces] \in RecLocal
<1>1. IdleRec \in RecLocal
  BY DEF IdleRec, RecLocal, Namespaces
<1> QED BY <1>1 DEF RecLocal

LEMMA ReconciliationPreserves ==
    ASSUME SyncInv, RecTypeOK, sync' = sync, NEW r \in Reconcilers, RecAction(r)
    PROVE  SyncInv' /\ RecTypeOK'
<1>1. /\ UNCHANGED <<rows, lockedBy, promotions>>
      /\ vectors' \in [Namespaces -> SUBSET MemoryIds]
      /\ RecTypeOK'
  <2>1. CASE ReadActiveIds(r)
    <3>1. {m \in MemoryIds : Live(m)} \in SUBSET MemoryIds /\ Inserted \in SUBSET MemoryIds
      BY DEF Inserted
    <3> QED
      BY <2>1, <3>1, IdleRecType
         DEF ReadActiveIds, Reading, RecTypeOK, SyncInv, MirrorTypeOK, mirrorVars
  <2>2. CASE ListOrphans(r)
    <3>1. PICK n \in rec[r].todo, S \in SUBSET MemoryIds :
            rec' = [rec EXCEPT ![r].pc = IF S = {} THEN "list" ELSE "delete",
                               ![r].todo = @ \ {n},
                               ![r].namespace = n,
                               ![r].orphans = S]
      BY <2>2 DEF ListOrphans, RecTypeOK, RecLocal, SyncInv, MirrorTypeOK
    <3> DEFINE pc == IF S = {} THEN "list" ELSE "delete"
    <3>2. pc \in {"idle", "list", "delete", "dead"} /\ n \in Namespaces
      BY DEF RecTypeOK, RecLocal
    <3>3. rec' = [rec EXCEPT ![r].pc = pc, ![r].todo = @ \ {n},
                             ![r].namespace = n, ![r].orphans = S]
      BY <3>1
    <3> HIDE DEF pc
    <3>4. RecTypeOK'
      BY <3>2, <3>3 DEF RecTypeOK, RecLocal
    <3> QED
      BY <2>2, <3>4 DEF ListOrphans, SyncInv, MirrorTypeOK, mirrorVars
  <2>3. CASE DeleteOrphans(r)
    <3>1. rec[r].namespace \in Namespaces
      BY DEF RecTypeOK, RecLocal
    <3>2. vectors' \in [Namespaces -> SUBSET MemoryIds]
      BY <2>3, <3>1, DeleteIdsType DEF DeleteOrphans, SyncInv, MirrorTypeOK
    <3>3. RecTypeOK'
      BY <2>3 DEF DeleteOrphans, RecTypeOK, RecLocal
    <3> QED
      BY <2>3, <3>2, <3>3 DEF DeleteOrphans
  <2>4. CASE \/ FinishReconciliation(r) \/ ReconciliationFails(r)
             \/ ReconciliationCrashes(r) \/ ReconciliationRestarts(r)
    BY <2>4, IdleRecType
       DEF FinishReconciliation, ReconciliationFails, ReconciliationCrashes,
           ReconciliationRestarts, ReconciliationAborts, RecTypeOK, SyncInv,
           MirrorTypeOK, mirrorVars
  <2> QED BY <2>1, <2>2, <2>3, <2>4 DEF RecAction, ReconciliationStep
<1>2. MirrorTypeOK'
  BY <1>1 DEF SyncInv, MirrorTypeOK
<1> QED BY <1>1, <1>2, LockedRowsKept DEF Live
-----------------------------------------------------------------------------
(* Retention changes rows that nobody has locked.                             *)
RetAction(t) == \/ RetentionStep(t) \/ RetentionFails(t)
                \/ RetentionCrashes(t) \/ RetentionRestarts(t)

LEMMA IdleRetType ==
    /\ IdleRet \in RetLocal
    /\ [IdleRet EXCEPT !.pc = "dead"] \in RetLocal
    /\ [IdleRet EXCEPT !.pc = "candidates"] \in RetLocal
<1>1. IdleRet \in RetLocal
  BY DEF IdleRet, RetLocal
<1> QED BY <1>1 DEF RetLocal

LEMMA RetentionPreserves ==
    ASSUME SyncInv, RetTypeOK, sync' = sync, NEW t \in RetentionJobs, RetAction(t)
    PROVE  SyncInv' /\ RetTypeOK'
<1>1. CASE SoftDeleteExpired(t)
  <2> DEFINE batch == FirstOf(ExpiredRows, RetentionBatchSize)
  <2>1. batch \subseteq MemoryIds /\ \A m \in batch : Unlocked(m)
    BY DEF FirstOf, ExpiredRows
  <2>2. /\ rows' = [m \in MemoryIds |->
                      IF m \in batch THEN [rows[m] EXCEPT !.state = "soft"] ELSE rows[m]]
        /\ ret' = [ret EXCEPT ![t].pc = "select"]
        /\ UNCHANGED <<vectors, lockedBy, promotions>>
    BY <1>1 DEF SoftDeleteExpired
  <2> HIDE DEF batch
  <2>3. MirrorTypeOK' /\ RetTypeOK'
    BY <2>2, RowUpdateType DEF SyncInv, MirrorTypeOK, RowStates, RetTypeOK, RetLocal
  <2>4. \A m \in MemoryIds : lockedBy[m] \in SyncWorkers =>
            rows'[m] = rows[m] /\ lockedBy'[m] = lockedBy[m]
    BY <2>1, <2>2, SessionsAssumption DEF Unlocked
  <2> QED BY <2>3, <2>4, LockedRowsKept DEF Live
<1>2. CASE SelectSoftDeleted(t)
  <2>1. PICK batch \in SUBSET MemoryIds :
          ret' = [ret EXCEPT ![t] =
                    [pc |-> IF batch = {} THEN "candidates" ELSE "vectors",
                     batch |-> batch, todo |-> {Namespace(m) : m \in batch}]]
    BY <1>2 DEF SelectSoftDeleted, LimitedTo, SoftDeletedRows
  <2>2. {Namespace(m) : m \in batch} \subseteq Namespaces
    BY NamespaceType
  <2>3. RetTypeOK'
    BY <2>1, <2>2 DEF RetTypeOK, RetLocal
  <2>4. UNCHANGED mirrorVars
    BY <1>2 DEF SelectSoftDeleted
  <2>5. MirrorTypeOK'
    BY <2>4 DEF SyncInv, MirrorTypeOK, mirrorVars
  <2> QED BY <2>3, <2>4, <2>5, LockedRowsKept DEF Live, mirrorVars
<1>3. CASE DeleteExpiredVectors(t)
  <2>1. PICK n \in ret[t].todo :
          /\ DeleteIds(n, ret[t].batch)
          /\ ret' = [ret EXCEPT ![t].todo = @ \ {n},
                                ![t].pc = IF ret[t].todo = {n} THEN "rows" ELSE "vectors"]
    BY <1>3 DEF DeleteExpiredVectors
  <2>2. n \in Namespaces /\ RetTypeOK'
    BY <2>1 DEF RetTypeOK, RetLocal
  <2>3. UNCHANGED <<rows, lockedBy, promotions>>
    BY <1>3 DEF DeleteExpiredVectors
  <2>4. MirrorTypeOK'
    BY <2>1, <2>2, <2>3, DeleteIdsType DEF SyncInv, MirrorTypeOK
  <2> QED BY <2>2, <2>3, <2>4, LockedRowsKept DEF Live
<1>4. CASE DeleteExpiredRows(t)
  <2>1. /\ \A m \in ret[t].batch : Unlocked(m)
        /\ DeleteRowsOf(ret[t].batch)
        /\ UNCHANGED <<vectors, lockedBy, promotions>>
        /\ RetTypeOK'
    BY <1>4, IdleRetType DEF DeleteExpiredRows, RetTypeOK
  <2>2. MirrorTypeOK'
    BY <2>1, DeleteRowsType DEF SyncInv, MirrorTypeOK
  <2>3. \A m \in MemoryIds : lockedBy[m] \in SyncWorkers =>
            rows'[m] = rows[m] /\ lockedBy'[m] = lockedBy[m]
    BY <2>1, SessionsAssumption DEF Unlocked, DeleteRowsOf
  <2> QED BY <2>1, <2>2, <2>3, LockedRowsKept DEF Live
<1>5. CASE DeleteExpiredCandidates(t)
  <2>1. /\ promotions' \subseteq promotions /\ UNCHANGED <<rows, vectors, lockedBy>>
        /\ RetTypeOK'
    BY <1>5, IdleRetType DEF DeleteExpiredCandidates, RetTypeOK
  <2>2. MirrorTypeOK'
    BY <2>1 DEF SyncInv, MirrorTypeOK
  <2> QED BY <2>1, <2>2, LockedRowsKept DEF Live
<1>6. CASE RetentionFails(t) \/ RetentionCrashes(t) \/ RetentionRestarts(t)
  <2>1. UNCHANGED mirrorVars /\ RetTypeOK'
    BY <1>6, IdleRetType
       DEF RetentionFails, RetentionCrashes, RetentionRestarts, RetentionAborts, RetTypeOK
  <2>2. MirrorTypeOK'
    BY <2>1 DEF SyncInv, MirrorTypeOK, mirrorVars
  <2> QED BY <2>1, <2>2, LockedRowsKept DEF Live, mirrorVars
<1> QED BY <1>1, <1>2, <1>3, <1>4, <1>5, <1>6 DEF RetAction, RetentionStep
-----------------------------------------------------------------------------
(* Consolidation inserts fresh rows, and adds lineage to rows no one locks.   *)
ConAction(c) == \/ ConsolidationStep(c) \/ ExtractionFails(c)
                \/ ConsolidationCrashes(c) \/ ConsolidationRestarts(c)

ConInv == ConvTypeOK /\ ConTypeOK /\ PromotionHasItsParts

(* One step of consolidator c keeps its invariant if its new local state has  *)
(* the parts its new place calls for.                                         *)
LEMMA ConsolidatorMoves ==
    ASSUME ConInv, NEW c \in Consolidators, NEW local \in ConLocal,
           con' = [con EXCEPT ![c] = local],
           local.pc \in {"promote", "insert", "reselect", "mark"} => local.conv \in Convs,
           local.pc \in {"insert", "reselect", "mark"} => local.fact \in Facts,
           local.pc = "mark" => local.record \in MemoryIds
    PROVE  ConTypeOK' /\ PromotionHasItsParts'
BY DEF ConInv, ConTypeOK, PromotionHasItsParts

LEMMA IdleConType ==
    /\ IdleCon \in ConLocal /\ IdleCon.pc = "idle"
    /\ [IdleCon EXCEPT !.pc = "dead"] \in ConLocal
    /\ [IdleCon EXCEPT !.pc = "dead"].pc = "dead"
    /\ \A B \in SUBSET Convs :
          LET local == [IdleCon EXCEPT !.pc = "extract", !.batch = B, !.todo = B]
          IN  local \in ConLocal /\ local.pc = "extract"
<1>1. IdleCon \in ConLocal /\ IdleCon.pc = "idle"
  BY MaxRecordsAssumption DEF IdleCon, ConLocal
<1> QED BY <1>1 DEF ConLocal

(* The steps that work on the batch, around the promotion of one fact.        *)
LEMMA BatchStepPreserves ==
    ASSUME ConInv, NEW c \in Consolidators,
           \/ PickConversations(c) \/ SkipTurnless(c) \/ ExtractFacts(c)
           \/ FinishConversation(c) \/ CommitConsolidation(c)
           \/ ConsolidationAborts(c) \/ ConsolidationRestarts(c)
    PROVE  ConInv' /\ UNCHANGED mirrorVars
<1>1. ConTypeOK' /\ PromotionHasItsParts'
  <2>1. CASE PickConversations(c)
    <3>1. PICK B \in SUBSET Convs :
            con' = [con EXCEPT ![c] =
                      [IdleCon EXCEPT !.pc = "extract", !.batch = B, !.todo = B]]
      BY <2>1 DEF PickConversations, LimitedTo, IdleConversations
    <3> QED BY <3>1, IdleConType, ConsolidatorMoves
  <2>2. CASE SkipTurnless(c)
    <3>1. PICK v \in Convs : con' = [con EXCEPT ![c] = [con[c] EXCEPT !.todo = @ \ {v}]]
      BY <2>2 DEF SkipTurnless, ConInv, ConTypeOK, ConLocal
    <3>2. con[c].pc = "extract"
      BY <2>2 DEF SkipTurnless
    <3>3. /\ [con[c] EXCEPT !.todo = @ \ {v}] \in ConLocal
          /\ [con[c] EXCEPT !.todo = @ \ {v}].pc = "extract"
      BY <3>2 DEF ConInv, ConTypeOK, ConLocal
    <3> QED BY <3>1, <3>3, ConsolidatorMoves
  <2>3. CASE ExtractFacts(c)
    <3>1. PICK v \in con[c].todo \cap turns, A \in SUBSET Facts :
            con' = [con EXCEPT ![c] = [con[c] EXCEPT !.pc = "promote", !.conv = v,
                                          !.facts = A, !.todo = con[c].todo \ {v}]]
      BY <2>3 DEF ExtractFacts
    <3> DEFINE local == [con[c] EXCEPT !.pc = "promote", !.conv = v,
                                       !.facts = A, !.todo = con[c].todo \ {v}]
    <3>2. v \in Convs
      BY DEF ConInv, ConTypeOK, ConLocal
    <3>3. local \in ConLocal /\ local.pc = "promote" /\ local.conv \in Convs
      BY <3>2 DEF ConInv, ConTypeOK, ConLocal
    <3> QED BY <3>1, <3>3, ConsolidatorMoves
  <2>4. CASE FinishConversation(c)
    <3>1. con' = [con EXCEPT ![c] = [con[c] EXCEPT !.pc = "extract", !.conv = NoConv]]
      BY <2>4 DEF FinishConversation, ConInv, ConTypeOK
    <3>2. /\ [con[c] EXCEPT !.pc = "extract", !.conv = NoConv] \in ConLocal
          /\ [con[c] EXCEPT !.pc = "extract", !.conv = NoConv].pc = "extract"
      BY DEF ConInv, ConTypeOK, ConLocal
    <3> QED BY <3>1, <3>2, ConsolidatorMoves
  <2>5. CASE \/ CommitConsolidation(c) \/ ConsolidationAborts(c)
             \/ ConsolidationRestarts(c)
    BY <2>5, IdleConType, ConsolidatorMoves
       DEF CommitConsolidation, ConsolidationAborts, ConsolidationRestarts
  <2> QED BY <2>1, <2>2, <2>3, <2>4, <2>5
<1>2. ConvTypeOK' /\ UNCHANGED mirrorVars
  <2>1. UNCHANGED <<mirrorVars, turns, checkpoints>>
    BY DEF PickConversations, SkipTurnless, ExtractFacts, FinishConversation,
           CommitConsolidation, ConsolidationAborts, ConsolidationRestarts, convVars
  <2>2. convs' \in [Convs -> {"none", "idle", "consolidated", "gone"}]
    BY DEF PickConversations, SkipTurnless, ExtractFacts, FinishConversation,
           CommitConsolidation, ConsolidationAborts, ConsolidationRestarts, convVars,
           ConInv, ConvTypeOK
  <2>3. convLock' \in [Convs -> Consolidators \cup {Nobody}]
    BY DEF PickConversations, SkipTurnless, ExtractFacts, FinishConversation,
           CommitConsolidation, ConsolidationAborts, ConsolidationRestarts, convVars,
           ConInv, ConvTypeOK
  <2> QED BY <2>1, <2>2, <2>3 DEF ConInv, ConvTypeOK
<1> QED BY <1>1, <1>2 DEF ConInv

(* The partial unique index keeps the lookups to one row; which one is the    *)
(* database's affair, and its lock is free.                                   *)
LEMMA ActiveFactType ==
    ASSUME NEW user, NEW f, NEW m \in ActiveFact(user, f)
    PROVE  m \in MemoryIds /\ Live(m)
BY DEF ActiveFact

(* A fact that is already known gains a source; the row's lock is free.       *)
LEMMA SelectPreserves ==
    ASSUME SyncInv, ConInv, sync' = sync, NEW c \in Consolidators, SelectFact(c)
    PROVE  SyncInv' /\ ConInv'
<1>1. PICK f \in con[c].facts :
          LET active == ActiveFact(ConvOwner[con[c].conv], f) IN
          \/ /\ con' = [con EXCEPT ![c] = [con[c] EXCEPT !.pc = "insert", !.fact = f]]
             /\ UNCHANGED rows
          \/ \E m \in active :
                /\ Unlocked(m)
                /\ rows' = [rows EXCEPT ![m].sources = @ \cup {con[c].conv}]
                /\ con' = [con EXCEPT ![c] =
                             [con[c] EXCEPT !.pc = "mark", !.fact = f, !.record = m]]
  BY DEF SelectFact
<1>2. con[c].pc = "promote" /\ con[c].conv \in Convs /\ f \in Facts
  BY DEF SelectFact, ConInv, PromotionHasItsParts, ConTypeOK, ConLocal
<1>3. UNCHANGED <<vectors, lockedBy, promotions, convVars>>
  BY DEF SelectFact
<1>4. ConvTypeOK'
  BY <1>3 DEF ConInv, ConvTypeOK, convVars
<1>5. CASE /\ con' = [con EXCEPT ![c] = [con[c] EXCEPT !.pc = "insert", !.fact = f]]
           /\ UNCHANGED rows
  <2> DEFINE local == [con[c] EXCEPT !.pc = "insert", !.fact = f]
  <2>1. /\ local \in ConLocal /\ local.pc = "insert"
        /\ local.conv \in Convs /\ local.fact \in Facts
    BY <1>2 DEF ConInv, ConTypeOK, ConLocal
  <2>2. ConTypeOK' /\ PromotionHasItsParts'
    BY <1>5, <2>1, ConsolidatorMoves
  <2>3. MirrorTypeOK'
    BY <1>3, <1>5 DEF SyncInv, MirrorTypeOK
  <2> QED BY <1>3, <1>4, <1>5, <2>2, <2>3, LockedRowsKept DEF ConInv, Live
<1>6. ASSUME NEW m \in ActiveFact(ConvOwner[con[c].conv], f), Unlocked(m),
             rows' = [rows EXCEPT ![m].sources = @ \cup {con[c].conv}],
             con' = [con EXCEPT ![c] =
                       [con[c] EXCEPT !.pc = "mark", !.fact = f, !.record = m]]
      PROVE  SyncInv' /\ ConInv'
  <2> DEFINE local == [con[c] EXCEPT !.pc = "mark", !.fact = f, !.record = m]
  <2>1. m \in MemoryIds
    BY <1>6, ActiveFactType
  <2>2. m \in 0 .. MaxRecords
    BY <2>1, MaxRecordsAssumption DEF MemoryIds
  <2>3. /\ local \in ConLocal /\ local.pc = "mark" /\ local.conv \in Convs
        /\ local.fact \in Facts /\ local.record \in MemoryIds
    BY <1>2, <2>1, <2>2 DEF ConInv, ConTypeOK, ConLocal
  <2>4. ConTypeOK' /\ PromotionHasItsParts'
    BY <1>6, <2>3, ConsolidatorMoves
  <2>5. rows[m].sources \cup {con[c].conv} \in SUBSET Convs
    BY <1>2, <2>1 DEF SyncInv, MirrorTypeOK, Row
  <2>6. rows' \in [MemoryIds -> Row] /\ \A k \in MemoryIds : k # m => rows'[k] = rows[k]
    BY <1>6, <2>1, <2>5, RowUpdateType DEF SyncInv, MirrorTypeOK
  <2>7. MirrorTypeOK'
    BY <1>3, <2>6 DEF SyncInv, MirrorTypeOK
  <2>8. \A k \in MemoryIds : lockedBy[k] \in SyncWorkers =>
            rows'[k] = rows[k] /\ lockedBy'[k] = lockedBy[k]
    BY <1>3, <1>6, <2>6, SessionsAssumption DEF Unlocked
  <2> QED BY <1>4, <2>4, <2>7, <2>8, LockedRowsKept DEF ConInv, Live
<1> QED BY <1>1, <1>5, <1>6

(* An insertion fills a slot that was never used, so nobody has locked it.    *)
LEMMA FreshRowPreserves ==
    ASSUME SyncInv, sync' = sync, NEW m \in MemoryIds, FreshId(m), NEW row \in Row,
           rows' = [rows EXCEPT ![m] = row], UNCHANGED <<vectors, lockedBy, promotions>>
    PROVE  SyncInv'
<1>1. MirrorTypeOK'
  BY DEF SyncInv, MirrorTypeOK
<1>2. \A k \in MemoryIds : Live(k) => rows'[k] = rows[k]
  BY DEF SyncInv, MirrorTypeOK, Live, FreshId
<1> QED BY <1>1, <1>2, LockedRowsKept DEF Live

(* A new fact becomes a row, or the unique index refuses it.                  *)
LEMMA InsertPreserves ==
    ASSUME SyncInv, ConInv, sync' = sync, NEW c \in Consolidators, InsertFact(c)
    PROVE  SyncInv' /\ ConInv'
<1>1. /\ con[c].pc = "insert" /\ con[c].conv \in Convs /\ con[c].fact \in Facts
      /\ ConvOwner[con[c].conv] \in Users
  BY OwnersAssumption DEF InsertFact, ConInv, PromotionHasItsParts
<1>2. UNCHANGED <<vectors, lockedBy, promotions, convVars>>
  BY DEF InsertFact
<1>3. ConvTypeOK'
  BY <1>2 DEF ConInv, ConvTypeOK, convVars
<1>4. ASSUME NEW m \in MemoryIds, NEW expiry \in {"never", "ahead"}, FreshId(m),
             rows' = [rows EXCEPT ![m] =
                        InsertedRow("conversation_summary", ConvOwner[con[c].conv],
                                    con[c].fact, {con[c].conv}, expiry)],
             con' = [con EXCEPT ![c] = [con[c] EXCEPT !.pc = "mark", !.record = m]]
      PROVE  SyncInv' /\ ConInv'
  <2> DEFINE local == [con[c] EXCEPT !.pc = "mark", !.record = m]
             row == InsertedRow("conversation_summary", ConvOwner[con[c].conv],
                                con[c].fact, {con[c].conv}, expiry)
  <2>1. row \in Row
    BY <1>1, InsertedRowType DEF Kinds
  <2>2. SyncInv'
    <3>1. rows' = [rows EXCEPT ![m] = row]
      BY <1>4
    <3> HIDE DEF row
    <3> QED BY <1>2, <1>4, <2>1, <3>1, FreshRowPreserves
  <2>3. m \in 0 .. MaxRecords
    BY MaxRecordsAssumption DEF MemoryIds
  <2>4. /\ local \in ConLocal /\ local.pc = "mark" /\ local.conv \in Convs
        /\ local.fact \in Facts /\ local.record \in MemoryIds
    BY <1>1, <2>3 DEF ConInv, ConTypeOK, ConLocal
  <2>5. ConTypeOK' /\ PromotionHasItsParts'
    BY <1>4, <2>4, ConsolidatorMoves
  <2> QED BY <1>3, <2>2, <2>5 DEF ConInv
<1>5. ASSUME con' = [con EXCEPT ![c] = [con[c] EXCEPT !.pc = "reselect"]], UNCHANGED rows
      PROVE  SyncInv' /\ ConInv'
  <2> DEFINE local == [con[c] EXCEPT !.pc = "reselect"]
  <2>1. /\ local \in ConLocal /\ local.pc = "reselect"
        /\ local.conv \in Convs /\ local.fact \in Facts
    BY <1>1 DEF ConInv, ConTypeOK, ConLocal
  <2>2. ConTypeOK' /\ PromotionHasItsParts'
    BY <1>5, <2>1, ConsolidatorMoves
  <2>3. MirrorTypeOK'
    BY <1>2, <1>5 DEF SyncInv, MirrorTypeOK
  <2> QED BY <1>2, <1>3, <1>5, <2>2, <2>3, LockedRowsKept DEF ConInv, Live
<1> QED BY <1>4, <1>5 DEF InsertFact

(* The loser of a race looks the winner's row up.                             *)
LEMMA ReselectPreserves ==
    ASSUME SyncInv, ConInv, sync' = sync, NEW c \in Consolidators, ReselectFact(c)
    PROVE  SyncInv' /\ ConInv'
<1>1. PICK m \in ActiveFact(ConvOwner[con[c].conv], con[c].fact) :
          con' = [con EXCEPT ![c] = [con[c] EXCEPT !.pc = "mark", !.record = m]]
  BY DEF ReselectFact
<1>2. m \in MemoryIds /\ m \in 0 .. MaxRecords
  BY ActiveFactType, MaxRecordsAssumption DEF MemoryIds
<1>3. UNCHANGED <<mirrorVars, convVars>>
  BY DEF ReselectFact
<1> DEFINE local == [con[c] EXCEPT !.pc = "mark", !.record = m]
<1>4. /\ local \in ConLocal /\ local.pc = "mark" /\ local.conv \in Convs
      /\ local.fact \in Facts /\ local.record \in MemoryIds
  BY <1>2 DEF ReselectFact, ConInv, ConTypeOK, ConLocal, PromotionHasItsParts
<1>5. ConTypeOK' /\ PromotionHasItsParts'
  BY <1>1, <1>4, ConsolidatorMoves
<1>6. MirrorTypeOK' /\ ConvTypeOK'
  BY <1>3 DEF SyncInv, ConInv, MirrorTypeOK, ConvTypeOK, mirrorVars, convVars
<1> QED BY <1>3, <1>5, <1>6, LockedRowsKept DEF ConInv, Live, mirrorVars

(* The candidate is linked to its record.                                     *)
LEMMA MarkPreserves ==
    ASSUME SyncInv, ConInv, sync' = sync, NEW c \in Consolidators, MarkPromoted(c)
    PROVE  SyncInv' /\ ConInv'
<1>1. /\ con[c].conv \in Convs /\ con[c].fact \in Facts /\ con[c].record \in MemoryIds
      /\ UNCHANGED <<rows, vectors, lockedBy, convVars>>
  BY DEF MarkPromoted, ConInv, PromotionHasItsParts
<1>2. promotions' \in SUBSET Promotion
  BY <1>1 DEF MarkPromoted, SyncInv, MirrorTypeOK, Promotion
<1>3. MirrorTypeOK' /\ ConvTypeOK'
  BY <1>1, <1>2 DEF SyncInv, ConInv, MirrorTypeOK, ConvTypeOK, convVars
<1> DEFINE local == [con[c] EXCEPT !.pc = "promote", !.fact = NoFact, !.record = 0,
                                   !.facts = con[c].facts \ {con[c].fact}]
<1>4. local \in ConLocal /\ local.pc = "promote" /\ local.conv \in Convs
  <2>1. 0 \in 0 .. MaxRecords /\ con[c].facts \ {con[c].fact} \in SUBSET Facts
    BY MaxRecordsAssumption DEF ConInv, ConTypeOK, ConLocal
  <2>2. local \in ConLocal /\ local.pc = "promote" /\ local.conv = con[c].conv
    BY <2>1 DEF ConInv, ConTypeOK, ConLocal
  <2> QED BY <1>1, <2>2
<1>5. con' = [con EXCEPT ![c] = local]
  BY DEF MarkPromoted
<1>6. ConTypeOK' /\ PromotionHasItsParts'
  BY <1>4, <1>5, ConsolidatorMoves
<1> QED BY <1>1, <1>3, <1>6, LockedRowsKept DEF ConInv, Live

LEMMA ConsolidationPreserves ==
    ASSUME SyncInv, ConInv, sync' = sync, NEW c \in Consolidators, ConAction(c)
    PROVE  SyncInv' /\ ConInv'
<1>1. CASE \/ PickConversations(c) \/ SkipTurnless(c) \/ ExtractFacts(c)
           \/ FinishConversation(c) \/ CommitConsolidation(c)
           \/ ConsolidationAborts(c) \/ ConsolidationRestarts(c)
  <2>1. ConInv' /\ UNCHANGED mirrorVars
    BY <1>1, BatchStepPreserves
  <2>2. MirrorTypeOK'
    BY <2>1 DEF SyncInv, MirrorTypeOK, mirrorVars
  <2> QED BY <2>1, <2>2, LockedRowsKept DEF Live, mirrorVars
<1> QED
  BY <1>1, SelectPreserves, InsertPreserves, ReselectPreserves, MarkPreserves
     DEF ConAction, ConsolidationStep, ConflictVanishes, ExtractionFails,
         ConsolidationCrashes
-----------------------------------------------------------------------------
(* An erasure waits for the rows that sync workers hold, and deletes only     *)
(* what it has locked itself.                                                 *)
ErAction(e) == \/ CollectMatchedRows(e) \/ ErasureStep(e)
               \/ ErasureFails(e) \/ ErasureCrashes(e)

LEMMA IdleErType == IdleEr \in ErLocal
BY DEF IdleEr, ErLocal

LEMMA ErasureTypes ==
    ASSUME ErTypeOK, ConvTypeOK, NEW e \in Erasers, ErAction(e)
    PROVE  ErTypeOK' /\ ConvTypeOK'
<1>1. CASE CollectMatchedRows(e)
  <2>1. PICK user \in Users :
          er' = [er EXCEPT ![e] =
                   [IdleEr EXCEPT !.pc = "vectors", !.user = user,
                       !.matched = MatchedRows(user),
                       !.todo = {Namespace(m) : m \in MatchedRows(user)}]]
    BY <1>1 DEF CollectMatchedRows
  <2>2. /\ MatchedRows(user) \in SUBSET MemoryIds
        /\ {Namespace(m) : m \in MatchedRows(user)} \in SUBSET Namespaces
    BY NamespaceType DEF MatchedRows
  <2>3. [IdleEr EXCEPT !.pc = "vectors", !.user = user, !.matched = MatchedRows(user),
            !.todo = {Namespace(m) : m \in MatchedRows(user)}] \in ErLocal
    BY <2>2, IdleErType DEF ErLocal
  <2>4. UNCHANGED convVars
    BY <1>1 DEF CollectMatchedRows
  <2> QED BY <2>1, <2>3, <2>4 DEF ErTypeOK, ConvTypeOK, convVars
<1>2. CASE DeleteMatchedVectors(e)
  BY <1>2 DEF DeleteMatchedVectors, ErTypeOK, ErLocal, ConvTypeOK, convVars
<1>3. CASE DeleteMatchedRows(e)
  <2> DEFINE owned == {v \in ConvsOf(er[e].user) : Existing(v)}
  <2>1. owned \in SUBSET Convs
    BY DEF ConvsOf
  <2>2. /\ er' = [er EXCEPT ![e].pc = "checkpoints", ![e].convs = owned]
        /\ UNCHANGED convVars
    BY <1>3 DEF DeleteMatchedRows
  <2> HIDE DEF owned
  <2>3. [[er[e] EXCEPT !.pc = "checkpoints"] EXCEPT !.convs = owned] \in ErLocal
    BY <2>1 DEF ErTypeOK, ErLocal
  <2>4. ErTypeOK'
    BY <2>2, <2>3 DEF ErTypeOK
  <2> QED BY <2>2, <2>4 DEF ConvTypeOK, convVars
<1>4. CASE EraseCheckpoint(e)
  BY <1>4 DEF EraseCheckpoint, ErTypeOK, ConvTypeOK
<1>5. CASE CommitErasure(e)
  BY <1>5 DEF CommitErasure, ErTypeOK, ErLocal, ConvTypeOK
<1>6. CASE ErasureFails(e) \/ ErasureCrashes(e)
  BY <1>6, IdleErType
     DEF ErasureFails, ErasureCrashes, ErasureAborts, ErTypeOK, ConvTypeOK, convVars
<1> QED BY <1>1, <1>2, <1>3, <1>4, <1>5, <1>6 DEF ErAction, ErasureStep

LEMMA ErasurePreserves ==
    ASSUME SyncInv, ErTypeOK, sync' = sync, NEW e \in Erasers, ErAction(e)
    PROVE  SyncInv'
<1> e \notin SyncWorkers /\ Nobody \notin SyncWorkers
  BY SessionsAssumption
<1>1. CASE CollectMatchedRows(e) \/ EraseCheckpoint(e)
  <2>1. UNCHANGED mirrorVars
    BY <1>1 DEF CollectMatchedRows, EraseCheckpoint
  <2>2. MirrorTypeOK'
    BY <2>1 DEF SyncInv, MirrorTypeOK, mirrorVars
  <2> QED BY <2>1, <2>2, LockedRowsKept DEF Live, mirrorVars
<1>2. CASE DeleteMatchedVectors(e)
  <2>1. PICK n \in er[e].todo : DeleteIds(n, er[e].matched)
    BY <1>2 DEF DeleteMatchedVectors
  <2>2. n \in Namespaces /\ UNCHANGED <<rows, lockedBy, promotions>>
    BY <1>2 DEF DeleteMatchedVectors, ErTypeOK, ErLocal
  <2>3. MirrorTypeOK'
    BY <2>1, <2>2, DeleteIdsType DEF SyncInv, MirrorTypeOK
  <2> QED BY <2>2, <2>3, LockedRowsKept DEF Live
<1>3. CASE DeleteMatchedRows(e)
  <2> DEFINE present == {m \in er[e].matched : ~Gone(m)}
  <2>1. /\ \A m \in present : Unlocked(m)
        /\ lockedBy' = [m \in MemoryIds |-> IF m \in present THEN e ELSE lockedBy[m]]
        /\ UNCHANGED <<rows, vectors, promotions>>
    BY <1>3 DEF DeleteMatchedRows
  <2> HIDE DEF present
  <2>2. MirrorTypeOK'
    BY <2>1 DEF SyncInv, MirrorTypeOK
  <2>3. \A m \in MemoryIds : lockedBy[m] \in SyncWorkers => lockedBy'[m] = lockedBy[m]
    BY <2>1 DEF Unlocked
  <2> QED BY <2>1, <2>2, <2>3, LockedRowsKept DEF Live
<1>4. CASE CommitErasure(e)
  <2> DEFINE S == {m \in er[e].matched : lockedBy[m] = e}
  <2>1. /\ DeleteRowsOf(S) /\ ReleaseLocks(e) /\ UNCHANGED <<vectors, promotions>>
    BY <1>4 DEF CommitErasure
  <2>2. \A m \in MemoryIds : lockedBy[m] \in SyncWorkers => m \notin S
    OBVIOUS
  <2> HIDE DEF S
  <2>3. MirrorTypeOK'
    BY <2>1, DeleteRowsType, ReleaseLocksType DEF SyncInv, MirrorTypeOK
  <2>4. \A m \in MemoryIds : lockedBy[m] \in SyncWorkers =>
            rows'[m] = rows[m] /\ lockedBy'[m] = lockedBy[m]
    BY <2>1, <2>2 DEF DeleteRowsOf, ReleaseLocks
  <2> QED BY <2>3, <2>4, LockedRowsKept DEF Live
<1>5. CASE ErasureFails(e) \/ ErasureCrashes(e)
  <2>1. ReleaseLocks(e) /\ UNCHANGED <<rows, vectors, promotions>>
    BY <1>5 DEF ErasureFails, ErasureCrashes, ErasureAborts
  <2>2. MirrorTypeOK'
    BY <2>1, ReleaseLocksType DEF SyncInv, MirrorTypeOK
  <2>3. \A m \in MemoryIds : lockedBy[m] \in SyncWorkers => lockedBy'[m] = lockedBy[m]
    BY <2>1 DEF ReleaseLocks
  <2> QED BY <2>1, <2>2, <2>3, LockedRowsKept DEF Live
<1> QED BY <1>1, <1>2, <1>3, <1>4, <1>5 DEF ErAction, ErasureStep
-----------------------------------------------------------------------------
(* Writers and the clock.                                                     *)
LEMMA EnvironmentPreserves ==
    ASSUME SyncInv, ConvTypeOK, Environment
    PROVE  SyncInv' /\ ConvTypeOK'
<1> sync' = sync
  BY DEF Environment, WriterOrClock
<1>1. CASE RecordDocumentChunk /\ UNCHANGED convVars
  <2>1. PICK m \in MemoryIds :
          /\ FreshId(m)
          /\ rows' = [rows EXCEPT ![m] =
                        InsertedRow("document_chunk", NoOwner, NoFact, {}, "never")]
    BY <1>1 DEF RecordDocumentChunk
  <2>2. InsertedRow("document_chunk", NoOwner, NoFact, {}, "never") \in Row
    BY InsertedRowType DEF Kinds
  <2>3. UNCHANGED <<vectors, lockedBy, promotions>>
    BY <1>1 DEF RecordDocumentChunk
  <2> QED BY <1>1, <2>1, <2>2, <2>3, FreshRowPreserves DEF ConvTypeOK, convVars
<1>2. CASE ExpiryPasses /\ UNCHANGED convVars
  <2>1. PICK m \in MemoryIds : rows' = [rows EXCEPT ![m].expiry = "passed"]
    BY <1>2 DEF ExpiryPasses
  <2>2. UNCHANGED <<vectors, lockedBy, promotions>>
    BY <1>2 DEF ExpiryPasses
  <2>3. rows' \in [MemoryIds -> Row]
    BY <2>1, RowUpdateType DEF SyncInv, MirrorTypeOK
  <2>4. MirrorTypeOK'
    BY <2>2, <2>3 DEF SyncInv, MirrorTypeOK
  <2>5. \A k \in MemoryIds : rows'[k].state = rows[k].state /\ rows'[k].retries = rows[k].retries
    BY <2>1 DEF SyncInv, MirrorTypeOK, Row
  <2> QED BY <1>2, <2>2, <2>4, <2>5, LockedRowsKept DEF Live, ConvTypeOK, convVars
<1>3. CASE (ConversationGoesIdle \/ TurnsExpire) /\ UNCHANGED mirrorVars
  <2>1. MirrorTypeOK'
    BY <1>3 DEF SyncInv, MirrorTypeOK, mirrorVars
  <2>2. ConvTypeOK'
    BY <1>3 DEF ConversationGoesIdle, TurnsExpire, ConvTypeOK
  <2> QED BY <1>3, <2>1, <2>2, LockedRowsKept DEF Live, mirrorVars
<1> QED BY <1>1, <1>2, <1>3 DEF Environment
-----------------------------------------------------------------------------
(* The invariant holds at the start: nothing is stored and nobody works.      *)
LEMMA InitEstablishes == Init => IInv
<1> SUFFICES ASSUME Init PROVE IInv
  OBVIOUS
<1>1. MirrorTypeOK /\ ConvTypeOK
  BY UnusedRowType
     DEF Init, MirrorInit, MirrorTypeOK, ConvInit, ConvTypeOK, Namespaces
<1>2. SyncTypeOK /\ RecTypeOK /\ RetTypeOK /\ ConTypeOK /\ ErTypeOK
  BY IdleSyncType, IdleRecType, IdleRetType, IdleConType, IdleErType
     DEF Init, SyncInit, RecInit, RetInit, ConInit, ErInit,
         SyncTypeOK, RecTypeOK, RetTypeOK, ConTypeOK, ErTypeOK
<1>3. faults \in 0 .. MaxFaults
  BY FaultsAssumption DEF Init
<1>4. SyncingRowsStayLive /\ FailedRowsMayRetry
  BY IdleSyncType DEF Init, SyncInit, SyncingRowsStayLive, FailedRowsMayRetry
<1>5. PromotionHasItsParts
  BY IdleConType DEF Init, ConInit, PromotionHasItsParts
<1> QED BY <1>1, <1>2, <1>3, <1>4, <1>5 DEF IInv, TypeOK

(* Every step is one actor's, and keeps the invariant.                        *)
LEMMA NextPreserves == IInv /\ [Next]_vars => IInv'
<1> SUFFICES ASSUME IInv, [Next]_vars PROVE IInv'
  OBVIOUS
<1> USE DEF IInv, TypeOK, SyncInv, ConInv
<1>1. faults' \in 0 .. MaxFaults
  BY FaultsAssumption DEF Next, vars
<1>2. ASSUME Environment PROVE IInv'
  <2>1. SyncInv' /\ ConvTypeOK'
    BY <1>2, EnvironmentPreserves
  <2> QED BY <1>1, <1>2, <2>1
         DEF Environment, WriterOrClock, RecTypeOK, RetTypeOK, ConTypeOK, ErTypeOK,
             PromotionHasItsParts
<1>3. ASSUME NEW w \in SyncWorkers, SyncAction(w), SyncOnly PROVE IInv'
  <2>1. SyncInv'
    BY <1>3, SyncPreserves
  <2> QED BY <1>1, <1>3, <2>1
         DEF SyncOnly, convVars, ConvTypeOK, RecTypeOK, RetTypeOK, ConTypeOK, ErTypeOK,
             PromotionHasItsParts
<1>4. ASSUME NEW r \in Reconcilers, RecAction(r), RecOnly PROVE IInv'
  <2>1. SyncInv' /\ RecTypeOK'
    BY <1>4, ReconciliationPreserves DEF RecOnly
  <2> QED BY <1>1, <1>4, <2>1
         DEF RecOnly, convVars, ConvTypeOK, RetTypeOK, ConTypeOK, ErTypeOK,
             PromotionHasItsParts
<1>5. ASSUME NEW t \in RetentionJobs, RetAction(t), RetOnly PROVE IInv'
  <2>1. SyncInv' /\ RetTypeOK'
    BY <1>5, RetentionPreserves DEF RetOnly
  <2> QED BY <1>1, <1>5, <2>1
         DEF RetOnly, convVars, ConvTypeOK, RecTypeOK, ConTypeOK, ErTypeOK,
             PromotionHasItsParts
<1>6. ASSUME NEW c \in Consolidators, ConAction(c), ConOnly PROVE IInv'
  <2>1. SyncInv' /\ ConInv'
    BY <1>6, ConsolidationPreserves DEF ConOnly
  <2> QED BY <1>1, <1>6, <2>1 DEF ConOnly, RecTypeOK, RetTypeOK, ErTypeOK
<1>7. ASSUME NEW e \in Erasers, ErAction(e), ErOnly PROVE IInv'
  <2>1. SyncInv' /\ ErTypeOK' /\ ConvTypeOK'
    BY <1>7, ErasurePreserves, ErasureTypes DEF ErOnly
  <2> QED BY <1>1, <1>7, <2>1
         DEF ErOnly, RecTypeOK, RetTypeOK, ConTypeOK, PromotionHasItsParts
<1>8. CASE UNCHANGED vars
  BY <1>8 DEF vars, mirrorVars, convVars, MirrorTypeOK, ConvTypeOK, SyncTypeOK,
              RecTypeOK, RetTypeOK, ConTypeOK, ErTypeOK, SyncingRowsStayLive,
              FailedRowsMayRetry, PromotionHasItsParts, Live
<1> QED
  BY <1>2, <1>3, <1>4, <1>5, <1>6, <1>7, <1>8
     DEF Next, Work, Restart, ProviderFailure, Crash,
         SyncAction, RecAction, RetAction, ConAction, ErAction

(* Every reachable state satisfies the inductive invariant.                   *)
THEOREM Invariance == Spec => []IInv
BY InitEstablishes, NextPreserves, PTL DEF Spec

(* Every variable keeps its type, the retry count its bound, whoever runs.    *)
THEOREM TypeCorrect == Spec => []TypeOK
<1>1. IInv => TypeOK
  BY DEF IInv
<1> QED BY <1>1, Invariance, PTL

(* However many sync workers, retention jobs and erasures run: a row that is  *)
(* on its way to the index is live and locked by the worker that took it.     *)
THEOREM SyncingSafe == Spec => []SyncingRowsStayLive
<1>1. IInv => SyncingRowsStayLive
  BY DEF IInv
<1> QED BY <1>1, Invariance, PTL
-----------------------------------------------------------------------------
(* Only a call of a sync worker adds a vector, and it is for a row the worker *)
(* still holds.                                                               *)
LEMMA PublishStep ==
    ASSUME IInv, [Next]_vars, NEW n \in Namespaces, NEW m \in vectors'[n] \ vectors[n]
    PROVE  Live(m) /\ Live(m)'
<1> USE DEF IInv, TypeOK, SyncInv
<1>1. ASSUME NEW w \in SyncWorkers, EmbedAndUpsert(w) \/ SyncFails(w)
      PROVE  Live(m) /\ Live(m)'
  <2>1. PICK k \in MemoryIds :
          /\ NextToSync(w, k)
          /\ vectors' = vectors \/ vectors' = [vectors EXCEPT ![Namespace(k)] = @ \cup {k}]
    BY <1>1 DEF EmbedAndUpsert, SyncFails
  <2>2. k \in sync[w].todo /\ m = k
    BY <2>1, NamespaceType DEF NextToSync, FirstOf, MirrorTypeOK
  <2>3. UNCHANGED rows
    BY <1>1 DEF EmbedAndUpsert, SyncFails
  <2> QED BY <2>2, <2>3 DEF SyncingRowsStayLive, Live
<1>2. ASSUME NEW S, NEW ns \in Namespaces, DeleteIds(ns, S)
      PROVE  FALSE
  BY <1>2 DEF DeleteIds, MirrorTypeOK
<1>3. vectors' # vectors
  OBVIOUS
<1>4. ASSUME NEW r \in Reconcilers, DeleteOrphans(r) PROVE FALSE
  BY <1>2, <1>4 DEF DeleteOrphans, RecTypeOK, RecLocal
<1>5. ASSUME NEW t \in RetentionJobs, DeleteExpiredVectors(t) PROVE FALSE
  BY <1>2, <1>5 DEF DeleteExpiredVectors, RetTypeOK, RetLocal
<1>6. ASSUME NEW e \in Erasers, DeleteMatchedVectors(e) PROVE FALSE
  BY <1>2, <1>6 DEF DeleteMatchedVectors, ErTypeOK, ErLocal
<1>7. Next
  BY <1>3 DEF vars, mirrorVars
<1>8. CASE Environment
  BY <1>3, <1>8 DEF Environment, RecordDocumentChunk, ExpiryPasses, mirrorVars
<1>9. ASSUME NEW w \in SyncWorkers, SyncAction(w) PROVE Live(m) /\ Live(m)'
  BY <1>1, <1>3, <1>9
     DEF SyncAction, SyncStep, PollUnsynced, CommitSync, BackoffOverflows, SyncCrashes,
         SyncAborts, SyncRestarts, mirrorVars
<1>10. ASSUME NEW r \in Reconcilers, RecAction(r) PROVE FALSE
  BY <1>3, <1>4, <1>10
     DEF RecAction, ReconciliationStep, ReadActiveIds, ListOrphans, FinishReconciliation,
         ReconciliationFails, ReconciliationCrashes, ReconciliationAborts,
         ReconciliationRestarts, mirrorVars
<1>11. ASSUME NEW t \in RetentionJobs, RetAction(t) PROVE FALSE
  BY <1>3, <1>5, <1>11
     DEF RetAction, RetentionStep, SoftDeleteExpired, SelectSoftDeleted,
         DeleteExpiredRows, DeleteExpiredCandidates, RetentionFails, RetentionCrashes,
         RetentionAborts, RetentionRestarts, mirrorVars
<1>12. ASSUME NEW c \in Consolidators, ConAction(c) PROVE FALSE
  BY <1>3, <1>12
     DEF ConAction, ConsolidationStep, PickConversations, SkipTurnless, ExtractFacts,
         SelectFact, InsertFact, ReselectFact, ConflictVanishes, MarkPromoted,
         FinishConversation, CommitConsolidation, ExtractionFails,
         ConsolidationCrashes, ConsolidationAborts, ConsolidationRestarts, mirrorVars
<1>13. ASSUME NEW e \in Erasers, ErAction(e) PROVE FALSE
  BY <1>3, <1>6, <1>13
     DEF ErAction, ErasureStep, CollectMatchedRows, DeleteMatchedRows, EraseCheckpoint,
         CommitErasure, ErasureFails, ErasureCrashes, ErasureAborts, mirrorVars
<1> QED
  BY <1>7, <1>8, <1>9, <1>10, <1>11, <1>12, <1>13
     DEF Next, Work, Restart, ProviderFailure, Crash,
         SyncAction, RecAction, RetAction, ConAction, ErAction

(* No step of anyone, failures and crashes included, stores a vector of a row *)
(* that retention or an erasure has taken away.                               *)
THEOREM PublishingSafe == Spec => OnlyLiveRowsArePublished
<1>1. IInv /\ [Next]_vars
        => [\A n \in Namespaces : \A m \in vectors'[n] \ vectors[n] : Live(m) /\ Live(m)']_vars
  BY PublishStep
<1> QED BY <1>1, Invariance, PTL DEF Spec, OnlyLiveRowsArePublished
-----------------------------------------------------------------------------
(* The life of a row: what a step may do to it. Only the commit of the worker *)
(* that stamped a row makes it synced.                                        *)
Kept(m) ==
    /\ \/ rows'[m].state = rows[m].state
       \/ rows[m].state = "live" /\ rows'[m].state = "soft"
    /\ rows'[m].kind = rows[m].kind /\ rows'[m].owner = rows[m].owner
    /\ rows'[m].fact = rows[m].fact
    /\ rows[m].sources \subseteq rows'[m].sources
    /\ \A v \in rows'[m].sources \ rows[m].sources : ConvOwner[v] = rows[m].owner
    /\ rows'[m].synced => rows[m].synced \/ \E w \in SyncWorkers : m \in sync[w].stamped
Removed(m) ==
    rows[m].state \in {"live", "soft"} /\ rows'[m].state = "gone" /\ rows'[m].sources = {}
ChunkInserted(m) ==
    /\ rows[m].state = "unused"
    /\ rows'[m].kind = "document_chunk" /\ rows'[m].sources = {}
    /\ rows'[m].synced = FALSE
FactInserted(m, user, fact, conv) ==
    /\ rows[m].state = "unused" /\ rows'[m].state = "live"
    /\ rows'[m].kind = "conversation_summary" /\ rows'[m].owner = user
    /\ rows'[m].fact = fact /\ rows'[m].sources = {conv} /\ rows'[m].synced = FALSE
    /\ \A k \in MemoryIds : k # m => Kept(k)
(* The insertion of a fact, behind the unique index.                          *)
InsertedBy(c, m) ==
    /\ con[c].pc = "insert" /\ con[c].conv \in Convs
    /\ ActiveFact(ConvOwner[con[c].conv], con[c].fact) = {}
    /\ FactInserted(m, ConvOwner[con[c].conv], con[c].fact, con[c].conv)
    /\ con' = [con EXCEPT ![c] = [con[c] EXCEPT !.pc = "mark", !.record = m]]

(* A step that writes no row keeps every row.                                 *)
LEMMA UnwrittenKept == ASSUME rows' = rows PROVE \A m \in MemoryIds : Kept(m)
BY DEF Kept

LEMMA SyncRows ==
    ASSUME IInv, NEW w \in SyncWorkers, SyncAction(w)
    PROVE  \A m \in MemoryIds : Kept(m)
<1>1. CASE CommitSync(w)
  BY <1>1 DEF CommitSync, Kept, IInv, TypeOK, MirrorTypeOK, Row
<1>2. CASE rows' = rows
  BY <1>2, UnwrittenKept
<1> QED
  BY <1>1, <1>2
     DEF SyncAction, SyncStep, PollUnsynced, EmbedAndUpsert, SyncFails, BackoffOverflows,
         SyncCrashes, SyncAborts, SyncRestarts, mirrorVars

LEMMA ReconciliationRows ==
    ASSUME NEW r \in Reconcilers, RecAction(r)
    PROVE  \A m \in MemoryIds : Kept(m)
<1>1. rows' = rows
  BY DEF RecAction, ReconciliationStep, ReadActiveIds, ListOrphans, DeleteOrphans,
         FinishReconciliation, ReconciliationFails, ReconciliationCrashes,
         ReconciliationAborts, ReconciliationRestarts, mirrorVars
<1> QED BY <1>1, UnwrittenKept

(* The hard delete removes a row or leaves it as it is.                       *)
LEMMA DeletedRows ==
    ASSUME IInv, NEW S, DeleteRowsOf(S)
    PROVE  \A m \in MemoryIds : Kept(m) \/ Removed(m)
<1>1. \A row \in Row : DeletedRow(row).state = "gone" /\ DeletedRow(row).sources = {}
  BY UnusedRowType DEF DeletedRow, UnusedRow, InsertedRow, Row
<1> QED BY <1>1 DEF DeleteRowsOf, Kept, Removed, IInv, TypeOK, MirrorTypeOK

LEMMA RetentionRows ==
    ASSUME IInv, NEW t \in RetentionJobs, RetAction(t)
    PROVE  \A m \in MemoryIds : Kept(m) \/ Removed(m)
<1>1. CASE SoftDeleteExpired(t)
  <2> DEFINE batch == FirstOf(ExpiredRows, RetentionBatchSize)
  <2>1. \A m \in batch : Live(m)
    BY DEF FirstOf, ExpiredRows
  <2>2. rows' = [m \in MemoryIds |->
                   IF m \in batch THEN [rows[m] EXCEPT !.state = "soft"] ELSE rows[m]]
    BY <1>1 DEF SoftDeleteExpired
  <2> HIDE DEF batch
  <2> QED BY <2>1, <2>2 DEF Kept, Live, IInv, TypeOK, MirrorTypeOK, Row
<1>2. CASE DeleteExpiredRows(t)
  BY <1>2, DeletedRows DEF DeleteExpiredRows
<1>3. CASE rows' = rows
  BY <1>3, UnwrittenKept
<1> QED
  BY <1>1, <1>2, <1>3
     DEF RetAction, RetentionStep, SelectSoftDeleted, DeleteExpiredVectors,
         DeleteExpiredCandidates, RetentionFails, RetentionCrashes, RetentionAborts,
         RetentionRestarts, mirrorVars

LEMMA ErasureRows ==
    ASSUME IInv, NEW e \in Erasers, ErAction(e)
    PROVE  \A m \in MemoryIds : Kept(m) \/ Removed(m)
<1>1. CASE CommitErasure(e)
  BY <1>1, DeletedRows DEF CommitErasure
<1>2. CASE rows' = rows
  BY <1>2, UnwrittenKept
<1> QED
  BY <1>1, <1>2
     DEF ErAction, ErasureStep, CollectMatchedRows, DeleteMatchedVectors,
         DeleteMatchedRows, EraseCheckpoint, ErasureFails, ErasureCrashes,
         ErasureAborts, mirrorVars

LEMMA EnvironmentRows ==
    ASSUME IInv, Environment
    PROVE  \A m \in MemoryIds : Kept(m) \/ ChunkInserted(m)
<1>1. CASE RecordDocumentChunk
  <2> DEFINE row == InsertedRow("document_chunk", NoOwner, NoFact, {}, "never")
  <2>1. PICK m \in MemoryIds : FreshId(m) /\ rows' = [rows EXCEPT ![m] = row]
    BY <1>1 DEF RecordDocumentChunk
  <2>2. row.kind = "document_chunk" /\ row.sources = {} /\ row.synced = FALSE
    BY DEF InsertedRow
  <2> HIDE DEF row
  <2> QED
    BY <2>1, <2>2 DEF FreshId, Kept, ChunkInserted, IInv, TypeOK, MirrorTypeOK
<1>2. CASE ExpiryPasses
  BY <1>2 DEF ExpiryPasses, Kept, IInv, TypeOK, MirrorTypeOK, Row
<1>3. CASE rows' = rows
  BY <1>3, UnwrittenKept
<1> QED BY <1>1, <1>2, <1>3 DEF Environment, mirrorVars

(* A fact that is known gains the conversation as a source: both are of one   *)
(* user, since the row was looked up by the conversation's owner.             *)
LEMMA MergeRows ==
    ASSUME IInv, NEW c \in Consolidators, SelectFact(c)
    PROVE  \A m \in MemoryIds : Kept(m)
<1>1. CASE rows' = rows
  BY <1>1, UnwrittenKept
<1>2. CASE rows' # rows
  <2>1. PICK f \in con[c].facts : \E m \in ActiveFact(ConvOwner[con[c].conv], f) :
            rows' = [rows EXCEPT ![m].sources = @ \cup {con[c].conv}]
    BY <1>2 DEF SelectFact
  <2>2. PICK m \in MemoryIds : /\ rows[m].owner = ConvOwner[con[c].conv]
                               /\ rows' = [rows EXCEPT ![m].sources = @ \cup {con[c].conv}]
    BY <2>1 DEF ActiveFact
  <2> QED BY <2>2 DEF Kept, IInv, TypeOK, MirrorTypeOK, Row
<1> QED BY <1>1, <1>2

LEMMA InsertRows ==
    ASSUME IInv, NEW c \in Consolidators, InsertFact(c)
    PROVE  \/ \A m \in MemoryIds : Kept(m)
           \/ \E m \in MemoryIds : InsertedBy(c, m)
<1>1. CASE rows' = rows
  BY <1>1, UnwrittenKept
<1>2. CASE rows' # rows
  <2> DEFINE owner == ConvOwner[con[c].conv]
             row(expiry) == InsertedRow("conversation_summary", owner, con[c].fact,
                                        {con[c].conv}, expiry)
  <2>1. /\ con[c].pc = "insert" /\ con[c].conv \in Convs
        /\ ActiveFact(owner, con[c].fact) = {}
    BY <1>2 DEF InsertFact, IInv, PromotionHasItsParts
  <2>2. PICK m \in MemoryIds, expiry \in {"never", "ahead"} :
          /\ FreshId(m) /\ rows' = [rows EXCEPT ![m] = row(expiry)]
          /\ con' = [con EXCEPT ![c] = [con[c] EXCEPT !.pc = "mark", !.record = m]]
    BY <1>2 DEF InsertFact
  <2>3. /\ row(expiry).state = "live" /\ row(expiry).kind = "conversation_summary"
        /\ row(expiry).owner = owner /\ row(expiry).fact = con[c].fact
        /\ row(expiry).sources = {con[c].conv} /\ row(expiry).synced = FALSE
    BY DEF InsertedRow
  <2> HIDE DEF row
  <2>4. FactInserted(m, owner, con[c].fact, con[c].conv)
    BY <2>2, <2>3 DEF FactInserted, FreshId, Kept, IInv, TypeOK, MirrorTypeOK
  <2> QED BY <2>1, <2>2, <2>4 DEF InsertedBy
<1> QED BY <1>1, <1>2

LEMMA ConsolidationRows ==
    ASSUME IInv, NEW c \in Consolidators, ConAction(c)
    PROVE  \/ \A m \in MemoryIds : Kept(m)
           \/ \E m \in MemoryIds : InsertedBy(c, m)
<1>1. CASE rows' = rows
  BY <1>1, UnwrittenKept
<1> QED
  BY <1>1, MergeRows, InsertRows
     DEF ConAction, ConsolidationStep, PickConversations, SkipTurnless, ExtractFacts,
         ReselectFact, ConflictVanishes, MarkPromoted, FinishConversation,
         CommitConsolidation, ExtractionFails, ConsolidationCrashes,
         ConsolidationAborts, ConsolidationRestarts, mirrorVars

(* The life of a row, whoever steps: it keeps what it is about, or leaves for *)
(* good, or a slot never used is filled.                                      *)
LEMMA RowsMove ==
    ASSUME IInv, [Next]_vars
    PROVE  \/ \A m \in MemoryIds : Kept(m) \/ Removed(m) \/ ChunkInserted(m)
           \/ \E c \in Consolidators, m \in MemoryIds : InsertedBy(c, m)
<1>1. CASE UNCHANGED vars
  BY <1>1, UnwrittenKept DEF vars, mirrorVars
<1> QED
  BY <1>1, SyncRows, ReconciliationRows, RetentionRows, ErasureRows, EnvironmentRows,
     ConsolidationRows
     DEF Next, Work, Restart, ProviderFailure, Crash,
         SyncAction, RecAction, RetAction, ConAction, ErAction
=============================================================================
