------------------------- MODULE MirroredIndexProofs -------------------------
(* Long-term memory implements MirroredIndex: proofs for any number of rows,  *)
(* users, conversations, workers, erasures, replicas and crashes.             *)
EXTENDS LongTermMemoryProofs

(* A vector lies in the namespace of its row, which is still in the table, or *)
(* was taken by an erasure.                                                   *)
VectorsMirrored ==
    \A n \in Namespaces : \A m \in vectors[n] :
        /\ n = Namespace(m) /\ rows[m].state # "unused"
        /\ rows[m].state = "gone" => Erasers # {}

(* A retention job knows its batch by ids alone, without locks. Yet the rows  *)
(* stay deleted, and a vector it has withdrawn does not come back: by the     *)
(* time it deletes the rows, none of them has one.                            *)
BatchesWithdrawn ==
    \A t \in RetentionJobs :
        /\ ret[t].pc = "rows" => ret[t].todo = {}
        /\ ret[t].pc \in {"vectors", "rows"} =>
              \A m \in ret[t].batch :
                  /\ rows[m].state \in {"soft", "gone"}
                  /\ Namespace(m) \notin ret[t].todo => ~Indexed(m)

MInv == IInv /\ VectorsMirrored /\ BatchesWithdrawn

(* The variables of MirroredIndex, as the refinement mapping gives them.      *)
stateBar == [m \in MemoryIds |-> rows[m].state]
indexBar == {m \in MemoryIds : Indexed(m)}
-----------------------------------------------------------------------------
(* Three ways a step can leave the mirror's promise alone or use one of its   *)
(* actions. First: rows keep their kind and state, no vector appears.         *)
LEMMA WithdrawKeeps ==
    ASSUME MInv, ret' = ret,
           \A m \in MemoryIds : rows'[m].state = rows[m].state /\ rows'[m].kind = rows[m].kind,
           \A n \in Namespaces : vectors'[n] \subseteq vectors[n]
    PROVE  VectorsMirrored' /\ BatchesWithdrawn'
<1>1. \A m \in MemoryIds : Namespace(m)' = Namespace(m) /\ (Indexed(m)' => Indexed(m))
  BY DEF Namespace, Indexed
<1>2. /\ \A n \in Namespaces : vectors[n] \subseteq MemoryIds
      /\ \A t \in RetentionJobs : ret[t].batch \subseteq MemoryIds
  BY DEF MInv, IInv, TypeOK, MirrorTypeOK, RetTypeOK, RetLocal
<1>3. VectorsMirrored'
  BY <1>1, <1>2 DEF MInv, VectorsMirrored
<1>4. BatchesWithdrawn'
  BY <1>1, <1>2 DEF MInv, BatchesWithdrawn
<1> QED BY <1>3, <1>4

(* Seen through the mapping, such a step withdraws what it took away.         *)
LEMMA WithdrawMaps ==
    ASSUME MInv,
           \A m \in MemoryIds : rows'[m].state = rows[m].state,
           \A n \in Namespaces : vectors'[n] \subseteq vectors[n]
    PROVE  Mirror!Next
<1> DEFINE S == {m \in MemoryIds : Indexed(m) /\ ~Indexed(m)'}
<1>1. indexBar' = indexBar \ S
  BY DEF indexBar, Indexed
<1>2. stateBar' = stateBar
  BY DEF stateBar
<1>3. Mirror!Withdraw(S)
  BY <1>1, <1>2 DEF Mirror!Withdraw, indexBar, stateBar
<1> QED BY <1>3 DEF Mirror!Next

(* Second: a fresh slot is filled. It had no vector and was in no batch.      *)
LEMMA RememberStep ==
    ASSUME MInv, ret' = ret, NEW m \in MemoryIds, FreshId(m), NEW row \in Row,
           row.state = "live", rows' = [rows EXCEPT ![m] = row], vectors' = vectors
    PROVE  VectorsMirrored' /\ BatchesWithdrawn' /\ Mirror!Next
<1>1. /\ rows \in [MemoryIds -> Row] /\ rows[m].state = "unused"
      /\ \A n \in Namespaces : vectors[n] \subseteq MemoryIds
      /\ \A t \in RetentionJobs : ret[t].batch \subseteq MemoryIds
  BY DEF MInv, IInv, TypeOK, MirrorTypeOK, RetTypeOK, RetLocal, FreshId
<1>2. \A k \in MemoryIds : rows[k].state # "unused" =>
          /\ rows'[k] = rows[k] /\ Namespace(k)' = Namespace(k)
          /\ Indexed(k)' = Indexed(k)
  BY <1>1 DEF Namespace, Indexed
<1>3. VectorsMirrored'
  BY <1>1, <1>2 DEF MInv, VectorsMirrored
<1>4. BatchesWithdrawn'
  BY <1>1, <1>2 DEF MInv, BatchesWithdrawn
<1>5. stateBar' = [k \in MemoryIds |-> IF k \in {m} THEN "live" ELSE stateBar[k]]
  BY <1>1 DEF stateBar
<1>6. indexBar' = indexBar
  BY DEF indexBar, Indexed
<1>7. Mirror!Remember(m)
  BY <1>1, <1>5, <1>6 DEF Mirror!Remember, Mirror!Become, indexBar, stateBar
<1> QED BY <1>3, <1>4, <1>7 DEF Mirror!Next

(* Third: the vector of a live row appears. No batch has live rows.           *)
LEMMA PublishMaps ==
    ASSUME MInv, ret' = ret, rows' = rows, NEW m \in MemoryIds, Live(m),
           vectors' = [vectors EXCEPT ![Namespace(m)] = @ \cup {m}]
    PROVE  VectorsMirrored' /\ BatchesWithdrawn' /\ Mirror!Next
<1>1. /\ vectors \in [Namespaces -> SUBSET MemoryIds]
      /\ \A t \in RetentionJobs : ret[t].batch \subseteq MemoryIds
  BY DEF MInv, IInv, TypeOK, MirrorTypeOK, RetTypeOK, RetLocal
<1>2. \A k : Namespace(k)' = Namespace(k)
  BY DEF Namespace
<1>3. \A k \in MemoryIds : Indexed(k)' <=> Indexed(k) \/ k = m
  BY <1>1, NamespaceType DEF Indexed
<1>4. VectorsMirrored'
  BY <1>1, <1>2, NamespaceType DEF MInv, VectorsMirrored, Live
<1>5. BatchesWithdrawn'
  BY <1>1, <1>2, <1>3 DEF MInv, BatchesWithdrawn, Live
<1>6. indexBar' = indexBar \cup {m} /\ stateBar' = stateBar
  BY <1>3 DEF indexBar, stateBar
<1>7. Mirror!Publish(m)
  BY <1>6 DEF Mirror!Publish, indexBar, stateBar, Live
<1> QED BY <1>4, <1>5, <1>7 DEF Mirror!Next
-----------------------------------------------------------------------------
(* The retention job, step by step.                                           *)
LEMMA RetireStep ==
    ASSUME MInv, NEW t \in RetentionJobs, SoftDeleteExpired(t)
    PROVE  VectorsMirrored' /\ BatchesWithdrawn' /\ Mirror!Next
<1>1. PICK B \in SUBSET MemoryIds :
          /\ B = FirstOf(ExpiredRows, RetentionBatchSize)
          /\ \A m \in B : rows[m].state = "live"
  <2>1. /\ FirstOf(ExpiredRows, RetentionBatchSize) \in SUBSET MemoryIds
        /\ \A m \in FirstOf(ExpiredRows, RetentionBatchSize) : rows[m].state = "live"
    BY DEF FirstOf, ExpiredRows, Live
  <2> QED BY <2>1
<1>2. /\ rows' = [m \in MemoryIds |->
                    IF m \in B THEN [rows[m] EXCEPT !.state = "soft"] ELSE rows[m]]
      /\ ret' = [ret EXCEPT ![t].pc = "select"]
      /\ vectors' = vectors
  BY <1>1 DEF SoftDeleteExpired
<1>3. /\ rows \in [MemoryIds -> Row] /\ ret \in [RetentionJobs -> RetLocal]
      /\ \A n \in Namespaces : vectors[n] \subseteq MemoryIds
      /\ \A u \in RetentionJobs : ret[u].batch \subseteq MemoryIds
  BY DEF MInv, IInv, TypeOK, MirrorTypeOK, RetTypeOK, RetLocal
<1>4. \A m \in MemoryIds :
          /\ rows'[m].state = IF m \in B THEN "soft" ELSE rows[m].state
          /\ Namespace(m)' = Namespace(m)
          /\ Indexed(m)' = Indexed(m)
  BY <1>2, <1>3 DEF Namespace, Indexed, Row
<1>5. VectorsMirrored'
  BY <1>1, <1>2, <1>3, <1>4 DEF MInv, VectorsMirrored
<1>6. ret'[t].pc = "select" /\ \A u \in RetentionJobs : u # t => ret'[u] = ret[u]
  BY <1>2, <1>3 DEF RetLocal
<1>7. BatchesWithdrawn'
  BY <1>1, <1>3, <1>4, <1>6 DEF MInv, BatchesWithdrawn
<1>8. stateBar' = [m \in MemoryIds |-> IF m \in B THEN "soft" ELSE stateBar[m]]
  BY <1>4 DEF stateBar
<1>9. indexBar' = indexBar
  BY <1>2 DEF indexBar, Indexed
<1>10. Mirror!Retire(B)
  BY <1>1, <1>8, <1>9 DEF Mirror!Retire, Mirror!Become, indexBar, stateBar
<1> QED BY <1>5, <1>7, <1>10 DEF Mirror!Next

(* The hard delete meets no vector, and skips rows another job has deleted.   *)
LEMMA ForgetStep ==
    ASSUME MInv, NEW t \in RetentionJobs, DeleteExpiredRows(t)
    PROVE  VectorsMirrored' /\ BatchesWithdrawn' /\ Mirror!Next
<1>1. /\ rows \in [MemoryIds -> Row] /\ ret \in [RetentionJobs -> RetLocal]
      /\ \A n \in Namespaces : vectors[n] \subseteq MemoryIds
      /\ \A u \in RetentionJobs : ret[u].batch \subseteq MemoryIds
  BY DEF MInv, IInv, TypeOK, MirrorTypeOK, RetTypeOK, RetLocal
<1>2. PICK B \in SUBSET MemoryIds : B = {m \in ret[t].batch : rows[m].state = "soft"}
  BY <1>1
<1>3. /\ \A m \in ret[t].batch : rows[m].state \in {"soft", "gone"} /\ ~Indexed(m)
      /\ \A m \in B : rows[m].state = "soft" /\ ~Indexed(m)
  BY <1>2 DEF MInv, BatchesWithdrawn, DeleteExpiredRows
<1>4. /\ rows' = [m \in MemoryIds |-> IF m \in B THEN DeletedRow(rows[m]) ELSE rows[m]]
      /\ ret' = [ret EXCEPT ![t] = [IdleRet EXCEPT !.pc = "candidates"]]
      /\ vectors' = vectors
  BY <1>2, <1>3 DEF DeleteExpiredRows, DeleteRowsOf
<1>5. \A m \in B : rows[m].state = "soft"
  BY <1>3
<1>6. \A m \in MemoryIds :
          /\ rows'[m].state = IF m \in B THEN "gone" ELSE rows[m].state
          /\ Namespace(m)' = Namespace(m)
          /\ Indexed(m)' = Indexed(m)
  <2>1. \A m \in MemoryIds : DeletedRow(rows[m]).state = "gone"
                           /\ DeletedRow(rows[m]).kind = rows[m].kind
    BY <1>1, UnusedRowType DEF DeletedRow, Row
  <2> QED BY <1>4, <2>1 DEF Namespace, Indexed
<1>7. VectorsMirrored'
  BY <1>1, <1>3, <1>4, <1>6 DEF MInv, VectorsMirrored, Indexed
<1>8. /\ ret'[t].pc = "candidates"
      /\ \A u \in RetentionJobs : u # t => ret'[u] = ret[u]
  BY <1>1, <1>4, IdleRetType DEF RetLocal
<1>9. BatchesWithdrawn'
  BY <1>1, <1>6, <1>8 DEF MInv, BatchesWithdrawn
<1>10. stateBar' = [m \in MemoryIds |-> IF m \in B THEN "gone" ELSE stateBar[m]]
  BY <1>6 DEF stateBar
<1>11. indexBar' = indexBar /\ B \cap indexBar = {}
  BY <1>3, <1>4 DEF indexBar, Indexed
<1>12. Mirror!Forget(B)
  BY <1>5, <1>10, <1>11 DEF Mirror!Forget, Mirror!Become, indexBar, stateBar
<1> QED BY <1>7, <1>9, <1>12 DEF Mirror!Next

(* A batch is selected among the soft-deleted rows, and nothing of it is      *)
(* withdrawn yet.                                                             *)
LEMMA SelectStep ==
    ASSUME MInv, NEW t \in RetentionJobs, SelectSoftDeleted(t)
    PROVE  VectorsMirrored' /\ BatchesWithdrawn'
<1>1. PICK B \in SUBSET SoftDeletedRows :
          ret' = [ret EXCEPT ![t] =
                    [pc |-> IF B = {} THEN "candidates" ELSE "vectors",
                     batch |-> B, todo |-> {Namespace(m) : m \in B}]]
  BY DEF SelectSoftDeleted, LimitedTo
<1>2. UNCHANGED <<rows, vectors>>
  BY DEF SelectSoftDeleted, mirrorVars
<1>3. ret \in [RetentionJobs -> RetLocal]
  BY DEF MInv, IInv, TypeOK, RetTypeOK
<1>4. /\ ret'[t].pc \in {"candidates", "vectors"}
      /\ ret'[t].batch = B
      /\ ret'[t].todo = {Namespace(m) : m \in B}
      /\ \A u \in RetentionJobs : u # t => ret'[u] = ret[u]
  BY <1>1, <1>3
<1>5. /\ \A k : Namespace(k)' = Namespace(k) /\ Indexed(k)' = Indexed(k)
      /\ \A m \in B : rows[m].state = "soft" /\ Namespace(m) \in {Namespace(k) : k \in B}
  BY <1>2 DEF Namespace, Indexed, SoftDeletedRows, Soft
<1>6. VectorsMirrored'
  BY <1>2, <1>5 DEF MInv, VectorsMirrored
<1>7. BatchesWithdrawn'
  BY <1>2, <1>4, <1>5 DEF MInv, BatchesWithdrawn
<1> QED BY <1>6, <1>7

(* Vectors are withdrawn namespace by namespace, each from its own.           *)
LEMMA WithdrawStep ==
    ASSUME MInv, NEW t \in RetentionJobs, DeleteExpiredVectors(t)
    PROVE  VectorsMirrored' /\ BatchesWithdrawn' /\ Mirror!Next
<1>1. PICK n \in ret[t].todo :
          /\ DeleteIds(n, ret[t].batch)
          /\ ret' = [ret EXCEPT ![t].todo = @ \ {n},
                                ![t].pc = IF ret[t].todo = {n} THEN "rows" ELSE "vectors"]
  BY DEF DeleteExpiredVectors
<1>2. /\ ret \in [RetentionJobs -> RetLocal] /\ n \in Namespaces
      /\ vectors \in [Namespaces -> SUBSET MemoryIds]
      /\ \A u \in RetentionJobs : ret[u].batch \subseteq MemoryIds
  BY DEF MInv, IInv, TypeOK, MirrorTypeOK, RetTypeOK, RetLocal
<1>3. rows' = rows /\ ret[t].pc = "vectors"
  BY DEF DeleteExpiredVectors
<1>4. /\ \A k \in Namespaces : vectors'[k] \subseteq vectors[k]
      /\ vectors'[n] = vectors[n] \ ret[t].batch
  BY <1>1, <1>2 DEF DeleteIds
<1>5. \A k : Namespace(k)' = Namespace(k) /\ (Indexed(k)' => Indexed(k))
  BY <1>3, <1>4 DEF Namespace, Indexed
<1>6. VectorsMirrored'
  BY <1>3, <1>4, <1>5 DEF MInv, VectorsMirrored
<1>7. /\ ret'[t].batch = ret[t].batch /\ ret'[t].todo = ret[t].todo \ {n}
      /\ ret'[t].pc = IF ret[t].todo = {n} THEN "rows" ELSE "vectors"
      /\ \A u \in RetentionJobs : u # t => ret'[u] = ret[u]
  BY <1>1, <1>2 DEF RetLocal
<1>8. ASSUME NEW m \in ret[t].batch
      PROVE  /\ rows'[m].state \in {"soft", "gone"}
             /\ Namespace(m)' \notin ret'[t].todo => ~Indexed(m)'
  <2>1. rows'[m].state \in {"soft", "gone"}
    BY <1>3 DEF MInv, BatchesWithdrawn
  <2>2. CASE Namespace(m) = n
    BY <1>4, <1>5, <1>6, <2>1, <2>2 DEF VectorsMirrored, Indexed
  <2>3. CASE Namespace(m) # n
    BY <1>3, <1>5, <1>7, <2>3 DEF MInv, BatchesWithdrawn
  <2> QED BY <2>1, <2>2, <2>3
<1>9. ASSUME NEW u \in RetentionJobs, u # t
      PROVE  /\ ret'[u].pc = "rows" => ret'[u].todo = {}
             /\ ret'[u].pc \in {"vectors", "rows"} =>
                   \A m \in ret'[u].batch :
                       /\ rows'[m].state \in {"soft", "gone"}
                       /\ Namespace(m)' \notin ret'[u].todo => ~Indexed(m)'
  BY <1>3, <1>5, <1>7, <1>9 DEF MInv, BatchesWithdrawn
<1>10. ret'[t].pc = "rows" => ret'[t].todo = {}
  BY <1>7
<1>11. BatchesWithdrawn'
  BY <1>7, <1>8, <1>9, <1>10 DEF BatchesWithdrawn
<1>12. Mirror!Next
  BY <1>3, <1>4, WithdrawMaps
<1> QED BY <1>6, <1>11, <1>12

(* A job that leaves its batch behind keeps nothing of it.                    *)
LEMMA BatchDropped ==
    ASSUME MInv, NEW t \in RetentionJobs, NEW local \in RetLocal,
           local.pc \notin {"vectors", "rows"}, ret' = [ret EXCEPT ![t] = local],
           UNCHANGED <<rows, vectors>>
    PROVE  VectorsMirrored' /\ BatchesWithdrawn'
<1>1. \A k : Namespace(k)' = Namespace(k) /\ Indexed(k)' = Indexed(k)
  BY DEF Namespace, Indexed
<1>2. ret'[t] = local /\ \A u \in RetentionJobs : u # t => ret'[u] = ret[u]
  BY DEF MInv, IInv, TypeOK, RetTypeOK
<1>3. VectorsMirrored'
  BY <1>1 DEF MInv, VectorsMirrored
<1>4. BatchesWithdrawn'
  BY <1>1, <1>2 DEF MInv, BatchesWithdrawn
<1> QED BY <1>3, <1>4
-----------------------------------------------------------------------------
LEMMA RetentionMaps ==
    ASSUME MInv, NEW t \in RetentionJobs, RetAction(t)
    PROVE  /\ VectorsMirrored' /\ BatchesWithdrawn'
           /\ Mirror!Next \/ UNCHANGED <<stateBar, indexBar>>
<1>1. CASE SoftDeleteExpired(t)
  BY <1>1, RetireStep
<1>2. CASE SelectSoftDeleted(t)
  <2>1. UNCHANGED <<rows, vectors>>
    BY <1>2 DEF SelectSoftDeleted, mirrorVars
  <2> QED BY <1>2, <2>1, SelectStep DEF stateBar, indexBar, Indexed
<1>3. CASE DeleteExpiredVectors(t)
  BY <1>3, WithdrawStep
<1>4. CASE DeleteExpiredRows(t)
  BY <1>4, ForgetStep
<1>5. CASE \/ DeleteExpiredCandidates(t) \/ RetentionFails(t)
           \/ RetentionCrashes(t) \/ RetentionRestarts(t)
  <2>1. UNCHANGED <<rows, vectors>>
    BY <1>5 DEF DeleteExpiredCandidates, RetentionFails, RetentionCrashes,
                RetentionRestarts, RetentionAborts, mirrorVars
  <2>2. PICK local \in {IdleRet, [IdleRet EXCEPT !.pc = "dead"]} :
            ret' = [ret EXCEPT ![t] = local]
    BY <1>5 DEF DeleteExpiredCandidates, RetentionFails, RetentionCrashes,
                RetentionRestarts, RetentionAborts
  <2>3. local \in RetLocal /\ local.pc \in {"expire", "dead"}
    BY IdleRetType DEF IdleRet, RetLocal
  <2> QED BY <2>1, <2>2, <2>3, BatchDropped DEF stateBar, indexBar, Indexed
<1> QED BY <1>1, <1>2, <1>3, <1>4, <1>5 DEF RetAction, RetentionStep

(* A sync worker publishes, and otherwise changes stamps and counts.          *)
LEMMA SyncMaps ==
    ASSUME MInv, NEW w \in SyncWorkers, SyncAction(w), ret' = ret
    PROVE  /\ VectorsMirrored' /\ BatchesWithdrawn'
           /\ Mirror!Next \/ UNCHANGED <<stateBar, indexBar>>
<1>1. CASE EmbedAndUpsert(w) \/ SyncFails(w)
  <2>1. PICK m \in MemoryIds :
          /\ NextToSync(w, m)
          /\ vectors' = vectors \/ vectors' = [vectors EXCEPT ![Namespace(m)] = @ \cup {m}]
    BY <1>1 DEF EmbedAndUpsert, SyncFails
  <2>2. rows' = rows
    BY <1>1 DEF EmbedAndUpsert, SyncFails
  <2>3. Live(m)
    BY <2>1 DEF NextToSync, FirstOf, MInv, IInv, SyncingRowsStayLive
  <2>4. CASE vectors' = vectors
    BY <2>2, <2>4, WithdrawKeeps DEF stateBar, indexBar, Indexed
  <2>5. CASE vectors' = [vectors EXCEPT ![Namespace(m)] = @ \cup {m}]
    BY <2>2, <2>3, <2>5, PublishMaps
  <2> QED BY <2>1, <2>4, <2>5
<1>2. CASE \/ PollUnsynced(w) \/ CommitSync(w) \/ BackoffOverflows(w)
           \/ SyncCrashes(w) \/ SyncRestarts(w)
  <2>1. vectors' = vectors
    BY <1>2 DEF PollUnsynced, CommitSync, BackoffOverflows, SyncCrashes, SyncAborts,
                SyncRestarts, mirrorVars
  <2>2. \A m \in MemoryIds : rows'[m].state = rows[m].state /\ rows'[m].kind = rows[m].kind
    <3>1. CASE CommitSync(w)
      BY <3>1 DEF CommitSync, MInv, IInv, TypeOK, MirrorTypeOK, Row
    <3>2. CASE rows' = rows
      BY <3>2
    <3> QED BY <1>2, <3>1, <3>2
            DEF PollUnsynced, BackoffOverflows, SyncCrashes, SyncAborts, SyncRestarts,
                mirrorVars
  <2> QED BY <2>1, <2>2, WithdrawKeeps DEF stateBar, indexBar, Indexed
<1> QED BY <1>1, <1>2 DEF SyncAction, SyncStep

(* An erasure withdraws vectors, and takes rows whether they have one or not. *)
LEMMA EraseStep ==
    ASSUME MInv, NEW e \in Erasers, CommitErasure(e), ret' = ret
    PROVE  VectorsMirrored' /\ BatchesWithdrawn' /\ Mirror!Next
<1>1. /\ rows \in [MemoryIds -> Row]
      /\ \A n \in Namespaces : vectors[n] \subseteq MemoryIds
      /\ \A u \in RetentionJobs : ret[u].batch \subseteq MemoryIds
  BY DEF MInv, IInv, TypeOK, MirrorTypeOK, RetTypeOK, RetLocal
<1>2. PICK B \in SUBSET MemoryIds :
          B = {m \in MemoryIds : /\ m \in er[e].matched /\ lockedBy[m] = e
                                /\ rows[m].state \in {"live", "soft"}}
  OBVIOUS
<1>3. /\ rows' = [m \in MemoryIds |-> IF m \in B THEN DeletedRow(rows[m]) ELSE rows[m]]
      /\ vectors' = vectors
  BY <1>2 DEF CommitErasure, DeleteRowsOf
<1>4. \A m \in B : rows[m].state \in {"live", "soft"}
  BY <1>2
<1>5. \A m \in MemoryIds :
          /\ rows'[m].state = IF m \in B THEN "gone" ELSE rows[m].state
          /\ Namespace(m)' = Namespace(m)
          /\ Indexed(m)' = Indexed(m)
  <2>1. \A m \in MemoryIds : DeletedRow(rows[m]).state = "gone"
                           /\ DeletedRow(rows[m]).kind = rows[m].kind
    BY <1>1, UnusedRowType DEF DeletedRow, Row
  <2> QED BY <1>3, <2>1 DEF Namespace, Indexed
<1>6. VectorsMirrored'
  BY <1>1, <1>3, <1>5 DEF MInv, VectorsMirrored
<1>7. BatchesWithdrawn'
  BY <1>1, <1>5 DEF MInv, BatchesWithdrawn
<1>8. stateBar' = [m \in MemoryIds |-> IF m \in B THEN "gone" ELSE stateBar[m]]
  BY <1>5 DEF stateBar
<1>9. indexBar' = indexBar
  BY <1>3 DEF indexBar, Indexed
<1>10. Mirror!Erase(B)
  BY <1>4, <1>8, <1>9 DEF Mirror!Erase, indexBar, stateBar
<1> QED BY <1>6, <1>7, <1>10 DEF Mirror!Next

LEMMA ErasureMaps ==
    ASSUME MInv, NEW e \in Erasers, ErAction(e), ret' = ret
    PROVE  VectorsMirrored' /\ BatchesWithdrawn' /\ Mirror!Next
<1>1. CASE CommitErasure(e)
  BY <1>1, EraseStep
<1>2. CASE ~CommitErasure(e)
  <2>1. rows' = rows
    BY <1>2
       DEF ErAction, ErasureStep, CollectMatchedRows, DeleteMatchedVectors,
           DeleteMatchedRows, EraseCheckpoint, ErasureFails, ErasureCrashes,
           ErasureAborts, mirrorVars
  <2>2. \A n \in Namespaces : vectors'[n] \subseteq vectors[n]
    <3>1. CASE DeleteMatchedVectors(e)
      BY <3>1 DEF DeleteMatchedVectors, DeleteIds, MInv, IInv, TypeOK, MirrorTypeOK,
                  ErTypeOK, ErLocal
    <3>2. CASE vectors' = vectors
      BY <3>2
    <3> QED BY <1>2, <3>1, <3>2
            DEF ErAction, ErasureStep, CollectMatchedRows, DeleteMatchedRows,
                EraseCheckpoint, ErasureFails, ErasureCrashes, ErasureAborts, mirrorVars
  <2> QED BY <2>1, <2>2, WithdrawKeeps, WithdrawMaps
<1> QED BY <1>1, <1>2

(* Reconciliation withdraws.                                                  *)
LEMMA ReconciliationMaps ==
    ASSUME MInv, NEW r \in Reconcilers, RecAction(r), ret' = ret
    PROVE  VectorsMirrored' /\ BatchesWithdrawn' /\ Mirror!Next
<1>1. rows' = rows
  BY DEF RecAction, ReconciliationStep, ReadActiveIds, ListOrphans, DeleteOrphans,
         FinishReconciliation, ReconciliationFails, ReconciliationCrashes,
         ReconciliationAborts, ReconciliationRestarts, mirrorVars
<1>2. \A n \in Namespaces : vectors'[n] \subseteq vectors[n]
  <2>1. CASE DeleteOrphans(r)
    BY <2>1 DEF DeleteOrphans, DeleteIds, MInv, IInv, TypeOK, MirrorTypeOK,
                RecTypeOK, RecLocal
  <2>2. CASE vectors' = vectors
    BY <2>2
  <2> QED BY <2>1, <2>2
          DEF RecAction, ReconciliationStep, ReadActiveIds, ListOrphans,
              FinishReconciliation, ReconciliationFails, ReconciliationCrashes,
              ReconciliationAborts, ReconciliationRestarts, mirrorVars
<1> QED BY <1>1, <1>2, WithdrawKeeps, WithdrawMaps

(* Consolidation and ingestion remember; the clock changes nothing here.      *)
LEMMA ConsolidationMaps ==
    ASSUME MInv, NEW c \in Consolidators, ConAction(c), ret' = ret
    PROVE  /\ VectorsMirrored' /\ BatchesWithdrawn'
           /\ Mirror!Next \/ UNCHANGED <<stateBar, indexBar>>
<1>1. vectors' = vectors
  BY DEF ConAction, ConsolidationStep, PickConversations, SkipTurnless, ExtractFacts,
         SelectFact, InsertFact, ReselectFact, ConflictVanishes, MarkPromoted,
         FinishConversation, CommitConsolidation, ExtractionFails,
         ConsolidationCrashes, ConsolidationAborts, ConsolidationRestarts, mirrorVars
<1>2. CASE \E m \in MemoryIds, expiry \in {"never", "ahead"} :
              /\ FreshId(m)
              /\ rows' = [rows EXCEPT ![m] =
                    InsertedRow("conversation_summary", ConvOwner[con[c].conv],
                                con[c].fact, {con[c].conv}, expiry)]
              /\ con[c].pc = "insert"
  <2>1. PICK m \in MemoryIds, expiry \in {"never", "ahead"} :
              /\ FreshId(m)
              /\ rows' = [rows EXCEPT ![m] =
                    InsertedRow("conversation_summary", ConvOwner[con[c].conv],
                                con[c].fact, {con[c].conv}, expiry)]
              /\ con[c].pc = "insert"
    BY <1>2
  <2>2. PICK row : row = InsertedRow("conversation_summary", ConvOwner[con[c].conv],
                                     con[c].fact, {con[c].conv}, expiry)
    OBVIOUS
  <2>3. con[c].conv \in Convs /\ con[c].fact \in Facts /\ ConvOwner[con[c].conv] \in Users
    BY <2>1, OwnersAssumption DEF MInv, IInv, PromotionHasItsParts
  <2>4. row \in Row
    BY <2>2, <2>3, InsertedRowType DEF Kinds
  <2>5. row.state = "live"
    BY <2>2 DEF InsertedRow
  <2> QED BY <1>1, <2>1, <2>2, <2>4, <2>5, RememberStep
<1>3. CASE \A m \in MemoryIds : rows'[m].state = rows[m].state /\ rows'[m].kind = rows[m].kind
  BY <1>1, <1>3, WithdrawKeeps DEF stateBar, indexBar, Indexed
<1>4. CASE SelectFact(c)
  <2>1. \/ rows' = rows
        \/ \E m \in MemoryIds : \E S : rows' = [rows EXCEPT ![m].sources = S]
    BY <1>4, ActiveFactType DEF SelectFact
  <2> QED BY <1>3, <2>1 DEF MInv, IInv, TypeOK, MirrorTypeOK, Row
<1>5. CASE InsertFact(c)
  BY <1>2, <1>3, <1>5 DEF InsertFact
<1>6. CASE rows' = rows
  BY <1>3, <1>6
<1> QED
  BY <1>4, <1>5, <1>6
     DEF ConAction, ConsolidationStep, PickConversations, SkipTurnless, ExtractFacts,
         ReselectFact, ConflictVanishes, MarkPromoted, FinishConversation,
         CommitConsolidation, ExtractionFails, ConsolidationCrashes,
         ConsolidationAborts, ConsolidationRestarts, mirrorVars

LEMMA EnvironmentMaps ==
    ASSUME MInv, Environment
    PROVE  /\ VectorsMirrored' /\ BatchesWithdrawn'
           /\ Mirror!Next \/ UNCHANGED <<stateBar, indexBar>>
<1>1. ret' = ret /\ vectors' = vectors
  BY DEF Environment, WriterOrClock, RecordDocumentChunk, ExpiryPasses, mirrorVars
<1>2. CASE RecordDocumentChunk
  <2> DEFINE row == InsertedRow("document_chunk", NoOwner, NoFact, {}, "never")
  <2>1. PICK m \in MemoryIds :
          /\ FreshId(m)
          /\ rows' = [rows EXCEPT ![m] = row]
    BY <1>2 DEF RecordDocumentChunk
  <2>2. row \in Row
    BY InsertedRowType DEF Kinds
  <2>3. row.state = "live"
    BY DEF InsertedRow
  <2> HIDE DEF row
  <2> QED BY <1>1, <2>1, <2>2, <2>3, RememberStep
<1>3. CASE ExpiryPasses \/ UNCHANGED mirrorVars
  <2>1. \A m \in MemoryIds : rows'[m].state = rows[m].state /\ rows'[m].kind = rows[m].kind
    BY <1>3 DEF ExpiryPasses, mirrorVars, MInv, IInv, TypeOK, MirrorTypeOK, Row
  <2> QED BY <1>1, <2>1, WithdrawKeeps DEF stateBar, indexBar, Indexed
<1> QED BY <1>2, <1>3 DEF Environment
-----------------------------------------------------------------------------
LEMMA InitMaps == Init => MInv /\ Mirror!Init
<1> SUFFICES ASSUME Init PROVE MInv /\ Mirror!Init
  OBVIOUS
<1>1. VectorsMirrored /\ \A m : ~Indexed(m)
  BY DEF Init, MirrorInit, VectorsMirrored, Indexed
<1>2. BatchesWithdrawn
  BY DEF Init, RetInit, IdleRet, BatchesWithdrawn
<1>3. \A m \in MemoryIds : rows[m].state = "unused"
  <2>1. UnusedRow.state = "unused"
    BY DEF UnusedRow, InsertedRow
  <2> QED BY <2>1 DEF Init, MirrorInit
<1>4. Mirror!Init
  BY <1>1, <1>3 DEF Mirror!Init
<1> QED BY <1>1, <1>2, <1>4, InitEstablishes DEF MInv

LEMMA NextMaps ==
    ASSUME MInv, [Next]_vars
    PROVE  MInv' /\ [Mirror!Next]_(Mirror!indexVars)
<1>1. IInv'
  BY NextPreserves DEF MInv
<1>2. /\ VectorsMirrored' /\ BatchesWithdrawn'
      /\ Mirror!Next \/ UNCHANGED <<stateBar, indexBar>>
  <2>1. CASE UNCHANGED vars
    BY <2>1, WithdrawKeeps DEF vars, mirrorVars, stateBar, indexBar, Indexed
  <2>2. CASE Environment
    BY <2>2, EnvironmentMaps
  <2> QED
    BY <2>1, <2>2, SyncMaps, ReconciliationMaps, RetentionMaps, ConsolidationMaps,
       ErasureMaps
       DEF Next, Work, Restart, ProviderFailure, Crash, SyncOnly, RecOnly, ConOnly, ErOnly,
           SyncAction, RecAction, RetAction, ConAction, ErAction
<1>3. [Mirror!Next]_(Mirror!indexVars)
  BY <1>2 DEF Mirror!indexVars, stateBar, indexBar
<1> QED BY <1>1, <1>2, <1>3 DEF MInv

(* Every vector has a mirror row, whatever sync, reconciliation, retention,   *)
(* consolidation and ingestion do, fail and crash, as long as nobody erases.  *)
THEOREM MirrorHolds == ASSUME Erasers = {} PROVE Spec => []VectorsHaveRows
<1>1. MInv => VectorsHaveRows
  BY DEF MInv, IInv, TypeOK, MirrorTypeOK, Row, RowStates, VectorsMirrored, VectorsHaveRows
<1>2. Init => MInv
  BY InitMaps
<1>3. MInv /\ [Next]_vars => MInv'
  BY NextMaps
<1> QED BY <1>1, <1>2, <1>3, PTL DEF Spec

(* Long-term memory implements the mirrored index, erasures or not: only live *)
(* rows are published, expired rows leave the table only when their vector is *)
(* gone for good, and only an erasure can leave a vector behind.              *)
THEOREM Refinement == Spec => ImplementsMirroredIndex
<1>1. Init => MInv /\ Mirror!Init
  BY InitMaps
<1>2. MInv /\ [Next]_vars => MInv' /\ [Mirror!Next]_(Mirror!indexVars)
  BY NextMaps
<1> QED BY <1>1, <1>2, PTL DEF Spec, ImplementsMirroredIndex, Mirror!Spec
-----------------------------------------------------------------------------
(* What becomes of the vectors of live rows, whoever is at work.              *)

(* A job cannot take for an orphan a row it could have read: of the rows      *)
(* inserted by then, those still live are among its ids.                      *)
OrphansWereNotRead ==
    \A r \in Reconcilers :
        /\ \A m \in rec[r].inserted :
              rows[m].state # "unused" /\ (Live(m) => m \in rec[r].active)
        /\ rec[r].orphans \cap rec[r].active = {}

VInv == MInv /\ OrphansWereNotRead

(* A row that was ever inserted is never so again: live now, live before.     *)
LEMMA RowsAge ==
    ASSUME IInv, [Next]_vars, NEW m \in MemoryIds, rows[m].state # "unused"
    PROVE  rows'[m].state # "unused" /\ (Live(m)' => Live(m))
BY RowsMove DEF Live, Kept, Removed, ChunkInserted, InsertedBy, FactInserted

LEMMA ReadingKept ==
    ASSUME VInv, [Next]_vars
    PROVE  OrphansWereNotRead'
<1>1. rec \in [Reconcilers -> RecLocal]
  BY DEF VInv, MInv, IInv, TypeOK, RecTypeOK
<1>2. ASSUME NEW r \in Reconcilers,
             rec'[r].inserted = rec[r].inserted, rec'[r].active = rec[r].active,
             rec'[r].orphans \cap rec[r].active = {}
      PROVE  /\ \A m \in rec'[r].inserted :
                    rows'[m].state # "unused" /\ (Live(m)' => m \in rec'[r].active)
             /\ rec'[r].orphans \cap rec'[r].active = {}
  BY <1>1, <1>2, RowsAge DEF VInv, MInv, OrphansWereNotRead, RecLocal
<1>3. CASE rec' = rec
  BY <1>2, <1>3 DEF VInv, OrphansWereNotRead
<1>4. ASSUME NEW q \in Reconcilers, RecAction(q)
      PROVE  OrphansWereNotRead'
  <2> DEFINE Fine(r) == /\ \A m \in rec'[r].inserted :
                              rows'[m].state # "unused" /\ (Live(m)' => m \in rec'[r].active)
                        /\ rec'[r].orphans \cap rec'[r].active = {}
  <2>1. \A r \in Reconcilers : r # q => rec'[r] = rec[r]
    BY <1>1, <1>4
       DEF RecAction, ReconciliationStep, ReadActiveIds, Reading, ListOrphans,
           DeleteOrphans, FinishReconciliation, ReconciliationFails,
           ReconciliationCrashes, ReconciliationAborts, ReconciliationRestarts
  <2>2. \A r \in Reconcilers : r # q => Fine(r)
    BY <1>2, <2>1 DEF VInv, OrphansWereNotRead
  <2> SUFFICES Fine(q)
    BY <2>2 DEF OrphansWereNotRead
  <2>3. CASE ReadActiveIds(q)
    <3>1. /\ rec'[q].inserted = Inserted /\ rec'[q].orphans = {}
          /\ rec'[q].active = {m \in MemoryIds : Live(m)} /\ rows' = rows
      BY <1>1, <2>3 DEF ReadActiveIds, Reading, IdleRec, mirrorVars
    <3> QED BY <3>1 DEF Inserted, Live
  <2>4. CASE ListOrphans(q)
    <3>1. PICK n \in rec[q].todo :
            /\ rec'[q].inserted = rec[q].inserted /\ rec'[q].active = rec[q].active
            /\ rec'[q].orphans = vectors[n] \ rec[q].active
      <4>1. PICK n \in rec[q].todo :
              rec' = [rec EXCEPT
                        ![q].pc = IF vectors[n] \ rec[q].active = {} THEN "list" ELSE "delete",
                        ![q].todo = @ \ {n}, ![q].namespace = n,
                        ![q].orphans = vectors[n] \ rec[q].active]
        BY <2>4 DEF ListOrphans
      <4> QED BY <1>1, <4>1 DEF RecLocal
    <3> QED BY <1>2, <3>1
  <2>5. CASE DeleteOrphans(q)
    <3>1. /\ rec'[q].inserted = rec[q].inserted /\ rec'[q].active = rec[q].active
          /\ rec'[q].orphans = {}
      BY <1>1, <2>5 DEF DeleteOrphans, RecLocal
    <3> QED BY <1>2, <3>1
  <2>6. CASE \/ FinishReconciliation(q) \/ ReconciliationFails(q)
             \/ ReconciliationCrashes(q) \/ ReconciliationRestarts(q)
    <3>1. rec'[q].inserted = {} /\ rec'[q].orphans = {}
      BY <1>1, <2>6
         DEF FinishReconciliation, ReconciliationFails, ReconciliationCrashes,
             ReconciliationAborts, ReconciliationRestarts, IdleRec
    <3> QED BY <3>1
  <2> QED BY <1>4, <2>3, <2>4, <2>5, <2>6 DEF RecAction, ReconciliationStep
<1> QED
  BY <1>3, <1>4
     DEF Next, Environment, WriterOrClock, Work, SyncOnly, RetOnly, ConOnly, ErOnly,
         Restart, ProviderFailure, Crash, vars, RecAction

LEMMA VectorsInit == Init => VInv
<1>1. Init => OrphansWereNotRead
  BY DEF Init, RecInit, IdleRec, OrphansWereNotRead
<1> QED BY <1>1, InitMaps DEF VInv

LEMMA VectorsNext == VInv /\ [Next]_vars => VInv'
BY NextMaps, ReadingKept DEF VInv

(* Who takes the vector of a live row. Retention withdraws those of its batch *)
(* only, and no row of a batch is live.                                       *)
LEMMA TakenFromLive ==
    ASSUME VInv, [Next]_vars, NEW n \in Namespaces, NEW m \in vectors[n] \ vectors'[n],
           Live(m)
    PROVE  TakenByErasure(m) \/ TakenAsOrphan(m)
<1>1. vectors \in [Namespaces -> SUBSET MemoryIds] /\ vectors' # vectors
  BY DEF VInv, MInv, IInv, TypeOK, MirrorTypeOK
<1>2. ASSUME NEW w \in SyncWorkers, SyncAction(w) PROVE FALSE
  BY <1>1, <1>2, NamespaceType
     DEF SyncAction, SyncStep, PollUnsynced, EmbedAndUpsert, CommitSync, SyncFails,
         BackoffOverflows, SyncCrashes, SyncAborts, SyncRestarts, mirrorVars
<1>3. ASSUME NEW c \in Consolidators, ConAction(c) PROVE FALSE
  BY <1>1, <1>3
     DEF ConAction, ConsolidationStep, PickConversations, SkipTurnless, ExtractFacts,
         SelectFact, InsertFact, ReselectFact, ConflictVanishes, MarkPromoted,
         FinishConversation, CommitConsolidation, ExtractionFails, ConsolidationCrashes,
         ConsolidationAborts, ConsolidationRestarts, mirrorVars
<1>4. ASSUME NEW t \in RetentionJobs, RetAction(t) PROVE FALSE
  <2>1. DeleteExpiredVectors(t)
    BY <1>1, <1>4
       DEF RetAction, RetentionStep, SoftDeleteExpired, SelectSoftDeleted,
           DeleteExpiredRows, DeleteExpiredCandidates, RetentionFails, RetentionCrashes,
           RetentionAborts, RetentionRestarts, mirrorVars
  <2>2. m \in ret[t].batch /\ ret[t].pc = "vectors"
    BY <1>1, <2>1 DEF DeleteExpiredVectors, DeleteIds
  <2> QED BY <2>2 DEF VInv, MInv, BatchesWithdrawn, Live
<1>5. ASSUME NEW r \in Reconcilers, RecAction(r) PROVE TakenAsOrphan(m)
  <2>1. DeleteOrphans(r)
    BY <1>1, <1>5
       DEF RecAction, ReconciliationStep, ReadActiveIds, ListOrphans,
           FinishReconciliation, ReconciliationFails, ReconciliationCrashes,
           ReconciliationAborts, ReconciliationRestarts, mirrorVars
  <2>2. m \in rec[r].orphans
    BY <1>1, <2>1 DEF DeleteOrphans, DeleteIds
  <2>3. rec[r].pc = "delete" /\ rec'[r].pc = "list"
    BY <2>1 DEF DeleteOrphans, VInv, MInv, IInv, TypeOK, RecTypeOK, RecLocal
  <2>4. m \notin rec[r].inserted
    BY <2>2 DEF VInv, OrphansWereNotRead
  <2> QED BY <2>2, <2>3, <2>4 DEF TakenAsOrphan
<1>6. ASSUME NEW e \in Erasers, ErAction(e) PROVE TakenByErasure(m)
  <2>1. DeleteMatchedVectors(e)
    BY <1>1, <1>6
       DEF ErAction, ErasureStep, CollectMatchedRows, DeleteMatchedRows, EraseCheckpoint,
           CommitErasure, ErasureFails, ErasureCrashes, ErasureAborts, mirrorVars
  <2>2. PICK k \in er[e].todo :
          DeleteIds(k, er[e].matched) /\ er' = [er EXCEPT ![e].todo = @ \ {k}]
    BY <2>1 DEF DeleteMatchedVectors
  <2>3. m \in er[e].matched
    BY <1>1, <2>2 DEF DeleteIds
  <2>4. er'[e].todo # er[e].todo
    BY <2>2 DEF VInv, MInv, IInv, TypeOK, ErTypeOK, ErLocal
  <2> QED BY <2>3, <2>4 DEF TakenByErasure
<1>7. ~Environment /\ Next
  BY <1>1 DEF Environment, RecordDocumentChunk, ExpiryPasses, vars, mirrorVars
<1> QED
  BY <1>2, <1>3, <1>4, <1>5, <1>6, <1>7
     DEF Next, Work, Restart, ProviderFailure, Crash, SyncAction, RecAction, RetAction,
         ConAction, ErAction

(* A worker stamps a row right after the upsert of its vector.                *)
LEMMA StampsFollowUpserts ==
    ASSUME MInv, [Next]_vars, NEW w \in SyncWorkers, NEW m \in sync'[w].stamped
    PROVE  m \in sync[w].stamped \/ (rows' = rows /\ m \in vectors'[Namespace(m)])
<1>1. /\ sync \in [SyncWorkers -> SyncLocal]
      /\ vectors \in [Namespaces -> SUBSET MemoryIds]
  BY DEF MInv, IInv, TypeOK, MirrorTypeOK, SyncTypeOK
<1>2. CASE sync' = sync
  BY <1>2
<1>3. ASSUME NEW v \in SyncWorkers, SyncAction(v)
      PROVE  m \in sync[w].stamped \/ (rows' = rows /\ m \in vectors'[Namespace(m)])
  <2>1. CASE EmbedAndUpsert(v)
    <3>1. PICK k \in MemoryIds :
            /\ vectors' = [vectors EXCEPT ![Namespace(k)] = @ \cup {k}]
            /\ sync' = [sync EXCEPT ![v].todo = @ \ {k}, ![v].stamped = @ \cup {k}]
      BY <2>1 DEF EmbedAndUpsert
    <3>2. m \in sync[w].stamped \/ m = k
      BY <1>1, <3>1 DEF SyncLocal
    <3> QED BY <1>1, <2>1, <3>1, <3>2, NamespaceType DEF EmbedAndUpsert
  <2>2. CASE SyncFails(v)
    BY <1>1, <2>2 DEF SyncFails, SyncLocal
  <2>3. CASE \/ PollUnsynced(v) \/ CommitSync(v) \/ BackoffOverflows(v)
             \/ SyncCrashes(v) \/ SyncRestarts(v)
    BY <1>1, <2>3, IdleSyncType
       DEF PollUnsynced, CommitSync, BackoffOverflows, SyncCrashes, SyncAborts,
           SyncRestarts, IdleSync
  <2> QED BY <1>3, <2>1, <2>2, <2>3 DEF SyncAction, SyncStep
<1> QED
  BY <1>2, <1>3
     DEF Next, Environment, WriterOrClock, Work, RecOnly, RetOnly, ConOnly, ErOnly,
         Restart, ProviderFailure, Crash, vars, SyncAction

(* A promise is made with the vector, and a committed one follows a stamp.    *)
LEMMA PromisesFollowVectors ==
    ASSUME MInv, [Next]_vars, NEW m \in MemoryIds, BrokenPromise(m)'
    PROVE  BrokenPromise(m) \/ (Live(m) /\ VectorOf(m))
<1>1. Live(m)'
  BY DEF BrokenPromise, Promised
<1>2. CASE rows'[m].synced
  <2>1. Kept(m)
    BY <1>1, <1>2, RowsMove
       DEF MInv, Live, Removed, ChunkInserted, InsertedBy, FactInserted
  <2>2. Promised(m)
    BY <1>1, <1>2, <2>1 DEF Kept, Live, Promised
  <2> QED BY <2>2 DEF Promised, BrokenPromise
<1>3. ASSUME NEW w \in SyncWorkers, m \in sync'[w].stamped
      PROVE  BrokenPromise(m) \/ (Live(m) /\ VectorOf(m))
  <2>1. CASE m \in sync[w].stamped
    <3>1. Promised(m)
      BY <2>1 DEF Promised, MInv, IInv, SyncingRowsStayLive
    <3> QED BY <3>1 DEF Promised, BrokenPromise
  <2>2. CASE rows' = rows /\ m \in vectors'[Namespace(m)]
    BY <2>2 DEF BrokenPromise, VectorOf, Namespace
  <2> QED BY <1>3, <2>1, <2>2, StampsFollowUpserts
<1> QED BY <1>2, <1>3 DEF BrokenPromise, Promised

(* A synced_at stamp, committed or still in its worker's transaction, becomes *)
(* false in one way only: the vector is deleted while the row is live. For    *)
(* any processes, reconciliation jobs and erasures among them.                *)
THEOREM StampsAreTrue == Spec => StampsFailOnlyWithVectors
<1>1. Init => MInv
  BY InitMaps
<1>2. MInv /\ [Next]_vars => MInv'
  BY NextMaps
<1>3. MInv /\ [Next]_vars
        => [\A m \in MemoryIds :
              BrokenPromise(m)' => BrokenPromise(m) \/ (Live(m) /\ VectorOf(m))]_vars
  BY PromisesFollowVectors
<1> QED BY <1>1, <1>2, <1>3, PTL DEF Spec, StampsFailOnlyWithVectors

(* The vector of a live row is taken by an erasure that matched the row, or   *)
(* by a reconciliation job for which the row came too late; by nobody else,   *)
(* and of no row the job could have read.                                     *)
THEOREM LiveVectorsSurvive == Spec => LiveVectorsAreKept
<1>1. Init => VInv
  BY VectorsInit
<1>2. VInv /\ [Next]_vars => VInv'
  BY VectorsNext
<1>3. VInv /\ [Next]_vars
        => [\A n \in Namespaces : \A m \in vectors[n] \ vectors'[n] :
              Live(m) => TakenByErasure(m) \/ TakenAsOrphan(m)]_vars
  BY TakenFromLive
<1> QED BY <1>1, <1>2, <1>3, PTL DEF Spec, LiveVectorsAreKept
=============================================================================
