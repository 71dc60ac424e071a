------------------------ MODULE MemoryRetentionJob ------------------------
(* The job that retires expired memories. purge_once is four transactions     *)
(* with calls to the index between them: soft-delete what expired, read a     *)
(* batch of soft-deleted rows, delete their vectors, delete the rows, and     *)
(* drop expired candidates. No lock is held from one to the next.             *)
EXTENDS MemoryMirror

CONSTANTS RetentionJobs, RetentionBatchSize
ASSUME RetentionBatchAssumption == RetentionBatchSize \in Nat \ {0}

VARIABLE ret    \* per job: [pc, batch, todo]

RetLocal == [pc : {"expire", "select", "vectors", "rows", "candidates", "dead"},
             batch : SUBSET MemoryIds, todo : SUBSET Namespaces]
IdleRet == [pc |-> "expire", batch |-> {}, todo |-> {}]
RetTypeOK == ret \in [RetentionJobs -> RetLocal]
RetInit == ret = [t \in RetentionJobs |-> IdleRet]

(* Mutants: rows a sync worker has locked expire too; the vectors of expired  *)
(* rows are deleted before the soft delete; rows never synced are kept.       *)
ExpiresLockedRows == {m \in MemoryIds : Live(m) /\ rows[m].expiry = "passed"}
SelectsExpiredRows ==
    {m \in MemoryIds : Unlocked(m) /\ (Soft(m) \/ (Live(m) /\ rows[m].expiry = "passed"))}
KeepsUnsyncedRows == {m \in MemoryIds : Soft(m) /\ rows[m].synced /\ Unlocked(m)}

ExpiredRows == {m \in MemoryIds : Live(m) /\ rows[m].expiry = "passed" /\ Unlocked(m)}
SoftDeletedRows == {m \in MemoryIds : Soft(m) /\ Unlocked(m)}

SoftDeleteExpired(t) ==
    LET batch == FirstOf(ExpiredRows, RetentionBatchSize) IN
    /\ ret[t].pc = "expire"
    /\ rows' = [m \in MemoryIds |->
                   IF m \in batch THEN [rows[m] EXCEPT !.state = "soft"] ELSE rows[m]]
    /\ ret' = [ret EXCEPT ![t].pc = "select"]
    /\ UNCHANGED <<vectors, lockedBy, promotions>>

(* The session that selects FOR UPDATE closes at once, so the batch is only a *)
(* list of ids when its vectors and its rows are deleted.                     *)
SelectSoftDeleted(t) ==
    /\ ret[t].pc = "select"
    /\ \E batch \in LimitedTo(SoftDeletedRows, RetentionBatchSize) :
          ret' = [ret EXCEPT ![t] =
                    [pc |-> IF batch = {} THEN "candidates" ELSE "vectors",
                     batch |-> batch, todo |-> {Namespace(m) : m \in batch}]]
    /\ UNCHANGED mirrorVars

DeleteExpiredVectors(t) ==
    /\ ret[t].pc = "vectors"
    /\ \E n \in ret[t].todo :
          /\ DeleteIds(n, ret[t].batch)
          /\ ret' = [ret EXCEPT ![t].todo = @ \ {n},
                                ![t].pc = IF ret[t].todo = {n} THEN "rows" ELSE "vectors"]
    /\ UNCHANGED <<rows, lockedBy, promotions>>

DeleteExpiredRows(t) ==
    /\ ret[t].pc = "rows"
    /\ \A m \in ret[t].batch : Unlocked(m)
    /\ DeleteRowsOf(ret[t].batch)
    /\ ret' = [ret EXCEPT ![t] = [IdleRet EXCEPT !.pc = "candidates"]]
    /\ UNCHANGED <<vectors, lockedBy, promotions>>

(* Which candidates are past their thirty days is left open.                  *)
DeleteExpiredCandidates(t) ==
    /\ ret[t].pc = "candidates"
    /\ \E expired \in SUBSET promotions :
          /\ Cardinality(expired) <= RetentionBatchSize
          /\ promotions' = promotions \ expired
    /\ ret' = [ret EXCEPT ![t] = IdleRet]
    /\ UNCHANGED <<rows, vectors, lockedBy>>

(* Mutant: an error is swallowed, and the rows of the batch are deleted.      *)
DeletesRowsAnyway(t) ==
    /\ ret' = [ret EXCEPT ![t].pc = "rows", ![t].todo = {}]
    /\ UNCHANGED mirrorVars

RetentionAborts(t) ==
    /\ ret' = [ret EXCEPT ![t] = [IdleRet EXCEPT !.pc = "dead"]]
    /\ UNCHANGED mirrorVars

(* delete_ids raises, and so does the task; the rows stay soft-deleted.       *)
RetentionFails(t) == ret[t].pc = "vectors" /\ RetentionAborts(t)

(* A database error or a process crash.                                       *)
RetentionCrashes(t) == ret[t].pc # "dead" /\ RetentionAborts(t)

RetentionRestarts(t) ==
    /\ ret[t].pc = "dead"
    /\ ret' = [ret EXCEPT ![t] = IdleRet]
    /\ UNCHANGED mirrorVars

RetentionStep(t) ==
    \/ SoftDeleteExpired(t) \/ SelectSoftDeleted(t) \/ DeleteExpiredVectors(t)
    \/ DeleteExpiredRows(t) \/ DeleteExpiredCandidates(t)
=============================================================================
