-------------------------- MODULE VectorSyncWorker --------------------------
(* Background workers that embed live unsynced rows and upsert their vectors. *)
(* One pass is one database transaction: it locks a batch with FOR UPDATE     *)
(* SKIP LOCKED, talks to the providers with the locks held, and commits the   *)
(* synced_at stamps and retry counts together at the end.                     *)
EXTENDS MemoryMirror

CONSTANT SyncBatchSize
ASSUME SyncBatchAssumption == SyncBatchSize \in Nat \ {0}

VARIABLE sync   \* per worker: [pc, todo, stamped, failed]

SyncLocal == [pc : {"idle", "syncing", "dead"}, todo : SUBSET MemoryIds,
              stamped : SUBSET MemoryIds, failed : SUBSET MemoryIds]
IdleSync == [pc |-> "idle", todo |-> {}, stamped |-> {}, failed |-> {}]
SyncTypeOK == sync \in [SyncWorkers -> SyncLocal]
SyncInit == sync = [w \in SyncWorkers |-> IdleSync]

(* Mutants: soft-deleted rows are polled too; failed rows are not polled again. *)
PollsSoftDeleted ==
    {m \in MemoryIds : (Live(m) \/ Soft(m)) /\ ~rows[m].synced /\ Unlocked(m)}
NeverPollsFailed ==
    {m \in MemoryIds : Live(m) /\ ~rows[m].synced /\ rows[m].retries = 0 /\ Unlocked(m)}

SyncCandidates == {m \in MemoryIds : Live(m) /\ ~rows[m].synced /\ Unlocked(m)}

PollUnsynced(w) ==
    LET batch == FirstOf(SyncCandidates, SyncBatchSize) IN
    /\ sync[w].pc = "idle"
    /\ batch # {}
    /\ lockedBy' = [m \in MemoryIds |-> IF m \in batch THEN w ELSE lockedBy[m]]
    /\ sync' = [sync EXCEPT ![w] = [IdleSync EXCEPT !.pc = "syncing", !.todo = batch]]
    /\ UNCHANGED <<rows, vectors, promotions>>

NextToSync(w, m) == /\ sync[w].pc = "syncing"
                    /\ m \in FirstOf(sync[w].todo, 1)

EmbedAndUpsert(w) ==
    /\ \E m \in MemoryIds :
          /\ NextToSync(w, m)
          /\ vectors' = [vectors EXCEPT ![Namespace(m)] = @ \cup {m}]
          /\ sync' = [sync EXCEPT ![w].todo = @ \ {m}, ![w].stamped = @ \cup {m}]
    /\ UNCHANGED <<rows, lockedBy, promotions>>

(* Mutant: nothing bounds the retry count.                                    *)
FailsWithoutBound(w) ==
    /\ \E m \in MemoryIds :
          /\ NextToSync(w, m)
          /\ sync' = [sync EXCEPT ![w].todo = @ \ {m}, ![w].failed = @ \cup {m}]
    /\ UNCHANGED mirrorVars

(* A provider call raises: before the upsert took effect, or after it, when   *)
(* only the answer is lost.                                                   *)
SyncFails(w) ==
    /\ \E m \in MemoryIds :
          /\ NextToSync(w, m)
          /\ rows[m].retries < MaxBackoffExponent
          /\ \/ UNCHANGED vectors
             \/ vectors' = [vectors EXCEPT ![Namespace(m)] = @ \cup {m}]
          /\ sync' = [sync EXCEPT ![w].todo = @ \ {m}, ![w].failed = @ \cup {m}]
    /\ UNCHANGED <<rows, lockedBy, promotions>>

(* The session closes without a commit: stamps and retry counts are lost.     *)
SyncAborts(w) ==
    /\ sync' = [sync EXCEPT ![w] = [IdleSync EXCEPT !.pc = "dead"]]
    /\ ReleaseLocks(w)
    /\ UNCHANGED <<rows, vectors, promotions>>

(* 0.05 * (2 ** sync_retry_count) does not fit a float: the exception handler *)
(* itself raises, before min(2.0, ...) can cap the delay, and the task ends.  *)
BackoffOverflows(w) ==
    /\ \E m \in MemoryIds : /\ NextToSync(w, m)
                            /\ rows[m].retries = MaxBackoffExponent
    /\ SyncAborts(w)

(* Mutant: every row of the batch is stamped.                                 *)
StampsFailedRows(w) ==
    /\ sync[w].pc = "syncing" /\ sync[w].todo = {}
    /\ rows' = [m \in MemoryIds |->
                   IF m \in sync[w].stamped \cup sync[w].failed
                   THEN [rows[m] EXCEPT !.synced = TRUE] ELSE rows[m]]
    /\ ReleaseLocks(w)
    /\ sync' = [sync EXCEPT ![w] = IdleSync]
    /\ UNCHANGED <<vectors, promotions>>

CommitSync(w) ==
    /\ sync[w].pc = "syncing" /\ sync[w].todo = {}
    /\ rows' = [m \in MemoryIds |->
                   IF m \in sync[w].stamped THEN [rows[m] EXCEPT !.synced = TRUE]
                   ELSE IF m \in sync[w].failed THEN [rows[m] EXCEPT !.retries = @ + 1]
                   ELSE rows[m]]
    /\ ReleaseLocks(w)
    /\ sync' = [sync EXCEPT ![w] = IdleSync]
    /\ UNCHANGED <<vectors, promotions>>

(* A database error, which nothing in the task catches, or a process crash.   *)
SyncCrashes(w) == sync[w].pc # "dead" /\ SyncAborts(w)

SyncRestarts(w) ==
    /\ sync[w].pc = "dead"
    /\ sync' = [sync EXCEPT ![w] = IdleSync]
    /\ UNCHANGED mirrorVars

SyncStep(w) == PollUnsynced(w) \/ EmbedAndUpsert(w) \/ CommitSync(w)
=============================================================================
