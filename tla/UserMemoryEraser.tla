-------------------------- MODULE UserMemoryEraser --------------------------
(* Requests to erase everything remembered of a user. The matching rows are   *)
(* read in a first transaction; their vectors are deleted with no transaction *)
(* open; a second transaction deletes the rows, the turns and the             *)
(* conversations, and between its statements the checkpoint threads are       *)
(* deleted through another connection, which commits on its own.              *)
EXTENDS ConversationTable

VARIABLE er     \* per request: [pc, user, matched, todo, convs]

ErLocal == [pc : {"idle", "vectors", "checkpoints", "done"}, user : Users \cup {NoOwner},
            matched : SUBSET MemoryIds, todo : SUBSET Namespaces, convs : SUBSET Convs]
IdleEr == [pc |-> "idle", user |-> NoOwner, matched |-> {}, todo |-> {}, convs |-> {}]
ErTypeOK == er \in [Erasers -> ErLocal]
ErInit == er = [e \in Erasers |-> IdleEr]

(* Mutant: the lineage test does not look at whose the turns are.             *)
MatchesAnyTurn(user) ==
    {m \in MemoryIds : Live(m) /\ (rows[m].owner = user \/ rows[m].sources \cap turns # {})}

(* Rows the user owns, or whose lineage holds one of the user's turns.        *)
MatchedRows(user) ==
    {m \in MemoryIds : /\ Live(m)
                       /\ \/ rows[m].owner = user
                          \/ rows[m].sources \cap turns \cap ConvsOf(user) # {}}

CollectMatchedRows(e) ==
    /\ er[e].pc \in {"idle", "done"}
    /\ \E user \in Users :
          er' = [er EXCEPT ![e] =
                   [IdleEr EXCEPT !.pc = "vectors", !.user = user,
                       !.matched = MatchedRows(user),
                       !.todo = {Namespace(m) : m \in MatchedRows(user)}]]
    /\ UNCHANGED <<mirrorVars, convVars>>

DeleteMatchedVectors(e) ==
    /\ er[e].pc = "vectors"
    /\ \E n \in er[e].todo :
          /\ DeleteIds(n, er[e].matched)
          /\ er' = [er EXCEPT ![e].todo = @ \ {n}]
    /\ UNCHANGED <<rows, lockedBy, promotions, convVars>>

(* Mutant: the rows are deleted under the locks of others.                    *)
DeletesLockedRows(e) ==
    LET present == {m \in er[e].matched : ~Gone(m)} IN
    /\ er[e].pc = "vectors" /\ er[e].todo = {}
    /\ lockedBy' = [m \in MemoryIds |-> IF m \in present THEN e ELSE lockedBy[m]]
    /\ er' = [er EXCEPT ![e].pc = "checkpoints",
                        ![e].convs = {v \in ConvsOf(er[e].user) : Existing(v)}]
    /\ UNCHANGED <<rows, vectors, promotions, convVars>>

(* DELETE waits for every row another transaction has locked, and then holds  *)
(* the locks until the commit. The user's conversations are read afterwards.  *)
DeleteMatchedRows(e) ==
    LET present == {m \in er[e].matched : ~Gone(m)} IN
    /\ er[e].pc = "vectors" /\ er[e].todo = {}
    /\ \A m \in present : Unlocked(m)
    /\ lockedBy' = [m \in MemoryIds |-> IF m \in present THEN e ELSE lockedBy[m]]
    /\ er' = [er EXCEPT ![e].pc = "checkpoints",
                        ![e].convs = {v \in ConvsOf(er[e].user) : Existing(v)}]
    /\ UNCHANGED <<rows, vectors, promotions, convVars>>

EraseCheckpoint(e) ==
    /\ er[e].pc = "checkpoints"
    /\ \E v \in er[e].convs \cap checkpoints : checkpoints' = checkpoints \ {v}
    /\ UNCHANGED <<mirrorVars, er, convs, turns, convLock>>

(* DELETE waits for the conversations a consolidator has locked.              *)
CommitErasure(e) ==
    /\ er[e].pc = "checkpoints" /\ er[e].convs \cap checkpoints = {}
    /\ \A v \in er[e].convs : convLock[v] = Nobody
    /\ DeleteRowsOf({m \in er[e].matched : lockedBy[m] = e})
    /\ ReleaseLocks(e)
    /\ turns' = turns \ er[e].convs
    /\ convs' = [v \in Convs |-> IF v \in er[e].convs THEN "gone" ELSE convs[v]]
    /\ er' = [er EXCEPT ![e].pc = "done"]
    /\ UNCHANGED <<vectors, promotions, convLock, checkpoints>>

(* The request ends with an error, and its open transaction is lost.          *)
ErasureAborts(e) ==
    /\ er' = [er EXCEPT ![e] = IdleEr]
    /\ ReleaseLocks(e)
    /\ UNCHANGED <<rows, vectors, promotions, convVars>>

(* delete_ids raises.                                                         *)
ErasureFails(e) ==
    er[e].pc = "vectors" /\ er[e].todo # {} /\ ErasureAborts(e)

(* A database error or a process crash.                                       *)
ErasureCrashes(e) ==
    er[e].pc \in {"vectors", "checkpoints"} /\ ErasureAborts(e)

ErasureStep(e) ==
    DeleteMatchedVectors(e) \/ DeleteMatchedRows(e) \/ EraseCheckpoint(e) \/ CommitErasure(e)
=============================================================================
