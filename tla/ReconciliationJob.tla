------------------------- MODULE ReconciliationJob -------------------------
(* The job that sweeps orphan vectors. It first reads the ids of every row    *)
(* that is not soft-deleted, closes that session, and then lists and deletes  *)
(* namespace by namespace: the set it compares with grows stale meanwhile.    *)
EXTENDS MemoryMirror

CONSTANT Reconcilers

VARIABLE rec    \* per job: [pc, active, inserted, todo, namespace, orphans]

(* "inserted" is history, which no guard reads: the rows ever inserted by the *)
(* time the job read its ids.                                                 *)
RecLocal == [pc : {"idle", "list", "delete", "dead"}, active : SUBSET MemoryIds,
             inserted : SUBSET MemoryIds, todo : SUBSET Namespaces,
             namespace : Namespaces, orphans : SUBSET MemoryIds]
IdleRec == [pc |-> "idle", active |-> {}, inserted |-> {}, todo |-> {},
            namespace |-> "user-memory", orphans |-> {}]
RecTypeOK == rec \in [Reconcilers -> RecLocal]
RecInit == rec = [r \in Reconcilers |-> IdleRec]

Inserted == {m \in MemoryIds : rows[m].state # "unused"}
Reading(r, active, namespaces) ==
    rec' = [rec EXCEPT ![r] = [IdleRec EXCEPT !.pc = "list", !.active = active,
                                  !.inserted = Inserted, !.todo = namespaces]]

(* Mutants: the user-memory namespace is not among those reconciled; the ids  *)
(* are read of the rows that carry synced_at.                                 *)
ReadsDocumentsOnly(r) ==
    /\ rec[r].pc = "idle"
    /\ Reading(r, {m \in MemoryIds : Live(m)}, {"documents"})
    /\ UNCHANGED mirrorVars
ReadsSyncedIds(r) ==
    /\ rec[r].pc = "idle"
    /\ Reading(r, {m \in MemoryIds : Live(m) /\ rows[m].synced}, Namespaces)
    /\ UNCHANGED mirrorVars

ReadActiveIds(r) ==
    /\ rec[r].pc = "idle"
    /\ Reading(r, {m \in MemoryIds : Live(m)}, Namespaces)
    /\ UNCHANGED mirrorVars

(* vector_index.list_ids(namespace) - active_ids: vectors nobody vouched for. *)
ListOrphans(r) ==
    /\ rec[r].pc = "list"
    /\ \E n \in rec[r].todo :
          LET orphans == vectors[n] \ rec[r].active IN
          rec' = [rec EXCEPT ![r].pc = IF orphans = {} THEN "list" ELSE "delete",
                             ![r].todo = @ \ {n},
                             ![r].namespace = n,
                             ![r].orphans = orphans]
    /\ UNCHANGED mirrorVars

DeleteOrphans(r) ==
    /\ rec[r].pc = "delete"
    /\ DeleteIds(rec[r].namespace, rec[r].orphans)
    /\ rec' = [rec EXCEPT ![r].pc = "list", ![r].orphans = {}]
    /\ UNCHANGED <<rows, lockedBy, promotions>>

FinishReconciliation(r) ==
    /\ rec[r].pc = "list" /\ rec[r].todo = {}
    /\ rec' = [rec EXCEPT ![r] = IdleRec]
    /\ UNCHANGED mirrorVars

ReconciliationAborts(r) ==
    /\ rec' = [rec EXCEPT ![r] = [IdleRec EXCEPT !.pc = "dead"]]
    /\ UNCHANGED mirrorVars

(* A call to the index raises; _run has no handler, so the task ends.         *)
ReconciliationFails(r) ==
    /\ \/ rec[r].pc = "delete"
       \/ rec[r].pc = "list" /\ rec[r].todo # {}
    /\ ReconciliationAborts(r)

(* A database error or a process crash.                                       *)
ReconciliationCrashes(r) == rec[r].pc # "dead" /\ ReconciliationAborts(r)

ReconciliationRestarts(r) ==
    /\ rec[r].pc = "dead"
    /\ rec' = [rec EXCEPT ![r] = IdleRec]
    /\ UNCHANGED mirrorVars

ReconciliationStep(r) ==
    ReadActiveIds(r) \/ ListOrphans(r) \/ DeleteOrphans(r) \/ FinishReconciliation(r)
=============================================================================
