------------------------ MODULE ConsolidationWorker ------------------------
(* Workers that turn idle conversations into user facts. One pass locks a     *)
(* batch of conversations and keeps those locks while it calls the language   *)
(* model and while every accepted fact is promoted in a transaction of its    *)
(* own; consolidated_at is stamped on the whole batch by one commit at the    *)
(* end. Promotion is record_or_get_user_fact: look for the active row of the  *)
(* same fact, merge the lineage into it, or else insert, which the partial    *)
(* unique index refuses when another promotion came first.                    *)
EXTENDS ConversationTable

CONSTANT ConsolidationBatchSize
ASSUME ConsolidationBatchAssumption == ConsolidationBatchSize \in Nat \ {0}

VARIABLE con    \* per worker: [pc, batch, todo, conv, facts, fact, record]

ConLocal == [pc : {"idle", "extract", "promote", "insert", "reselect", "mark", "dead"},
             batch : SUBSET Convs, todo : SUBSET Convs, conv : Convs \cup {NoConv},
             facts : SUBSET Facts, fact : Facts \cup {NoFact}, record : 0 .. MaxRecords]
IdleCon == [pc |-> "idle", batch |-> {}, todo |-> {}, conv |-> NoConv,
            facts |-> {}, fact |-> NoFact, record |-> 0]
ConTypeOK == con \in [Consolidators -> ConLocal]
ConInit == con = [c \in Consolidators |-> IdleCon]

IdleConversations == {v \in Convs : convs[v] = "idle" /\ convLock[v] = Nobody}

PickConversations(c) ==
    /\ con[c].pc = "idle"
    /\ IdleConversations # {}
    /\ \E batch \in LimitedTo(IdleConversations, ConsolidationBatchSize) :
          /\ convLock' = [v \in Convs |-> IF v \in batch THEN c ELSE convLock[v]]
          /\ con' = [con EXCEPT ![c] =
                [IdleCon EXCEPT !.pc = "extract", !.batch = batch, !.todo = batch]]
    /\ UNCHANGED <<mirrorVars, convs, turns, checkpoints>>

(* No turns, no call: the conversation only waits for its stamp.              *)
SkipTurnless(c) ==
    /\ con[c].pc = "extract"
    /\ \E v \in con[c].todo \ turns : con' = [con EXCEPT ![c].todo = @ \ {v}]
    /\ UNCHANGED <<mirrorVars, convVars>>

(* The language model answers; the policy accepts any set of facts.           *)
ExtractFacts(c) ==
    /\ con[c].pc = "extract"
    /\ \E v \in con[c].todo \cap turns, accepted \in SUBSET Facts :
          con' = [con EXCEPT ![c] = [@ EXCEPT !.pc = "promote", !.conv = v,
                                         !.facts = accepted, !.todo = con[c].todo \ {v}]]
    /\ UNCHANGED <<mirrorVars, convVars>>

(* Mutant: a duplicate leaves the lineage of the active row alone.            *)
SelectsWithoutMerge(c) ==
    /\ con[c].pc = "promote"
    /\ \E f \in con[c].facts :
          LET active == ActiveFact(ConvOwner[con[c].conv], f) IN
          \/ /\ active = {}
             /\ con' = [con EXCEPT ![c] = [@ EXCEPT !.pc = "insert", !.fact = f]]
          \/ \E m \in active :
                /\ Unlocked(m)
                /\ con' = [con EXCEPT ![c] =
                              [@ EXCEPT !.pc = "mark", !.fact = f, !.record = m]]
    /\ UNCHANGED <<mirrorVars, convVars>>

(* SELECT ... FOR UPDATE waits for the lock; then it merges, or finds nothing. *)
SelectFact(c) ==
    /\ con[c].pc = "promote"
    /\ \E f \in con[c].facts :
          LET active == ActiveFact(ConvOwner[con[c].conv], f) IN
          \/ /\ active = {}
             /\ con' = [con EXCEPT ![c] = [@ EXCEPT !.pc = "insert", !.fact = f]]
             /\ UNCHANGED rows
          \/ \E m \in active :
                /\ Unlocked(m)
                /\ rows' = [rows EXCEPT ![m].sources = @ \cup {con[c].conv}]
                /\ con' = [con EXCEPT ![c] =
                              [@ EXCEPT !.pc = "mark", !.fact = f, !.record = m]]
    /\ UNCHANGED <<vectors, lockedBy, promotions, convVars>>

(* Mutant: no unique index, so a second active row is inserted.               *)
InsertsDuplicate(c) ==
    /\ con[c].pc = "insert"
    /\ \E m \in MemoryIds, expiry \in {"never", "ahead"} :
          /\ FreshId(m)
          /\ rows' = [rows EXCEPT ![m] =
                InsertedRow("conversation_summary", ConvOwner[con[c].conv],
                            con[c].fact, {con[c].conv}, expiry)]
          /\ con' = [con EXCEPT ![c] = [@ EXCEPT !.pc = "mark", !.record = m]]
    /\ UNCHANGED <<vectors, lockedBy, promotions, convVars>>

(* The unique index waits for a pending delete of the active row, and refuses *)
(* a second one.                                                              *)
InsertFact(c) ==
    LET owner == ConvOwner[con[c].conv]
        active == ActiveFact(owner, con[c].fact)
    IN
    /\ con[c].pc = "insert"
    /\ \A m \in active : lockedBy[m] \notin Erasers
    /\ \/ /\ active = {}
          /\ \E m \in MemoryIds, expiry \in {"never", "ahead"} :
                /\ FreshId(m)
                /\ rows' = [rows EXCEPT ![m] =
                      InsertedRow("conversation_summary", owner, con[c].fact,
                                  {con[c].conv}, expiry)]
                /\ con' = [con EXCEPT ![c] = [@ EXCEPT !.pc = "mark", !.record = m]]
       \/ /\ active # {}
          /\ con' = [con EXCEPT ![c] = [@ EXCEPT !.pc = "reselect"]]
          /\ UNCHANGED rows
    /\ UNCHANGED <<vectors, lockedBy, promotions, convVars>>

(* After the IntegrityError the row is only looked up: no lineage is merged.  *)
ReselectFact(c) ==
    /\ con[c].pc = "reselect"
    /\ \E m \in ActiveFact(ConvOwner[con[c].conv], con[c].fact) :
          /\ Unlocked(m)
          /\ con' = [con EXCEPT ![c] = [@ EXCEPT !.pc = "mark", !.record = m]]
    /\ UNCHANGED <<mirrorVars, convVars>>

MarkPromoted(c) ==
    /\ con[c].pc = "mark"
    /\ promotions' = promotions \cup
          {[conv |-> con[c].conv, fact |-> con[c].fact, record |-> con[c].record]}
    /\ con' = [con EXCEPT ![c] = [@ EXCEPT !.pc = "promote", !.fact = NoFact,
                             !.record = 0, !.facts = con[c].facts \ {con[c].fact}]]
    /\ UNCHANGED <<rows, vectors, lockedBy, convVars>>

FinishConversation(c) ==
    /\ con[c].pc = "promote" /\ con[c].facts = {}
    /\ con' = [con EXCEPT ![c] = [@ EXCEPT !.pc = "extract", !.conv = NoConv]]
    /\ UNCHANGED <<mirrorVars, convVars>>

(* Mutant: a conversation without turns is not stamped.                       *)
StampsExtractedOnly(c) ==
    /\ con[c].pc = "extract" /\ con[c].todo = {}
    /\ convs' = [v \in Convs |->
                    IF v \in con[c].batch \cap turns THEN "consolidated" ELSE convs[v]]
    /\ convLock' = [v \in Convs |-> IF convLock[v] = c THEN Nobody ELSE convLock[v]]
    /\ con' = [con EXCEPT ![c] = IdleCon]
    /\ UNCHANGED <<mirrorVars, turns, checkpoints>>

CommitConsolidation(c) ==
    /\ con[c].pc = "extract" /\ con[c].todo = {}
    /\ convs' = [v \in Convs |-> IF v \in con[c].batch THEN "consolidated" ELSE convs[v]]
    /\ convLock' = [v \in Convs |-> IF convLock[v] = c THEN Nobody ELSE convLock[v]]
    /\ con' = [con EXCEPT ![c] = IdleCon]
    /\ UNCHANGED <<mirrorVars, turns, checkpoints>>

(* The session rolls back: promoted facts stay, no conversation is stamped.   *)
ConsolidationAborts(c) ==
    /\ con' = [con EXCEPT ![c] = [IdleCon EXCEPT !.pc = "dead"]]
    /\ convLock' = [v \in Convs |-> IF convLock[v] = c THEN Nobody ELSE convLock[v]]
    /\ UNCHANGED <<mirrorVars, convs, turns, checkpoints>>

(* The conflicting row vanished before it could be looked up: raise.          *)
ConflictVanishes(c) ==
    /\ con[c].pc = "reselect"
    /\ ActiveFact(ConvOwner[con[c].conv], con[c].fact) = {}
    /\ ConsolidationAborts(c)

(* The language model call raises; nothing catches it, so the task ends.      *)
ExtractionFails(c) ==
    /\ con[c].pc = "extract" /\ con[c].todo \cap turns # {}
    /\ ConsolidationAborts(c)

(* A database error or a process crash.                                       *)
ConsolidationCrashes(c) == con[c].pc # "dead" /\ ConsolidationAborts(c)

ConsolidationRestarts(c) ==
    /\ con[c].pc = "dead"
    /\ con' = [con EXCEPT ![c] = IdleCon]
    /\ UNCHANGED <<mirrorVars, convVars>>

ConsolidationStep(c) ==
    \/ PickConversations(c) \/ SkipTurnless(c) \/ ExtractFacts(c) \/ SelectFact(c)
    \/ InsertFact(c) \/ ReselectFact(c) \/ ConflictVanishes(c) \/ MarkPromoted(c)
    \/ FinishConversation(c) \/ CommitConsolidation(c)
=============================================================================
