--------------------------- MODULE ShortTermMemory ---------------------------
(* Conversations, their turns and evidence in PostgreSQL, under three kinds   *)
(* of processes: assistant queries, the short-term retention job, and         *)
(* consolidation, which only locks a row and stamps it here. A query uses     *)
(* four transactions of its own and runs the agent between the third and the  *)
(* fourth; the retention job works in one READ COMMITTED transaction, and     *)
(* erases checkpoint threads on another connection before it commits.         *)
(*                                                                            *)
(* The two turns of an exchange are written together and expire within        *)
(* seconds of each other: they are one element of exchanges. A query takes    *)
(* seconds and retention takes days, so days pass only while no query runs.   *)
EXTENDS Naturals, FiniteSets

CONSTANTS
    Users, NoOne,       \* NoOne owns a conversation that has no row
    Conversations,      \* ids the clients send
    Queries,            \* calls of OrchestrateAssistantQuery.execute
    Jobs,               \* replicas of the short-term retention job
    MaxFaults           \* bound: failures of the retention job

ASSUME ShortTermAssumption ==
    /\ NoOne \notin Users
    /\ IsFiniteSet(Queries)
    /\ MaxFaults \in Nat

VARIABLES
    conversations,      \* the rows of assistant_conversations
    exchanges,          \* the rows of assistant_conversation_turns, by exchange
    evidence,           \* the rows of assistant_conversation_evidence
    expired,            \* exchanges and evidence past their expires_at
    checkpoints,        \* LangGraph threads: <<user, conversation>>
    reading,            \* per conversation: what consolidation, which locks it, read
    query,              \* per query: its progress and what it has read
    job,                \* per retention job: its transaction
    faults

vars == <<conversations, exchanges, evidence, expired, checkpoints, reading,
          query, job, faults>>

Exchange == [conv : Conversations, owner : Users, query : Queries]
NotReading == [locked |-> FALSE, read |-> {}]

ConversationRow ==
    [owner : Users \cup {NoOne}, lastTurn : {"recent", "stale"},
     turnCount : 0 .. 2 * Cardinality(Queries), consolidated : BOOLEAN]
NoRow == [owner |-> NoOne, lastTurn |-> "recent", turnCount |-> 0, consolidated |-> FALSE]
FreshRow(u) == [NoRow EXCEPT !.owner = u]

QueryLocal ==
    [pc : {"new", "claimed", "history", "context", "running", "answered",
           "done", "refused", "failed"},
     user : Users \cup {NoOne}, conv : Conversations,
     history : SUBSET Exchange, evidence : SUBSET Exchange,
     produced : {"none", "fits", "oversized"}]

JobLocal ==
    [pc : {"idle", "delete", "select", "erase"},
     turns : SUBSET Exchange, stale : SUBSET Conversations,
     threads : SUBSET (Users \X Conversations)]
IdleJob == [pc |-> "idle", turns |-> {}, stale |-> {}, threads |-> {}]

TypeOK ==
    /\ conversations \in [Conversations -> ConversationRow]
    /\ exchanges \in SUBSET Exchange
    /\ evidence \in SUBSET Exchange
    /\ expired \in SUBSET Exchange
    /\ checkpoints \in SUBSET (Users \X Conversations)
    /\ reading \in [Conversations -> [locked : BOOLEAN, read : SUBSET Exchange]]
    /\ query \in [Queries -> QueryLocal]
    /\ job \in [Jobs -> JobLocal]
    /\ faults \in 0 .. MaxFaults

(* What a query that failed in the agent leaves behind: a row without turns,  *)
(* which is stale once the retention period has passed.                       *)
LeftBehind(u) == [FreshRow(u) EXCEPT !.lastTurn = "stale"]

Init ==
    /\ conversations \in [Conversations -> {NoRow} \cup {LeftBehind(u) : u \in Users}]
    /\ exchanges = {} /\ evidence = {} /\ expired = {} /\ checkpoints = {}
    /\ reading = [c \in Conversations |-> NotReading]
    /\ \E first \in Conversations :
          query = [q \in Queries |->
              [pc |-> "new", user |-> NoOne, conv |-> first,
               history |-> {}, evidence |-> {}, produced |-> "none"]]
    /\ job = [j \in Jobs |-> IdleJob]
    /\ faults = 0

Running(q) == query[q].pc \notin {"new", "done", "refused", "failed"}
ExchangesOf(c) == {e \in exchanges : e.conv = c}
OwnedBy(rows, c, u) == {e \in rows : e.conv = c /\ e.owner = u}
RowLocked(c) == reading[c].locked

(* Mutant: ON CONFLICT DO UPDATE without the owner in its WHERE.              *)
OwnerUnchecked(c, u) == conversations[c].owner \in Users \cup {NoOne}

CanClaim(c, u) == conversations[c].owner \in {NoOne, u}

(* INSERT ... ON CONFLICT DO UPDATE: an existing row of the same owner stays  *)
(* as it is, its last_turn_at too.                                            *)
Claimed(c, u) ==
    IF conversations[c].owner = NoOne THEN FreshRow(u) ELSE conversations[c]

Moves(q, pc) == query' = [query EXCEPT ![q].pc = pc]

----------------------------------------------------------------------------
(* OrchestrateAssistantQuery.execute, one action per transaction.             *)

Claim(q) ==
    /\ query[q].pc = "new"
    /\ \E c \in Conversations, u \in Users :
          /\ ~RowLocked(c)
          /\ conversations' = IF CanClaim(c, u)
                              THEN [conversations EXCEPT ![c] = Claimed(c, u)]
                              ELSE conversations
          /\ query' = [query EXCEPT ![q] =
                [@ EXCEPT !.pc = IF CanClaim(c, u) THEN "claimed" ELSE "refused",
                          !.user = u, !.conv = c]]
    /\ UNCHANGED <<exchanges, evidence, expired, checkpoints, reading, job, faults>>

Owns(q) == conversations[query[q].conv].owner = query[q].user

(* Mutant: the turns are selected by conversation_id alone.                   *)
ReadsWholeConversation(q) ==
    /\ query[q].pc = "claimed"
    /\ query' = [query EXCEPT ![q] =
          [@ EXCEPT !.pc = "history", !.history = ExchangesOf(query[q].conv)]]
    /\ UNCHANGED <<conversations, exchanges, evidence, expired, checkpoints,
                   reading, job, faults>>

ReadRecent(q) ==
    /\ query[q].pc = "claimed"
    /\ query' = [query EXCEPT ![q] =
          IF Owns(q)
          THEN [@ EXCEPT !.pc = "history",
                         !.history = OwnedBy(exchanges, query[q].conv, query[q].user)]
          ELSE [@ EXCEPT !.pc = "refused"]]
    /\ UNCHANGED <<conversations, exchanges, evidence, expired, checkpoints,
                   reading, job, faults>>

ReadRecentEvidence(q) ==
    /\ query[q].pc = "history"
    /\ query' = [query EXCEPT ![q] =
          IF Owns(q)
          THEN [@ EXCEPT !.pc = "context",
                         !.evidence = OwnedBy(evidence \ expired, query[q].conv, query[q].user)]
          ELSE [@ EXCEPT !.pc = "refused"]]
    /\ UNCHANGED <<conversations, exchanges, evidence, expired, checkpoints,
                   reading, job, faults>>

(* A reference to earlier evidence is answered without running the agent.     *)
ResolveReference(q) ==
    /\ query[q].pc = "context" /\ query[q].evidence # {}
    /\ Moves(q, "answered")
    /\ UNCHANGED <<conversations, exchanges, evidence, expired, checkpoints,
                   reading, job, faults>>

(* The graph saves a checkpoint at every superstep, from the first one on.    *)
SavesCheckpoint(q) == checkpoints' = checkpoints \cup {<<query[q].user, query[q].conv>>}

StartAgent(q) ==
    /\ query[q].pc = "context"
    /\ SavesCheckpoint(q)
    /\ Moves(q, "running")
    /\ UNCHANGED <<conversations, exchanges, evidence, expired, reading, job, faults>>

FinishAgent(q) ==
    /\ query[q].pc = "running"
    /\ SavesCheckpoint(q)
    /\ \E size \in {"none", "fits", "oversized"} :
          query' = [query EXCEPT ![q] = [@ EXCEPT !.pc = "answered", !.produced = size]]
    /\ UNCHANGED <<conversations, exchanges, evidence, expired, reading, job, faults>>

(* AssistantOrchestrationFailedError: nothing is appended.                    *)
AgentFails(q) ==
    /\ query[q].pc = "running"
    /\ Moves(q, "failed")
    /\ UNCHANGED <<conversations, exchanges, evidence, expired, checkpoints,
                   reading, job, faults>>

NewExchange(q) == [conv |-> query[q].conv, owner |-> query[q].user, query |-> q]

(* Mutant: the evidence row is counted as a turn.                             *)
CountsEvidence(q) ==
    LET row == Claimed(query[q].conv, query[q].user) IN
    [row EXCEPT !.lastTurn = "recent", !.turnCount = @ + 3]

AdvancedRow(q) ==
    LET row == Claimed(query[q].conv, query[q].user) IN
    [row EXCEPT !.lastTurn = "recent", !.turnCount = @ + 2]

(* Mutant: the append does not wait for the row's lock.                       *)
AppendsUnlocked(q) ==
    LET c == query[q].conv IN
    /\ query[q].pc = "answered" /\ query[q].produced # "oversized"
    /\ CanClaim(c, query[q].user)
    /\ conversations' = [conversations EXCEPT ![c] = AdvancedRow(q)]
    /\ exchanges' = exchanges \cup {NewExchange(q)}
    /\ UNCHANGED evidence
    /\ Moves(q, "done")
    /\ UNCHANGED <<expired, checkpoints, reading, job, faults>>

(* append_completed_exchange claims, adds the turns and the evidence, and     *)
(* advances the conversation, in one transaction; consolidated_at stays.      *)
AppendExchange(q) ==
    LET c == query[q].conv IN
    /\ query[q].pc = "answered" /\ query[q].produced # "oversized"
    /\ ~RowLocked(c) /\ CanClaim(c, query[q].user)
    /\ conversations' = [conversations EXCEPT ![c] = AdvancedRow(q)]
    /\ exchanges' = exchanges \cup {NewExchange(q)}
    /\ evidence' = IF query[q].produced = "fits" THEN evidence \cup {NewExchange(q)}
                                                 ELSE evidence
    /\ Moves(q, "done")
    /\ UNCHANGED <<expired, checkpoints, reading, job, faults>>

(* Another user claimed the id after it was purged; or the evidence is over   *)
(* MAX_SERIALIZED_EVIDENCE_BYTES and the whole transaction rolls back.        *)
AppendRaises(q) ==
    /\ query[q].pc = "answered"
    /\ ~RowLocked(query[q].conv)
    /\ \/ ~CanClaim(query[q].conv, query[q].user) /\ Moves(q, "refused")
       \/ /\ CanClaim(query[q].conv, query[q].user)
          /\ query[q].produced = "oversized" /\ Moves(q, "failed")
    /\ UNCHANGED <<conversations, exchanges, evidence, expired, checkpoints,
                   reading, job, faults>>

QueryStep(q) ==
    \/ Claim(q) \/ ReadRecent(q) \/ ReadRecentEvidence(q) \/ ResolveReference(q)
    \/ StartAgent(q) \/ FinishAgent(q) \/ AgentFails(q)
    \/ AppendExchange(q) \/ AppendRaises(q)

----------------------------------------------------------------------------
(* consolidate_once: FOR UPDATE on an idle row, read its turns, call the      *)
(* language model, stamp and commit. Only the row's state matters here.       *)

LockForConsolidation(c) ==
    /\ conversations[c].owner # NoOne
    /\ ~conversations[c].consolidated /\ conversations[c].turnCount >= 2
    /\ ~RowLocked(c)
    /\ reading' = [reading EXCEPT ![c] = [locked |-> TRUE, read |-> ExchangesOf(c)]]
    /\ UNCHANGED <<conversations, exchanges, evidence, expired, checkpoints,
                   query, job, faults>>

(* Mutant: the session is not closed after the stamp.                         *)
StampsAndKeepsLock(c) ==
    /\ RowLocked(c)
    /\ conversations' = [conversations EXCEPT ![c].consolidated = TRUE]
    /\ UNCHANGED <<exchanges, evidence, expired, checkpoints, reading, query, job, faults>>

CommitConsolidation(c) ==
    /\ RowLocked(c)
    /\ conversations' = [conversations EXCEPT ![c].consolidated = TRUE]
    /\ reading' = [reading EXCEPT ![c] = NotReading]
    /\ UNCHANGED <<exchanges, evidence, expired, checkpoints, query, job, faults>>

ConsolidationStep(c) == LockForConsolidation(c) \/ CommitConsolidation(c)

----------------------------------------------------------------------------
(* ShortTermRetentionJob.purge_expired.                                       *)

MovesJob(j, local) == job' = [job EXCEPT ![j] = local]

(* Mutant: every turn that has an expires_at is selected.                     *)
SelectsUnexpired(j) ==
    /\ job[j].pc = "idle"
    /\ MovesJob(j, [IdleJob EXCEPT !.pc = "delete", !.turns = exchanges])
    /\ UNCHANGED <<conversations, exchanges, evidence, expired, checkpoints,
                   reading, query, faults>>

SelectExpiredTurns(j) ==
    /\ job[j].pc = "idle"
    /\ MovesJob(j, [IdleJob EXCEPT !.pc = "delete", !.turns = exchanges \cap expired])
    /\ UNCHANGED <<conversations, exchanges, evidence, expired, checkpoints,
                   reading, query, faults>>

HoldsTurns(j) == IF job[j].pc \in {"select", "erase"} THEN job[j].turns ELSE {}

(* The DELETE waits for the other transactions that delete the same turns;    *)
(* nobody else sees it before the commit.                                     *)
DeleteExpiredTurns(j) ==
    /\ job[j].pc = "delete"
    /\ \A other \in Jobs \ {j} : HoldsTurns(other) \cap job[j].turns = {}
    /\ MovesJob(j, [job[j] EXCEPT !.pc = "select"])
    /\ UNCHANGED <<conversations, exchanges, evidence, expired, checkpoints,
                   reading, query, faults>>

(* Mutant: only a conversation that never had a turn counts as empty.         *)
StaleNeverUsed(j) ==
    {c \in Conversations :
        /\ conversations[c].owner # NoOne
        /\ conversations[c].lastTurn = "stale" /\ conversations[c].turnCount = 0}

StaleAndEmpty(j) ==
    {c \in Conversations :
        /\ conversations[c].owner # NoOne
        /\ conversations[c].lastTurn = "stale"
        /\ ExchangesOf(c) \subseteq job[j].turns}

SelectStaleConversations(j) ==
    /\ job[j].pc = "select"
    /\ MovesJob(j, [job[j] EXCEPT
          !.pc = "erase",
          !.stale = StaleAndEmpty(j),
          !.threads = {<<e.owner, e.conv>> : e \in job[j].turns} \cup
                      {<<conversations[c].owner, c>> : c \in StaleAndEmpty(j)}])
    /\ UNCHANGED <<conversations, exchanges, evidence, expired, checkpoints,
                   reading, query, faults>>

(* adelete_thread commits on its own.                                         *)
EraseCheckpoint(j) ==
    /\ job[j].pc = "erase"
    /\ \E thread \in job[j].threads :
          /\ checkpoints' = checkpoints \ {thread}
          /\ MovesJob(j, [job[j] EXCEPT !.threads = @ \ {thread}])
    /\ UNCHANGED <<conversations, exchanges, evidence, expired, reading, query, faults>>

(* Mutant: the turns have no ON DELETE CASCADE.                               *)
PurgesWithoutCascade(j) ==
    /\ job[j].pc = "erase" /\ job[j].threads = {}
    /\ \A c \in job[j].stale : ~RowLocked(c)
    /\ conversations' = [c \in Conversations |->
                            IF c \in job[j].stale THEN NoRow ELSE conversations[c]]
    /\ exchanges' = exchanges \ job[j].turns
    /\ evidence' = {e \in evidence : e.conv \notin job[j].stale}
    /\ MovesJob(j, IdleJob)
    /\ UNCHANGED <<expired, checkpoints, reading, query, faults>>

(* Conversations are deleted by id: what happened to them since they were     *)
(* selected is not checked, and the foreign keys cascade.                     *)
CommitPurge(j) ==
    /\ job[j].pc = "erase" /\ job[j].threads = {}
    /\ \A c \in job[j].stale : ~RowLocked(c)
    /\ conversations' = [c \in Conversations |->
                            IF c \in job[j].stale THEN NoRow ELSE conversations[c]]
    /\ exchanges' = {e \in exchanges \ job[j].turns : e.conv \notin job[j].stale}
    /\ evidence' = {e \in evidence : e.conv \notin job[j].stale}
    /\ MovesJob(j, IdleJob)
    /\ UNCHANGED <<expired, checkpoints, reading, query, faults>>

(* Any error rolls back; the loop logs it and tries again later.              *)
PurgeFails(j) ==
    /\ job[j].pc # "idle"
    /\ faults < MaxFaults /\ faults' = faults + 1
    /\ MovesJob(j, IdleJob)
    /\ UNCHANGED <<conversations, exchanges, evidence, expired, checkpoints, reading, query>>

RetentionStep(j) ==
    \/ SelectExpiredTurns(j) \/ DeleteExpiredTurns(j)
    \/ SelectStaleConversations(j) \/ EraseCheckpoint(j) \/ CommitPurge(j)

----------------------------------------------------------------------------
(* short_term_retention_days pass over an exchange, and                       *)
(* assistant_conversation_retention_days, which are more, over a conversation.*)
Quiet == \A q \in Queries : ~Running(q)

RetentionPeriodPasses ==
    /\ Quiet
    /\ \E e \in (exchanges \cup evidence) \ expired : expired' = expired \cup {e}
    /\ UNCHANGED <<conversations, exchanges, evidence, checkpoints, reading, query,
                   job, faults>>

ConversationGoesStale ==
    /\ Quiet
    /\ \E c \in Conversations :
          /\ conversations[c].owner # NoOne /\ conversations[c].lastTurn = "recent"
          /\ ExchangesOf(c) \subseteq expired
          /\ conversations' = [conversations EXCEPT ![c].lastTurn = "stale"]
    /\ UNCHANGED <<exchanges, evidence, expired, checkpoints, reading, query, job, faults>>

(* All calls are answered; the workers poll on.                               *)
Next ==
    \/ \E q \in Queries : QueryStep(q)
    \/ \E c \in Conversations : ConsolidationStep(c)
    \/ \E j \in Jobs : RetentionStep(j) \/ PurgeFails(j)
    \/ RetentionPeriodPasses \/ ConversationGoesStale

Spec == Init /\ [][Next]_vars

(* asyncio runs every ready task. A query waits for a row that consolidation  *)
(* or another transaction may lock again and again: PostgreSQL queues it, so  *)
(* it is strongly fair. The job never stops polling, and a purge that waits   *)
(* for a row lock or for another job's delete queues as well.                 *)
Fairness ==
    /\ \A q \in Queries : SF_vars(QueryStep(q))
    /\ \A c \in Conversations : WF_vars(ConsolidationStep(c))
    /\ \A j \in Jobs : SF_vars(RetentionStep(j))

FairSpec == Spec /\ Fairness

----------------------------------------------------------------------------
(* Every turn and every piece of evidence belongs to an existing conversation *)
(* of the same owner, whatever claims, appends and purges interleave, and     *)
(* turn_count, by which consolidation selects, never falls behind the turns.  *)
RowsMatchTheirConversation ==
    /\ \A e \in exchanges \cup evidence : conversations[e.conv].owner = e.owner
    /\ \A c \in Conversations :
          2 * Cardinality(ExchangesOf(c)) <= conversations[c].turnCount

(* A query is never given turns or evidence of another user, even when its    *)
(* conversation is purged and claimed by another user between its claim and   *)
(* its reads.                                                                 *)
QueriesReadTheirOwnersRows ==
    \A q \in Queries : \A e \in query[q].history \cup query[q].evidence :
        e.owner = query[q].user /\ e.conv = query[q].conv

(* consolidated_at is stamped only on a conversation whose every remaining    *)
(* turn was read in the same transaction: no append slips in between.         *)
ConsolidationReadsEveryTurn ==
    [][\A c \in Conversations :
          ~conversations[c].consolidated /\ conversations'[c].consolidated
              => ExchangesOf(c) \subseteq reading[c].read]_vars

(* A turn that has not expired leaves the table only together with its whole  *)
(* conversation, and then the job had found that conversation stale and empty.*)
LiveTurnsLeaveWithTheirConversation ==
    [][\A e \in (exchanges \ exchanges') \ expired :
          /\ conversations'[e.conv] = NoRow
          /\ \E j \in Jobs : e.conv \in job[j].stale /\ job[j].pc = "erase"]_vars

(* docs: "Retention deletes only expired data, preserves live data".          *)
RetentionDeletesOnlyExpired == [][exchanges \ exchanges' \subseteq expired]_vars

(* Every query that started is answered, refused or failed: it is never kept  *)
(* waiting for a conversation row for ever.                                   *)
QueriesEnd == \A q \in Queries : Running(q) ~> ~Running(q)

(* A conversation that is stale and has no live turn does not stay for ever,  *)
(* although purges fail, overlap and wait for consolidation.                  *)
StaleConversationsArePurged ==
    \A c \in Conversations :
        conversations[c].lastTurn = "stale" /\ ExchangesOf(c) \subseteq expired
            ~> conversations[c].owner = NoOne \/ conversations[c].lastTurn = "recent"

(* The store keeps the promise of ConversationStorePort.                      *)
Ledger == INSTANCE ConversationLedger WITH
    Exchanges <- Exchange,
    owner <- [c \in Conversations |-> conversations[c].owner],
    log <- [c \in Conversations |-> ExchangesOf(c)]

ImplementsLedger == Ledger!Spec
=============================================================================
