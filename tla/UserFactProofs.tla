--------------------------- MODULE UserFactProofs ---------------------------
(* What long-term memory owes to its users, whoever runs and whatever fails:  *)
(* a fact has one active row, a row names its sources, and an erasure collects *)
(* rows of its own user. Proofs for any number of rows, users, facts,         *)
(* conversations, workers, jobs and erasures.                                 *)
EXTENDS LongTermMemoryProofs, FiniteSetTheorems

(* Two live rows about the same fact of the same user are one row.            *)
FactsAreUnique ==
    \A m, k \in MemoryIds :
        /\ Live(m) /\ Live(k)
        /\ rows[m].kind = "conversation_summary" /\ rows[k].kind = "conversation_summary"
        /\ rows[m].owner = rows[k].owner /\ rows[m].fact = rows[k].fact
        => m = k

(* The lineage of a row holds conversations of the row's owner only: this is  *)
(* why matching by lineage does not reach the rows of other users.            *)
SourcesAreOwned ==
    \A m \in MemoryIds : \A v \in rows[m].sources : ConvOwner[v] = rows[m].owner

(* A collected row was in use, and ids are not used again.                    *)
MatchesAreOwned ==
    \A e \in Erasers : \A m \in er[e].matched :
        rows[m].state # "unused" /\ (Gone(m) \/ rows[m].owner = er[e].user)

FactInv == IInv /\ FactsAreUnique /\ SourcesAreOwned /\ MatchesAreOwned
-----------------------------------------------------------------------------
(* The parts of the invariant, over the life of the rows.                     *)
LEMMA UniquenessKept == FactInv /\ [Next]_vars => FactsAreUnique'
<1> SUFFICES ASSUME FactInv, [Next]_vars PROVE FactsAreUnique'
  OBVIOUS
<1>1. CASE \A m \in MemoryIds : Kept(m) \/ Removed(m) \/ ChunkInserted(m)
  <2>1. \A m \in MemoryIds : Live(m)' /\ rows'[m].kind = "conversation_summary" =>
            /\ Live(m) /\ rows[m].kind = rows'[m].kind
            /\ rows[m].owner = rows'[m].owner /\ rows[m].fact = rows'[m].fact
    BY <1>1 DEF Kept, Removed, ChunkInserted, Live
  <2> QED BY <2>1 DEF FactInv, FactsAreUnique
<1>2. ASSUME NEW c \in Consolidators, NEW m \in MemoryIds, InsertedBy(c, m)
      PROVE  FactsAreUnique'
  <2>1. \A k \in MemoryIds : k # m /\ Live(k)' =>
            /\ Live(k) /\ rows[k].kind = rows'[k].kind
            /\ rows[k].owner = rows'[k].owner /\ rows[k].fact = rows'[k].fact
    BY <1>2 DEF InsertedBy, FactInserted, Kept, Live
  <2>2. \A k \in MemoryIds : k # m /\ Live(k)' =>
            ~ /\ rows'[k].kind = "conversation_summary"
              /\ rows'[k].owner = rows'[m].owner /\ rows'[k].fact = rows'[m].fact
    BY <1>2, <2>1 DEF InsertedBy, FactInserted, ActiveFact
  <2> QED BY <2>1, <2>2 DEF FactInv, FactsAreUnique
<1> QED BY <1>1, <1>2, RowsMove DEF FactInv

LEMMA OwnershipKept == FactInv /\ [Next]_vars => SourcesAreOwned'
<1> SUFFICES ASSUME FactInv, [Next]_vars PROVE SourcesAreOwned'
  OBVIOUS
<1>1. ASSUME NEW m \in MemoryIds, Kept(m) PROVE \A v \in rows'[m].sources :
                                                    ConvOwner[v] = rows'[m].owner
  BY <1>1 DEF Kept, FactInv, SourcesAreOwned
<1>2. CASE \A m \in MemoryIds : Kept(m) \/ Removed(m) \/ ChunkInserted(m)
  BY <1>1, <1>2 DEF Removed, ChunkInserted, SourcesAreOwned
<1>3. ASSUME NEW c \in Consolidators, NEW m \in MemoryIds, InsertedBy(c, m)
      PROVE  SourcesAreOwned'
  BY <1>1, <1>3 DEF InsertedBy, FactInserted, SourcesAreOwned
<1> QED BY <1>2, <1>3, RowsMove DEF FactInv

(* An erasure collects once; a row that matches by lineage is the user's too. *)
LEMMA CollectedRowsAreOwned ==
    ASSUME FactInv, NEW user, NEW m \in MatchedRows(user)
    PROVE  Live(m) /\ rows[m].owner = user
BY DEF FactInv, SourcesAreOwned, MatchedRows, ConvsOf

LEMMA ErasersMove ==
    ASSUME FactInv, [Next]_vars, NEW e \in Erasers
    PROVE  \/ er'[e].matched \subseteq er[e].matched /\ er'[e].user = er[e].user
           \/ er'[e].matched = {}
           \/ rows' = rows /\ \A m \in er'[e].matched : Live(m) /\ rows[m].owner = er'[e].user
<1> er \in [Erasers -> ErLocal]
  BY DEF FactInv, IInv, TypeOK, ErTypeOK
<1>1. CASE er' = er
  BY <1>1
<1>2. ASSUME NEW d \in Erasers, CollectMatchedRows(d)
      PROVE  er'[e] = er[e] \/ (rows' = rows /\ \A m \in er'[e].matched :
                                    Live(m) /\ rows[m].owner = er'[e].user)
  <2>1. PICK user \in Users :
          er' = [er EXCEPT ![d] =
                   [IdleEr EXCEPT !.pc = "vectors", !.user = user,
                       !.matched = MatchedRows(user),
                       !.todo = {Namespace(m) : m \in MatchedRows(user)}]]
    BY <1>2 DEF CollectMatchedRows
  <2>2. er'[d].matched = MatchedRows(user) /\ er'[d].user = user
    BY <2>1 DEF IdleEr
  <2>3. e # d => er'[e] = er[e]
    BY <2>1
  <2>4. rows' = rows
    BY <1>2 DEF CollectMatchedRows, mirrorVars
  <2> QED BY <2>2, <2>3, <2>4, CollectedRowsAreOwned
<1>3. ASSUME NEW d \in Erasers, ErasureStep(d) \/ ErasureFails(d) \/ ErasureCrashes(d)
      PROVE  \/ er'[e].matched = er[e].matched /\ er'[e].user = er[e].user
             \/ er'[e].matched = {}
  BY <1>3 DEF ErasureStep, DeleteMatchedVectors, DeleteMatchedRows, EraseCheckpoint,
              CommitErasure, ErasureFails, ErasureCrashes, ErasureAborts, IdleEr, ErLocal
<1> QED
  BY <1>1, <1>2, <1>3
     DEF Next, Environment, WriterOrClock, Work, SyncOnly, RecOnly, RetOnly, ConOnly,
         Restart, ProviderFailure, Crash, vars

LEMMA MatchesKept == FactInv /\ [Next]_vars => MatchesAreOwned'
<1> SUFFICES ASSUME FactInv, [Next]_vars, NEW e \in Erasers, NEW m \in er'[e].matched
             PROVE  rows'[m].state # "unused" /\ (Gone(m)' \/ rows'[m].owner = er'[e].user)
  BY DEF MatchesAreOwned
<1>1. CASE rows' = rows /\ Live(m) /\ rows[m].owner = er'[e].user
  BY <1>1 DEF Live
<1>2. CASE m \in er[e].matched /\ er'[e].user = er[e].user
  <2>1. m \in MemoryIds
    BY <1>2 DEF FactInv, IInv, TypeOK, ErTypeOK, ErLocal
  <2>2. rows[m].state # "unused" /\ (Gone(m) \/ rows[m].owner = er[e].user)
    BY <1>2 DEF FactInv, MatchesAreOwned
  <2>3. Kept(m) \/ Removed(m)
    BY <2>1, <2>2, RowsMove DEF FactInv, ChunkInserted, InsertedBy, FactInserted
  <2> QED BY <1>2, <2>2, <2>3 DEF Kept, Removed, Gone
<1> QED BY <1>1, <1>2, ErasersMove

LEMMA FactInit == Init => FactInv
<1> SUFFICES ASSUME Init PROVE FactInv
  OBVIOUS
<1>1. UnusedRow.state = "unused" /\ UnusedRow.sources = {}
  BY DEF UnusedRow, InsertedRow
<1>2. FactsAreUnique /\ SourcesAreOwned
  BY <1>1 DEF Init, MirrorInit, FactsAreUnique, SourcesAreOwned, Live
<1>3. MatchesAreOwned
  BY DEF Init, ErInit, IdleEr, MatchesAreOwned
<1> QED BY <1>2, <1>3, InitEstablishes DEF FactInv

LEMMA FactNext == FactInv /\ [Next]_vars => FactInv'
BY NextPreserves, UniquenessKept, OwnershipKept, MatchesKept DEF FactInv

LEMMA FactInvariance == Spec => []FactInv
BY FactInit, FactNext, PTL DEF Spec

(* However many consolidators promote the same fact of a user at once, and    *)
(* whatever retention, erasures and crashes do meanwhile, at most one row of  *)
(* the fact is active.                                                        *)
THEOREM OneRowPerFact == Spec => []OneActiveRowPerFact
<1>1. ASSUME FactInv, NEW user \in Users, NEW f \in Facts
      PROVE  Cardinality(ActiveFact(user, f)) <= 1
  <2>1. \A m, k \in ActiveFact(user, f) : m = k
    BY <1>1 DEF FactInv, FactsAreUnique, ActiveFact
  <2>2. CASE ActiveFact(user, f) = {}
    BY <2>2, FS_EmptySet
  <2>3. ASSUME NEW m \in ActiveFact(user, f) PROVE Cardinality(ActiveFact(user, f)) <= 1
    <3>1. ActiveFact(user, f) = {m}
      BY <2>1, <2>3
    <3>2. Cardinality({m}) = 1
      BY FS_Singleton
    <3> QED BY <3>1, <3>2
  <2> QED BY <2>2, <2>3
<1>2. FactInv => OneActiveRowPerFact
  BY <1>1 DEF OneActiveRowPerFact
<1> QED BY <1>2, FactInvariance, PTL

(* An erasure never collects a row of another user, although it matches rows  *)
(* by their lineage too, and rows change between its transactions.            *)
THEOREM ErasureIsConfined == Spec => []ErasureTouchesOwnRowsOnly
<1>1. FactInv => ErasureTouchesOwnRowsOnly
  BY DEF FactInv, MatchesAreOwned, ErasureTouchesOwnRowsOnly
<1> QED BY <1>1, FactInvariance, PTL
-----------------------------------------------------------------------------
(* Lineage. A record names a conversation from the moment a candidate of the  *)
(* conversation is about to be linked to it, until the record is deleted.     *)
Named(r, v) ==
    /\ rows[r].state # "unused"
    /\ rows[r].state \in {"live", "soft"} => v \in rows[r].sources

Linked(c) == Named(con[c].record, con[c].conv)
Free(c) == ActiveFact(ConvOwner[con[c].conv], con[c].fact) = {}

PromotionsAreNamed == \A p \in promotions : Named(p.record, p.conv)
LinksAreNamed == \A c \in Consolidators : con[c].pc = "mark" => Linked(c)

(* Between looking a fact up in vain and inserting it, a lone consolidator    *)
(* meets nobody: the unique index never refuses its insert, and it never      *)
(* takes the path that only looks the row up.                                 *)
InsertsAreFree ==
    \A c \in Consolidators :
        /\ con[c].pc # "reselect"
        /\ con[c].pc = "insert" => Free(c)

LineageInv == IInv /\ PromotionsAreNamed /\ LinksAreNamed /\ InsertsAreFree

LEMMA NamedKept ==
    ASSUME IInv, [Next]_vars, NEW r \in MemoryIds, NEW v, Named(r, v)
    PROVE  Named(r, v)'
<1>1. Kept(r) \/ Removed(r)
  BY RowsMove DEF Named, ChunkInserted, InsertedBy, FactInserted
<1> QED BY <1>1 DEF Named, Kept, Removed

(* A candidate is linked by its consolidator, with the record it holds.       *)
LEMMA PromotionsMove ==
    ASSUME IInv, [Next]_vars
    PROVE  \/ promotions' \subseteq promotions
           \/ \E c \in Consolidators :
                 /\ con[c].pc = "mark" /\ rows' = rows
                 /\ promotions' = promotions \cup
                       {[conv |-> con[c].conv, fact |-> con[c].fact, record |-> con[c].record]}
<1>1. CASE promotions' = promotions
  BY <1>1
<1>2. ASSUME NEW t \in RetentionJobs, RetAction(t) PROVE promotions' \subseteq promotions
  BY <1>2 DEF RetAction, RetentionStep, SoftDeleteExpired, SelectSoftDeleted,
              DeleteExpiredVectors, DeleteExpiredRows, DeleteExpiredCandidates,
              RetentionFails, RetentionCrashes, RetentionAborts, RetentionRestarts, mirrorVars
<1>3. ASSUME NEW c \in Consolidators, ConAction(c) PROVE promotions' = promotions \/ MarkPromoted(c)
  BY <1>3 DEF ConAction, ConsolidationStep, PickConversations, SkipTurnless, ExtractFacts,
              SelectFact, InsertFact, ReselectFact, ConflictVanishes, FinishConversation,
              CommitConsolidation, ExtractionFails, ConsolidationCrashes,
              ConsolidationAborts, ConsolidationRestarts, mirrorVars
<1>4. ASSUME NEW w \in SyncWorkers, SyncAction(w) PROVE promotions' = promotions
  BY <1>4 DEF SyncAction, SyncStep, PollUnsynced, EmbedAndUpsert, CommitSync, SyncFails,
              BackoffOverflows, SyncCrashes, SyncAborts, SyncRestarts, mirrorVars
<1>5. ASSUME NEW r \in Reconcilers, RecAction(r) PROVE promotions' = promotions
  BY <1>5 DEF RecAction, ReconciliationStep, ReadActiveIds, ListOrphans, DeleteOrphans,
              FinishReconciliation, ReconciliationFails, ReconciliationCrashes,
              ReconciliationAborts, ReconciliationRestarts, mirrorVars
<1>6. ASSUME NEW e \in Erasers, ErAction(e) PROVE promotions' = promotions
  BY <1>6 DEF ErAction, ErasureStep, CollectMatchedRows, DeleteMatchedVectors,
              DeleteMatchedRows, EraseCheckpoint, CommitErasure, ErasureFails,
              ErasureCrashes, ErasureAborts, mirrorVars
<1>7. CASE Environment
  BY <1>7 DEF Environment, RecordDocumentChunk, ExpiryPasses, mirrorVars
<1>8. CASE UNCHANGED vars
  BY <1>8 DEF vars, mirrorVars
<1> QED
  BY <1>1, <1>2, <1>3, <1>4, <1>5, <1>6, <1>7, <1>8
     DEF Next, Work, Restart, ProviderFailure, Crash, MarkPromoted,
         SyncAction, RecAction, RetAction, ConAction, ErAction

(* Where one consolidator may be by itself after its own step.                *)
Lone(c) ==
    \/ con'[c].pc \notin {"insert", "reselect", "mark"}
    \/ con'[c].pc = "insert" /\ Free(c)'
    \/ con'[c].pc = "mark" /\ Linked(c)'

LEMMA SelectLeads ==
    ASSUME LineageInv, NEW c \in Consolidators, SelectFact(c)
    PROVE  Lone(c)
<1>1. PICK f \in con[c].facts :
          LET active == ActiveFact(ConvOwner[con[c].conv], f) IN
          \/ /\ active = {}
             /\ con' = [con EXCEPT ![c] = [con[c] EXCEPT !.pc = "insert", !.fact = f]]
             /\ UNCHANGED rows
          \/ \E m \in active :
                /\ rows' = [rows EXCEPT ![m].sources = @ \cup {con[c].conv}]
                /\ con' = [con EXCEPT ![c] =
                             [con[c] EXCEPT !.pc = "mark", !.fact = f, !.record = m]]
  BY DEF SelectFact
<1>2. con \in [Consolidators -> ConLocal]
  BY DEF LineageInv, IInv, TypeOK, ConTypeOK
<1>3. CASE /\ ActiveFact(ConvOwner[con[c].conv], f) = {} /\ UNCHANGED rows
           /\ con' = [con EXCEPT ![c] = [con[c] EXCEPT !.pc = "insert", !.fact = f]]
  <2>1. con'[c].pc = "insert" /\ con'[c].conv = con[c].conv /\ con'[c].fact = f
    BY <1>2, <1>3 DEF ConLocal
  <2> QED BY <1>3, <2>1 DEF Lone, Free, ActiveFact, Live
<1>4. ASSUME NEW m \in ActiveFact(ConvOwner[con[c].conv], f),
             rows' = [rows EXCEPT ![m].sources = @ \cup {con[c].conv}],
             con' = [con EXCEPT ![c] =
                        [con[c] EXCEPT !.pc = "mark", !.fact = f, !.record = m]]
      PROVE  Lone(c)
  <2>1. con'[c].pc = "mark" /\ con'[c].conv = con[c].conv /\ con'[c].record = m
    BY <1>2, <1>4 DEF ConLocal
  <2>2. m \in MemoryIds /\ Live(m)
    BY ActiveFactType
  <2>3. rows'[m].state = "live" /\ con[c].conv \in rows'[m].sources
    BY <1>4, <2>2 DEF Live, LineageInv, IInv, TypeOK, MirrorTypeOK, Row
  <2> QED BY <2>1, <2>3 DEF Lone, Linked, Named
<1> QED BY <1>1, <1>3, <1>4

LEMMA InsertLeads ==
    ASSUME LineageInv, NEW c \in Consolidators, InsertFact(c)
    PROVE  Lone(c)
<1> DEFINE row(expiry) == InsertedRow("conversation_summary", ConvOwner[con[c].conv],
                                      con[c].fact, {con[c].conv}, expiry)
<1>1. PICK m \in MemoryIds, expiry \in {"never", "ahead"} :
          /\ rows' = [rows EXCEPT ![m] = row(expiry)]
          /\ con' = [con EXCEPT ![c] = [con[c] EXCEPT !.pc = "mark", !.record = m]]
  BY DEF InsertFact, LineageInv, InsertsAreFree, Free
<1>2. row(expiry).state = "live" /\ row(expiry).sources = {con[c].conv}
  BY DEF InsertedRow
<1> HIDE DEF row
<1>3. con'[c].pc = "mark" /\ con'[c].conv = con[c].conv /\ con'[c].record = m
  BY <1>1 DEF LineageInv, IInv, TypeOK, ConTypeOK, ConLocal
<1> QED BY <1>1, <1>2, <1>3 DEF Lone, Linked, Named, LineageInv, IInv, TypeOK, MirrorTypeOK

LEMMA ConsolidatorLeads ==
    ASSUME LineageInv, [Next]_vars, NEW c \in Consolidators
    PROVE  con'[c] = con[c] \/ Lone(c)
<1>1. con \in [Consolidators -> ConLocal]
  BY DEF LineageInv, IInv, TypeOK, ConTypeOK
<1>2. CASE con' = con
  BY <1>2
<1>3. ASSUME NEW d \in Consolidators, ConAction(d) PROVE con'[c] = con[c] \/ Lone(c)
  <2>1. con[d].pc # "reselect"
    BY DEF LineageInv, InsertsAreFree
  <2>2. c # d => con'[c] = con[c]
    BY <1>1, <1>3
       DEF ConAction, ConsolidationStep, PickConversations, SkipTurnless, ExtractFacts,
           SelectFact, InsertFact, ReselectFact, ConflictVanishes, MarkPromoted,
           FinishConversation, CommitConsolidation, ExtractionFails,
           ConsolidationCrashes, ConsolidationAborts, ConsolidationRestarts
  <2>3. CASE PickConversations(d) \/ SkipTurnless(d) \/ ExtractFacts(d)
    <3>1. con'[d].pc \in {"extract", "promote"}
      BY <1>1, <2>3 DEF PickConversations, SkipTurnless, ExtractFacts, IdleCon, ConLocal
    <3> QED BY <2>2, <3>1 DEF Lone
  <2>4. CASE MarkPromoted(d) \/ FinishConversation(d)
    <3>1. con'[d].pc \in {"promote", "extract"}
      <4>1. CASE MarkPromoted(d)
        BY <1>1, <4>1 DEF MarkPromoted, ConLocal
      <4>2. CASE FinishConversation(d)
        BY <1>1, <4>2 DEF FinishConversation, ConLocal
      <4> QED BY <2>4, <4>1, <4>2
    <3> QED BY <2>2, <3>1 DEF Lone
  <2>5. CASE CommitConsolidation(d) \/ ConsolidationAborts(d) \/ ConsolidationRestarts(d)
    <3>1. con'[d].pc \in {"idle", "dead"}
      BY <1>1, <2>5, IdleConType
         DEF CommitConsolidation, ConsolidationAborts, ConsolidationRestarts
    <3> QED BY <2>2, <3>1 DEF Lone
  <2> QED
    BY <1>3, <2>1, <2>2, <2>3, <2>4, <2>5, SelectLeads, InsertLeads
       DEF ConAction, ConsolidationStep, ReselectFact, ConflictVanishes, ExtractionFails,
           ConsolidationCrashes
<1> QED
  BY <1>2, <1>3
     DEF Next, Environment, WriterOrClock, Work, SyncOnly, RecOnly, RetOnly, ErOnly,
         Restart, ProviderFailure, Crash, vars, ConAction

LEMMA LineageNext ==
    ASSUME \A c, d \in Consolidators : c = d, LineageInv, [Next]_vars
    PROVE  LineageInv'
<1>1. IInv /\ IInv'
  BY NextPreserves DEF LineageInv
<1>2. PromotionsAreNamed'
  <2>1. ASSUME NEW p \in promotions PROVE Named(p.record, p.conv)'
    <3>1. p.record \in MemoryIds
      BY <1>1 DEF IInv, TypeOK, MirrorTypeOK, Promotion
    <3> QED BY <1>1, <3>1, NamedKept DEF LineageInv, PromotionsAreNamed
  <2>2. ASSUME NEW c \in Consolidators, con[c].pc = "mark", rows' = rows
        PROVE  Linked(c)
    BY <2>2 DEF LineageInv, LinksAreNamed
  <2> QED BY <1>1, <2>1, <2>2, PromotionsMove DEF PromotionsAreNamed, Linked, Named
<1>3. ASSUME NEW c \in Consolidators, con'[c].pc = "mark"
      PROVE  Linked(c)'
  <2>1. CASE con'[c] = con[c]
    <3>1. con[c].record \in MemoryIds /\ Named(con[c].record, con[c].conv)
      BY <1>1, <1>3, <2>1 DEF IInv, PromotionHasItsParts, LineageInv, LinksAreNamed, Linked
    <3>2. PICK r, v : r = con[c].record /\ v = con[c].conv
      OBVIOUS
    <3>3. Named(r, v)'
      BY <1>1, <3>1, <3>2, NamedKept
    <3> QED BY <2>1, <3>2, <3>3 DEF Linked, Named
  <2> QED BY <1>3, <2>1, ConsolidatorLeads DEF Lone
<1>4. ASSUME NEW c \in Consolidators, con'[c].pc \in {"insert", "reselect"}
      PROVE  con'[c].pc = "insert" /\ Free(c)'
  <2>1. CASE con'[c] = con[c]
    <3>1. con[c].pc = "insert" /\ Free(c)
      BY <1>4, <2>1 DEF LineageInv, InsertsAreFree
    <3>2. ASSUME NEW d \in Consolidators, NEW m \in MemoryIds, InsertedBy(d, m) PROVE FALSE
      BY <1>1, <1>4, <2>1, <3>2 DEF InsertedBy, IInv, TypeOK, ConTypeOK, ConLocal
    <3>3. \A m \in MemoryIds : Kept(m) \/ Removed(m) \/ ChunkInserted(m)
      BY <1>1, <3>2, RowsMove
    <3> QED BY <2>1, <3>1, <3>3 DEF Free, ActiveFact, Live, Kept, Removed, ChunkInserted
  <2>2. CASE Lone(c)
    BY <1>4, <2>2 DEF Lone
  <2> QED BY <2>1, <2>2, ConsolidatorLeads
<1>5. LinksAreNamed'
  BY <1>3 DEF LinksAreNamed
<1>6. InsertsAreFree'
  BY <1>4 DEF InsertsAreFree
<1> QED BY <1>1, <1>2, <1>5, <1>6 DEF LineageInv

LEMMA LineageInit == Init => LineageInv
<1> SUFFICES ASSUME Init PROVE LineageInv
  OBVIOUS
<1>1. PromotionsAreNamed
  BY DEF Init, MirrorInit, PromotionsAreNamed
<1>2. LinksAreNamed /\ InsertsAreFree
  BY DEF Init, ConInit, IdleCon, LinksAreNamed, InsertsAreFree
<1> QED BY <1>1, <1>2, InitEstablishes DEF LineageInv

(* With one consolidation worker, retention, erasures and crashes cannot make *)
(* a record lose the conversation of a candidate that was promoted to it.     *)
THEOREM LineageSurvives ==
    ASSUME \A c, d \in Consolidators : c = d
    PROVE  Spec => []LineagePreserved
<1>1. LineageInv => LineagePreserved
  BY DEF LineageInv, PromotionsAreNamed, Named, LineagePreserved
<1>2. Init => LineageInv
  BY LineageInit
<1>3. LineageInv /\ [Next]_vars => LineageInv'
  BY LineageNext
<1> QED BY <1>1, <1>2, <1>3, PTL DEF Spec
=============================================================================
