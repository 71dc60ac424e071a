------------------------ MODULE ShortTermMemoryProofs ------------------------
(* For any finite number of queries, and any users, conversations and jobs.   *)
EXTENDS ShortTermMemory, FiniteSetTheorems, TLAPS

USE DEF vars

DoneQueries == {q \in Queries : query[q].pc = "done"}

(* Only a query that is done has rows: a query appends once.                  *)
RowsAreOfDoneQueries ==
    \A e \in exchanges \cup evidence : query[e.query].pc = "done"

(* turn_count is what the done queries can have added, at most.               *)
CountsAreEarned ==
    \A c \in Conversations : conversations[c].turnCount <= 2 * Cardinality(DoneQueries)

(* A call that has not begun has read nothing; one that has belongs to a user. *)
QueriesBegin ==
    \A q \in Queries :
        IF query[q].pc = "new" THEN query[q].history = {} /\ query[q].evidence = {}
        ELSE query[q].user \in Users

IInv ==
    /\ TypeOK /\ IsFiniteSet(exchanges)
    /\ RowsAreOfDoneQueries /\ CountsAreEarned /\ QueriesBegin
    /\ RowsMatchTheirConversation /\ QueriesReadTheirOwnersRows

----------------------------------------------------------------------------
LEMMA DoneIsFinite ==
    /\ IsFiniteSet(DoneQueries)
    /\ Cardinality(DoneQueries) \in Nat
    /\ Cardinality(Queries) \in Nat
    /\ Cardinality(DoneQueries) <= Cardinality(Queries)
  <1>1. DoneQueries \subseteq Queries /\ IsFiniteSet(Queries)
    BY ShortTermAssumption DEF DoneQueries
  <1> QED BY <1>1, FS_Subset, FS_CardinalityType

(* One query moves, and is not done yet.                                      *)
LEMMA DoneStays ==
    ASSUME TypeOK, NEW q \in Queries, query[q].pc # "done",
           NEW l \in QueryLocal, l.pc # "done", query' = [query EXCEPT ![q] = l]
    PROVE  DoneQueries' = DoneQueries
  BY DEF DoneQueries, TypeOK

LEMMA DoneGrows ==
    ASSUME TypeOK, NEW q \in Queries, query[q].pc # "done",
           NEW l \in QueryLocal, l.pc = "done", query' = [query EXCEPT ![q] = l]
    PROVE  /\ Cardinality(DoneQueries') = Cardinality(DoneQueries) + 1
           /\ Cardinality(DoneQueries') <= Cardinality(Queries)
  <1>1. DoneQueries' = DoneQueries \cup {q} /\ q \notin DoneQueries
    BY DEF DoneQueries, TypeOK
  <1>2. Cardinality(DoneQueries') = Cardinality(DoneQueries) + 1
    BY <1>1, DoneIsFinite, FS_AddElement
  <1>3. DoneQueries' \subseteq Queries
    BY DEF DoneQueries
  <1>4. Cardinality(DoneQueries') <= Cardinality(Queries)
    BY <1>3, FS_Subset, ShortTermAssumption
  <1> QED BY <1>2, <1>4

(* An exchange that another table row shows belongs to a claimed conversation. *)
LEMMA UnclaimedIsEmpty ==
    ASSUME IInv, NEW c \in Conversations, conversations[c].owner = NoOne
    PROVE  /\ ExchangesOf(c) = {}
           /\ \A e \in evidence : e.conv # c
  BY ShortTermAssumption DEF IInv, TypeOK, RowsMatchTheirConversation, ExchangesOf, Exchange

LEMMA ExchangesOfFinite ==
    ASSUME IsFiniteSet(exchanges), NEW c
    PROVE  IsFiniteSet(ExchangesOf(c)) /\ Cardinality(ExchangesOf(c)) \in Nat
  <1>1. ExchangesOf(c) \subseteq exchanges
    BY DEF ExchangesOf
  <1> QED BY <1>1, FS_Subset, FS_CardinalityType

LEMMA RowTypes ==
    /\ NoRow \in ConversationRow /\ NoRow.owner = NoOne /\ NoRow.turnCount = 0
    /\ \A u \in Users : /\ FreshRow(u) \in ConversationRow
                        /\ FreshRow(u).owner = u /\ FreshRow(u).turnCount = 0
    /\ \A u \in Users : /\ LeftBehind(u) \in ConversationRow
                        /\ LeftBehind(u).owner = u /\ LeftBehind(u).turnCount = 0
  <1>1. 0 \in 0 .. 2 * Cardinality(Queries)
    BY DoneIsFinite
  <1>2. NoRow \in ConversationRow /\ NoRow.owner = NoOne /\ NoRow.turnCount = 0
    BY <1>1 DEF NoRow, ConversationRow
  <1>3. ASSUME NEW u \in Users
        PROVE  FreshRow(u) \in ConversationRow
                   /\ FreshRow(u).owner = u /\ FreshRow(u).turnCount = 0
    BY <1>2 DEF FreshRow, ConversationRow
  <1>4. ASSUME NEW u \in Users
        PROVE  LeftBehind(u) \in ConversationRow
                   /\ LeftBehind(u).owner = u /\ LeftBehind(u).turnCount = 0
    BY <1>3 DEF LeftBehind, ConversationRow
  <1> QED BY <1>2, <1>3, <1>4

LEMMA InitInv == Init => IInv
  <1> SUFFICES ASSUME Init PROVE IInv
    OBVIOUS
  <1>1. TypeOK
    BY RowTypes, ShortTermAssumption
    DEF Init, TypeOK, QueryLocal, JobLocal, IdleJob, NotReading
  <1>2. IsFiniteSet(exchanges)
    BY FS_EmptySet DEF Init
  <1>3. CountsAreEarned
    BY RowTypes, DoneIsFinite DEF Init, CountsAreEarned
  <1>4. RowsMatchTheirConversation
    <2>1. \A c \in Conversations : ExchangesOf(c) = {}
      BY DEF Init, ExchangesOf
    <2>2. \A c \in Conversations : conversations[c].turnCount = 0
      BY RowTypes DEF Init
    <2>3. \A c \in Conversations :
              2 * Cardinality(ExchangesOf(c)) <= conversations[c].turnCount
      <3>1. Cardinality({}) = 0
        BY FS_EmptySet
      <3> QED BY <2>1, <2>2, <3>1
    <2>4. exchanges \cup evidence = {}
      BY DEF Init
    <2> QED BY <2>3, <2>4 DEF RowsMatchTheirConversation
  <1>5. RowsAreOfDoneQueries /\ QueriesBegin /\ QueriesReadTheirOwnersRows
    BY DEF Init, RowsAreOfDoneQueries, QueriesBegin, QueriesReadTheirOwnersRows
  <1> QED BY <1>1, <1>2, <1>3, <1>4, <1>5 DEF IInv

----------------------------------------------------------------------------
LEMMA ClaimedRow ==
    ASSUME TypeOK, NEW c \in Conversations, NEW u \in Users, CanClaim(c, u)
    PROVE  /\ Claimed(c, u) \in ConversationRow
           /\ Claimed(c, u).owner = u
           /\ Claimed(c, u).turnCount = IF conversations[c].owner = NoOne THEN 0
                                        ELSE conversations[c].turnCount
  BY RowTypes DEF Claimed, CanClaim, TypeOK

(* What a query may do to itself, perhaps claiming a row, but adding none.     *)
LEMMA QueryMoves ==
    ASSUME IInv, NEW q \in Queries, query[q].pc # "done",
           NEW l \in QueryLocal, query' = [query EXCEPT ![q] = l],
           l.pc \notin {"new", "done"}, l.user \in Users,
           \A e \in l.history \cup l.evidence : e.owner = l.user /\ e.conv = l.conv,
           conversations' \in [Conversations -> ConversationRow],
           \A c \in Conversations :
               \/ conversations'[c] = conversations[c]
               \/ \E u \in Users : CanClaim(c, u) /\ conversations'[c] = Claimed(c, u),
           checkpoints' \in SUBSET (Users \X Conversations),
           UNCHANGED <<exchanges, evidence, expired, reading, job, faults>>
    PROVE  IInv'
  <1> USE DEF IInv
  <1>1. TypeOK'
    BY DEF TypeOK
  <1>2. DoneQueries' = DoneQueries
    BY DoneStays
  <1>3. RowsAreOfDoneQueries'
    BY DEF RowsAreOfDoneQueries, TypeOK, Exchange
  <1>4. \A c \in Conversations :
          \/ conversations'[c] = conversations[c]
          \/ /\ conversations[c].owner = NoOne /\ ExchangesOf(c) = {}
             /\ \A e \in evidence : e.conv # c
             /\ conversations'[c].turnCount = 0
    BY RowTypes, UnclaimedIsEmpty DEF Claimed
  <1>5. CountsAreEarned'
    BY <1>2, <1>4, DoneIsFinite DEF CountsAreEarned
  <1>6. QueriesBegin' /\ QueriesReadTheirOwnersRows'
    BY DEF QueriesBegin, QueriesReadTheirOwnersRows, TypeOK
  <1>7. \A c \in Conversations : ExchangesOf(c)' = ExchangesOf(c)
    BY DEF ExchangesOf
  <1>8. \A e \in exchanges' \cup evidence' : conversations'[e.conv].owner = e.owner
    <2>1. \A e \in exchanges \cup evidence :
              e.conv \in Conversations /\ conversations'[e.conv] = conversations[e.conv]
      BY <1>4 DEF TypeOK, Exchange, ExchangesOf
    <2> QED BY <2>1 DEF RowsMatchTheirConversation
  <1>9. ASSUME NEW c \in Conversations
        PROVE  2 * Cardinality(ExchangesOf(c)') <= conversations'[c].turnCount
    <2>1. CASE conversations'[c] = conversations[c]
      BY <1>7, <2>1 DEF RowsMatchTheirConversation
    <2>2. CASE ExchangesOf(c) = {} /\ conversations'[c].turnCount = 0
      <3>1. Cardinality({}) = 0
        BY FS_EmptySet
      <3>2. Cardinality(ExchangesOf(c)') = 0
        BY <1>7, <2>2, <3>1
      <3> QED BY <2>2, <3>2
    <2> QED BY <1>4, <2>1, <2>2
  <1>10. RowsMatchTheirConversation'
    BY <1>8, <1>9 DEF RowsMatchTheirConversation
  <1>11. IsFiniteSet(exchanges')
    OBVIOUS
  <1> QED BY <1>1, <1>3, <1>5, <1>6, <1>10, <1>11

(* What the rest may do to the tables without touching a query: rows change   *)
(* but keep owner and turns, or go with all that belongs to them.             *)
LEMMA TablesMove ==
    ASSUME IInv, UNCHANGED query, TypeOK',
           exchanges' \subseteq exchanges, evidence' \subseteq evidence,
           \A c \in Conversations :
               \/ /\ conversations'[c].owner = conversations[c].owner
                  /\ conversations'[c].turnCount = conversations[c].turnCount
               \/ /\ conversations'[c] = NoRow
                  /\ \A e \in exchanges' \cup evidence' : e.conv # c
    PROVE  IInv'
  <1> USE DEF IInv
  <1>1. IsFiniteSet(exchanges')
    BY FS_Subset
  <1>2. DoneQueries' = DoneQueries
    BY DEF DoneQueries
  <1>3. CountsAreEarned'
    BY <1>2, RowTypes, DoneIsFinite DEF CountsAreEarned
  <1>4. RowsAreOfDoneQueries' /\ QueriesBegin' /\ QueriesReadTheirOwnersRows'
    BY DEF RowsAreOfDoneQueries, QueriesBegin, QueriesReadTheirOwnersRows
  <1>5. \A e \in exchanges' \cup evidence' : conversations'[e.conv].owner = e.owner
    BY DEF RowsMatchTheirConversation, TypeOK, Exchange
  <1>6. ASSUME NEW c \in Conversations
        PROVE  2 * Cardinality(ExchangesOf(c)') <= conversations'[c].turnCount
    <2>1. CASE conversations'[c].turnCount = conversations[c].turnCount
      <3>1. ExchangesOf(c)' \subseteq ExchangesOf(c)
        BY DEF ExchangesOf
      <3>2. /\ Cardinality(ExchangesOf(c)') <= Cardinality(ExchangesOf(c))
            /\ Cardinality(ExchangesOf(c)') \in Nat /\ Cardinality(ExchangesOf(c)) \in Nat
        BY <3>1, FS_Subset, FS_CardinalityType, ExchangesOfFinite
      <3>3. 2 * Cardinality(ExchangesOf(c)) <= conversations[c].turnCount
        BY DEF RowsMatchTheirConversation
      <3>4. conversations[c].turnCount \in Nat
        BY DoneIsFinite DEF TypeOK, ConversationRow
      <3> QED BY <2>1, <3>2, <3>3, <3>4
    <2>2. CASE conversations'[c] = NoRow /\ \A e \in exchanges' \cup evidence' : e.conv # c
      <3>1. ExchangesOf(c)' = {}
        BY <2>2 DEF ExchangesOf
      <3> QED BY <2>2, <3>1, FS_EmptySet, RowTypes
    <2> QED BY <2>1, <2>2
  <1>7. RowsMatchTheirConversation'
    BY <1>5, <1>6 DEF RowsMatchTheirConversation
  <1> QED BY <1>1, <1>3, <1>4, <1>7

----------------------------------------------------------------------------
LEMMA ClaimInv ==
    ASSUME IInv, NEW q \in Queries, Claim(q)
    PROVE  IInv'
  <1> USE DEF IInv
  <1>1. PICK c \in Conversations, u \in Users :
          /\ conversations' = IF CanClaim(c, u)
                              THEN [conversations EXCEPT ![c] = Claimed(c, u)]
                              ELSE conversations
          /\ query' = [query EXCEPT ![q] =
                [@ EXCEPT !.pc = IF CanClaim(c, u) THEN "claimed" ELSE "refused",
                          !.user = u, !.conv = c]]
    BY DEF Claim
  <1> DEFINE l == [query[q] EXCEPT !.pc = IF CanClaim(c, u) THEN "claimed" ELSE "refused",
                                   !.user = u, !.conv = c]
  <1>2. /\ query[q].pc = "new"
        /\ UNCHANGED <<exchanges, evidence, expired, checkpoints, reading, job, faults>>
    BY DEF Claim
  <1>3. l \in QueryLocal /\ query' = [query EXCEPT ![q] = l] /\ l.user \in Users
          /\ l.pc \notin {"new", "done"} /\ l.history = {} /\ l.evidence = {}
    BY <1>1, <1>2 DEF TypeOK, QueryLocal, QueriesBegin
  <1>4. /\ conversations' \in [Conversations -> ConversationRow]
        /\ \A d \in Conversations :
              \/ conversations'[d] = conversations[d]
              \/ \E v \in Users : CanClaim(d, v) /\ conversations'[d] = Claimed(d, v)
    BY <1>1, ClaimedRow DEF TypeOK
  <1>5. checkpoints' \in SUBSET (Users \X Conversations)
    BY <1>2 DEF TypeOK
  <1> QED BY <1>2, <1>3, <1>4, <1>5, QueryMoves

LEMMA ReadInv ==
    ASSUME IInv, NEW q \in Queries, ReadRecent(q) \/ ReadRecentEvidence(q)
    PROVE  IInv'
  <1> USE DEF IInv
  <1>1. PICK l \in QueryLocal :
          /\ query' = [query EXCEPT ![q] = l]
          /\ l.pc \notin {"new", "done"} /\ l.user = query[q].user /\ l.conv = query[q].conv
          /\ l.history \cup l.evidence \subseteq
                query[q].history \cup query[q].evidence
                    \cup OwnedBy(exchanges \cup evidence, l.conv, l.user)
    <2>1. CASE ReadRecent(q)
      <3> DEFINE l == IF Owns(q)
                      THEN [query[q] EXCEPT !.pc = "history",
                              !.history = OwnedBy(exchanges, query[q].conv, query[q].user)]
                      ELSE [query[q] EXCEPT !.pc = "refused"]
      <3>1. l \in QueryLocal
        BY DEF TypeOK, QueryLocal, OwnedBy
      <3>2. query' = [query EXCEPT ![q] = l]
        BY <2>1 DEF ReadRecent
      <3>3. /\ l.pc \notin {"new", "done"} /\ l.user = query[q].user /\ l.conv = query[q].conv
            /\ l.history \cup l.evidence \subseteq
                  query[q].history \cup query[q].evidence
                      \cup OwnedBy(exchanges \cup evidence, l.conv, l.user)
        BY DEF TypeOK, QueryLocal, OwnedBy
      <3> QED BY <3>1, <3>2, <3>3
    <2>2. CASE ReadRecentEvidence(q)
      <3> DEFINE l == IF Owns(q)
                      THEN [query[q] EXCEPT !.pc = "context",
                              !.evidence = OwnedBy(evidence \ expired, query[q].conv,
                                                   query[q].user)]
                      ELSE [query[q] EXCEPT !.pc = "refused"]
      <3>1. l \in QueryLocal
        BY DEF TypeOK, QueryLocal, OwnedBy
      <3>2. query' = [query EXCEPT ![q] = l]
        BY <2>2 DEF ReadRecentEvidence
      <3>3. /\ l.pc \notin {"new", "done"} /\ l.user = query[q].user /\ l.conv = query[q].conv
            /\ l.history \cup l.evidence \subseteq
                  query[q].history \cup query[q].evidence
                      \cup OwnedBy(exchanges \cup evidence, l.conv, l.user)
        BY DEF TypeOK, QueryLocal, OwnedBy
      <3> QED BY <3>1, <3>2, <3>3
    <2> QED BY <2>1, <2>2
  <1>2. /\ query[q].pc \in {"claimed", "history"}
        /\ UNCHANGED <<conversations, exchanges, evidence, expired, checkpoints, reading,
                       job, faults>>
    BY DEF ReadRecent, ReadRecentEvidence
  <1>3. l.user \in Users
    BY <1>1, <1>2 DEF QueriesBegin
  <1>4. \A e \in l.history \cup l.evidence : e.owner = l.user /\ e.conv = l.conv
    BY <1>1 DEF QueriesReadTheirOwnersRows, OwnedBy
  <1>5. conversations' \in [Conversations -> ConversationRow]
          /\ checkpoints' \in SUBSET (Users \X Conversations)
    BY <1>2 DEF TypeOK
  <1> QED BY <1>1, <1>2, <1>3, <1>4, <1>5, QueryMoves

(* The steps between the reads and the append.                                *)
LEMMA AgentInv ==
    ASSUME IInv, NEW q \in Queries,
           ResolveReference(q) \/ StartAgent(q) \/ FinishAgent(q) \/ AgentFails(q)
               \/ AppendRaises(q)
    PROVE  IInv'
  <1> USE DEF IInv
  <1>1. PICK pc \in {"answered", "running", "failed", "refused"},
             size \in {"none", "fits", "oversized"} :
          query' = [query EXCEPT ![q] = [@ EXCEPT !.pc = pc, !.produced = size]]
    <2>1. query[q] \in QueryLocal /\ query[q].produced \in {"none", "fits", "oversized"}
      BY DEF TypeOK, QueryLocal
    <2>2. \A pc \in {"answered", "running", "failed", "refused"} : Moves(q, pc) =>
            query' = [query EXCEPT ![q] = [@ EXCEPT !.pc = pc, !.produced = query[q].produced]]
      BY <2>1 DEF Moves, QueryLocal, TypeOK
    <2>3. CASE FinishAgent(q)
      BY <2>3 DEF FinishAgent
    <2>4. CASE ResolveReference(q) \/ StartAgent(q) \/ AgentFails(q) \/ AppendRaises(q)
      <3>1. \E pc \in {"answered", "running", "failed", "refused"} : Moves(q, pc)
        BY <2>4 DEF ResolveReference, StartAgent, AgentFails, AppendRaises
      <3> QED BY <2>1, <2>2, <3>1
    <2> QED BY <2>3, <2>4
  <1> DEFINE l == [query[q] EXCEPT !.pc = pc, !.produced = size]
  <1>2. /\ query[q].pc \in {"context", "running", "answered"}
        /\ UNCHANGED <<conversations, exchanges, evidence, expired, reading, job, faults>>
    BY DEF ResolveReference, StartAgent, FinishAgent, AgentFails, AppendRaises
  <1>3. query[q].user \in Users
    BY <1>2 DEF QueriesBegin
  <1>4. /\ l \in QueryLocal /\ query' = [query EXCEPT ![q] = l]
        /\ l.pc \notin {"new", "done"} /\ l.user \in Users
    BY <1>1, <1>3 DEF TypeOK, QueryLocal
  <1>5. \A e \in l.history \cup l.evidence : e.owner = l.user /\ e.conv = l.conv
    BY DEF QueriesReadTheirOwnersRows, TypeOK, QueryLocal
  <1>6. checkpoints' \in SUBSET (Users \X Conversations)
    BY <1>3 DEF TypeOK, QueryLocal, ResolveReference, StartAgent, FinishAgent, AgentFails,
                AppendRaises, SavesCheckpoint
  <1>7. conversations' \in [Conversations -> ConversationRow]
    BY <1>2 DEF TypeOK
  <1> QED BY <1>2, <1>4, <1>5, <1>6, <1>7, QueryMoves

LEMMA AppendInv ==
    ASSUME IInv, NEW q \in Queries, AppendExchange(q)
    PROVE  IInv'
  <1> USE DEF IInv
  <1> DEFINE c == query[q].conv
             u == query[q].user
             x == NewExchange(q)
             l == [query[q] EXCEPT !.pc = "done"]
  <1>1. /\ query[q].pc = "answered" /\ CanClaim(c, u)
        /\ conversations' = [conversations EXCEPT ![c] = AdvancedRow(q)]
        /\ exchanges' = exchanges \cup {x}
        /\ evidence' \in {evidence, evidence \cup {x}}
        /\ UNCHANGED <<expired, checkpoints, reading, job, faults>>
    BY DEF AppendExchange
  <1>2. /\ l \in QueryLocal /\ l.pc = "done" /\ query' = [query EXCEPT ![q] = l]
        /\ l.user = u /\ l.conv = c /\ l.history = query[q].history
        /\ l.evidence = query[q].evidence
    BY DEF AppendExchange, Moves, TypeOK, QueryLocal
  <1>3. c \in Conversations /\ u \in Users
    BY <1>1 DEF TypeOK, QueryLocal, QueriesBegin
  <1>4. x \in Exchange /\ x.conv = c /\ x.owner = u /\ x.query = q
    BY <1>3 DEF NewExchange, Exchange
  <1>5. x \notin exchanges
    BY <1>1, <1>4 DEF RowsAreOfDoneQueries
  <1> DEFINE was == IF conversations[c].owner = NoOne THEN 0 ELSE conversations[c].turnCount
  <1>6. /\ Cardinality(DoneQueries') = Cardinality(DoneQueries) + 1
        /\ Cardinality(DoneQueries') <= Cardinality(Queries)
        /\ Cardinality(DoneQueries) \in Nat /\ Cardinality(Queries) \in Nat
    BY <1>1, <1>2, DoneGrows, DoneIsFinite
  <1>7. was \in Nat /\ was <= 2 * Cardinality(DoneQueries)
    BY <1>3, <1>6 DEF TypeOK, ConversationRow, CountsAreEarned
  <1>8. /\ Claimed(c, u) \in ConversationRow
        /\ Claimed(c, u).owner = u /\ Claimed(c, u).turnCount = was
    BY <1>1, <1>3, ClaimedRow
  <1>9. AdvancedRow(q) = [Claimed(c, u) EXCEPT !.lastTurn = "recent", !.turnCount = was + 2]
    BY <1>8 DEF AdvancedRow
  <1>10. was + 2 \in 0 .. 2 * Cardinality(Queries)
    BY <1>6, <1>7
  <1>11. /\ AdvancedRow(q) \in ConversationRow
         /\ AdvancedRow(q).owner = u /\ AdvancedRow(q).turnCount = was + 2
    BY <1>8, <1>9, <1>10 DEF ConversationRow
  <1>12. TypeOK'
    BY <1>1, <1>2, <1>4, <1>11 DEF TypeOK
  <1>13. IsFiniteSet(exchanges')
    BY <1>1, FS_AddElement
  <1>14. RowsAreOfDoneQueries'
    BY <1>1, <1>2, <1>4 DEF RowsAreOfDoneQueries, TypeOK, Exchange
  <1>15. CountsAreEarned'
    <2>1. ASSUME NEW d \in Conversations
          PROVE  conversations'[d].turnCount <= 2 * Cardinality(DoneQueries')
      <3>1. CASE d = c
        BY <1>1, <1>3, <1>6, <1>7, <1>11, <3>1 DEF TypeOK
      <3>2. CASE d # c
        <4>1. conversations'[d] = conversations[d]
          BY <1>1, <3>2 DEF TypeOK
        <4>2. conversations[d].turnCount \in Nat
          BY <1>6 DEF TypeOK, ConversationRow
        <4>3. conversations[d].turnCount <= 2 * Cardinality(DoneQueries)
          BY DEF CountsAreEarned
        <4> QED BY <1>6, <4>1, <4>2, <4>3
      <3> QED BY <3>1, <3>2
    <2> QED BY <2>1 DEF CountsAreEarned
  <1>16. QueriesBegin' /\ QueriesReadTheirOwnersRows'
    BY <1>2, <1>3 DEF QueriesBegin, QueriesReadTheirOwnersRows, TypeOK
  <1>17. \A e \in exchanges' \cup evidence' : conversations'[e.conv].owner = e.owner
    <2>1. \A e \in exchanges \cup evidence : e.conv = c => e.owner = u
      BY <1>1, <1>3, UnclaimedIsEmpty DEF CanClaim, RowsMatchTheirConversation, ExchangesOf
    <2>2. \A e \in exchanges \cup evidence : e.conv # c =>
              conversations'[e.conv].owner = e.owner
      BY <1>1 DEF RowsMatchTheirConversation, TypeOK, Exchange
    <2>3. conversations'[c].owner = u
      BY <1>1, <1>3, <1>11 DEF TypeOK
    <2>4. \A e \in exchanges' \cup evidence' : e = x \/ e \in exchanges \cup evidence
      BY <1>1
    <2> HIDE DEF x, c, u
    <2> QED BY <1>4, <2>1, <2>2, <2>3, <2>4
  <1>18. ASSUME NEW d \in Conversations
         PROVE  2 * Cardinality(ExchangesOf(d)') <= conversations'[d].turnCount
    <2>1. CASE d # c
      <3>1. ExchangesOf(d)' = ExchangesOf(d)
        BY <1>1, <1>4, <2>1 DEF ExchangesOf
      <3>2. conversations'[d] = conversations[d]
        BY <1>1, <2>1 DEF TypeOK
      <3> QED BY <3>1, <3>2 DEF RowsMatchTheirConversation
    <2>2. CASE d = c
      <3>1. ExchangesOf(d)' = ExchangesOf(d) \cup {x} /\ x \notin ExchangesOf(d)
        BY <1>1, <1>4, <1>5, <2>2 DEF ExchangesOf
      <3>2. Cardinality(ExchangesOf(d)') = Cardinality(ExchangesOf(d)) + 1
        BY <3>1, ExchangesOfFinite, FS_AddElement
      <3>3. conversations'[d].turnCount = was + 2
        BY <1>1, <1>3, <1>11, <2>2 DEF TypeOK
      <3>4. 2 * Cardinality(ExchangesOf(d)) <= was
        <4>1. CASE conversations[c].owner = NoOne
          <5>1. ExchangesOf(d) = {}
            BY <2>2, <4>1, UnclaimedIsEmpty
          <5>2. Cardinality({}) = 0
            BY FS_EmptySet
          <5>3. Cardinality(ExchangesOf(d)) = 0
            BY <5>1, <5>2
          <5> QED BY <4>1, <5>3
        <4>2. CASE conversations[c].owner # NoOne
          BY <2>2, <4>2 DEF RowsMatchTheirConversation
        <4> QED BY <4>1, <4>2
      <3>5. Cardinality(ExchangesOf(d)) \in Nat
        BY ExchangesOfFinite
      <3>6. 2 * (Cardinality(ExchangesOf(d)) + 1) <= was + 2
        BY <1>7, <3>4, <3>5
      <3> QED BY <3>2, <3>3, <3>6
    <2> QED BY <2>1, <2>2
  <1>19. RowsMatchTheirConversation'
    BY <1>17, <1>18 DEF RowsMatchTheirConversation
  <1> QED BY <1>12, <1>13, <1>14, <1>15, <1>16, <1>19

LEMMA QueryStepInv ==
    ASSUME IInv, NEW q \in Queries, QueryStep(q)
    PROVE  IInv'
  BY ClaimInv, ReadInv, AgentInv, AppendInv DEF QueryStep

LEMMA ConsolidationInv ==
    ASSUME IInv, NEW c \in Conversations, ConsolidationStep(c)
    PROVE  IInv'
  <1> USE DEF IInv
  <1>1. TypeOK'
    <2>1. CASE LockForConsolidation(c)
      BY <2>1 DEF LockForConsolidation, TypeOK, ExchangesOf
    <2>2. CASE CommitConsolidation(c)
      BY <2>2 DEF CommitConsolidation, TypeOK, ConversationRow, NotReading
    <2> QED BY <2>1, <2>2 DEF ConsolidationStep
  <1>2. UNCHANGED <<query, exchanges, evidence>>
    BY DEF ConsolidationStep, LockForConsolidation, CommitConsolidation
  <1>3. \A d \in Conversations :
            /\ conversations'[d].owner = conversations[d].owner
            /\ conversations'[d].turnCount = conversations[d].turnCount
    BY DEF ConsolidationStep, LockForConsolidation, CommitConsolidation, TypeOK,
           ConversationRow
  <1> QED BY <1>1, <1>2, <1>3, TablesMove

LEMMA RetentionTypes ==
    ASSUME IInv, NEW j \in Jobs, RetentionStep(j) \/ PurgeFails(j)
    PROVE  TypeOK'
  <1> USE DEF IInv
  <1>1. CASE SelectExpiredTurns(j)
    BY <1>1 DEF SelectExpiredTurns, MovesJob, TypeOK, JobLocal, IdleJob
  <1>2. CASE DeleteExpiredTurns(j)
    BY <1>2 DEF DeleteExpiredTurns, MovesJob, TypeOK, JobLocal
  <1>3. CASE SelectStaleConversations(j)
    <2>1. StaleAndEmpty(j) \subseteq Conversations
      BY DEF StaleAndEmpty
    <2>2. \A c \in StaleAndEmpty(j) : conversations[c].owner \in Users
      BY DEF StaleAndEmpty, TypeOK, ConversationRow
    <2> DEFINE t == {<<e.owner, e.conv>> : e \in job[j].turns} \cup
                    {<<conversations[c].owner, c>> : c \in StaleAndEmpty(j)}
    <2>3. t \subseteq Users \X Conversations
      BY <2>1, <2>2 DEF TypeOK, JobLocal, Exchange
    <2>4. job' = [job EXCEPT ![j] = [job[j] EXCEPT !.pc = "erase",
                                        !.stale = StaleAndEmpty(j), !.threads = t]]
      BY <1>3 DEF SelectStaleConversations, MovesJob
    <2> HIDE DEF t
    <2>5. job' \in [Jobs -> JobLocal]
      BY <2>1, <2>3, <2>4 DEF TypeOK, JobLocal
    <2> QED BY <1>3, <2>5 DEF SelectStaleConversations, TypeOK
  <1>4. CASE EraseCheckpoint(j)
    <2>1. PICK thread \in job[j].threads :
            job' = [job EXCEPT ![j] = [job[j] EXCEPT !.threads = @ \ {thread}]]
      BY <1>4 DEF EraseCheckpoint, MovesJob
    <2>2. job[j] \in JobLocal /\ job[j].threads \ {thread} \in SUBSET (Users \X Conversations)
      BY DEF TypeOK, JobLocal
    <2>3. job' \in [Jobs -> JobLocal]
      BY <2>1, <2>2 DEF TypeOK, JobLocal
    <2>4. checkpoints' \in SUBSET (Users \X Conversations)
      BY <1>4 DEF EraseCheckpoint, TypeOK
    <2> QED BY <1>4, <2>3, <2>4 DEF EraseCheckpoint, TypeOK
  <1>5. CASE CommitPurge(j)
    <2>1. job' \in [Jobs -> JobLocal]
      BY <1>5 DEF CommitPurge, MovesJob, TypeOK, JobLocal, IdleJob
    <2>2. conversations' \in [Conversations -> ConversationRow]
      BY <1>5, RowTypes DEF CommitPurge, TypeOK
    <2> QED BY <1>5, <2>1, <2>2 DEF CommitPurge, TypeOK
  <1>6. CASE PurgeFails(j)
    BY <1>6, ShortTermAssumption DEF PurgeFails, MovesJob, TypeOK, JobLocal, IdleJob
  <1> QED BY <1>1, <1>2, <1>3, <1>4, <1>5, <1>6 DEF RetentionStep

LEMMA RetentionInv ==
    ASSUME IInv, NEW j \in Jobs, RetentionStep(j) \/ PurgeFails(j)
    PROVE  IInv'
  <1>1. TypeOK'
    BY RetentionTypes
  <1>2. CASE CommitPurge(j)
    <2>1. /\ UNCHANGED query
          /\ exchanges' \subseteq exchanges /\ evidence' \subseteq evidence
      BY <1>2 DEF CommitPurge
    <2>2. ASSUME NEW c \in Conversations
          PROVE  \/ /\ conversations'[c].owner = conversations[c].owner
                    /\ conversations'[c].turnCount = conversations[c].turnCount
                 \/ /\ conversations'[c] = NoRow
                    /\ \A e \in exchanges' \cup evidence' : e.conv # c
      BY <1>2 DEF CommitPurge
    <2> QED BY <1>1, <2>1, <2>2, TablesMove
  <1>3. CASE ~CommitPurge(j)
    <2>1. UNCHANGED <<query, conversations, exchanges, evidence>>
      BY <1>3 DEF RetentionStep, SelectExpiredTurns, DeleteExpiredTurns,
                  SelectStaleConversations, EraseCheckpoint, PurgeFails
    <2> QED BY <1>1, <2>1, TablesMove
  <1> QED BY <1>2, <1>3

LEMMA DaysInv ==
    ASSUME IInv, RetentionPeriodPasses \/ ConversationGoesStale
    PROVE  IInv'
  <1> USE DEF IInv
  <1>1. TypeOK'
    BY DEF RetentionPeriodPasses, ConversationGoesStale, TypeOK, ConversationRow
  <1>2. UNCHANGED <<query, exchanges, evidence>>
    BY DEF RetentionPeriodPasses, ConversationGoesStale
  <1>3. \A d \in Conversations :
            /\ conversations'[d].owner = conversations[d].owner
            /\ conversations'[d].turnCount = conversations[d].turnCount
    BY DEF RetentionPeriodPasses, ConversationGoesStale, TypeOK, ConversationRow
  <1> QED BY <1>1, <1>2, <1>3, TablesMove

LEMMA NextInv == IInv /\ [Next]_vars => IInv'
  <1> SUFFICES ASSUME IInv, [Next]_vars PROVE IInv'
    OBVIOUS
  <1>1. CASE UNCHANGED vars
    BY <1>1 DEF IInv, TypeOK, RowsAreOfDoneQueries, CountsAreEarned, DoneQueries,
                QueriesBegin, RowsMatchTheirConversation, QueriesReadTheirOwnersRows,
                ExchangesOf
  <1>2. CASE Next
    BY <1>2, QueryStepInv, ConsolidationInv, RetentionInv, DaysInv DEF Next
  <1> QED BY <1>1, <1>2

LEMMA Invariance == Spec => []IInv
  BY InitInv, NextInv, PTL DEF Spec

----------------------------------------------------------------------------
(* Every variable keeps its type: turn_count in particular stays within what  *)
(* the queries can append, although rows are purged and claimed again.        *)
THEOREM ShortTermTypeCorrect == Spec => []TypeOK
  BY Invariance, PTL DEF IInv

(* Turns and evidence always belong to a conversation row of their own owner, *)
(* and turn_count never falls behind the turns the table has: the owner check *)
(* of _claim and the cascade of the purge keep the tables together, whatever  *)
(* queries, jobs and replicas interleave.                                     *)
THEOREM TablesStayTogether == Spec => []RowsMatchTheirConversation
  BY Invariance, PTL DEF IInv

(* read_recent and read_recent_evidence give a query rows of its own user and *)
(* conversation only, even when another user claims the id between the calls. *)
THEOREM ReadsAreOwned == Spec => []QueriesReadTheirOwnersRows
  BY Invariance, PTL DEF IInv

----------------------------------------------------------------------------
(* The mapped variables of the abstract ledger.                               *)
OwnerMap == [c \in Conversations |-> conversations[c].owner]
LogMap == [c \in Conversations |-> ExchangesOf(c)]

LEMMA LedgerInit == Init => Ledger!Init
  <1> SUFFICES ASSUME Init PROVE Ledger!Init
    OBVIOUS
  <1>1. OwnerMap \in [Conversations -> Users \cup {NoOne}]
    BY InitInv DEF IInv, TypeOK, ConversationRow, OwnerMap
  <1>2. LogMap = [c \in Conversations |-> {}]
    BY DEF Init, LogMap, ExchangesOf
  <1> QED BY <1>1, <1>2 DEF Ledger!Init, OwnerMap, LogMap

(* The abstract log follows the turns, the abstract owner the rows.           *)
LEMMA LedgerStutters ==
    ASSUME UNCHANGED exchanges,
           \A c \in Conversations : conversations'[c].owner = conversations[c].owner
    PROVE  OwnerMap' = OwnerMap /\ LogMap' = LogMap
  BY DEF OwnerMap, LogMap, ExchangesOf

LEMMA ClaimIsLedgerClaim ==
    ASSUME IInv, NEW q \in Queries, Claim(q)
    PROVE  [Ledger!Next]_<<OwnerMap, LogMap>>
  <1> USE DEF IInv
  <1>1. PICK c \in Conversations, u \in Users :
          conversations' = IF CanClaim(c, u)
                           THEN [conversations EXCEPT ![c] = Claimed(c, u)]
                           ELSE conversations
    BY DEF Claim
  <1>2. UNCHANGED exchanges
    BY DEF Claim
  <1>3. CASE CanClaim(c, u) /\ conversations[c].owner = NoOne
    <2>1. conversations' = [conversations EXCEPT ![c] = Claimed(c, u)]
            /\ Claimed(c, u).owner = u
      BY <1>1, <1>3, ClaimedRow
    <2>2. OwnerMap' = [OwnerMap EXCEPT ![c] = u] /\ OwnerMap[c] = NoOne
      BY <1>3, <2>1 DEF OwnerMap, TypeOK
    <2>3. LogMap' = LogMap
      BY <1>2 DEF LogMap, ExchangesOf
    <2>4. Ledger!Claim(c, u)
      BY <2>2, <2>3 DEF Ledger!Claim, OwnerMap, LogMap
    <2> QED BY <2>4 DEF Ledger!Next
  <1>4. CASE ~(CanClaim(c, u) /\ conversations[c].owner = NoOne)
    <2>1. \A d \in Conversations : conversations'[d].owner = conversations[d].owner
      BY <1>1, <1>4 DEF Claimed, TypeOK
    <2> QED BY <1>2, <2>1, LedgerStutters
  <1> QED BY <1>3, <1>4

LEMMA AppendIsLedgerAppend ==
    ASSUME IInv, NEW q \in Queries, AppendExchange(q)
    PROVE  Ledger!Next
  <1> USE DEF IInv
  <1>1. PICK c \in Conversations, u \in Users : c = query[q].conv /\ u = query[q].user
    BY DEF TypeOK, QueryLocal, QueriesBegin, AppendExchange
  <1>2. PICK x \in Exchange : x = NewExchange(q) /\ x.conv = c /\ x.owner = u /\ x.query = q
    <2>1. /\ NewExchange(q) \in Exchange /\ NewExchange(q).conv = c
          /\ NewExchange(q).owner = u /\ NewExchange(q).query = q
      BY <1>1 DEF NewExchange, Exchange
    <2> QED BY <2>1
  <1>3. /\ query[q].pc = "answered" /\ CanClaim(c, u)
        /\ conversations' = [conversations EXCEPT ![c] = AdvancedRow(q)]
        /\ exchanges' = exchanges \cup {x}
    BY <1>1, <1>2 DEF AppendExchange
  <1>4. x \notin exchanges
    BY <1>2, <1>3 DEF RowsAreOfDoneQueries
  <1>5. AdvancedRow(q).owner = u
    BY <1>1, <1>3, ClaimedRow DEF AdvancedRow, ConversationRow
  <1>6. OwnerMap' = [OwnerMap EXCEPT ![c] = u] /\ OwnerMap[c] \in {NoOne, u}
    BY <1>3, <1>5 DEF OwnerMap, TypeOK, CanClaim
  <1>7. \A d \in Conversations :
            ExchangesOf(d)' = IF d = c THEN ExchangesOf(d) \cup {x} ELSE ExchangesOf(d)
    BY <1>2, <1>3 DEF ExchangesOf
  <1>8. LogMap' = [LogMap EXCEPT ![c] = LogMap'[c]] /\ LogMap'[c] = LogMap[c] \cup {x}
    BY <1>7 DEF LogMap
  <1>9. x \notin LogMap[c]
    BY <1>4 DEF LogMap, ExchangesOf
  <1>10. Ledger!Append(c, u, x)
    BY <1>2, <1>6, <1>8, <1>9 DEF Ledger!Append, OwnerMap, LogMap
  <1> QED BY <1>10 DEF Ledger!Next

LEMMA PurgeIsLedgerForget ==
    ASSUME IInv, NEW j \in Jobs, CommitPurge(j)
    PROVE  Ledger!Next
  <1>1. \A c \in Conversations : ExchangesOf(c)' \subseteq ExchangesOf(c)
    BY DEF CommitPurge, ExchangesOf
  <1>2. \A c \in Conversations : conversations'[c].owner # conversations[c].owner =>
            conversations'[c].owner = NoOne /\ ExchangesOf(c)' = {}
    BY RowTypes DEF CommitPurge, ExchangesOf
  <1>3. Ledger!Forget
    BY <1>1, <1>2 DEF Ledger!Forget
  <1> QED BY <1>3 DEF Ledger!Next

LEMMA StepIsLedgerStep == IInv /\ [Next]_vars => [Ledger!Next]_<<OwnerMap, LogMap>>
  <1> SUFFICES ASSUME IInv, [Next]_vars
               PROVE  [Ledger!Next]_<<OwnerMap, LogMap>>
    OBVIOUS
  <1>1. CASE UNCHANGED <<exchanges, conversations>>
    BY <1>1, LedgerStutters
  <1>2. ASSUME NEW q \in Queries, QueryStep(q)
        PROVE  [Ledger!Next]_<<OwnerMap, LogMap>>
    <2>1. CASE ~Claim(q) /\ ~AppendExchange(q)
      BY <1>1, <1>2, <2>1 DEF QueryStep, ReadRecent, ReadRecentEvidence, ResolveReference,
         StartAgent, FinishAgent, AgentFails, AppendRaises
    <2> QED BY <2>1, ClaimIsLedgerClaim, AppendIsLedgerAppend
  <1>3. ASSUME NEW c \in Conversations, ConsolidationStep(c)
        PROVE  [Ledger!Next]_<<OwnerMap, LogMap>>
    <2>1. /\ UNCHANGED exchanges
          /\ \A d \in Conversations : conversations'[d].owner = conversations[d].owner
      BY <1>3 DEF IInv, TypeOK, ConversationRow, ConsolidationStep, LockForConsolidation,
                  CommitConsolidation
    <2> QED BY <2>1, LedgerStutters
  <1>4. ASSUME NEW j \in Jobs, RetentionStep(j) \/ PurgeFails(j)
        PROVE  [Ledger!Next]_<<OwnerMap, LogMap>>
    <2>1. CASE ~CommitPurge(j)
      BY <1>1, <1>4, <2>1 DEF RetentionStep, SelectExpiredTurns, DeleteExpiredTurns,
         SelectStaleConversations, EraseCheckpoint, PurgeFails
    <2> QED BY <2>1, PurgeIsLedgerForget
  <1>5. CASE RetentionPeriodPasses \/ ConversationGoesStale
    <2>1. /\ UNCHANGED exchanges
          /\ \A d \in Conversations : conversations'[d].owner = conversations[d].owner
      BY <1>5 DEF IInv, TypeOK, ConversationRow, RetentionPeriodPasses, ConversationGoesStale
    <2> QED BY <2>1, LedgerStutters
  <1> QED BY <1>1, <1>2, <1>3, <1>4, <1>5 DEF Next

(* The PostgreSQL store keeps the promise of ConversationStorePort: every     *)
(* transaction of a query, of consolidation or of a purge is a claim, an      *)
(* append, a forgetting or invisible in the abstract ledger.                  *)
THEOREM StoreImplementsLedger == Spec => ImplementsLedger
  <1>1. Init => Ledger!Init
    BY LedgerInit
  <1>2. IInv /\ [Next]_vars => [Ledger!Next]_(Ledger!ledger)
    BY StepIsLedgerStep DEF Ledger!ledger, OwnerMap, LogMap
  <1> QED BY <1>1, <1>2, Invariance, PTL DEF Spec, ImplementsLedger, Ledger!Spec

----------------------------------------------------------------------------
(* What consolidation holds and what a purge will delete: while a row is      *)
(* locked no turn is added to its conversation, and a job holds expired turns *)
(* only, however long ago it selected them.                                   *)
LockedRowsGainNoTurn ==
    \A c \in Conversations : reading[c].locked => ExchangesOf(c) \subseteq reading[c].read

JobsHoldExpiredTurns == \A j \in Jobs : job[j].turns \subseteq expired

HInv == TypeOK /\ LockedRowsGainNoTurn /\ JobsHoldExpiredTurns

(* A step that adds no turn and takes no lock keeps what is held.             *)
LEMMA HeldStays ==
    ASSUME HInv, TypeOK', UNCHANGED reading, expired \subseteq expired',
           \A c \in Conversations :
               reading[c].locked => ExchangesOf(c)' \subseteq ExchangesOf(c),
           \A j \in Jobs : job'[j].turns \subseteq job[j].turns \cup expired
    PROVE  HInv'
  <1>1. ASSUME NEW c \in Conversations, reading[c].locked
        PROVE  ExchangesOf(c)' \subseteq reading[c].read
    BY <1>1 DEF HInv, LockedRowsGainNoTurn
  <1>2. LockedRowsGainNoTurn'
    BY <1>1 DEF LockedRowsGainNoTurn
  <1>3. JobsHoldExpiredTurns'
    BY DEF HInv, JobsHoldExpiredTurns
  <1> QED BY <1>2, <1>3 DEF HInv

LEMMA QueryStepHeld ==
    ASSUME HInv, TypeOK', NEW q \in Queries, QueryStep(q)
    PROVE  HInv'
  <1>1. UNCHANGED <<reading, expired, job>>
    BY DEF QueryStep, Claim, ReadRecent, ReadRecentEvidence, ResolveReference, StartAgent,
           FinishAgent, AgentFails, AppendExchange, AppendRaises
  <1>2. ASSUME NEW c \in Conversations, reading[c].locked
        PROVE  ExchangesOf(c)' \subseteq ExchangesOf(c)
    <2>1. CASE AppendExchange(q)
      <3>1. c # query[q].conv /\ exchanges' = exchanges \cup {NewExchange(q)}
        BY <1>2, <2>1 DEF AppendExchange, RowLocked
      <3>2. NewExchange(q).conv = query[q].conv
        BY DEF NewExchange
      <3> QED BY <3>1, <3>2 DEF ExchangesOf
    <2>2. CASE ~AppendExchange(q)
      BY <2>2 DEF QueryStep, Claim, ReadRecent, ReadRecentEvidence, ResolveReference,
         StartAgent, FinishAgent, AgentFails, AppendRaises, ExchangesOf
    <2> QED BY <2>1, <2>2
  <1> QED BY <1>1, <1>2, HeldStays

LEMMA ConsolidationHeld ==
    ASSUME HInv, TypeOK', NEW c \in Conversations, ConsolidationStep(c)
    PROVE  HInv'
  <1>1. UNCHANGED <<exchanges, expired, job>>
    BY DEF ConsolidationStep, LockForConsolidation, CommitConsolidation
  <1>2. \A d \in Conversations : ExchangesOf(d)' = ExchangesOf(d)
    BY <1>1 DEF ExchangesOf
  <1>3. \A d \in Conversations :
            \/ reading'[d] = reading[d]
            \/ reading'[d] = [locked |-> TRUE, read |-> ExchangesOf(d)]
            \/ reading'[d] = NotReading
    BY DEF HInv, TypeOK, ConsolidationStep, LockForConsolidation, CommitConsolidation
  <1>4. ASSUME NEW d \in Conversations, reading'[d].locked
        PROVE  ExchangesOf(d)' \subseteq reading'[d].read
    <2>1. CASE reading'[d] = reading[d]
      BY <1>2, <1>4, <2>1 DEF HInv, LockedRowsGainNoTurn
    <2>2. CASE reading'[d] = [locked |-> TRUE, read |-> ExchangesOf(d)]
      BY <1>2, <2>2
    <2>3. CASE reading'[d] = NotReading
      BY <1>4, <2>3 DEF NotReading
    <2> QED BY <1>3, <2>1, <2>2, <2>3
  <1>5. LockedRowsGainNoTurn'
    BY <1>4 DEF LockedRowsGainNoTurn
  <1> QED BY <1>1, <1>5 DEF HInv, JobsHoldExpiredTurns

LEMMA RetentionHeld ==
    ASSUME HInv, TypeOK', NEW j \in Jobs, RetentionStep(j) \/ PurgeFails(j)
    PROVE  HInv'
  <1>1. UNCHANGED <<reading, expired>> /\ exchanges' \subseteq exchanges
    BY DEF RetentionStep, SelectExpiredTurns, DeleteExpiredTurns, SelectStaleConversations,
           EraseCheckpoint, CommitPurge, PurgeFails
  <1>2. \A c \in Conversations : ExchangesOf(c)' \subseteq ExchangesOf(c)
    BY <1>1 DEF ExchangesOf
  <1>3. job \in [Jobs -> JobLocal]
    BY DEF HInv, TypeOK
  <1>4. job'[j].turns \subseteq job[j].turns \cup expired
    <2>1. job[j] \in JobLocal
      BY <1>3
    <2>2. CASE SelectExpiredTurns(j)
      BY <1>3, <2>2 DEF SelectExpiredTurns, MovesJob, IdleJob
    <2>3. CASE DeleteExpiredTurns(j) \/ EraseCheckpoint(j)
      BY <1>3, <2>1, <2>3 DEF DeleteExpiredTurns, EraseCheckpoint, MovesJob, JobLocal
    <2>4. CASE SelectStaleConversations(j)
      <3> DEFINE t == {<<e.owner, e.conv>> : e \in job[j].turns} \cup
                      {<<conversations[c].owner, c>> : c \in StaleAndEmpty(j)}
      <3>1. job'[j] = [job[j] EXCEPT !.pc = "erase", !.stale = StaleAndEmpty(j), !.threads = t]
        BY <1>3, <2>4 DEF SelectStaleConversations, MovesJob
      <3> HIDE DEF t
      <3> QED BY <2>1, <3>1 DEF JobLocal
    <2>5. CASE CommitPurge(j) \/ PurgeFails(j)
      BY <1>3, <2>5 DEF CommitPurge, PurgeFails, MovesJob, IdleJob
    <2> QED BY <2>2, <2>3, <2>4, <2>5 DEF RetentionStep
  <1>5. \A k \in Jobs : k # j => job'[k] = job[k]
    BY <1>3 DEF MovesJob, RetentionStep, SelectExpiredTurns, DeleteExpiredTurns,
       SelectStaleConversations, EraseCheckpoint, CommitPurge, PurgeFails
  <1> QED BY <1>1, <1>2, <1>4, <1>5, HeldStays

LEMMA NextHeld == IInv /\ HInv /\ [Next]_vars => HInv'
  <1> SUFFICES ASSUME IInv, HInv, [Next]_vars PROVE HInv'
    OBVIOUS
  <1>1. TypeOK'
    BY NextInv DEF IInv
  <1>2. CASE UNCHANGED vars
    BY <1>1, <1>2 DEF HInv, LockedRowsGainNoTurn, JobsHoldExpiredTurns, ExchangesOf
  <1>3. CASE RetentionPeriodPasses \/ ConversationGoesStale
    <2>1. UNCHANGED <<exchanges, reading, job>> /\ expired \subseteq expired'
      BY <1>3 DEF RetentionPeriodPasses, ConversationGoesStale
    <2> QED BY <1>1, <2>1, HeldStays DEF ExchangesOf
  <1> QED BY <1>1, <1>2, <1>3, QueryStepHeld, ConsolidationHeld, RetentionHeld DEF Next

LEMMA HeldInvariance == Spec => [](IInv /\ HInv)
  <1>1. Init => HInv
    <2>1. Init => LockedRowsGainNoTurn
      BY DEF Init, LockedRowsGainNoTurn, NotReading
    <2>2. Init => JobsHoldExpiredTurns
      BY DEF Init, JobsHoldExpiredTurns, IdleJob
    <2> QED BY <2>1, <2>2, InitInv DEF IInv, HInv
  <1> QED BY <1>1, NextHeld, Invariance, PTL DEF Spec

----------------------------------------------------------------------------
(* consolidated_at is set by the commit of a consolidation and by nothing     *)
(* else: claims, appends and purges keep it or drop the row.                  *)
LEMMA OnlyConsolidationStamps ==
    ASSUME TypeOK, Next, NEW c \in Conversations,
           ~conversations[c].consolidated, conversations'[c].consolidated
    PROVE  RowLocked(c)
  <1>1. conversations \in [Conversations -> ConversationRow]
    BY DEF TypeOK
  <1>2. ~NoRow.consolidated /\ \A u \in Users : ~FreshRow(u).consolidated
    BY DEF NoRow, FreshRow
  <1>3. ASSUME NEW q \in Queries, QueryStep(q) PROVE FALSE
    <2>1. CASE Claim(q)
      BY <1>1, <1>2, <2>1 DEF Claim, Claimed
    <2>2. CASE AppendExchange(q)
      <3>1. query[q].conv \in Conversations
        BY DEF TypeOK, QueryLocal
      <3>2. \/ conversations'[c] = conversations[c]
            \/ c = query[q].conv /\ conversations'[c] = AdvancedRow(q)
        BY <1>1, <2>2, <3>1 DEF AppendExchange
      <3>3. query[q].user \in Users \cup {NoOne}
        BY DEF TypeOK, QueryLocal
      <3>4. Claimed(query[q].conv, query[q].user)
                \in [owner : Users \cup {NoOne}, lastTurn : {"recent", "stale"},
                     turnCount : Nat, consolidated : BOOLEAN]
        <4>1. conversations[query[q].conv] \in ConversationRow
          BY <1>1, <3>1
        <4>2. FreshRow(query[q].user)
                  \in [owner : Users \cup {NoOne}, lastTurn : {"recent", "stale"},
                       turnCount : Nat, consolidated : BOOLEAN]
          <5>1. NoRow \in [owner : Users \cup {NoOne}, lastTurn : {"recent", "stale"},
                            turnCount : Nat, consolidated : BOOLEAN]
            BY DEF NoRow
          <5> QED BY <3>3, <5>1 DEF FreshRow
        <4>3. 2 * Cardinality(Queries) \in Nat
          BY DoneIsFinite
        <4>4. CASE conversations[query[q].conv].owner = NoOne
          BY <4>2, <4>4 DEF Claimed
        <4>5. CASE conversations[query[q].conv].owner # NoOne
          BY <4>1, <4>3, <4>5 DEF Claimed, ConversationRow
        <4> QED BY <4>4, <4>5
      <3>5. AdvancedRow(q).consolidated = Claimed(query[q].conv, query[q].user).consolidated
        <4> DEFINE row == Claimed(query[q].conv, query[q].user)
        <4>1. AdvancedRow(q) = [row EXCEPT !.lastTurn = "recent", !.turnCount = @ + 2]
          BY DEF AdvancedRow
        <4> HIDE DEF row
        <4>2. [row EXCEPT !.lastTurn = "recent", !.turnCount = @ + 2].consolidated
                  = row.consolidated
          BY <3>4 DEF row
        <4> QED BY <4>1, <4>2 DEF row
      <3>6. c = query[q].conv =>
                ~Claimed(query[q].conv, query[q].user).consolidated
        BY <3>3 DEF Claimed, FreshRow, NoRow
      <3> QED BY <3>2, <3>5, <3>6
    <2>3. CASE ~Claim(q) /\ ~AppendExchange(q)
      BY <1>3, <2>3 DEF QueryStep, ReadRecent, ReadRecentEvidence, ResolveReference,
         StartAgent, FinishAgent, AgentFails, AppendRaises
    <2> QED BY <2>1, <2>2, <2>3
  <1>4. ASSUME NEW d \in Conversations, ConsolidationStep(d) PROVE RowLocked(c)
    BY <1>1, <1>4 DEF ConsolidationStep, LockForConsolidation, CommitConsolidation
  <1>5. ASSUME NEW j \in Jobs, RetentionStep(j) \/ PurgeFails(j) PROVE FALSE
    BY <1>2, <1>5 DEF RetentionStep, SelectExpiredTurns, DeleteExpiredTurns,
       SelectStaleConversations, EraseCheckpoint, CommitPurge, PurgeFails
  <1>6. CASE RetentionPeriodPasses \/ ConversationGoesStale
    BY <1>1, <1>6 DEF RetentionPeriodPasses, ConversationGoesStale, ConversationRow
  <1> QED BY <1>3, <1>4, <1>5, <1>6 DEF Next

(* consolidate_once stamps a conversation only after it has read every turn   *)
(* the table still has of it: the row lock it takes before it reads keeps the *)
(* appends out until the stamp commits.                                       *)
THEOREM StampsCoverEveryTurn == Spec => ConsolidationReadsEveryTurn
  <1>1. ASSUME HInv, Next, NEW c \in Conversations,
               ~conversations[c].consolidated, conversations'[c].consolidated
        PROVE  ExchangesOf(c) \subseteq reading[c].read
    BY <1>1, OnlyConsolidationStamps DEF HInv, LockedRowsGainNoTurn, RowLocked
  <1>2. IInv /\ HInv /\ [Next]_vars =>
            [\A c \in Conversations :
                ~conversations[c].consolidated /\ conversations'[c].consolidated
                    => ExchangesOf(c) \subseteq reading[c].read]_vars
    BY <1>1
  <1> QED BY <1>2, HeldInvariance, PTL DEF Spec, ConsolidationReadsEveryTurn

(* purge_expired takes a turn that has not expired only when the foreign key  *)
(* cascades from a conversation the same run had selected as stale and empty: *)
(* its own DELETE holds expired turns whatever happened since it selected them.*)
THEOREM LiveTurnsFollowTheirRow == Spec => LiveTurnsLeaveWithTheirConversation
  <1>1. ASSUME HInv, Next, NEW e \in (exchanges \ exchanges') \ expired
        PROVE  /\ conversations'[e.conv] = NoRow
               /\ \E j \in Jobs : e.conv \in job[j].stale /\ job[j].pc = "erase"
    <2>1. PICK j \in Jobs : CommitPurge(j)
      BY <1>1 DEF Next, QueryStep, Claim, ReadRecent, ReadRecentEvidence, ResolveReference,
         StartAgent, FinishAgent, AgentFails, AppendExchange, AppendRaises,
         ConsolidationStep, LockForConsolidation, CommitConsolidation,
         RetentionStep, SelectExpiredTurns, DeleteExpiredTurns, SelectStaleConversations,
         EraseCheckpoint, PurgeFails, RetentionPeriodPasses, ConversationGoesStale
    <2>2. e \notin job[j].turns
      BY <1>1 DEF HInv, JobsHoldExpiredTurns
    <2>3. e.conv \in job[j].stale /\ job[j].pc = "erase"
      BY <1>1, <2>1, <2>2 DEF CommitPurge
    <2>4. conversations'[e.conv] = NoRow
      BY <1>1, <2>1, <2>3 DEF CommitPurge, HInv, TypeOK, Exchange
    <2> QED BY <2>3, <2>4
  <1>2. IInv /\ HInv /\ [Next]_vars =>
            [\A e \in (exchanges \ exchanges') \ expired :
                /\ conversations'[e.conv] = NoRow
                /\ \E j \in Jobs : e.conv \in job[j].stale /\ job[j].pc = "erase"]_vars
    BY <1>1
  <1> QED BY <1>2, HeldInvariance, PTL DEF Spec, LiveTurnsLeaveWithTheirConversation

=============================================================================
