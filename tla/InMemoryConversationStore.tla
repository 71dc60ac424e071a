---------------------- MODULE InMemoryConversationStore ----------------------
(* The store the assistant falls back to without a database. One asyncio lock *)
(* makes every operation atomic; turns are trimmed to the newest              *)
(* max_turns_per_conversation, nothing is ever purged, and nobody looks at    *)
(* the expires_at of evidence.                                                *)
EXTENDS Naturals, Sequences, SequencesExt

CONSTANTS
    Users, NoOne, Conversations,
    MaxTurns,           \* max_turns_per_conversation
    MaxExchanges        \* bound: exchanges appended, and evidence snapshots

ASSUME InMemoryAssumption ==
    /\ NoOne \notin Users
    /\ MaxTurns \in Nat \ {0} /\ MaxExchanges \in Nat

VARIABLES
    owners,             \* _owners
    turns,              \* _state: per conversation its turns, oldest first
    snapshots,          \* _evidence: per conversation exchange ids, oldest first
    nextExchange,       \* id of the next exchange
    appended            \* history: every turn ever appended

inMemoryVars == <<owners, turns, snapshots, nextExchange, appended>>

ExchangeIds == 1 .. MaxExchanges
Turn == [role : {"user", "assistant"}, owner : Users, exchange : ExchangeIds]

InMemoryTypeOK ==
    /\ owners \in [Conversations -> Users \cup {NoOne}]
    /\ \A c \in Conversations :
          /\ turns[c] \in Seq(Turn) /\ Len(turns[c]) <= MaxTurns
          /\ snapshots[c] \in Seq(ExchangeIds)
    /\ nextExchange \in 1 .. MaxExchanges + 1

InMemoryInit ==
    /\ owners = [c \in Conversations |-> NoOne]
    /\ turns = [c \in Conversations |-> <<>>]
    /\ snapshots = [c \in Conversations |-> <<>>]
    /\ nextExchange = 1
    /\ appended = [c \in Conversations |-> <<>>]

(* Mutant: the owner of an existing conversation is not compared.             *)
OwnerNotCompared(c, u) == TRUE

CanClaim(c, u) == owners[c] \in {NoOne, u}
RequireOwner(c, u) == owners[c] = u

ClaimOrValidate(c, u) ==
    /\ CanClaim(c, u)
    /\ owners' = [owners EXCEPT ![c] = u]
    /\ UNCHANGED <<turns, snapshots, nextExchange, appended>>

(* The newest MaxTurns.                                                       *)
Trim(kept) ==
    IF Len(kept) <= MaxTurns THEN kept
    ELSE SubSeq(kept, Len(kept) - MaxTurns + 1, Len(kept))

Adds(c, added) ==
    /\ nextExchange <= MaxExchanges
    /\ turns' = [turns EXCEPT ![c] = Trim(@ \o added)]
    /\ appended' = [appended EXCEPT ![c] = @ \o added]
    /\ nextExchange' = nextExchange + 1

TurnOf(role, u) == [role |-> role, owner |-> u, exchange |-> nextExchange]

AppendCompletedExchange(c, u) ==
    /\ CanClaim(c, u)
    /\ owners' = [owners EXCEPT ![c] = u]
    /\ Adds(c, <<TurnOf("user", u), TurnOf("assistant", u)>>)
    /\ \E snapshot \in {<<>>, <<nextExchange>>} :
          snapshots' = [snapshots EXCEPT ![c] = @ \o snapshot]

(* record_turn of the MemoryWriterPort.                                       *)
AppendTurn(c, u) ==
    /\ CanClaim(c, u)
    /\ owners' = [owners EXCEPT ![c] = u]
    /\ \E role \in {"user", "assistant"} : Adds(c, <<TurnOf(role, u)>>)
    /\ UNCHANGED snapshots

AppendEvidence(c, u) ==
    /\ nextExchange <= MaxExchanges
    /\ RequireOwner(c, u)
    /\ snapshots' = [snapshots EXCEPT ![c] = Append(@, nextExchange)]
    /\ nextExchange' = nextExchange + 1
    /\ UNCHANGED <<owners, turns, appended>>

EraseEvidence(c, u) ==
    /\ RequireOwner(c, u)
    /\ snapshots' = [snapshots EXCEPT ![c] = <<>>]
    /\ UNCHANGED <<owners, turns, nextExchange, appended>>

(* The reads change nothing, and close_conversation only checks the owner.    *)
InMemoryNext ==
    \E c \in Conversations, u \in Users :
        \/ ClaimOrValidate(c, u) \/ AppendCompletedExchange(c, u) \/ AppendTurn(c, u)
        \/ AppendEvidence(c, u) \/ EraseEvidence(c, u)

InMemorySpec == InMemoryInit /\ [][InMemoryNext]_inMemoryVars

(* The store keeps the promise of ConversationStorePort, like PostgreSQL's.   *)
LedgerLog == [c \in Conversations |->
                 {[owner |-> t.owner, exchange |-> t.exchange] : t \in ToSet(turns[c])}]
Ledger == INSTANCE ConversationLedger WITH
    Exchanges <- [owner : Users, exchange : ExchangeIds],
    owner <- owners,
    log <- LedgerLog

InMemoryImplementsLedger == Ledger!Spec
=============================================================================
