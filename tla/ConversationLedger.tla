------------------------- MODULE ConversationLedger -------------------------
(* What ConversationStorePort promises its callers, whatever keeps the rows:  *)
(* a conversation belongs to nobody or to one user, only that user adds       *)
(* exchanges of their own, exchanges may be forgotten, and the conversation   *)
(* changes hands only after all of it has been forgotten.                     *)
CONSTANTS
    Users, Conversations, NoOne,
    Exchanges           \* records; owner is the user who had the exchange

VARIABLES owner, log
ledger == <<owner, log>>

Init ==
    /\ owner \in [Conversations -> Users \cup {NoOne}]
    /\ log = [c \in Conversations |-> {}]

Claim(c, u) ==
    /\ owner[c] = NoOne
    /\ owner' = [owner EXCEPT ![c] = u]
    /\ UNCHANGED log

(* The first exchange may claim the conversation; old ones may make room.     *)
Append(c, u, e) ==
    /\ owner[c] \in {NoOne, u}
    /\ e.owner = u /\ e \notin log[c]
    /\ owner' = [owner EXCEPT ![c] = u]
    /\ e \in log'[c] /\ log'[c] \subseteq log[c] \cup {e}
    /\ log' = [log EXCEPT ![c] = log'[c]]

(* Forgetting may reach several conversations at once, and drop some whole.   *)
Forget ==
    /\ \A c \in Conversations : log'[c] \subseteq log[c]
    /\ \A c \in Conversations :
          owner'[c] # owner[c] => owner'[c] = NoOne /\ log'[c] = {}
    /\ DOMAIN log' = Conversations /\ DOMAIN owner' = Conversations

Next ==
    \/ \E c \in Conversations, u \in Users :
          Claim(c, u) \/ \E e \in Exchanges : Append(c, u, e)
    \/ Forget

Spec == Init /\ [][Next]_ledger
=============================================================================
