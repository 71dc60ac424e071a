------------------------- MODULE ConversationTable -------------------------
(* The conversations as long-term memory sees them: whether one is idle and   *)
(* waiting for consolidation, whether its turns still exist, whether the      *)
(* agent left checkpoints for it, and which transaction locks its row.        *)
EXTENDS MemoryMirror

CONSTANT Consolidators
ASSUME ConsolidatorsAssumption == Nobody \notin Consolidators

VARIABLES
    convs,        \* "none", "idle" (past the idle cutoff), "consolidated", "gone"
    turns,        \* the conversations that still have their turns
    convLock,     \* the consolidator whose transaction holds the row's lock
    checkpoints   \* the conversations with a LangGraph checkpoint thread

convVars == <<convs, turns, convLock, checkpoints>>

ConvTypeOK ==
    /\ convs \in [Convs -> {"none", "idle", "consolidated", "gone"}]
    /\ turns \in SUBSET Convs
    /\ convLock \in [Convs -> Consolidators \cup {Nobody}]
    /\ checkpoints \in SUBSET Convs

ConvsOf(user) == {v \in Convs : ConvOwner[v] = user}
Existing(v) == convs[v] \in {"idle", "consolidated"}

ConvInit ==
    /\ convs = [v \in Convs |-> "none"]
    /\ turns = {}
    /\ convLock = [v \in Convs |-> Nobody]
    /\ checkpoints = {}

(* A conversation of at least one exchange is left alone for idle_minutes.    *)
ConversationGoesIdle ==
    /\ \E v \in Convs :
          /\ convs[v] = "none"
          /\ convs' = [convs EXCEPT ![v] = "idle"]
          /\ turns' = turns \cup {v}
          /\ checkpoints' = checkpoints \cup {v}
    /\ UNCHANGED convLock

(* Short-term retention deletes the turns once they expire.                   *)
TurnsExpire ==
    /\ \E v \in turns : turns' = turns \ {v}
    /\ UNCHANGED <<convs, convLock, checkpoints>>
=============================================================================
