--------------------------- MODULE MirroredIndex ---------------------------
(* What long-term memory promises of its vector index: the mirror table is    *)
(* the source of truth. A vector appears only for a live row, and what expires *)
(* leaves the table only once its vector is gone, which is for good. Where    *)
(* nobody erases, every vector has a mirror row at all times; an erasure may  *)
(* take a row and leave its vector, which does not come back once withdrawn.  *)
CONSTANTS
    Ids,
    Erasing     \* users may ask to be forgotten
VARIABLES state, index

indexVars == <<state, index>>

Init == /\ state = [m \in Ids |-> "unused"]
        /\ index = {}

Become(S, from, to) ==
    /\ \A m \in S : state[m] = from
    /\ state' = [m \in Ids |-> IF m \in S THEN to ELSE state[m]]

Remember(m) == Become({m}, "unused", "live") /\ UNCHANGED index
Publish(m) == state[m] = "live" /\ index' = index \cup {m} /\ UNCHANGED state
Withdraw(S) == index' = index \ S /\ UNCHANGED state
Retire(S) == Become(S, "live", "soft") /\ UNCHANGED index
Forget(S) == /\ S \cap index = {}
             /\ Become(S, "soft", "gone")
             /\ UNCHANGED index

Erase(S) ==
    /\ Erasing
    /\ \A m \in S : state[m] \in {"live", "soft"}
    /\ state' = [m \in Ids |-> IF m \in S THEN "gone" ELSE state[m]]
    /\ UNCHANGED index

Next == \/ \E m \in Ids : Remember(m) \/ Publish(m)
        \/ \E S \in SUBSET Ids : Withdraw(S) \/ Retire(S) \/ Forget(S) \/ Erase(S)

Spec == Init /\ [][Next]_indexVars
=============================================================================
