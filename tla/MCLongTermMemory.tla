-------------------------- MODULE MCLongTermMemory --------------------------
(* Values for the constants of LongTermMemory that a .cfg cannot write.       *)
EXTENDS LongTermMemory

CONSTANTS alice, bob, v1

(* Every conversation is alice's; or v1 is hers and the others are bob's.     *)
MCOneOwner == [v \in Convs |-> alice]
MCTwoOwners == [v \in Convs |-> IF v = v1 THEN alice ELSE bob]
=============================================================================
