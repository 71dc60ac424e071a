-------------------------- MODULE MCAssistantAgent --------------------------
(* Two requests of one user, a read tool and the write tool.                  *)
EXTENDS AssistantAgent, TLC

CONSTANTS r1, r2, alice, read, write, north, south

MCActorOf == [r \in Runs |-> alice]
MCMaxRetries == (read :> 1) @@ (write :> 0)

(* Requests the model plans: one beyond the policy's cap, by a technician of  *)
(* one site who may change statuses; one of a reader with two sites.          *)
MCPlannedRequest ==
    {[query |-> [intent |-> "mutation", site |-> NoSite], budget |-> 4,
      context |-> [tools |-> {read, write}, sites |-> {north}, global |-> FALSE]],
     [query |-> [intent |-> "open", site |-> NoSite], budget |-> 2,
      context |-> [tools |-> {read}, sites |-> {north, south}, global |-> FALSE]]}

(* A request a pattern resolves: a read of one site, with and without a call   *)
(* allowed for it, or a direct answer.                                        *)
MCPatternRequest ==
    {[query |-> [intent |-> read, site |-> south], budget |-> n,
      context |-> [tools |-> {read}, sites |-> {}, global |-> TRUE]] : n \in {0, 1}}
    \cup {[query |-> [intent |-> "direct", site |-> NoSite], budget |-> 1,
           context |-> [tools |-> {read}, sites |-> {south}, global |-> FALSE]]}

MCRequestsOf == (r1 :> MCPlannedRequest) @@ (r2 :> MCPatternRequest)
=============================================================================
