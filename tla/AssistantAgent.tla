--------------------------- MODULE AssistantAgent ---------------------------
(* Concurrent assistant queries: each runs its own workflow; they meet in the *)
(* limiter's counters, which all requests of a process share.                 *)
EXTENDS AgentWorkflow

vars == <<gatewayVars, run>>

TypeOK == GatewayTypeOK /\ WorkflowTypeOK

Init == GatewayInit /\ WorkflowInit

Next ==
    \/ ClockTicks /\ UNCHANGED run
    \/ \E r \in Runs : StartRun(r) \/ RunStep(r) \/ (GatewayStep(r) /\ UNCHANGED run)

Spec == Init /\ [][Next]_vars

(* A started query is an asyncio task whose awaits return or raise: the model *)
(* client and the database driver time out, and a handler is a query of ours. *)
Fairness ==
    \A r \in Runs : WF_vars(RunStep(r) \/ (GatewayStep(r) /\ UNCHANGED run))

FairSpec == Spec /\ Fairness
-----------------------------------------------------------------------------
CallsOf(r, t) == Cardinality({i \in DOMAIN run[r].calls : run[r].calls[i].tool = t})

UnderWay(r, t) ==
    IF run[r].pc = "calling" /\ gate[r].tool = t THEN 1 ELSE 0

(* The budget bounds the calls a query starts, per tool and in total, though  *)
(* it is spent only once their results are observed, and the model may plan   *)
(* any tool at any time.                                                      *)
CallsWithinBudget ==
    \A r \in Runs :
        /\ \A t \in Tools : CallsOf(r, t) + UnderWay(r, t) <= MaxCallsPerTool
        /\ Len(run[r].calls) + (IF run[r].pc = "calling" THEN 1 ELSE 0) <= MaxTotalCalls

(* Of the calls of one user and tool, from whatever requests, at most         *)
(* 2 * MaxCalls - 1 pass in any window's length: a window starts with a call, *)
(* so two of them overlap any such stretch with one call fewer than both.     *)
AdmissionsBounded ==
    \A key \in Actors \X Tools :
        \A i \in DOMAIN admitted[key] :
            Cardinality({j \in DOMAIN admitted[key] :
                            /\ admitted[key][j] >= admitted[key][i]
                            /\ admitted[key][j] < admitted[key][i] + Window})
                <= 2 * MaxCalls - 1

(* The retry_after_seconds a refused caller is told is honest: after so many  *)
(* seconds the limiter is open again, and a second earlier it is not.         *)
RetryAfterIsHonest ==
    \A key \in Actors \X Tools :
        LET c == counters[key]
            s == RetryAfterSeconds(c, now)
        IN  Exhausted(c, now) =>
              /\ ~Exhausted(c, now + s * TicksPerSecond)
              /\ s > 1 => Exhausted(c, now + (s - 1) * TicksPerSecond)

DecisionOf(status) ==
    CASE status = "rate_limited" -> "rate_limit"
      [] status = "approval_required" -> "approval_required"
      [] OTHER -> "approved"

(* "A durable audit decision": what a query has observed is committed, in     *)
(* order, and so is the decision about a call that raised, unless it failed   *)
(* with the database or before anything was decided.                          *)
DecisionsAreDurable ==
    \A r \in Runs :
        /\ \A i \in DOMAIN run[r].calls :
              /\ i \in DOMAIN audit[r]
              /\ audit[r][i] = DecisionOf(run[r].calls[i].status)
        /\ gate[r].pc = "ended" /\ gate[r].decision # "none" =>
              audit[r] # << >> /\ audit[r][Len(audit[r])] = gate[r].decision

(* "Permission and site checks deny before handler execution": with the site  *)
(* defaulted by the gateway, a handler only sees sites the actor has.         *)
HandlersSeeAuthorizedSites ==
    \A r \in Runs : LET g == gate[r] IN
        g.pc = "handler" =>
            /\ g.tool \in g.context.tools
            /\ g.tool \in SiteTools /\ ~g.context.global => g.site \in g.context.sites

(* A query that was started is answered or fails: the plan, call, observe,    *)
(* decide loop ends on every path of the model's choices.                     *)
QueriesEnd ==
    \A r \in Runs : run[r].pc = "classify" ~> run[r].pc \in {"done", "failed"}

(* An approved status change is carried out and says so, unless the database  *)
(* fails (the run that checks this has QueriesMayFail = FALSE).               *)
ApprovedChangesSucceed ==
    \A r \in Runs :
        gate[r].pc = "ended" /\ gate[r].tool \in WriteTools /\ gate[r].decision = "approved"
            => gate[r].status = "success"
=============================================================================
