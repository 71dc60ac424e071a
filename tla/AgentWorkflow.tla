--------------------------- MODULE AgentWorkflow ---------------------------
(* The LangGraph workflow of one assistant query: classify, plan, call,       *)
(* observe, decide, respond, under the request's tool-call budget. Each node  *)
(* is one step; the channels are request-scoped, nothing is resumed.          *)
EXTENDS ToolGateway

CONSTANTS
    MaxTotalCalls, MaxCallsPerTool,  \* ToolCallPolicy; every tool is allowed
    RequestsOf   \* the queries, contexts and budgets each request may come with

(* What a query's text resolves to: a read tool or "direct" by pattern; the   *)
(* rest is left to the model, and "mutation" asks for a status change. The    *)
(* budget is max_tool_calls, or 0 where tool calls are not allowed.           *)
Query == [intent : (Tools \ WriteTools) \cup {"direct", "open", "mutation"},
          site : Sites \cup {NoSite}]
Request == [query : Query, context : Context, budget : Nat]

ASSUME WorkflowAssumption ==
    /\ MaxTotalCalls \in Nat /\ MaxCallsPerTool \in Nat
    /\ RequestsOf \in [Runs -> SUBSET Request]

VARIABLE run   \* GraphState and ToolCallBudget of each request

Run == [pc : {"waiting", "classify", "plan", "tool_call", "calling", "decide",
              "respond", "done", "failed"},
        query : Query, context : Context,
        remaining : Nat, perTool : [Tools -> Nat],
        planned : [tool : Tools \cup {NoTool}, site : Sites \cup {NoSite}],
        calls : Seq([tool : Tools, status : Outcomes]),
        answer : {"none", "planner", "policy", "composed", "model"},
        finish : {"none", "completed", "policy_blocked"}]

WorkflowTypeOK == run \in [Runs -> Run]

NothingPlanned == [tool |-> NoTool, site |-> NoSite]
NoCalls == [t \in Tools |-> 0]

(* A request as it arrives, its budget capped by the policy.                  *)
NewRun(request) ==
    [pc |-> "waiting", query |-> request.query, context |-> request.context,
     remaining |-> IF request.budget <= MaxTotalCalls THEN request.budget ELSE MaxTotalCalls,
     perTool |-> NoCalls, planned |-> NothingPlanned,
     calls |-> << >>, answer |-> "none", finish |-> "none"]

WorkflowInit ==
    \E request \in [Runs -> UNION {RequestsOf[r] : r \in Runs}] :
        /\ \A r \in Runs : request[r] \in RequestsOf[r]
        /\ run = [r \in Runs |-> NewRun(request[r])]

StartRun(r) ==
    /\ run[r].pc = "waiting"
    /\ run' = [run EXCEPT ![r].pc = "classify"]
    /\ UNCHANGED gatewayVars

(* GatewayToolRuntime.list_tools.                                             *)
AvailableTools(r) ==
    LET context == run[r].context
    IN  {t \in context.tools :
           t \notin SiteTools \/ context.global \/ context.sites # {}}

CanCall(r, t) ==
    run[r].remaining > 0 /\ run[r].perTool[t] < MaxCallsPerTool

CallableTools(r) == {t \in AvailableTools(r) : CanCall(r, t)}

ClassifyIntent(r) ==
    /\ run[r].pc = "classify"
    /\ run' = [run EXCEPT ![r].pc = "plan"]
    /\ UNCHANGED gatewayVars
-----------------------------------------------------------------------------
GoRespond(r) == run' = [run EXCEPT ![r].pc = "respond"]

PlanCall(r, tool, site) ==
    run' = [run EXCEPT ![r].pc = "tool_call",
                       ![r].planned = [tool |-> tool, site |-> site]]

(* The pattern names the tool: it is called, whatever was called before, as   *)
(* long as the budget lets it.                                                *)
PlanByIntent(r) ==
    /\ run[r].pc = "plan"
    /\ run[r].query.intent \in Tools \cup {"direct"}
    /\ IF run[r].query.intent \in CallableTools(r)
       THEN PlanCall(r, run[r].query.intent, run[r].query.site)
       ELSE GoRespond(r)
    /\ UNCHANGED gatewayVars

NoCallableTool(r) ==
    /\ run[r].pc = "plan"
    /\ run[r].query.intent \in {"open", "mutation"}
    /\ CallableTools(r) = {}
    /\ GoRespond(r)
    /\ UNCHANGED gatewayVars

(* The model answers, is not confident enough to act, or names any tool.      *)
PlanByModel(r) ==
    /\ run[r].pc = "plan"
    /\ run[r].query.intent \in {"open", "mutation"}
    /\ CallableTools(r) # {}
    /\ \/ run' = [run EXCEPT ![r].pc = "respond", ![r].answer = "planner",
                             ![r].finish = "completed"]
       \/ GoRespond(r)
       \/ \E t \in Tools \cup {NoTool} :
             \E s \in IF t \in SiteTools THEN Sites \cup {NoSite} ELSE {NoSite} :
                PlanCall(r, t, s)
    /\ UNCHANGED gatewayVars

(* The model call raises or its output does not validate: the query fails.    *)
ModelFails(r) ==
    /\ \/ /\ run[r].pc = "plan"
          /\ run[r].query.intent \in {"open", "mutation"} /\ CallableTools(r) # {}
       \/ run[r].pc = "respond" /\ run[r].finish = "none" /\ run[r].calls = << >>
    /\ run' = [run EXCEPT ![r].pc = "failed"]
    /\ UNCHANGED gatewayVars
-----------------------------------------------------------------------------
(* validate_tool_call_semantics: a mutation must have been asked for, with    *)
(* this payload; a site named in the request must be the planned one.         *)
Contradicts(r) ==
    LET planned == run[r].planned
    IN  \/ planned.tool \in WriteTools /\ run[r].query.intent # "mutation"
        \/ /\ planned.tool \in SiteTools
           /\ run[r].query.site # NoSite /\ planned.site # run[r].query.site

Invocable(r) == run[r].planned.tool \in AvailableTools(r) /\ CanCall(r, run[r].planned.tool)

BlockCall(r) ==
    /\ run[r].pc = "tool_call"
    /\ \/ ~Invocable(r) \/ Contradicts(r)
       \/ run[r].planned.tool \in WriteTools   \* another order or status than asked for
    /\ run' = [run EXCEPT ![r].pc = "respond", ![r].answer = "policy",
                          ![r].finish = "policy_blocked"]
    /\ UNCHANGED gatewayVars

InvokeTool(r) ==
    /\ run[r].pc = "tool_call"
    /\ Invocable(r) /\ ~Contradicts(r)
    /\ InvokeGateway(r, run[r].planned.tool, run[r].planned.site, run[r].context)
    /\ run' = [run EXCEPT ![r].pc = "calling"]
    /\ UNCHANGED <<now, counters, audit, admitted>>

(* Mutant: only calls that succeeded count against the budget.                *)
SpentOnSuccess(q, t, status) ==
    LET counted == IF status = "success" THEN 1 ELSE 0
    IN  [q EXCEPT !.pc = "decide",
                  !.remaining = q.remaining - counted,
                  !.perTool = [q.perTool EXCEPT ![t] = q.perTool[t] + counted],
                  !.calls = Append(q.calls, [tool |-> t, status |-> status])]

(* The budget is spent when the result is there, whatever it says.            *)
Observed(q, t, status) ==
    [q EXCEPT !.pc = "decide",
              !.remaining = q.remaining - 1,
              !.perTool = [q.perTool EXCEPT ![t] = q.perTool[t] + 1],
              !.calls = Append(q.calls, [tool |-> t, status |-> status])]

(* observe_result; recording beyond the budget would raise.                   *)
ObserveResult(r) ==
    /\ run[r].pc = "calling" /\ gate[r].pc = "ended" /\ gate[r].status # "raised"
    /\ run' = IF CanCall(r, gate[r].tool)
              THEN [run EXCEPT ![r] = Observed(run[r], gate[r].tool, gate[r].status)]
              ELSE [run EXCEPT ![r].pc = "failed"]
    /\ UNCHANGED gatewayVars

(* The gateway raised: AssistantOrchestrationFailedError.                     *)
CallRaises(r) ==
    /\ run[r].pc = "calling" /\ gate[r].pc = "ended" /\ gate[r].status = "raised"
    /\ run' = [run EXCEPT ![r].pc = "failed"]
    /\ UNCHANGED gatewayVars

DecideNextStep(r) ==
    /\ run[r].pc = "decide"
    /\ run' = [run EXCEPT ![r].pc = IF run[r].remaining > 0 THEN "plan" ELSE "respond"]
    /\ UNCHANGED gatewayVars

(* An answer set upstream stands; evidence is composed without the model.     *)
Respond(r) ==
    /\ run[r].pc = "respond"
    /\ run' = [run EXCEPT ![r].pc = "done",
                 ![r].answer = IF @ # "none" THEN @
                               ELSE IF run[r].calls # << >> THEN "composed" ELSE "model",
                 ![r].finish = IF @ = "none" THEN "completed" ELSE @]
    /\ UNCHANGED gatewayVars

RunStep(r) ==
    \/ ClassifyIntent(r) \/ PlanByIntent(r) \/ NoCallableTool(r) \/ PlanByModel(r)
    \/ ModelFails(r) \/ BlockCall(r) \/ InvokeTool(r) \/ ObserveResult(r)
    \/ CallRaises(r) \/ DecideNextStep(r) \/ Respond(r)
=============================================================================
