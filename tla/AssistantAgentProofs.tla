------------------------ MODULE AssistantAgentProofs ------------------------
(* For any number of requests, users, tools and sites, and any limits.        *)
EXTENDS AssistantAgent, FiniteSetTheorems, WellFoundedInduction, TLAPS

USE DEF gatewayVars, vars

(* A call that ended has an outcome, and the call a run waits for is of a tool. *)
CallsHaveOutcomes ==
    \A r \in Runs :
        /\ run[r].pc = "calling" => gate[r].tool \in Tools
        /\ gate[r].pc \in {"commit", "ended"} => gate[r].status # "none"
        /\ gate[r].pc = "flush" /\ gate[r].decision # "approved" => gate[r].status # "none"

Of(s, t) == {i \in DOMAIN s : s[i].tool = t}

(* The budget keeps the books: what is spent is what was called, per tool and *)
(* in all, and a call under way, of this tool, is still covered.              *)
Books(q, tool) ==
    /\ q.remaining + Len(q.calls) <= MaxTotalCalls
    /\ \A t \in Tools : /\ Cardinality(Of(q.calls, t)) = q.perTool[t]
                        /\ q.perTool[t] <= MaxCallsPerTool
    /\ q.pc = "calling" => q.remaining > 0 /\ q.perTool[tool] < MaxCallsPerTool

BooksBalance == \A r \in Runs : Books(run[r], gate[r].tool)

IInv == TypeOK /\ CallsHaveOutcomes /\ BooksBalance

(* What the gateway's records and the limiter hold is well formed.            *)
LEMMA ScopedSiteIsSite ==
    ASSUME NEW g \in Gate
    PROVE  ScopedSite(g) \in Sites \cup {NoSite}
  <1>1. g.site \in Sites \cup {NoSite} /\ g.context.sites \in SUBSET Sites
    BY DEF Gate, Context
  <1>2. CASE LacksSite(g) /\ Cardinality(g.context.sites) = 1
    <2>1. g.context.sites # {}
      BY <1>2, FS_EmptySet
    <2>2. (CHOOSE s \in g.context.sites : TRUE) \in g.context.sites
      BY <2>1
    <2> QED BY <1>1, <1>2, <2>2 DEF ScopedSite
  <1>3. CASE ~(LacksSite(g) /\ Cardinality(g.context.sites) = 1)
    BY <1>1, <1>3 DEF ScopedSite
  <1> QED BY <1>2, <1>3

LEMMA WindowIsPositive == Window \in Nat \ {0}
  <1>1. WindowSeconds \in Nat \ {0} /\ TicksPerSecond \in Nat \ {0}
    BY RateAssumption
  <1> QED BY <1>1, SMT DEF Window

(* What is left of a window, rounded up to seconds.                           *)
LEMMA RoundedUp ==
    ASSUME NEW left \in Int, NEW T \in Nat \ {0}
    PROVE  LET s == (left + T - 1) \div T
           IN  s \in Int /\ s * T >= left /\ (s - 1) * T < left
  BY SMT

(* Every helper of the limiter keeps a counter a counter.                     *)
LEMMA CounterType ==
    ASSUME NEW c \in Counter, NEW time \in Int
    PROVE  /\ CurrentWindow(c, time) \in Counter
           /\ Consume(c, time) \in Counter
  <1>1. CurrentWindow(c, time) \in Counter
    BY DEF CurrentWindow, Counter
  <1> QED BY <1>1 DEF Consume, Counter

LEMMA DecideType ==
    ASSUME GatewayTypeOK, NEW r \in Runs, NEW d \in Decisions,
           NEW s \in Outcomes \cup {"none", "raised"}, Decide(r, d, s)
    PROVE  gate' \in [Runs -> Gate]
  <1>1. gate[r] \in Gate /\ gate \in [Runs -> Gate]
    BY DEF GatewayTypeOK
  <1>2. ScopedSite(gate[r]) \in Sites \cup {NoSite}
    BY <1>1, ScopedSiteIsSite
  <1> QED BY <1>1, <1>2 DEF Decide, Gate

(* Each step of a call in the gateway keeps the gateway's state well formed.  *)
LEMMA GatewayStepType ==
    ASSUME GatewayTypeOK, NEW r \in Runs, GatewayStep(r)
    PROVE  GatewayTypeOK'
  <1> USE DEF GatewayTypeOK
  <1>0. /\ gate[r] \in Gate
        /\ {"rejected", "rate_limit", "approval_required", "approved"} \subseteq Decisions
        /\ {"success", "failed", "rate_limited", "approval_required"} \subseteq Outcomes
    BY DEF Decisions, Outcomes
  <1>1. CASE DenyCall(r)
    BY <1>0, <1>1, DecideType DEF DenyCall
  <1>2. CASE RefuseInput(r)
    BY <1>0, <1>2 DEF RefuseInput, Gate
  <1>3. CASE LimitCall(r)
    BY <1>0, <1>3, DecideType DEF LimitCall
  <1>4. CASE AdmitCall(r)
    <2>1. gate' \in [Runs -> Gate]
      <3>1. CASE NeedsApproval(gate[r].tool)
        BY <1>0, <1>4, <3>1, DecideType DEF AdmitCall
      <3>2. CASE ~NeedsApproval(gate[r].tool)
        BY <1>0, <1>4, <3>2, DecideType DEF AdmitCall
      <3> QED BY <3>1, <3>2
    <2>2. now \in Int /\ now \in Nat
      BY GatewayAssumption
    <2>3. counters' \in [Actors \X Tools -> Counter]
      BY <1>4, <2>2, CounterType DEF AdmitCall
    <2>4. admitted' \in [Actors \X Tools -> Seq(Nat)]
      <3>1. CASE Key(r) \in Actors \X Tools
        <4>1. Append(admitted[Key(r)], now) \in Seq(Nat)
          BY <2>2, <3>1
        <4> QED BY <1>4, <3>1, <4>1 DEF AdmitCall
      <3>2. CASE Key(r) \notin Actors \X Tools
        BY <1>4, <3>2 DEF AdmitCall
      <3> QED BY <3>1, <3>2
    <2> QED BY <1>4, <2>1, <2>3, <2>4 DEF AdmitCall
  <1>5. CASE FlushDecision(r)
    BY <1>0, <1>5 DEF FlushDecision, Gate
  <1>6. CASE HandlerReturns(r)
    <2>1. PICK s \in Outcomes \cup {"raised"} :
             gate' = [gate EXCEPT ![r].pc = "commit", ![r].status = s]
      BY <1>0, <1>6 DEF HandlerReturns
    <2> QED BY <1>0, <1>6, <2>1 DEF HandlerReturns, Gate
  <1>7. CASE HandlerRaises(r)
    <2>1. CASE gate[r].attempts >= MaxRetries[gate[r].tool]
      <3>1. gate' = [gate EXCEPT ![r].pc = "commit", ![r].status = "raised"]
        BY <1>7, <2>1 DEF HandlerRaises
      <3>2. gate' \in [Runs -> Gate]
        BY <1>0, <3>1 DEF Gate
      <3> QED BY <1>7, <3>2 DEF HandlerRaises
    <2>2. CASE ~(gate[r].attempts >= MaxRetries[gate[r].tool])
      <3> DEFINE n == gate[r].attempts + 1
      <3>1. gate' = [gate EXCEPT ![r].attempts = n]
        BY <1>7, <2>2 DEF HandlerRaises
      <3>2. n \in Nat
        BY <1>0 DEF Gate
      <3> HIDE DEF n
      <3>3. gate' \in [Runs -> Gate]
        BY <1>0, <3>1, <3>2 DEF Gate
      <3> QED BY <1>7, <3>3 DEF HandlerRaises
    <2> QED BY <2>1, <2>2
  <1>8. CASE CommitCall(r)
    <2>1. gate' \in [Runs -> Gate]
      BY <1>0, <1>8 DEF CommitCall, Gate
    <2>2. audit' \in [Runs -> Seq(Decisions)]
      <3>1. CASE gate[r].decision = "none"
        BY <1>8, <3>1 DEF CommitCall
      <3>2. CASE gate[r].decision # "none"
        <4>1. gate[r].decision \in Decisions
          BY <1>0, <3>2 DEF Gate
        <4>2. Append(audit[r], gate[r].decision) \in Seq(Decisions)
          BY <4>1
        <4> QED BY <1>8, <3>2, <4>2 DEF CommitCall
      <3> QED BY <3>1, <3>2
    <2> QED BY <1>8, <2>1, <2>2 DEF CommitCall
  <1>9. CASE DatabaseFails(r)
    BY <1>0, <1>9 DEF DatabaseFails, Gate
  <1> QED BY <1>1, <1>2, <1>3, <1>4, <1>5, <1>6, <1>7, <1>8, <1>9 DEF GatewayStep
-----------------------------------------------------------------------------
(* A request's record changes one or a few fields at a time.                  *)
LEMMA NewRunType ==
    ASSUME NEW request \in Request
    PROVE  NewRun(request) \in Run
  <1>1. NoCalls \in [Tools -> Nat]
    BY DEF NoCalls
  <1>2. /\ request.query \in Query /\ request.context \in Context /\ request.budget \in Nat
    BY DEF Request
  <1>3. (IF request.budget <= MaxTotalCalls THEN request.budget ELSE MaxTotalCalls) \in Nat
    BY <1>2, WorkflowAssumption
  <1>4. << >> \in Seq([tool : Tools, status : Outcomes])
    OBVIOUS
  <1> QED BY <1>1, <1>2, <1>3, <1>4 DEF NewRun, Run, NothingPlanned

(* Planning, whoever plans, moves the run and may leave a call or an answer.  *)
LEMMA PlanType ==
    ASSUME WorkflowTypeOK, NEW r \in Runs,
           PlanByIntent(r) \/ NoCallableTool(r) \/ PlanByModel(r) \/ ModelFails(r)
    PROVE  WorkflowTypeOK'
  <1> USE DEF WorkflowTypeOK
  <1>0. run[r] \in Run
    OBVIOUS
  <1>1. ASSUME NEW t \in Tools \cup {NoTool}, NEW s \in Sites \cup {NoSite}, PlanCall(r, t, s)
        PROVE  WorkflowTypeOK'
    BY <1>0, <1>1 DEF PlanCall, Run
  <1>2. ASSUME GoRespond(r) PROVE WorkflowTypeOK'
    BY <1>0, <1>2 DEF GoRespond, Run
  <1>3. CASE PlanByIntent(r)
    <2>1. CASE run[r].query.intent \in CallableTools(r)
      <3>1. run[r].query.intent \in Tools /\ run[r].query.site \in Sites \cup {NoSite}
        BY <1>0, <2>1 DEF CallableTools, AvailableTools, Run, Context, Query
      <3> QED BY <1>1, <1>3, <2>1, <3>1 DEF PlanByIntent
    <2>2. CASE run[r].query.intent \notin CallableTools(r)
      BY <1>2, <1>3, <2>2 DEF PlanByIntent
    <2> QED BY <2>1, <2>2
  <1>4. CASE NoCallableTool(r)
    BY <1>2, <1>4 DEF NoCallableTool
  <1>5. CASE PlanByModel(r)
    <2>1. CASE run' = [run EXCEPT ![r].pc = "respond", ![r].answer = "planner",
                                  ![r].finish = "completed"]
      BY <1>0, <2>1 DEF Run
    <2>2. CASE GoRespond(r)
      BY <1>2, <2>2
    <2>3. CASE \E t \in Tools \cup {NoTool} :
                 \E s \in IF t \in SiteTools THEN Sites \cup {NoSite} ELSE {NoSite} :
                    PlanCall(r, t, s)
      BY <1>1, <2>3
    <2> QED BY <1>5, <2>1, <2>2, <2>3 DEF PlanByModel
  <1>6. CASE ModelFails(r)
    BY <1>0, <1>6 DEF ModelFails, Run
  <1> QED BY <1>3, <1>4, <1>5, <1>6

(* An observed call is appended and counted.                                  *)
LEMMA ObservedType ==
    ASSUME NEW q \in Run, NEW t \in Tools, NEW s \in Outcomes, q.remaining > 0
    PROVE  Observed(q, t, s) \in Run
  <1> DEFINE P == [q.perTool EXCEPT ![t] = q.perTool[t] + 1]
             C == Append(q.calls, [tool |-> t, status |-> s])
  <1>1. P \in [Tools -> Nat]
    BY DEF Run
  <1>2. C \in Seq([tool : Tools, status : Outcomes])
    <2>1. q.calls \in Seq([tool : Tools, status : Outcomes])
      BY DEF Run
    <2> QED BY <2>1
  <1>3. q.remaining - 1 \in Nat
    BY DEF Run
  <1> HIDE DEF P, C
  <1>4. [q EXCEPT !.pc = "decide", !.remaining = q.remaining - 1,
                  !.perTool = P, !.calls = C] \in Run
    BY <1>1, <1>2, <1>3 DEF Run
  <1> QED BY <1>4 DEF Observed, P, C

(* Each step of a run keeps runs and gateway well formed.                     *)
LEMMA RunStepType ==
    ASSUME TypeOK, CallsHaveOutcomes, NEW r \in Runs, StartRun(r) \/ RunStep(r)
    PROVE  TypeOK'
  <1> USE DEF TypeOK
  <1>0. run \in [Runs -> Run] /\ run[r] \in Run /\ gate \in [Runs -> Gate] /\ gate[r] \in Gate
    BY DEF WorkflowTypeOK, GatewayTypeOK
  <1>g. ASSUME UNCHANGED gatewayVars PROVE GatewayTypeOK'
    BY <1>g DEF GatewayTypeOK
  <1>1. CASE StartRun(r)
    BY <1>0, <1>1, <1>g DEF StartRun, WorkflowTypeOK, Run
  <1>2. CASE ClassifyIntent(r)
    BY <1>0, <1>2, <1>g DEF ClassifyIntent, WorkflowTypeOK, Run
  <1>3. CASE PlanByIntent(r) \/ NoCallableTool(r) \/ PlanByModel(r) \/ ModelFails(r)
    <2>1. UNCHANGED gatewayVars
      BY <1>3 DEF PlanByIntent, NoCallableTool, PlanByModel, ModelFails
    <2> QED BY <1>3, <1>g, <2>1, PlanType
  <1>4. CASE BlockCall(r)
    BY <1>0, <1>4, <1>g DEF BlockCall, WorkflowTypeOK, Run
  <1>5. CASE InvokeTool(r)
    <2>1. WorkflowTypeOK'
      BY <1>0, <1>5 DEF InvokeTool, WorkflowTypeOK, Run
    <2>2. /\ run[r].planned.tool \in Tools /\ run[r].planned.site \in Sites \cup {NoSite}
          /\ run[r].context \in Context
      BY <1>0, <1>5 DEF InvokeTool, Invocable, AvailableTools, Run, Context
    <2>3. gate' \in [Runs -> Gate]
      BY <1>0, <1>5, <2>2 DEF InvokeTool, InvokeGateway, Gate
    <2> QED BY <1>5, <2>1, <2>3 DEF InvokeTool, GatewayTypeOK
  <1>6. CASE ObserveResult(r)
    <2>1. CASE ~CanCall(r, gate[r].tool)
      BY <1>0, <1>6, <1>g, <2>1 DEF ObserveResult, WorkflowTypeOK, Run
    <2>2. CASE CanCall(r, gate[r].tool)
      <3>1. gate[r].tool \in Tools /\ gate[r].status \in Outcomes
        BY <1>0, <1>6 DEF ObserveResult, CallsHaveOutcomes, Gate
      <3>2. Observed(run[r], gate[r].tool, gate[r].status) \in Run
        BY <1>0, <2>2, <3>1, ObservedType DEF CanCall
      <3>3. run' \in [Runs -> Run]
        BY <1>0, <1>6, <2>2, <3>2 DEF ObserveResult
      <3> QED BY <1>6, <1>g, <3>3 DEF ObserveResult, WorkflowTypeOK
    <2> QED BY <2>1, <2>2
  <1>7. CASE CallRaises(r)
    BY <1>0, <1>7, <1>g DEF CallRaises, WorkflowTypeOK, Run
  <1>8. CASE DecideNextStep(r)
    BY <1>0, <1>8, <1>g DEF DecideNextStep, WorkflowTypeOK, Run
  <1>9. CASE Respond(r)
    BY <1>0, <1>9, <1>g DEF Respond, WorkflowTypeOK, Run
  <1> QED BY <1>1, <1>2, <1>3, <1>4, <1>5, <1>6, <1>7, <1>8, <1>9 DEF RunStep

(* The gateway's steps change neither the tool of a call nor who waits.       *)
LEMMA GatewayKeepsTools ==
    ASSUME TypeOK, NEW r \in Runs, GatewayStep(r)
    PROVE  \A q \in Runs : gate'[q].tool = gate[q].tool /\ (q # r => gate'[q] = gate[q])
  <1>1. gate \in [Runs -> Gate] /\ gate[r] \in Gate
    BY DEF TypeOK, GatewayTypeOK
  <1>2. ASSUME NEW d, NEW s, Decide(r, d, s)
        PROVE  \A q \in Runs : gate'[q].tool = gate[q].tool /\ (q # r => gate'[q] = gate[q])
    BY <1>1, <1>2 DEF Decide, Gate
  <1>3. CASE DenyCall(r) \/ LimitCall(r) \/ AdmitCall(r)
    BY <1>2, <1>3 DEF DenyCall, LimitCall, AdmitCall
  <1>4. CASE RefuseInput(r) \/ FlushDecision(r) \/ HandlerRaises(r)
    BY <1>1, <1>4 DEF RefuseInput, FlushDecision, HandlerRaises, Gate
  <1>5. CASE HandlerReturns(r) \/ CommitCall(r) \/ DatabaseFails(r)
    BY <1>1, <1>5 DEF HandlerReturns, CommitCall, DatabaseFails, Gate
  <1> QED BY <1>3, <1>4, <1>5 DEF GatewayStep

(* Apart from a call and its result, a run's steps leave its books alone.     *)
Quiet(r) ==
    /\ UNCHANGED gate
    /\ \A q \in Runs \ {r} : run'[q] = run[q]
    /\ run'[r].remaining = run[r].remaining
    /\ run'[r].perTool = run[r].perTool
    /\ run'[r].calls = run[r].calls
    /\ run'[r].pc # "calling"

LEMMA QuietSteps ==
    ASSUME TypeOK, NEW r \in Runs,
           StartRun(r) \/ RunStep(r), ~InvokeTool(r), ~ObserveResult(r)
    PROVE  Quiet(r)
  <1>0. run \in [Runs -> Run] /\ run[r] \in Run
    BY DEF TypeOK, WorkflowTypeOK
  <1>1. ASSUME GoRespond(r), UNCHANGED gate PROVE Quiet(r)
    BY <1>0, <1>1 DEF GoRespond, Quiet, Run
  <1>2. ASSUME NEW t, NEW s, PlanCall(r, t, s), UNCHANGED gate PROVE Quiet(r)
    BY <1>0, <1>2 DEF PlanCall, Quiet, Run
  <1>3. CASE StartRun(r) \/ ClassifyIntent(r)
    BY <1>0, <1>3 DEF StartRun, ClassifyIntent, Quiet, Run
  <1>4. CASE BlockCall(r) \/ CallRaises(r)
    BY <1>0, <1>4 DEF BlockCall, CallRaises, Quiet, Run
  <1>5. CASE DecideNextStep(r)
    BY <1>0, <1>5 DEF DecideNextStep, Quiet, Run
  <1>6. CASE Respond(r)
    BY <1>0, <1>6 DEF Respond, Quiet, Run
  <1>7. CASE ModelFails(r)
    BY <1>0, <1>7 DEF ModelFails, Quiet, Run
  <1>8. CASE NoCallableTool(r)
    BY <1>1, <1>8 DEF NoCallableTool
  <1>9. CASE PlanByIntent(r)
    BY <1>1, <1>2, <1>9 DEF PlanByIntent
  <1>10. CASE PlanByModel(r)
    <2>1. CASE run' = [run EXCEPT ![r].pc = "respond", ![r].answer = "planner",
                                  ![r].finish = "completed"]
      BY <1>0, <1>10, <2>1 DEF PlanByModel, Quiet, Run
    <2>2. CASE GoRespond(r) \/ \E t, s : PlanCall(r, t, s)
      BY <1>1, <1>2, <1>10, <2>2 DEF PlanByModel
    <2> QED BY <1>10, <2>1, <2>2 DEF PlanByModel
  <1> QED BY <1>3, <1>4, <1>5, <1>6, <1>7, <1>8, <1>9, <1>10 DEF RunStep

(* Counting the calls of a tool in a longer sequence.                         *)
LEMMA CountAppend ==
    ASSUME NEW S, NEW s \in Seq(S), NEW c \in S, NEW t
    PROVE  Cardinality(Of(Append(s, c), t))
             = Cardinality(Of(s, t)) + (IF c.tool = t THEN 1 ELSE 0)
  <1> DEFINE n == Len(s) + 1
  <1>1. IsFiniteSet(Of(s, t)) /\ n \notin Of(s, t)
    <2>1. IsFiniteSet(1 .. Len(s))
      BY FS_Interval
    <2>2. Of(s, t) \subseteq 1 .. Len(s)
      BY DEF Of
    <2> QED BY <2>1, <2>2, FS_Subset
  <1>2. Cardinality(Of(s, t)) \in Nat
    BY <1>1, FS_CardinalityType
  <1>3. CASE c.tool = t
    <2>1. Of(Append(s, c), t) = Of(s, t) \cup {n}
      BY <1>3 DEF Of
    <2>2. Cardinality(Of(s, t) \cup {n}) = Cardinality(Of(s, t)) + 1
      BY <1>1, FS_AddElement
    <2> QED BY <1>3, <2>1, <2>2
  <1>4. CASE c.tool # t
    <2>1. Of(Append(s, c), t) = Of(s, t)
      BY <1>4 DEF Of
    <2> QED BY <1>2, <1>4, <2>1
  <1> QED BY <1>3, <1>4
-----------------------------------------------------------------------------
(* Outcomes: a step either leaves a call's phase alone or gives it its status. *)
LEMMA OutcomesKept ==
    ASSUME TypeOK, CallsHaveOutcomes, [Next]_vars
    PROVE  CallsHaveOutcomes'
  <1> USE DEF CallsHaveOutcomes
  <1>0. run \in [Runs -> Run] /\ gate \in [Runs -> Gate]
    BY DEF TypeOK, WorkflowTypeOK, GatewayTypeOK
  <1>1. CASE UNCHANGED <<run, gate>>
    BY <1>1
  <1>2. ASSUME NEW r \in Runs, GatewayStep(r), UNCHANGED run PROVE CallsHaveOutcomes'
    <2>1. \A q \in Runs : gate'[q].tool = gate[q].tool /\ (q # r => gate'[q] = gate[q])
      BY <1>2, GatewayKeepsTools
    <2>2. /\ gate'[r].pc \in {"commit", "ended"} => gate'[r].status # "none"
          /\ gate'[r].pc = "flush" /\ gate'[r].decision # "approved" => gate'[r].status # "none"
      <3>0. gate[r] \in Gate
        BY <1>0
      <3>1. CASE DenyCall(r) \/ LimitCall(r) \/ AdmitCall(r)
        <4>1. PICK d, s : Decide(r, d, s) /\ (d # "approved" => s # "none")
          BY <3>1 DEF DenyCall, LimitCall, AdmitCall
        <4>2. gate'[r].pc = "flush" /\ gate'[r].decision = d /\ gate'[r].status = s
          BY <1>0, <3>0, <4>1 DEF Decide, Gate
        <4> QED BY <4>1, <4>2
      <3>2. CASE RefuseInput(r)
        BY <1>0, <3>0, <3>2 DEF RefuseInput, Gate
      <3>5. CASE FlushDecision(r)
        <4>1. CASE gate[r].decision = "approved"
          BY <1>0, <3>0, <3>5, <4>1 DEF FlushDecision, Gate
        <4>2. CASE gate[r].decision # "approved"
          BY <1>0, <3>0, <3>5, <4>2 DEF FlushDecision, Gate
        <4> QED BY <4>1, <4>2
      <3>4. CASE HandlerRaises(r)
        <4>1. CASE gate[r].attempts >= MaxRetries[gate[r].tool]
          BY <1>0, <3>0, <3>4, <4>1 DEF HandlerRaises, Gate
        <4>2. CASE ~(gate[r].attempts >= MaxRetries[gate[r].tool])
          BY <1>0, <3>0, <3>4, <4>2 DEF HandlerRaises, Gate
        <4> QED BY <4>1, <4>2
      <3>3. CASE HandlerReturns(r) \/ CommitCall(r) \/ DatabaseFails(r)
        BY <1>0, <3>3 DEF HandlerReturns, CommitCall, DatabaseFails, Gate
      <3> QED BY <1>2, <3>1, <3>2, <3>3, <3>4, <3>5 DEF GatewayStep
    <2> QED BY <1>2, <2>1, <2>2
  <1>3. ASSUME NEW r \in Runs, InvokeTool(r) PROVE CallsHaveOutcomes'
    <2>1. run[r].planned.tool \in Tools
      BY <1>0, <1>3 DEF InvokeTool, Invocable, AvailableTools, Run, Context
    <2> QED BY <1>0, <1>3, <2>1 DEF InvokeTool, InvokeGateway
  <1>4. ASSUME NEW r \in Runs, ObserveResult(r) PROVE CallsHaveOutcomes'
    <2>1. UNCHANGED gate /\ \A q \in Runs \ {r} : run'[q] = run[q]
      BY <1>0, <1>4 DEF ObserveResult
    <2>2. run'[r].pc # "calling"
      BY <1>0, <1>4 DEF ObserveResult, Observed, Run
    <2> QED BY <2>1, <2>2
  <1>5. ASSUME NEW r \in Runs, Quiet(r) PROVE CallsHaveOutcomes'
    BY <1>5 DEF Quiet
  <1> QED BY <1>1, <1>2, <1>3, <1>4, <1>5, QuietSteps DEF Next, ClockTicks

(* The books of a run that goes nowhere near a call stay as they were.        *)
LEMMA BooksUntouched ==
    ASSUME NEW p, NEW q, NEW tool, NEW other, Books(p, tool),
           q.remaining = p.remaining, q.perTool = p.perTool, q.calls = p.calls,
           q.pc # "calling"
    PROVE  Books(q, other)
  BY DEF Books

(* Only an observed call moves the books, and it pays for itself.             *)
LEMMA ObservedBalances ==
    ASSUME NEW q \in Run, NEW tool \in Tools, NEW status \in Outcomes,
           Books(q, tool), q.pc = "calling"
    PROVE  Books(Observed(q, tool, status), tool)
  <1> DEFINE c == [tool |-> tool, status |-> status]
  <1>1. /\ q.calls \in Seq([tool : Tools, status : Outcomes])
        /\ q.perTool \in [Tools -> Nat] /\ q.remaining \in Nat
    BY DEF Run
  <1>2. c \in [tool : Tools, status : Outcomes] /\ c.tool = tool
    OBVIOUS
  <1>3. /\ Observed(q, tool, status).pc = "decide"
        /\ Observed(q, tool, status).remaining = q.remaining - 1
        /\ Observed(q, tool, status).perTool
             = [q.perTool EXCEPT ![tool] = q.perTool[tool] + 1]
        /\ Observed(q, tool, status).calls = Append(q.calls, c)
    BY DEF Observed, Run
  <1> HIDE DEF c
  <1>4. Len(Append(q.calls, c)) = Len(q.calls) + 1 /\ Len(q.calls) \in Nat
    BY <1>1, <1>2
  <1>5. q.remaining - 1 + Len(Append(q.calls, c)) <= MaxTotalCalls
    BY <1>1, <1>4, WorkflowAssumption DEF Books
  <1>6. ASSUME NEW t \in Tools
        PROVE  /\ Cardinality(Of(Append(q.calls, c), t))
                    = [q.perTool EXCEPT ![tool] = q.perTool[tool] + 1][t]
               /\ [q.perTool EXCEPT ![tool] = q.perTool[tool] + 1][t] <= MaxCallsPerTool
    <2>1. Cardinality(Of(Append(q.calls, c), t))
            = Cardinality(Of(q.calls, t)) + (IF c.tool = t THEN 1 ELSE 0)
      <3> DEFINE S == [tool : Tools, status : Outcomes]
      <3>1. q.calls \in Seq(S) /\ c \in S
        BY <1>1, <1>2
      <3> HIDE DEF S
      <3> QED BY <3>1, CountAppend
    <2>2. Cardinality(Of(q.calls, t)) = q.perTool[t] /\ q.perTool[t] <= MaxCallsPerTool
      BY DEF Books
    <2>3. q.perTool[tool] < MaxCallsPerTool
      BY DEF Books
    <2>4. CASE t = tool
      BY <1>1, <1>2, <2>1, <2>2, <2>3, <2>4, WorkflowAssumption
    <2>5. CASE t # tool
      BY <1>1, <1>2, <2>1, <2>2, <2>5
    <2> QED BY <2>4, <2>5
  <1> QED BY <1>3, <1>5, <1>6 DEF Books

LEMMA BooksKept ==
    ASSUME IInv, [Next]_vars
    PROVE  BooksBalance'
  <1> USE DEF IInv
  <1>0. run \in [Runs -> Run] /\ gate \in [Runs -> Gate] /\ BooksBalance
    BY DEF TypeOK, WorkflowTypeOK, GatewayTypeOK
  <1>1. CASE UNCHANGED <<run, gate>>
    BY <1>0, <1>1 DEF BooksBalance
  <1>2. ASSUME NEW r \in Runs, GatewayStep(r), UNCHANGED run PROVE BooksBalance'
    <2>1. \A q \in Runs : gate'[q].tool = gate[q].tool
      BY <1>2, GatewayKeepsTools
    <2> QED BY <1>0, <1>2, <2>1 DEF BooksBalance
  <1>3. ASSUME NEW r \in Runs, InvokeTool(r) PROVE BooksBalance'
    <2>1. /\ \A q \in Runs \ {r} : gate'[q] = gate[q] /\ run'[q] = run[q]
          /\ gate'[r].tool = run[r].planned.tool
          /\ run'[r].remaining = run[r].remaining /\ run'[r].perTool = run[r].perTool
          /\ run'[r].calls = run[r].calls
      BY <1>0, <1>3 DEF InvokeTool, InvokeGateway, Run, Gate
    <2>2. CanCall(r, run[r].planned.tool)
      BY <1>3 DEF InvokeTool, Invocable
    <2>3. Books(run'[r], gate'[r].tool)
      BY <1>0, <2>1, <2>2 DEF BooksBalance, Books, CanCall
    <2> QED BY <1>0, <2>1, <2>3 DEF BooksBalance
  <1>5. ASSUME NEW r \in Runs, Quiet(r) PROVE BooksBalance'
    <2>1. Books(run'[r], gate[r].tool)
      BY <1>0, <1>5, BooksUntouched DEF BooksBalance, Quiet
    <2> QED BY <1>0, <1>5, <2>1 DEF BooksBalance, Quiet
  <1>6. ASSUME NEW r \in Runs, ObserveResult(r) PROVE BooksBalance'
    <2>1. /\ CanCall(r, gate[r].tool) /\ gate[r].tool \in Tools
          /\ gate[r].status \in Outcomes /\ run[r] \in Run /\ run[r].pc = "calling"
      BY <1>0, <1>6 DEF ObserveResult, BooksBalance, Books, CanCall, CallsHaveOutcomes, Gate
    <2>2. run' = [run EXCEPT ![r] = Observed(run[r], gate[r].tool, gate[r].status)]
          /\ UNCHANGED gate
      BY <1>6, <2>1 DEF ObserveResult
    <2>3. Books(Observed(run[r], gate[r].tool, gate[r].status), gate[r].tool)
      BY <1>0, <2>1, ObservedBalances DEF BooksBalance
    <2> QED BY <1>0, <2>2, <2>3 DEF BooksBalance
  <1> QED BY <1>1, <1>2, <1>3, <1>5, <1>6, QuietSteps DEF Next, ClockTicks
-----------------------------------------------------------------------------
LEMMA InitInv == ASSUME Init PROVE IInv
  <1> USE DEF Init
  <1>1. GatewayTypeOK
    <2>1. NoCounter \in Counter
      BY WindowIsPositive DEF NoCounter, Counter
    <2>2. IdleGate \in Gate
      BY DEF IdleGate, Gate, NoContext, Context
    <2>3. 0 \in 0 .. MaxTime
      BY GatewayAssumption
    <2>4. << >> \in Seq(Decisions) /\ << >> \in Seq(Nat)
      OBVIOUS
    <2> QED BY <2>1, <2>2, <2>3, <2>4 DEF GatewayInit, GatewayTypeOK
  <1>2. PICK request \in [Runs -> UNION {RequestsOf[r] : r \in Runs}] :
          /\ \A r \in Runs : request[r] \in RequestsOf[r]
          /\ run = [r \in Runs |-> NewRun(request[r])]
    BY DEF WorkflowInit
  <1>3. \A r \in Runs : request[r] \in Request
    BY <1>2, WorkflowAssumption
  <1>4. run \in [Runs -> Run]
    BY <1>2, <1>3, NewRunType
  <1>5. CallsHaveOutcomes
    BY <1>2 DEF CallsHaveOutcomes, GatewayInit, IdleGate, NewRun
  <1>6. ASSUME NEW request2 \in Request, NEW tool PROVE Books(NewRun(request2), tool)
    <2>1. \A t \in Tools : Of(<< >>, t) = {}
      BY DEF Of
    <2>2. Cardinality({}) = 0 /\ Len(<< >>) = 0
      BY FS_EmptySet
    <2>3. (IF request2.budget <= MaxTotalCalls THEN request2.budget ELSE MaxTotalCalls)
            \in 0 .. MaxTotalCalls
      BY WorkflowAssumption DEF Request
    <2> DEFINE q == NewRun(request2)
    <2>4. /\ q.calls = << >> /\ q.remaining \in 0 .. MaxTotalCalls
          /\ \A t \in Tools : q.perTool[t] = 0
          /\ q.pc = "waiting"
      BY <2>3 DEF NewRun, NoCalls
    <2> HIDE DEF q
    <2>5. q.remaining + Len(q.calls) <= MaxTotalCalls
      BY <2>2, <2>4, WorkflowAssumption
    <2>6. \A t \in Tools : /\ Cardinality(Of(q.calls, t)) = q.perTool[t]
                          /\ q.perTool[t] <= MaxCallsPerTool
      <3> SUFFICES ASSUME NEW t \in Tools
                   PROVE  Cardinality(Of(q.calls, t)) = 0 /\ q.perTool[t] = 0
        BY WorkflowAssumption
      <3>1. Of(q.calls, t) = {}
        BY <2>1, <2>4
      <3> QED BY <2>2, <2>4, <3>1
    <2>7. Books(q, tool)
      BY <2>4, <2>5, <2>6 DEF Books
    <2> QED BY <2>7 DEF q
  <1>7. BooksBalance
    BY <1>2, <1>3, <1>6 DEF BooksBalance
  <1> QED BY <1>1, <1>4, <1>5, <1>7 DEF IInv, TypeOK, WorkflowTypeOK

LEMMA NextInv == ASSUME IInv, [Next]_vars PROVE IInv'
  <1>1. TypeOK /\ CallsHaveOutcomes
    BY DEF IInv
  <1>2. TypeOK'
    <2>1. CASE UNCHANGED vars
      BY <1>1, <2>1 DEF TypeOK, GatewayTypeOK, WorkflowTypeOK
    <2>2. CASE ClockTicks /\ UNCHANGED run
      BY <1>1, <2>2, GatewayAssumption DEF ClockTicks, TypeOK, GatewayTypeOK, WorkflowTypeOK
    <2>3. ASSUME NEW r \in Runs, StartRun(r) \/ RunStep(r) PROVE TypeOK'
      BY <1>1, <2>3, RunStepType
    <2>4. ASSUME NEW r \in Runs, GatewayStep(r), UNCHANGED run PROVE TypeOK'
      BY <1>1, <2>4, GatewayStepType DEF TypeOK, WorkflowTypeOK
    <2> QED BY <2>1, <2>2, <2>3, <2>4 DEF Next
  <1> QED BY <1>1, <1>2, OutcomesKept, BooksKept DEF IInv

LEMMA InductiveInvariant == Spec => []IInv
  BY InitInv, NextInv, PTL DEF Spec

(* Runs, the gateway's calls, counters and audit rows are always well formed. *)
THEOREM AgentTypeCorrect == Spec => []TypeOK
  <1>1. IInv => TypeOK
    BY DEF IInv
  <1> QED BY <1>1, InductiveInvariant, PTL

(* No request starts more calls than the policy allows, per tool or in all,   *)
(* though a call is paid for only when its result is observed.                *)
THEOREM BudgetRespected == Spec => []CallsWithinBudget
  <1>1. ASSUME IInv PROVE CallsWithinBudget
    <2> SUFFICES ASSUME NEW r \in Runs
                 PROVE  /\ \A t \in Tools : CallsOf(r, t) + UnderWay(r, t) <= MaxCallsPerTool
                        /\ Len(run[r].calls) + (IF run[r].pc = "calling" THEN 1 ELSE 0)
                             <= MaxTotalCalls
      BY DEF CallsWithinBudget
    <2>1. run[r] \in Run /\ Books(run[r], gate[r].tool)
      BY <1>1 DEF IInv, TypeOK, WorkflowTypeOK, BooksBalance
    <2>2. /\ run[r].remaining \in Nat /\ run[r].perTool \in [Tools -> Nat]
          /\ Len(run[r].calls) \in Nat
      BY <2>1 DEF Run
    <2>3. ASSUME NEW t \in Tools PROVE CallsOf(r, t) + UnderWay(r, t) <= MaxCallsPerTool
      <3>1. CallsOf(r, t) = run[r].perTool[t] /\ run[r].perTool[t] \in Nat
        BY <2>1, <2>2 DEF CallsOf, Of, Books
      <3>2. UnderWay(r, t) = 1 => run[r].perTool[t] < MaxCallsPerTool
        BY <2>1 DEF UnderWay, Books
      <3>3. UnderWay(r, t) \in {0, 1} /\ run[r].perTool[t] <= MaxCallsPerTool
        BY <2>1 DEF UnderWay, Books
      <3> QED BY <3>1, <3>2, <3>3, WorkflowAssumption
    <2>4. Len(run[r].calls) + (IF run[r].pc = "calling" THEN 1 ELSE 0) <= MaxTotalCalls
      <3>1. /\ run[r].remaining + Len(run[r].calls) <= MaxTotalCalls
            /\ run[r].pc = "calling" => run[r].remaining > 0
        BY <2>1 DEF Books
      <3>2. CASE run[r].pc = "calling"
        BY <2>2, <3>1, <3>2, WorkflowAssumption
      <3>3. CASE run[r].pc # "calling"
        BY <2>2, <3>1, <3>3, WorkflowAssumption
      <3> QED BY <3>2, <3>3
    <2> QED BY <2>3, <2>4
  <1> QED BY <1>1, InductiveInvariant, PTL

LEMMA PositiveFactor ==
    ASSUME NEW k \in Int, NEW T \in Nat \ {0}, NEW left \in Int, left > 0, k * T >= left
    PROVE  k >= 1
  BY SMT

(* The delay a refused caller is told is the least number of whole seconds    *)
(* after which the limiter lets a call pass, whatever the window, the limit   *)
(* and the resolution of the clock.                                           *)
LEMMA RetryAfterExact ==
    ASSUME NEW c \in Counter, NEW time \in Int, Exhausted(c, time)
    PROVE  LET s == RetryAfterSeconds(c, time)
           IN  /\ ~Exhausted(c, time + s * TicksPerSecond)
               /\ s > 1 => Exhausted(c, time + (s - 1) * TicksPerSecond)
  <1> DEFINE left == Window - (time - c.start)
             T == TicksPerSecond
             ceil == (left + T - 1) \div T
             s == RetryAfterSeconds(c, time)
  <1>1. T \in Nat \ {0} /\ Window \in Nat \ {0} /\ MaxCalls \in Nat \ {0}
    BY RateAssumption, WindowIsPositive
  <1>2. c.start \in Int /\ c.used \in Nat /\ left \in Int
    BY <1>1 DEF Counter
  <1>3. time - c.start < Window /\ c.used >= MaxCalls
    BY <1>1, <1>2 DEF Exhausted, CurrentWindow
  <1>4. ceil \in Int /\ ceil * T >= left /\ (ceil - 1) * T < left
    BY <1>1, <1>2, RoundedUp
  <1>5. s = IF ceil >= 1 THEN ceil ELSE 1
    BY DEF RetryAfterSeconds
  <1>6. left > 0
    BY <1>1, <1>2, <1>3
  <1> HIDE DEF ceil, s
  <1>7. ceil >= 1
    <2> HIDE DEF left, T
    <2> QED BY <1>1, <1>2, <1>4, <1>6, PositiveFactor
  <1>8. s = ceil
    BY <1>5, <1>7
  <1> DEFINE later == time + s * T
             sooner == time + (s - 1) * T
  <1>9. s * T \in Int /\ (s - 1) * T \in Int /\ later \in Int /\ sooner \in Int
    BY <1>1, <1>4, <1>8, SMT
  <1>10. later - c.start >= Window
    BY <1>1, <1>2, <1>4, <1>8, <1>9
  <1>11. sooner - c.start < Window
    BY <1>1, <1>2, <1>4, <1>8, <1>9
  <1> HIDE DEF later, sooner, left
  <1>12. ~Exhausted(c, later)
    BY <1>1, <1>9, <1>10 DEF Exhausted, CurrentWindow
  <1>13. Exhausted(c, sooner)
    BY <1>1, <1>2, <1>3, <1>9, <1>11 DEF Exhausted, CurrentWindow
  <1> QED BY <1>12, <1>13 DEF later, sooner, s

(* So what the limiter tells a refused caller is honest at any time.          *)
THEOREM RetryAfterHonest == Spec => []RetryAfterIsHonest
  <1>1. ASSUME TypeOK PROVE RetryAfterIsHonest
    <2>1. now \in Int
      BY <1>1, GatewayAssumption DEF TypeOK, GatewayTypeOK
    <2>2. \A key \in Actors \X Tools : counters[key] \in Counter
      BY <1>1 DEF TypeOK, GatewayTypeOK
    <2> QED BY <2>1, <2>2, RetryAfterExact DEF RetryAfterIsHonest
  <1> QED BY <1>1, AgentTypeCorrect, PTL
-----------------------------------------------------------------------------
(* What a call in the gateway shows of the decision about it: an outcome goes *)
(* with its decision, and only an approved call whose site the actor has is   *)
(* on its way to the handler.                                                 *)
SeesAuthorizedSite(g) ==
    /\ g.tool \in g.context.tools
    /\ g.tool \in SiteTools /\ ~g.context.global => g.site \in g.context.sites

GateIsHonest(g) ==
    /\ g.pc \in {"flush", "handler", "commit", "ended"} /\ g.status # "raised" =>
          g.decision = DecisionOf(g.status)
    /\ g.pc = "handler" => g.decision = "approved"
    /\ g.pc \in {"flush", "handler"} /\ g.decision = "approved" => SeesAuthorizedSite(g)

(* The committed rows are the observed calls, in order, and the call that     *)
(* ended but is not observed yet; a call is in the gateway only while its run *)
(* waits for it.                                                              *)
AuditKeepsUp(q, g, a) ==
    /\ \A i \in DOMAIN q.calls : i \in DOMAIN a /\ a[i] = DecisionOf(q.calls[i].status)
    /\ q.pc \notin {"calling", "failed"} \/ (q.pc = "calling" /\ g.pc # "ended") =>
          Len(a) = Len(q.calls)
    /\ q.pc = "calling" /\ g.pc = "ended" /\ g.status # "raised" =>
          Len(a) = Len(q.calls) + 1 /\ a[Len(a)] = DecisionOf(g.status)
    /\ g.pc = "ended" /\ g.decision # "none" => Len(a) > 0 /\ a[Len(a)] = g.decision
    /\ g.pc \in {"idle", "ended"} \/ q.pc = "calling"

GateInv ==
    /\ IInv
    /\ \A r \in Runs : GateIsHonest(gate[r]) /\ AuditKeepsUp(run[r], gate[r], audit[r])

(* A call that passes is scoped to a site of the actor's, the defaulted too.  *)
LEMMA PermittedIsAuthorized ==
    ASSUME NEW g \in Gate, ~SiteUnclear(g), Permitted(g)
    PROVE  SeesAuthorizedSite([g EXCEPT !.site = ScopedSite(g)])
  <1>1. /\ g.context.sites \in SUBSET Sites
        /\ g.tool \in g.context.tools
    BY DEF Gate, Context, Permitted
  <1> DEFINE h == [g EXCEPT !.site = ScopedSite(g)]
  <1>2. h.tool = g.tool /\ h.context = g.context /\ h.site = ScopedSite(g)
    BY DEF Gate
  <1>3. CASE LacksSite(g)
    <2>1. Cardinality(g.context.sites) = 1
      BY <1>3 DEF SiteUnclear
    <2>2. g.context.sites # {}
      BY <2>1, FS_EmptySet
    <2>3. ScopedSite(g) \in g.context.sites
      BY <1>3, <2>1, <2>2 DEF ScopedSite
    <2> QED BY <1>1, <1>2, <2>3 DEF SeesAuthorizedSite
  <1>4. CASE ~LacksSite(g)
    <2>1. ScopedSite(g) = g.site
      BY <1>4 DEF ScopedSite
    <2> QED BY <1>1, <1>2, <1>4, <2>1 DEF SeesAuthorizedSite, Permitted, LacksSite
  <1> QED BY <1>3, <1>4

LEMMA GateStaysHonest ==
    ASSUME TypeOK, NEW r \in Runs, GatewayStep(r), GateIsHonest(gate[r])
    PROVE  GateIsHonest(gate'[r])
  <1>1. gate \in [Runs -> Gate] /\ gate[r] \in Gate
    BY DEF TypeOK, GatewayTypeOK
  <1>2. ASSUME NEW d, NEW s, Decide(r, d, s)
        PROVE  /\ gate'[r].pc = "flush" /\ gate'[r].decision = d /\ gate'[r].status = s
               /\ gate'[r].tool = gate[r].tool /\ gate'[r].context = gate[r].context
               /\ gate'[r].site = ScopedSite(gate[r])
    BY <1>1, <1>2 DEF Decide, Gate
  <1>3. CASE DenyCall(r)
    BY <1>2, <1>3 DEF DenyCall, GateIsHonest
  <1>4. CASE RefuseInput(r)
    BY <1>1, <1>4 DEF RefuseInput, GateIsHonest, Gate
  <1>5. CASE LimitCall(r)
    BY <1>2, <1>5 DEF LimitCall, GateIsHonest, DecisionOf
  <1>6. CASE AdmitCall(r)
    <2>1. SeesAuthorizedSite([gate[r] EXCEPT !.site = ScopedSite(gate[r])])
      BY <1>1, <1>6, PermittedIsAuthorized DEF AdmitCall
    <2>2. CASE NeedsApproval(gate[r].tool)
      BY <1>2, <1>6, <2>2 DEF AdmitCall, GateIsHonest, DecisionOf
    <2>3. CASE ~NeedsApproval(gate[r].tool)
      <3>1. Decide(r, "approved", "none")
        BY <1>6, <2>3 DEF AdmitCall
      <3>2. SeesAuthorizedSite(gate'[r])
        BY <1>1, <1>2, <2>1, <3>1 DEF SeesAuthorizedSite, Gate
      <3> QED BY <1>2, <3>1, <3>2 DEF GateIsHonest, DecisionOf
    <2> QED BY <2>2, <2>3
  <1>7. CASE FlushDecision(r)
    <2>1. gate[r].pc = "flush" /\
            gate' = [gate EXCEPT ![r].pc =
                        IF gate[r].decision = "approved" THEN "handler" ELSE "commit"]
      BY <1>7 DEF FlushDecision
    <2> QED BY <1>1, <2>1 DEF GateIsHonest, SeesAuthorizedSite, Gate
  <1>8. CASE HandlerReturns(r)
    <2>1. PICK s \in {"success", "failed", "raised"} :
             gate' = [gate EXCEPT ![r].pc = "commit", ![r].status = s]
      BY <1>8 DEF HandlerReturns
    <2>2. gate[r].decision = "approved"
      BY <1>8 DEF HandlerReturns, GateIsHonest
    <2> QED BY <1>1, <2>1, <2>2 DEF GateIsHonest, DecisionOf, Gate
  <1>9. CASE HandlerRaises(r)
    <2>1. CASE gate' = [gate EXCEPT ![r].pc = "commit", ![r].status = "raised"]
      BY <1>1, <2>1 DEF GateIsHonest, Gate
    <2>2. CASE gate' = [gate EXCEPT ![r].attempts = @ + 1]
      BY <1>1, <2>2 DEF GateIsHonest, SeesAuthorizedSite, Gate
    <2> QED BY <1>9, <2>1, <2>2 DEF HandlerRaises
  <1>10. CASE CommitCall(r)
    BY <1>1, <1>10 DEF CommitCall, GateIsHonest, Gate
  <1>11. CASE DatabaseFails(r)
    BY <1>1, <1>11 DEF DatabaseFails, GateIsHonest, Gate
  <1> QED BY <1>3, <1>4, <1>5, <1>6, <1>7, <1>8, <1>9, <1>10, <1>11 DEF GatewayStep

LEMMA GatewayKeepsAudit ==
    ASSUME GateInv, NEW r \in Runs, GatewayStep(r), UNCHANGED run
    PROVE  /\ AuditKeepsUp(run[r], gate'[r], audit'[r])
           /\ \A q \in Runs \ {r} : audit'[q] = audit[q]
  <1>1. /\ gate \in [Runs -> Gate] /\ gate[r] \in Gate
        /\ audit \in [Runs -> Seq(Decisions)] /\ audit[r] \in Seq(Decisions)
        /\ run[r].calls \in Seq([tool : Tools, status : Outcomes])
        /\ GateIsHonest(gate[r]) /\ AuditKeepsUp(run[r], gate[r], audit[r])
    BY DEF GateInv, IInv, TypeOK, GatewayTypeOK, WorkflowTypeOK, Run
  <1>2. gate[r].pc \in {"invoked", "flush", "handler", "commit"}
    BY DEF GatewayStep, DenyCall, RefuseInput, LimitCall, AdmitCall, FlushDecision,
           HandlerReturns, HandlerRaises, CommitCall, DatabaseFails
  <1>3. run[r].pc = "calling" /\ Len(audit[r]) = Len(run[r].calls)
    BY <1>1, <1>2 DEF AuditKeepsUp
  <1>4. CASE CommitCall(r)
    <2>1. gate'[r].pc = "ended" /\ gate'[r].decision = gate[r].decision
            /\ gate'[r].status = gate[r].status /\ gate[r].pc = "commit"
      BY <1>1, <1>4 DEF CommitCall, Gate
    <2>2. CASE gate[r].decision = "none"
      <3>1. gate[r].status = "raised"
        BY <1>1, <2>1, <2>2 DEF GateIsHonest, DecisionOf
      <3>2. audit' = audit
        BY <1>4, <2>2 DEF CommitCall
      <3> QED BY <1>1, <1>3, <2>1, <2>2, <3>1, <3>2 DEF AuditKeepsUp
    <2>3. CASE gate[r].decision # "none"
      <3> DEFINE a == Append(audit[r], gate[r].decision)
      <3>1. audit' = [audit EXCEPT ![r] = a]
        BY <1>4, <2>3 DEF CommitCall
      <3>2. gate[r].decision \in Decisions
        BY <1>1, <2>3 DEF Gate
      <3>3. /\ Len(a) = Len(audit[r]) + 1 /\ a[Len(a)] = gate[r].decision
            /\ \A i \in DOMAIN audit[r] : i \in DOMAIN a /\ a[i] = audit[r][i]
            /\ Len(audit[r]) \in Nat
        BY <1>1, <3>2
      <3> HIDE DEF a
      <3>4. audit'[r] = a /\ \A q \in Runs \ {r} : audit'[q] = audit[q]
        BY <1>1, <3>1
      <3>5. gate[r].status # "raised" => gate[r].decision = DecisionOf(gate[r].status)
        BY <1>1, <2>1 DEF GateIsHonest
      <3>6. AuditKeepsUp(run[r], gate'[r], a)
        BY <1>1, <1>3, <2>1, <3>3, <3>5 DEF AuditKeepsUp
      <3> QED BY <3>4, <3>6
    <2> QED BY <2>2, <2>3
  <1>5. CASE DatabaseFails(r)
    <2>1. gate'[r].pc = "ended" /\ gate'[r].decision = "none" /\ gate'[r].status = "raised"
            /\ audit' = audit
      BY <1>1, <1>5 DEF DatabaseFails, Gate
    <2> QED BY <1>1, <1>3, <2>1 DEF AuditKeepsUp
  <1>6. CASE ~CommitCall(r) /\ ~DatabaseFails(r)
    <2>1. audit' = audit
      BY <1>6 DEF GatewayStep, DenyCall, RefuseInput, LimitCall, AdmitCall, FlushDecision,
                  HandlerReturns, HandlerRaises
    <2>2. gate'[r].pc # "ended"
      <3>1. CASE DenyCall(r) \/ LimitCall(r) \/ AdmitCall(r)
        <4>1. PICK d, s : Decide(r, d, s)
          BY <3>1 DEF DenyCall, LimitCall, AdmitCall
        <4> QED BY <1>1, <4>1 DEF Decide, Gate
      <3>2. CASE RefuseInput(r)
        BY <1>1, <3>2 DEF RefuseInput, Gate
      <3>3. CASE FlushDecision(r)
        <4>1. PICK pc \in {"handler", "commit"} : gate' = [gate EXCEPT ![r].pc = pc]
          BY <3>3 DEF FlushDecision
        <4> QED BY <1>1, <4>1 DEF Gate
      <3>4. CASE HandlerReturns(r)
        BY <1>1, <3>4 DEF HandlerReturns, Gate
      <3>5. CASE HandlerRaises(r)
        <4>1. CASE gate' = [gate EXCEPT ![r].pc = "commit", ![r].status = "raised"]
          BY <1>1, <4>1 DEF Gate
        <4>2. CASE gate' = [gate EXCEPT ![r].attempts = @ + 1]
          BY <1>1, <1>2, <4>2 DEF Gate
        <4> QED BY <3>5, <4>1, <4>2 DEF HandlerRaises
      <3> QED BY <1>6, <3>1, <3>2, <3>3, <3>4, <3>5 DEF GatewayStep
    <2> QED BY <1>1, <1>3, <2>1, <2>2 DEF AuditKeepsUp
  <1> QED BY <1>4, <1>5, <1>6

(* Between calls a run neither waits nor has failed, unless it fails now.     *)
LEMMA QuietPhases ==
    ASSUME TypeOK, NEW r \in Runs,
           StartRun(r) \/ RunStep(r), ~InvokeTool(r), ~ObserveResult(r)
    PROVE  /\ UNCHANGED audit
           /\ \/ run[r].pc \notin {"calling", "failed"}
              \/ gate[r].pc = "ended" /\ run'[r].pc = "failed"
  <1>1. run \in [Runs -> Run] /\ run[r] \in Run
    BY DEF TypeOK, WorkflowTypeOK
  <1>2. CASE CallRaises(r)
    BY <1>1, <1>2 DEF CallRaises, Run
  <1>3. CASE ~CallRaises(r)
    BY <1>3 DEF StartRun, RunStep, ClassifyIntent, PlanByIntent, NoCallableTool, PlanByModel,
                ModelFails, BlockCall, DecideNextStep, Respond
  <1> QED BY <1>2, <1>3

LEMMA RunKeepsAudit ==
    ASSUME GateInv, NEW r \in Runs, StartRun(r) \/ RunStep(r)
    PROVE  /\ GateIsHonest(gate'[r]) /\ AuditKeepsUp(run'[r], gate'[r], audit[r])
           /\ UNCHANGED audit
           /\ \A q \in Runs \ {r} : run'[q] = run[q] /\ gate'[q] = gate[q]
  <1>1. /\ gate \in [Runs -> Gate] /\ gate[r] \in Gate
        /\ run \in [Runs -> Run] /\ run[r] \in Run
        /\ audit[r] \in Seq(Decisions) /\ Len(audit[r]) \in Nat
        /\ run[r].calls \in Seq([tool : Tools, status : Outcomes])
        /\ TypeOK /\ GateIsHonest(gate[r]) /\ AuditKeepsUp(run[r], gate[r], audit[r])
    <2>1. TypeOK /\ GateIsHonest(gate[r]) /\ AuditKeepsUp(run[r], gate[r], audit[r])
      BY DEF GateInv, IInv
    <2>2. /\ gate \in [Runs -> Gate] /\ run \in [Runs -> Run]
          /\ run[r] \in Run /\ gate[r] \in Gate /\ audit[r] \in Seq(Decisions)
      BY <2>1 DEF TypeOK, GatewayTypeOK, WorkflowTypeOK
    <2>3. Len(audit[r]) \in Nat
      BY <2>2
    <2>4. run[r].calls \in Seq([tool : Tools, status : Outcomes])
      BY <2>2 DEF Run
    <2> QED BY <2>1, <2>2, <2>3, <2>4
  <1>2. CASE InvokeTool(r)
    <2>1. /\ gate'[r].pc = "invoked" /\ gate'[r].decision = "none"
          /\ run[r].pc = "tool_call" /\ run'[r].pc = "calling" /\ run'[r].calls = run[r].calls
          /\ UNCHANGED audit
          /\ \A q \in Runs \ {r} : run'[q] = run[q] /\ gate'[q] = gate[q]
      BY <1>1, <1>2 DEF InvokeTool, InvokeGateway, Run, Gate
    <2> QED BY <1>1, <2>1 DEF AuditKeepsUp, GateIsHonest
  <1>3. CASE ObserveResult(r)
    <2>1. /\ run[r].pc = "calling" /\ gate[r].pc = "ended" /\ gate[r].status # "raised"
          /\ UNCHANGED <<gate, audit>>
      BY <1>3 DEF ObserveResult
    <2>2. Len(audit[r]) = Len(run[r].calls) + 1
            /\ audit[r][Len(audit[r])] = DecisionOf(gate[r].status)
      BY <1>1, <2>1 DEF AuditKeepsUp
    <2>3. CASE CanCall(r, gate[r].tool)
      <3> DEFINE call == [tool |-> gate[r].tool, status |-> gate[r].status]
                 more == Append(run[r].calls, call)
      <3>1. /\ run' = [run EXCEPT ![r] = Observed(run[r], gate[r].tool, gate[r].status)]
            /\ run'[r].pc = "decide" /\ run'[r].calls = more
        BY <1>1, <1>3, <2>3 DEF ObserveResult, Observed, Run
      <3>2. call.status = gate[r].status
        OBVIOUS
      <3> HIDE DEF call
      <3>3. /\ Len(more) = Len(run[r].calls) + 1 /\ more[Len(more)] = call
            /\ DOMAIN more = 1 .. Len(more) /\ Len(run[r].calls) \in Nat
            /\ \A i \in DOMAIN more : i = Len(more) \/
                  (i \in DOMAIN run[r].calls /\ more[i] = run[r].calls[i])
        BY <1>1
      <3> HIDE DEF more
      <3>4. \A i \in DOMAIN more :
                i \in DOMAIN audit[r] /\ audit[r][i] = DecisionOf(more[i].status)
        <4>1. Len(more) \in DOMAIN audit[r]
          BY <1>1, <2>2, <3>3
        <4> QED BY <1>1, <2>2, <3>2, <3>3, <4>1 DEF AuditKeepsUp
      <3> QED BY <1>1, <2>1, <2>2, <3>1, <3>3, <3>4 DEF AuditKeepsUp
    <2>4. CASE ~CanCall(r, gate[r].tool)
      <3>1. /\ run' = [run EXCEPT ![r].pc = "failed"]
            /\ run'[r].pc = "failed" /\ run'[r].calls = run[r].calls
        BY <1>1, <1>3, <2>4 DEF ObserveResult, Run
      <3> QED BY <1>1, <2>1, <3>1 DEF AuditKeepsUp
    <2> QED BY <2>3, <2>4
  <1>4. CASE ~InvokeTool(r) /\ ~ObserveResult(r)
    <2>1. Quiet(r) /\ UNCHANGED audit /\ (\/ run[r].pc \notin {"calling", "failed"}
                                          \/ gate[r].pc = "ended" /\ run'[r].pc = "failed")
      BY <1>1, <1>4, QuietSteps, QuietPhases
    <2> QED BY <1>1, <2>1 DEF Quiet, AuditKeepsUp
  <1> QED BY <1>2, <1>3, <1>4

LEMMA GateInvariance == Spec => []GateInv
  <1>1. Init => GateInv
    <2> SUFFICES ASSUME Init PROVE GateInv
      OBVIOUS
    <2>1. IInv
      BY InitInv
    <2>2. ASSUME NEW r \in Runs
          PROVE  /\ gate[r].pc = "idle" /\ gate[r].decision = "none" /\ audit[r] = << >>
                 /\ run[r].pc = "waiting" /\ run[r].calls = << >>
      BY DEF Init, GatewayInit, WorkflowInit, IdleGate, NewRun
    <2> QED BY <2>1, <2>2 DEF GateInv, GateIsHonest, AuditKeepsUp
  <1>2. GateInv /\ [Next]_vars => GateInv'
    <2> SUFFICES ASSUME GateInv, [Next]_vars PROVE GateInv'
      OBVIOUS
    <2>1. IInv'
      BY NextInv DEF GateInv
    <2>2. CASE UNCHANGED <<run, gate, audit>>
      BY <2>1, <2>2 DEF GateInv
    <2>3. ASSUME NEW r \in Runs, StartRun(r) \/ RunStep(r) PROVE GateInv'
      BY <2>1, <2>3, RunKeepsAudit DEF GateInv
    <2>4. ASSUME NEW r \in Runs, GatewayStep(r), UNCHANGED run PROVE GateInv'
      <3>1. TypeOK /\ GateIsHonest(gate[r])
        BY DEF GateInv, IInv
      <3>2. GateIsHonest(gate'[r]) /\ \A q \in Runs \ {r} : gate'[q] = gate[q]
        BY <2>4, <3>1, GateStaysHonest, GatewayKeepsTools
      <3>3. /\ AuditKeepsUp(run'[r], gate'[r], audit'[r])
            /\ \A q \in Runs \ {r} : audit'[q] = audit[q] /\ run'[q] = run[q]
        BY <2>4, GatewayKeepsAudit
      <3> QED BY <2>1, <3>2, <3>3 DEF GateInv
    <2> QED BY <2>2, <2>3, <2>4 DEF Next, ClockTicks
  <1> QED BY <1>1, <1>2, PTL DEF Spec

(* Permission and site checks come before the handler: with the site the      *)
(* gateway defaults, a handler only ever sees a site its actor has.           *)
THEOREM HandlersAuthorized == Spec => []HandlersSeeAuthorizedSites
  <1>1. GateInv => HandlersSeeAuthorizedSites
    BY DEF GateInv, GateIsHonest, SeesAuthorizedSite, HandlersSeeAuthorizedSites
  <1> QED BY <1>1, GateInvariance, PTL

(* The decision about every observed call is committed, in the order of the   *)
(* calls, although database errors may take the decision about a raising one. *)
THEOREM AuditIsDurable == Spec => []DecisionsAreDurable
  <1>1. GateInv => DecisionsAreDurable
    <2> SUFFICES ASSUME GateInv, NEW r \in Runs
                 PROVE  /\ \A i \in DOMAIN run[r].calls :
                              /\ i \in DOMAIN audit[r]
                              /\ audit[r][i] = DecisionOf(run[r].calls[i].status)
                        /\ gate[r].pc = "ended" /\ gate[r].decision # "none" =>
                              /\ audit[r] # << >>
                              /\ audit[r][Len(audit[r])] = gate[r].decision
      BY DEF DecisionsAreDurable
    <2>1. AuditKeepsUp(run[r], gate[r], audit[r])
      BY DEF GateInv
    <2>2. Len(audit[r]) > 0 => audit[r] # << >>
      OBVIOUS
    <2> QED BY <2>1, <2>2 DEF AuditKeepsUp
  <1> QED BY <1>1, GateInvariance, PTL
-----------------------------------------------------------------------------
(* The limiter's windows over one key's admissions. The current window holds  *)
(* the last c.used of them and began with the first of these; the one before  *)
(* held at most MaxCalls, so what is older is a window older than c.start.    *)
(* Hence 2 * MaxCalls - 1 admissions on, at least a window has passed.        *)
WindowsKept(a, c, time) ==
    /\ \A i, j \in DOMAIN a : i <= j => a[i] <= a[j]
    /\ \A i \in DOMAIN a : a[i] <= time
    /\ c.used <= Len(a) /\ c.used <= MaxCalls
    /\ c.used = 0 => a = << >> /\ c.start + Window <= time
    /\ c.used > 0 => a[Len(a) - c.used + 1] = c.start
    /\ \A i \in DOMAIN a : i <= Len(a) - c.used - MaxCalls + 1 => a[i] + Window <= c.start
    /\ \A i \in DOMAIN a :
          i + 2 * MaxCalls - 1 <= Len(a) => a[i] + Window <= a[i + 2 * MaxCalls - 1]

LEMMA ConsumeKeepsWindows ==
    ASSUME NEW a \in Seq(Nat), NEW c \in Counter, NEW time \in Nat,
           WindowsKept(a, c, time), ~Exhausted(c, time)
    PROVE  WindowsKept(Append(a, time), Consume(c, time), time)
  <1> DEFINE b == Append(a, time)  n == Len(a)  d == Consume(c, time)
             W == Window  M == MaxCalls
  <1>1. n \in Nat /\ M \in Nat \ {0} /\ W \in Nat \ {0}
    BY WindowIsPositive, RateAssumption
  <1>2. /\ Len(b) = n + 1 /\ b[n + 1] = time /\ DOMAIN a = 1 .. n /\ DOMAIN b = 1 .. n + 1
        /\ \A i \in 1 .. n : b[i] = a[i] /\ a[i] \in Nat
    OBVIOUS
  <1>3. /\ c.start \in Int /\ c.used \in Nat
        /\ d = [CurrentWindow(c, time) EXCEPT !.used = CurrentWindow(c, time).used + 1]
        /\ CurrentWindow(c, time).used < M
    <2>1. c.start \in Int /\ c.used \in Nat
      BY DEF Counter
    <2>2. CurrentWindow(c, time) \in Counter
      BY CounterType
    <2>3. CurrentWindow(c, time).used \in Nat
      BY <2>2 DEF Counter
    <2>4. ~ (CurrentWindow(c, time).used >= M)
      BY DEF Exhausted
    <2> QED BY <1>1, <2>1, <2>3, <2>4 DEF Consume
  <1>4. \/ time - c.start >= W /\ d.start = time /\ d.used = 1
        \/ time - c.start < W /\ d.start = c.start /\ d.used = c.used + 1 /\ c.used < M
    <2>1. CASE time - c.start >= W
      BY <1>3, <2>1 DEF CurrentWindow
    <2>2. CASE ~(time - c.start >= W)
      <3>1. CurrentWindow(c, time) = c
        BY <2>2 DEF CurrentWindow
      <3> QED BY <1>1, <1>3, <2>2, <3>1 DEF Counter
    <2> QED BY <2>1, <2>2
  <1>5. /\ \A i, j \in 1 .. n : i <= j => a[i] <= a[j]
        /\ \A i \in 1 .. n : a[i] <= time
        /\ c.used <= n /\ c.used <= M
        /\ c.used = 0 => n = 0 /\ c.start + W <= time
        /\ c.used > 0 => a[n - c.used + 1] = c.start
        /\ \A i \in 1 .. n : i <= n - c.used - M + 1 => a[i] + W <= c.start
        /\ \A i \in 1 .. n : i + 2 * M - 1 <= n => a[i] + W <= a[i + 2 * M - 1]
    BY <1>2 DEF WindowsKept
  <1> HIDE DEF b, d, n, W, M
  <1>6. /\ \A i, j \in 1 .. n + 1 : i <= j => b[i] <= b[j]
        /\ \A i \in 1 .. n + 1 : b[i] <= time
    BY <1>1, <1>2, <1>5
  <1>7. c.used > 0 => c.start <= time /\ n - c.used + 1 \in 1 .. n
    <2> SUFFICES ASSUME c.used > 0 PROVE c.start <= time /\ n - c.used + 1 \in 1 .. n
      OBVIOUS
    <2>1. n - c.used + 1 \in 1 .. n
      BY <1>1, <1>3, <1>5
    <2>2. a[n - c.used + 1] = c.start
      BY <1>5
    <2> QED BY <1>5, <2>1, <2>2
  <1>8. CASE time - c.start >= W /\ d.start = time /\ d.used = 1
    <2>1. \A i \in 1 .. n : i <= n - M + 1 => a[i] + W <= time
      <3> SUFFICES ASSUME NEW i \in 1 .. n, i <= n - M + 1 PROVE a[i] + W <= time
        OBVIOUS
      <3>0. n > 0
        BY <1>1
      <3>1. c.used > 0 /\ i <= n - c.used + 1
        BY <1>1, <1>3, <1>5, <3>0
      <3>2. a[i] <= c.start
        BY <1>5, <1>7, <3>1
      <3> QED BY <1>1, <1>2, <1>3, <1>8, <3>2
    <2>2. \A i \in 1 .. n + 1 : i <= (n + 1) - d.used - M + 1 => b[i] + W <= d.start
      BY <1>1, <1>2, <1>8, <2>1
    <2>3. \A i \in 1 .. n + 1 : i + 2 * M - 1 <= n + 1 => b[i] + W <= b[i + 2 * M - 1]
      <3> SUFFICES ASSUME NEW i \in 1 .. n + 1, i + 2 * M - 1 <= n + 1
                   PROVE  b[i] + W <= b[i + 2 * M - 1]
        OBVIOUS
      <3>1. i \in 1 .. n /\ i <= n - M + 1 /\ i + 2 * M - 1 \in 1 .. n + 1
        BY <1>1
      <3>2. CASE i + 2 * M - 1 <= n
        BY <1>1, <1>2, <1>5, <3>1, <3>2
      <3>3. CASE i + 2 * M - 1 = n + 1
        BY <1>2, <2>1, <3>1, <3>3
      <3> QED BY <1>1, <3>1, <3>2, <3>3
    <2>4. d.used <= n + 1 /\ d.used <= M /\ d.used # 0 /\ b[(n + 1) - d.used + 1] = d.start
      BY <1>1, <1>2, <1>8
    <2> QED BY <1>2, <1>6, <2>2, <2>3, <2>4 DEF WindowsKept, b, d, W, M
  <1>9. CASE time - c.start < W /\ d.start = c.start /\ d.used = c.used + 1 /\ c.used < M
    <2>1. c.used > 0
      <3> SUFFICES ASSUME c.used = 0 PROVE FALSE
        BY <1>3
      <3> QED BY <1>3, <1>5, <1>9, <1>1
    <2>2. \A i \in 1 .. n + 1 : i <= (n + 1) - d.used - M + 1 => b[i] + W <= d.start
      <3> SUFFICES ASSUME NEW i \in 1 .. n + 1, i <= (n + 1) - d.used - M + 1
                   PROVE  b[i] + W <= d.start
        OBVIOUS
      <3>1. i \in 1 .. n /\ i <= n - c.used - M + 1
        BY <1>1, <1>3, <1>9
      <3> QED BY <1>2, <1>5, <1>9, <3>1
    <2>3. \A i \in 1 .. n + 1 : i + 2 * M - 1 <= n + 1 => b[i] + W <= b[i + 2 * M - 1]
      <3> SUFFICES ASSUME NEW i \in 1 .. n + 1, i + 2 * M - 1 <= n + 1
                   PROVE  b[i] + W <= b[i + 2 * M - 1]
        OBVIOUS
      <3>1. i \in 1 .. n /\ i <= n + 2 - 2 * M /\ i + 2 * M - 1 \in 1 .. n + 1
        BY <1>1
      <3>2. CASE i + 2 * M - 1 <= n
        BY <1>1, <1>2, <1>5, <3>1, <3>2
      <3>3. CASE i + 2 * M - 1 = n + 1
        <4>0. c.used \in Nat /\ c.used <= M - 1 /\ M \in Nat /\ n \in Nat /\ i \in Nat
          BY <1>1, <1>3, <1>9
        <4>1. i <= n - c.used - M + 1
          BY <3>1, <4>0
        <4>2. a[i] + W <= c.start
          BY <1>5, <3>1, <4>1
        <4>3. a[i] \in Nat /\ a[i] + W <= time
          <5>1. a[i] \in Nat
            BY <1>2, <3>1
          <5>2. W \in Nat /\ c.start \in Int /\ time \in Nat
            BY <1>1, <1>3
          <5> QED BY <1>7, <2>1, <4>2, <5>1, <5>2
        <4> QED BY <1>2, <3>1, <3>3, <4>3
      <3> QED BY <1>1, <3>1, <3>2, <3>3
    <2>4. d.used <= n + 1 /\ d.used <= M /\ d.used # 0 /\ b[(n + 1) - d.used + 1] = d.start
      <3>1. (n + 1) - d.used + 1 = n - c.used + 1 /\ n - c.used + 1 \in 1 .. n
        BY <1>1, <1>3, <1>7, <1>9, <2>1
      <3>2. b[n - c.used + 1] = c.start
        BY <1>2, <1>5, <2>1, <3>1
      <3> QED BY <1>1, <1>3, <1>5, <1>9, <3>1, <3>2
    <2> QED BY <1>2, <1>6, <2>2, <2>3, <2>4 DEF WindowsKept, b, d, W, M
  <1> QED BY <1>4, <1>8, <1>9

(* From an admission on, for a window's length: all in 2 * MaxCalls - 1 places. *)
LEMMA WindowsBound ==
    ASSUME NEW a \in Seq(Nat), NEW c \in Counter, NEW time \in Nat, WindowsKept(a, c, time),
           NEW i \in DOMAIN a
    PROVE  Cardinality({j \in DOMAIN a : a[j] >= a[i] /\ a[j] < a[i] + Window})
             <= 2 * MaxCalls - 1
  <1> DEFINE S == {j \in DOMAIN a : a[j] >= a[i] /\ a[j] < a[i] + Window}
             n == Len(a)  M == MaxCalls  W == Window
  <1>1. n \in Nat /\ M \in Nat \ {0} /\ W \in Nat \ {0} /\ DOMAIN a = 1 .. n
    BY WindowIsPositive, RateAssumption
  <1>2. \A j \in 1 .. n : a[j] \in Nat
    OBVIOUS
  <1>3. i \in S /\ S \subseteq Nat /\ S \subseteq 1 .. n
    BY <1>1, <1>2
  <1>4. \A j \in S : j \in 1 .. n /\ a[j] >= a[i] /\ a[j] < a[i] + W
    BY <1>1
  <1>5. PICK x \in S : \A y \in S : ~ (<<y, x>> \in OpToRel(<, Nat))
    BY <1>3, NatLessThanWellFounded, WFMin
  <1>6. \A y \in S : x <= y
    <2> SUFFICES ASSUME NEW y \in S, y < x PROVE FALSE
      BY <1>3
    <2>1. y \in Nat /\ x \in Nat
      BY <1>3
    <2>2. ~ (<<y, x>> \in OpToRel(<, Nat))
      BY <1>5
    <2> QED BY <2>1, <2>2 DEF OpToRel
  <1>7. /\ \A j, k \in 1 .. n : j <= k => a[j] <= a[k]
        /\ \A j \in 1 .. n : j + 2 * M - 1 <= n => a[j] + W <= a[j + 2 * M - 1]
    BY <1>1 DEF WindowsKept
  <1>8. x \in 1 .. n /\ i \in 1 .. n
    BY <1>1, <1>4
  <1>9. S \subseteq x .. x + 2 * M - 2
    <2> SUFFICES ASSUME NEW y \in S, y >= x + 2 * M - 1 PROVE FALSE
      BY <1>1, <1>3, <1>6, <1>8
    <2>1. y \in 1 .. n /\ a[y] < a[i] + W
      BY <1>4
    <2>2. PICK z \in 1 .. n : z = x + 2 * M - 1 /\ z <= y
      BY <1>1, <1>8, <2>1
    <2>3. a[x] + W <= a[z] /\ a[z] <= a[y]
      <3>1. x + 2 * M - 1 <= n /\ a[x + 2 * M - 1] = a[z]
        BY <1>1, <2>2
      <3>2. a[x] + W <= a[x + 2 * M - 1]
        BY <1>7, <1>8, <3>1
      <3> QED BY <1>7, <2>1, <2>2, <3>1, <3>2
    <2>4. i <= n /\ x <= n /\ a[i] <= a[x]
      BY <1>1, <1>4, <1>8
    <2>5. a[i] \in Nat /\ a[x] \in Nat /\ a[y] \in Nat /\ a[z] \in Nat /\ W \in Nat
      BY <1>1, <1>2, <1>8, <2>1, <2>2
    <2>6. \A p, q, r, s, w \in Nat : p <= q /\ q + w <= r /\ r <= s => ~(s < p + w)
      OBVIOUS
    <2> HIDE DEF S, n, M, W
    <2> QED BY <2>1, <2>3, <2>4, <2>5, <2>6
  <1> HIDE DEF S
  <1>10. /\ IsFiniteSet(x .. x + 2 * M - 2)
         /\ Cardinality(x .. x + 2 * M - 2) = 2 * M - 1
    <2>1. x \in Int /\ x + 2 * M - 2 \in Int /\ x <= x + 2 * M - 2
      BY <1>1, <1>8
    <2>2. Cardinality(x .. x + 2 * M - 2) = (x + 2 * M - 2) - x + 1
      BY <2>1, FS_Interval
    <2> QED BY <1>1, <2>1, <2>2, FS_Interval
  <1>11. Cardinality(S) <= Cardinality(x .. x + 2 * M - 2)
    BY <1>9, <1>10, FS_Subset
  <1> QED BY <1>10, <1>11 DEF S

(* Every key's admissions fit their windows, at the present time.             *)
AllWindowsKept ==
    \A key \in Actors \X Tools : WindowsKept(admitted[key], counters[key], now)

(* The limiter: whichever requests of a user take turns at a counter, and     *)
(* wherever the window boundaries fall, the calls that pass are bounded.      *)
THEOREM AdmissionsAreBounded == Spec => []AdmissionsBounded
  <1>1. ASSUME Init PROVE AllWindowsKept
    <2> SUFFICES ASSUME NEW key \in Actors \X Tools
                 PROVE  WindowsKept(admitted[key], counters[key], now)
      BY DEF AllWindowsKept
    <2>1. /\ admitted[key] = << >> /\ counters[key].used = 0 /\ now = 0
          /\ counters[key].start = 0 - Window
      BY <1>1 DEF Init, GatewayInit, NoCounter
    <2> QED BY <2>1, RateAssumption, WindowIsPositive DEF WindowsKept
  <1>2. TypeOK /\ TypeOK' /\ AllWindowsKept /\ [Next]_vars => AllWindowsKept'
    <2> SUFFICES ASSUME TypeOK, TypeOK', [Next]_vars, NEW key \in Actors \X Tools,
                        WindowsKept(admitted[key], counters[key], now)
                 PROVE  WindowsKept(admitted[key], counters[key], now)'
      BY DEF AllWindowsKept
    <2>1. /\ now \in Nat /\ now' \in Nat /\ admitted[key] \in Seq(Nat)
          /\ counters[key] \in Counter
          /\ counters \in [Actors \X Tools -> Counter]
          /\ admitted \in [Actors \X Tools -> Seq(Nat)]
      BY GatewayAssumption DEF TypeOK, GatewayTypeOK
    <2>2. CASE UNCHANGED <<counters, admitted>> /\ now' >= now
      <3>1. \A i \in DOMAIN admitted[key] : admitted[key][i] \in Nat
        BY <2>1
      <3>2. \A i \in DOMAIN admitted[key] : admitted[key][i] <= now'
        BY <2>1, <2>2, <3>1 DEF WindowsKept
      <3>3. counters[key].used = 0 => counters[key].start + Window <= now'
        BY <2>1, <2>2, WindowIsPositive DEF WindowsKept, Counter
      <3> QED BY <2>2, <3>2, <3>3 DEF WindowsKept
    <2>3. ASSUME NEW r \in Runs, AdmitCall(r)
          PROVE  WindowsKept(admitted[key], counters[key], now)'
      <3>1. /\ ~Exhausted(counters[Key(r)], now) /\ now' = now
            /\ counters' = [counters EXCEPT ![Key(r)] = Consume(@, now)]
            /\ admitted' = [admitted EXCEPT ![Key(r)] = Append(@, now)]
        BY <2>3 DEF AdmitCall
      <3>2. CASE key # Key(r)
        <4>1. counters'[key] = counters[key] /\ admitted'[key] = admitted[key]
          BY <2>1, <3>1, <3>2
        <4> QED BY <3>1, <4>1 DEF WindowsKept
      <3>3. CASE key = Key(r)
        <4>1. /\ counters'[key] = Consume(counters[key], now)
              /\ admitted'[key] = Append(admitted[key], now)
          BY <2>1, <3>1, <3>3
        <4>2. WindowsKept(Append(admitted[key], now), Consume(counters[key], now), now)
          BY <2>1, <3>1, <3>3, ConsumeKeepsWindows
        <4> QED BY <3>1, <4>1, <4>2 DEF WindowsKept
      <3> QED BY <3>2, <3>3
    <2>4. ASSUME NEW r \in Runs, StartRun(r) \/ RunStep(r)
          PROVE  UNCHANGED <<counters, admitted, now>>
      BY <2>4 DEF StartRun, RunStep, ClassifyIntent, PlanByIntent, NoCallableTool, PlanByModel,
                  ModelFails, BlockCall, InvokeTool, ObserveResult, CallRaises,
                  DecideNextStep, Respond
    <2>5. ASSUME NEW r \in Runs, GatewayStep(r), ~AdmitCall(r)
          PROVE  UNCHANGED <<counters, admitted, now>>
      BY <2>5 DEF GatewayStep, DenyCall, RefuseInput, LimitCall, FlushDecision,
                  HandlerReturns, HandlerRaises, CommitCall, DatabaseFails
    <2>6. CASE ClockTicks \/ UNCHANGED <<counters, admitted, now>>
      BY <2>1, <2>2, <2>6 DEF ClockTicks
    <2> QED BY <2>3, <2>4, <2>5, <2>6 DEF Next
  <1>3. ASSUME TypeOK, AllWindowsKept PROVE AdmissionsBounded
    <2> SUFFICES ASSUME NEW key \in Actors \X Tools, NEW i \in DOMAIN admitted[key]
                 PROVE  Cardinality({j \in DOMAIN admitted[key] :
                            /\ admitted[key][j] >= admitted[key][i]
                            /\ admitted[key][j] < admitted[key][i] + Window})
                          <= 2 * MaxCalls - 1
      BY DEF AdmissionsBounded
    <2>1. now \in Nat /\ admitted[key] \in Seq(Nat) /\ counters[key] \in Counter
      BY <1>3, GatewayAssumption DEF TypeOK, GatewayTypeOK
    <2> QED BY <1>3, <2>1, WindowsBound DEF AllWindowsKept
  <1> QED BY <1>1, <1>2, <1>3, AgentTypeCorrect, PTL DEF Spec
=============================================================================
