---------------------------- MODULE ToolGateway ----------------------------
(* ToolGateway.invoke inside GatewayToolRuntime.invoke: site scope, input,    *)
(* permission, rate, approval, audit, handler with retries, and one database  *)
(* transaction for the audit rows that commits however the call ends.         *)
(* `admitted` is a history of the limiter's decisions, no variable of code.   *)
EXTENDS RateLimiter, Sequences, FiniteSets

CONSTANTS
    Runs,             \* requests, each with at most one call under way
    Actors, ActorOf,  \* the user each request acts for
    Tools, WriteTools, SiteTools,  \* all, the mutating, those with a site field
    NoTool,
    Sites, NoSite,
    MaxRetries,       \* handler retries, per tool
    AllowWriteTools,  \* PolicyApprovalService(allow_write_tools=...)
    QueriesMayFail,   \* whether the database calls of handlers may raise
    MaxTime           \* bound: the last tick

ASSUME GatewayAssumption ==
    /\ ActorOf \in [Runs -> Actors]
    /\ WriteTools \subseteq Tools /\ SiteTools \subseteq Tools
    /\ NoTool \notin Tools /\ NoSite \notin Sites
    /\ MaxRetries \in [Tools -> Nat]
    /\ AllowWriteTools \in BOOLEAN /\ QueriesMayFail \in BOOLEAN
    /\ MaxTime \in Nat

VARIABLES
    now,       \* time.monotonic(), in ticks
    counters,  \* FixedWindowRateLimiter._counters
    gate,      \* the call each request has in the gateway
    audit,     \* the committed audit decisions of each request, in order
    admitted   \* history: when the limiter let a call of this key pass

gatewayVars == <<now, counters, gate, audit, admitted>>

Decisions == {"rejected", "rate_limit", "approval_required", "approved"}
Outcomes == {"success", "failed", "rate_limited", "approval_required"}

(* AuthorizationContext: the tools the roles permit, and the sites.           *)
Context == [tools : SUBSET Tools, sites : SUBSET Sites, global : BOOLEAN]
NoContext == [tools |-> {}, sites |-> {}, global |-> FALSE]

Gate == [pc : {"idle", "invoked", "flush", "handler", "commit", "ended"},
         tool : Tools \cup {NoTool}, site : Sites \cup {NoSite},
         context : Context, decision : Decisions \cup {"none"},
         attempts : Nat, status : Outcomes \cup {"none", "raised"}]

IdleGate == [pc |-> "idle", tool |-> NoTool, site |-> NoSite, context |-> NoContext,
             decision |-> "none", attempts |-> 0, status |-> "none"]

GatewayTypeOK ==
    /\ now \in 0 .. MaxTime
    /\ counters \in [Actors \X Tools -> Counter]
    /\ gate \in [Runs -> Gate]
    /\ audit \in [Runs -> Seq(Decisions)]
    /\ admitted \in [Actors \X Tools -> Seq(Nat)]

GatewayInit ==
    /\ now = 0
    /\ counters = [key \in Actors \X Tools |-> NoCounter]
    /\ gate = [r \in Runs |-> IdleGate]
    /\ audit = [r \in Runs |-> << >>]
    /\ admitted = [key \in Actors \X Tools |-> << >>]

ClockTicks ==
    /\ now < MaxTime
    /\ now' = now + 1
    /\ UNCHANGED <<counters, gate, audit, admitted>>

InvokeGateway(r, tool, site, context) ==
    gate' = [gate EXCEPT ![r] =
               [pc |-> "invoked", tool |-> tool, site |-> site, context |-> context,
                decision |-> "none", attempts |-> 0, status |-> "none"]]
-----------------------------------------------------------------------------
(* A tool with a site field, called without a site by somebody not global.    *)
LacksSite(g) == g.tool \in SiteTools /\ ~g.context.global /\ g.site = NoSite

(* The site the handler will see: the only one the actor has, or the payload's. *)
ScopedSite(g) ==
    IF LacksSite(g) /\ Cardinality(g.context.sites) = 1
    THEN CHOOSE s \in g.context.sites : TRUE
    ELSE g.site

SiteUnclear(g) == LacksSite(g) /\ Cardinality(g.context.sites) # 1

(* Mutant: the permission is checked for the actor, not for the site.         *)
PermittedAnywhere(g) == g.tool \in g.context.tools

Permitted(g) ==
    /\ g.tool \in g.context.tools
    /\ \/ g.tool \notin SiteTools
       \/ ScopedSite(g) = NoSite
       \/ g.context.global
       \/ ScopedSite(g) \in g.context.sites

NeedsApproval(tool) == tool \in WriteTools /\ ~AllowWriteTools

Key(r) == <<ActorOf[r], gate[r].tool>>

Decide(r, decision, status) ==
    gate' = [gate EXCEPT ![r].pc = "flush", ![r].decision = decision,
                         ![r].status = status, ![r].site = ScopedSite(gate[r])]

DenyCall(r) ==
    /\ gate[r].pc = "invoked"
    /\ SiteUnclear(gate[r]) \/ ~Permitted(gate[r])
    /\ Decide(r, "rejected", "raised")
    /\ UNCHANGED <<now, counters, audit, admitted>>

(* The input model refuses the payload, before anything is audited.           *)
RefuseInput(r) ==
    /\ gate[r].pc = "invoked"
    /\ ~SiteUnclear(gate[r])
    /\ gate' = [gate EXCEPT ![r].pc = "commit", ![r].status = "raised"]
    /\ UNCHANGED <<now, counters, audit, admitted>>

LimitCall(r) ==
    /\ gate[r].pc = "invoked"
    /\ ~SiteUnclear(gate[r]) /\ Permitted(gate[r])
    /\ Exhausted(counters[Key(r)], now)
    /\ Decide(r, "rate_limit", "rate_limited")
    /\ UNCHANGED <<now, counters, audit, admitted>>

AdmitCall(r) ==
    /\ gate[r].pc = "invoked"
    /\ ~SiteUnclear(gate[r]) /\ Permitted(gate[r])
    /\ ~Exhausted(counters[Key(r)], now)
    /\ counters' = [counters EXCEPT ![Key(r)] = Consume(@, now)]
    /\ admitted' = [admitted EXCEPT ![Key(r)] = Append(@, now)]
    /\ IF NeedsApproval(gate[r].tool)
       THEN Decide(r, "approval_required", "approval_required")
       ELSE Decide(r, "approved", "none")
    /\ UNCHANGED <<now, audit>>

(* The audit row is flushed, not committed, before the handler runs.          *)
FlushDecision(r) ==
    /\ gate[r].pc = "flush"
    /\ gate' = [gate EXCEPT ![r].pc =
                  IF gate[r].decision = "approved" THEN "handler" ELSE "commit"]
    /\ UNCHANGED <<now, counters, audit, admitted>>

(* ChangeWorkOrderStatus reads .status of the list that the repository's      *)
(* find_status_by_code returns: the handler of the write tool always raises,  *)
(* the others where a query of theirs fails or their output does not validate. *)
MayRaise == IF QueriesMayFail THEN Tools ELSE WriteTools

HandlerReturns(r) ==
    /\ gate[r].pc = "handler"
    /\ gate[r].tool \notin WriteTools
    /\ \E outcome \in {"success", "failed",     \* failed: EvidenceAdaptationError
                       "raised"} :              \* no evidence: RuntimeError
          gate' = [gate EXCEPT ![r].pc = "commit", ![r].status = outcome]
    /\ UNCHANGED <<now, counters, audit, admitted>>

(* Mutant: the retry loop has no end.                                         *)
RetriesForEver(r) ==
    /\ gate[r].pc = "handler"
    /\ gate' = [gate EXCEPT ![r].attempts = 1 - @]
    /\ UNCHANGED <<now, counters, audit, admitted>>

HandlerRaises(r) ==
    /\ gate[r].pc = "handler"
    /\ gate[r].tool \in MayRaise
    /\ gate' = IF gate[r].attempts >= MaxRetries[gate[r].tool]
               THEN [gate EXCEPT ![r].pc = "commit", ![r].status = "raised"]
               ELSE [gate EXCEPT ![r].attempts = @ + 1]
    /\ UNCHANGED <<now, counters, audit, admitted>>

(* Mutant: the transaction of a call that raised is rolled back.              *)
CommitsResultsOnly(r) ==
    /\ gate[r].pc = "commit"
    /\ gate' = [gate EXCEPT ![r].pc = "ended"]
    /\ audit' = IF gate[r].decision = "none" \/ gate[r].status = "raised" THEN audit
                ELSE [audit EXCEPT ![r] = Append(@, gate[r].decision)]
    /\ UNCHANGED <<now, counters, admitted>>

(* The session commits whether the gateway returned or raised.                *)
CommitCall(r) ==
    /\ gate[r].pc = "commit"
    /\ gate' = [gate EXCEPT ![r].pc = "ended"]
    /\ audit' = IF gate[r].decision = "none" THEN audit
                ELSE [audit EXCEPT ![r] = Append(@, gate[r].decision)]
    /\ UNCHANGED <<now, counters, admitted>>

(* A flush or the commit fails: the transaction is lost, the error propagates. *)
DatabaseFails(r) ==
    /\ gate[r].pc \in {"flush", "commit"}
    /\ gate' = [gate EXCEPT ![r].pc = "ended", ![r].decision = "none",
                            ![r].status = "raised"]
    /\ UNCHANGED <<now, counters, audit, admitted>>

GatewayStep(r) ==
    \/ DenyCall(r) \/ RefuseInput(r) \/ LimitCall(r) \/ AdmitCall(r)
    \/ FlushDecision(r)
    \/ HandlerReturns(r) \/ HandlerRaises(r)
    \/ CommitCall(r) \/ DatabaseFails(r)
=============================================================================
