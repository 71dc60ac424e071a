-------------------------- MODULE OperationsEvidence --------------------------
(* The read tools of operations query the tables, a result adapter turns what  *)
(* they return into evidence, the evidence is kept with the conversation, and  *)
(* a follow-up ("which of those is the most urgent?") is answered from it      *)
(* alone, without a tool and without a model.                                  *)
EXTENDS Naturals, Sequences, FiniteSets, SequencesExt

CONSTANTS
    SiteCodes, AnySite,         \* site codes; no site_code in the payload
    InitialRows,                \* the seeded rows of the three tables, by code
    Payloads,                   \* what the model asks for: site, status and limit
    EvidenceLimit,              \* limit of read_recent_evidence
    MaxSnapshots,               \* bound: snapshots of the conversation
    MaxStatusChanges            \* bound: status changes

Statuses == {"open", "in_progress", "pending", "completed", "cancelled"}
AnyStatus == "any"
ReadTools == {"get_work_orders", "get_asset_status", "get_maintenance_tickets",
              "get_spare_parts_availability", "get_production_schedule"}

(* priority is a free string. due counts half seconds, 0 where there is none. *)
Priorities == {"low", "medium", "high", "critical", "urgent"}
Row == [table : {"work_orders", "assets", "spare_parts"}, site : SiteCodes,
        status : Statuses, priority : Priorities, due : Nat, created : Nat]
Codes == DOMAIN InitialRows

ASSUME OperationsAssumption ==
    /\ AnySite \notin SiteCodes
    /\ Codes \subseteq Nat /\ IsFiniteSet(Codes)
    /\ InitialRows \in [Codes -> Row]
    /\ Payloads \subseteq [site : SiteCodes \cup {AnySite},
                            status : Statuses \cup {AnyStatus}, limit : 1 .. 100]
    /\ EvidenceLimit \in Nat \ {0} /\ MaxSnapshots \in Nat /\ MaxStatusChanges \in Nat

VARIABLES
    tables,             \* the rows, by code
    trail,              \* evidence snapshots of the conversation, oldest first
    reply,              \* what the last follow-up was answered
    statusChanges

operationsVars == <<tables, trail, reply, statusChanges>>

NoReply == [outcome |-> "none"]

OperationsInit ==
    /\ tables = InitialRows
    /\ trail = <<>> /\ reply = NoReply /\ statusChanges = 0

----------------------------------------------------------------------------
(* OperationsRepository: one SELECT per tool.                                 *)

TableOf(tool) ==
    CASE tool = "get_asset_status" -> "assets"
      [] tool = "get_spare_parts_availability" -> "spare_parts"
      [] OTHER -> "work_orders"

Matches(tool, payload, row) ==
    /\ row.table = TableOf(tool)
    /\ payload.site \in {AnySite, row.site}
    /\ tool = "get_work_orders" => payload.status \in {AnyStatus, row.status}
    /\ tool = "get_maintenance_tickets" => row.status \in {"open", "in_progress", "pending"}
    /\ tool = "get_production_schedule" => row.due # 0

Alphabetical ==
    [critical |-> 1, high |-> 2, low |-> 3, medium |-> 4, urgent |-> 5]

(* priority.desc() orders the strings: "critical" comes last.                 *)
MayPrecede(tool, c, d) ==
    LET a == tables[c]  b == tables[d] IN
    CASE tool = "get_work_orders" -> a.created >= b.created
      [] tool = "get_maintenance_tickets" ->
            \/ Alphabetical[a.priority] > Alphabetical[b.priority]
            \/ a.priority = b.priority /\ a.created >= b.created
      [] tool = "get_production_schedule" -> a.due <= b.due
      [] OTHER -> c <= d

(* Rows that tie come in any order.                                           *)
Orderings(tool, payload) ==
    {s \in SetToSeqs({c \in Codes : Matches(tool, payload, tables[c])}) :
        \A i, j \in DOMAIN s : i < j => MayPrecede(tool, s[i], s[j])}

(* get_asset_status has no limit.                                             *)
Results(tool, payload) ==
    {IF tool = "get_asset_status" \/ Len(s) <= payload.limit THEN s
     ELSE SubSeq(s, 1, payload.limit) : s \in Orderings(tool, payload)}

----------------------------------------------------------------------------
(* CollectionResultAdapter.to_evidence over the records of the result.        *)

(* Mutant: UTC is written "Z", as a datetime field of the output would be.    *)
DueTextWithZ(due) == [second |-> due \div 2, follows |-> IF due % 2 = 0 THEN 90 ELSE 46]

(* isoformat() of a UTC datetime, as the code of the character that follows   *)
(* the seconds: "+" of "+00:00", or "." where there are microseconds.         *)
DueText(due) == [second |-> due \div 2, follows |-> IF due % 2 = 0 THEN 43 ELSE 46]

SortedTexts(s) ==
    \A i \in 2 .. Len(s) :
        LET a == DueText(tables[s[i - 1]].due)  b == DueText(tables[s[i]].due) IN
        a.second < b.second \/ (a.second = b.second /\ a.follows <= b.follows)

FiltersAgree(tool, payload, row) ==
    /\ payload.site \in {AnySite, row.site}
    /\ tool = "get_work_orders" => payload.status \in {AnyStatus, row.status}

AdapterAccepts(tool, payload, s) ==
    /\ tool # "get_asset_status" => Len(s) <= payload.limit
    /\ \A i \in DOMAIN s : FiltersAgree(tool, payload, tables[s[i]])
    /\ tool = "get_production_schedule" =>
          SortedTexts(s) /\ \A i \in DOMAIN s : tables[s[i]].due # 0

(* The displayed fields that have a value, those a follow-up can ask for.      *)
FieldsShown(row) ==
    CASE row.table = "work_orders" /\ row.due # 0 -> {"priority", "due_at"}
      [] row.table = "work_orders" /\ row.due = 0 -> {"priority"}
      [] OTHER -> {}
Item(c) ==
    [code |-> c, fields |-> FieldsShown(tables[c]),
     priority |-> tables[c].priority, due |-> tables[c].due]

Collection(s) == [type |-> "collection", items |-> [i \in DOMAIN s |-> Item(s[i])]]
Failure == [type |-> "failure", items |-> <<>>]

----------------------------------------------------------------------------
Keeps(evidence) ==
    /\ Len(trail) < MaxSnapshots
    /\ trail' = Append(trail, evidence)

(* One agent run with a read tool; its evidence is kept with the exchange.    *)
(* Anything the adapter refuses becomes the failure "invalid_tool_result".    *)
AskTool(tool, payload) ==
    /\ \E s \in Results(tool, payload) :
          Keeps(IF AdapterAccepts(tool, payload, s) THEN Collection(s) ELSE Failure)
    /\ reply' = NoReply
    /\ UNCHANGED <<tables, statusChanges>>

(* _ALLOWED_TRANSITIONS.                                                      *)
NextStatuses(status) ==
    CASE status = "pending" -> {"open", "cancelled"}
      [] status = "open" -> {"in_progress", "cancelled"}
      [] status = "in_progress" -> {"open", "completed", "cancelled"}
      [] OTHER -> {}

(* Another client of the tables; the write tool of the assistant never gets   *)
(* that far (ApprovedChangesSucceed, run WriteFails).                         *)
StatusChanges(c) ==
    /\ statusChanges < MaxStatusChanges
    /\ tables[c].table = "work_orders"
    /\ statusChanges' = statusChanges + 1
    /\ \E s \in NextStatuses(tables[c].status) :
          tables' = [tables EXCEPT ![c].status = s]
    /\ UNCHANGED <<trail, reply>>

----------------------------------------------------------------------------
(* ReferenceResolver.resolve over read_recent_evidence, FieldQueryExecutor.   *)

NoOrdinal == 0
ReferenceRequests ==
    [field : {"due_at", "priority"}, operation : {"field", "maximum", "minimum"},
     ordinal : {NoOrdinal} \cup 1 .. 5]

RecentEvidence ==
    IF Len(trail) <= EvidenceLimit THEN trail
    ELSE SubSeq(trail, Len(trail) - EvidenceLimit + 1, Len(trail))

(* Mutant: the snapshots are walked from the oldest one.                      *)
OldestCollection(i) ==
    /\ RecentEvidence[i].items # <<>>
    /\ \A j \in 1 .. i - 1 : RecentEvidence[j].items = <<>>

(* An empty result is passed over for an older one.                           *)
IsLatestCollection(i) ==
    /\ RecentEvidence[i].items # <<>>
    /\ \A j \in i + 1 .. Len(RecentEvidence) : RecentEvidence[j].items = <<>>

(* The positions asked for; a reply has its items in their order.             *)
Selected(items, ordinal) ==
    IF ordinal = NoOrdinal THEN DOMAIN items ELSE {ordinal} \cap DOMAIN items

(* MappingValueRanker: what it does not know has no rank.                     *)
Ranks == [low |-> 1, medium |-> 2, high |-> 3, critical |-> 4]
Ranked(item) == "priority" \in item.fields /\ item.priority \in DOMAIN Ranks
HasRanker(field) == field = "priority"

(* All the items that tie for the target.                                     *)
Best(items, positions, operation) ==
    LET ranked == {k \in positions : Ranked(items[k])}
        Rank(k) == Ranks[items[k].priority]
    IN  {k \in ranked : \A j \in ranked :
            IF operation = "maximum" THEN Rank(j) <= Rank(k) ELSE Rank(k) <= Rank(j)}

Chosen(items, request) ==
    LET positions == Selected(items, request.ordinal) IN
    CASE request.operation = "field" -> positions
      [] request.operation # "field" /\ HasRanker(request.field) ->
            Best(items, positions, request.operation)
      [] OTHER -> {}

FieldStatus(items, field) ==
    CASE \A item \in items : field \in item.fields -> "complete"
      [] \A item \in items : field \notin item.fields -> "empty"
      [] OTHER -> "partial"

(* Only a resolved reference is answered here; the rest goes to the agent.    *)
FollowUp(request) ==
    /\ \E i \in DOMAIN RecentEvidence :
          /\ IsLatestCollection(i)
          /\ LET items == RecentEvidence[i].items
                 chosen == {items[k] : k \in Chosen(items, request)}
             IN
             /\ chosen # {}
             /\ reply' = [outcome |-> "resolved", request |-> request, items |-> chosen,
                          status |-> FieldStatus(chosen, request.field)]
    /\ UNCHANGED <<tables, trail, statusChanges>>

OperationsNext ==
    \/ \E tool \in ReadTools, payload \in Payloads : AskTool(tool, payload)
    \/ \E c \in Codes : StatusChanges(c)
    \/ \E request \in ReferenceRequests : FollowUp(request)

OperationsSpec == OperationsInit /\ [][OperationsNext]_operationsVars

----------------------------------------------------------------------------
(* What the repository returns is always what the adapter asks of it: filters *)
(* and limit are honoured, and the schedule's timestamps are in order as the  *)
(* texts they are written as. No read ends as "invalid_tool_result".          *)
ToolResultsAdapt == \A i \in DOMAIN trail : trail[i].type # "failure"

(* An answer without a tool is about the newest result with anything in it,   *)
(* among the newest EvidenceLimit snapshots; the most (least) urgent are all  *)
(* of the items no other one outranks; and an answer that calls itself        *)
(* complete leaves out none of the items it is about.                         *)
FollowUpsQuoteTheLatestResult ==
    reply.outcome = "resolved" =>
        \E i \in DOMAIN trail :
            LET shown == ToSet(trail[i].items)
                quoted == reply.items
                Outranks(a, b) ==
                    IF reply.request.operation = "maximum"
                    THEN Ranks[a.priority] > Ranks[b.priority]
                    ELSE Ranks[a.priority] < Ranks[b.priority]
            IN
            /\ Len(trail) - i < EvidenceLimit
            /\ \A j \in i + 1 .. Len(trail) : trail[j].items = <<>>
            /\ quoted # {} /\ quoted \subseteq shown
            /\ reply.request.ordinal # NoOrdinal =>
                  quoted = {trail[i].items[reply.request.ordinal]}
            /\ reply.request.ordinal = NoOrdinal /\ reply.request.operation = "field" =>
                  quoted = shown
            /\ reply.request.ordinal = NoOrdinal /\ reply.request.operation # "field" =>
                  quoted = {a \in shown : Ranked(a) /\
                               ~\E b \in shown : Ranked(b) /\ Outranks(b, a)}
            /\ reply.status = "complete" =>
                  \A item \in quoted : reply.request.field \in item.fields
=============================================================================
