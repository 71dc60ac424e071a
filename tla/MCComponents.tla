----------------------------- MODULE MCComponents -----------------------------
(* The components that share no state with the rest of the assistant or with   *)
(* each other, on small instances: a behaviour is one of one of them, and the  *)
(* other six stay where they begin.                                            *)
EXTENDS InMemoryConversationStore, DocumentPipeline, ApplicationContainer,
        MCContextAssembly, OperationsEvidence, UserDirectory, MCAssistantAgent

CONSTANTS u1, u2, k1, lower, upper, short, long

Upload(key, readable, n) ==
    [key |-> key, text |-> [readable |-> readable, chunks |-> n]]
MCRequests ==
    {u1 :> Upload(k1, TRUE, 1) @@ u2 :> Upload(k1, TRUE, 0),
     u1 :> Upload(NoKey, TRUE, 2) @@ u2 :> Upload(NoKey, FALSE, 0)}

(* One switch at a time of those that only validation looks at, the bypass in *)
(* each environment, and at most one credential missing or all of them.       *)
Credentials == {"chat_key", "embedding_key", "pinecone_key", "connection_string"}
MCSettingsRead ==
    {s \in SUBSET Features :
        /\ s \cap {"production", "staging", "auth_bypass", "smoke", "overlap_fills_chunk"} \in
              {{}, {"production"}, {"staging", "auth_bypass"}, {"production", "auth_bypass"},
               {"auth_bypass"}, {"smoke"}, {"overlap_fills_chunk"}}
        /\ Cardinality(Credentials \ s) \in {0, 1, 4}
        /\ "kafka" \in s => "outbox" \in s
        /\ "consolidation" \in s => "long_term" \in s}

WorkOrder(site, state, priority, due, created) ==
    [table |-> "work_orders", site |-> site, status |-> state, priority |-> priority,
     due |-> due, created |-> created]
Other(table, site) == [WorkOrder(site, "open", "low", 0, 1) EXCEPT !.table = table]
MCInitialRows ==
    1 :> WorkOrder("north", "open", "high", 3, 1)
    @@ 2 :> WorkOrder("north", "pending", "urgent", 2, 2)
    @@ 3 :> WorkOrder("south", "open", "high", 0, 2)
    @@ 4 :> Other("assets", "south")
    @@ 5 :> Other("spare_parts", "north")
MCPayloads ==
    {[site |-> AnySite, status |-> AnyStatus, limit |-> 2],
     [site |-> "south", status |-> "completed", limit |-> 3]}

MCLowerTrim == lower :> lower @@ upper :> lower
Imported(email, name, state, created, updated, login, deactivated) ==
    [email |-> email, name |-> name, status |-> state, created |-> created,
     updated |-> updated, verified |-> updated, login |-> login,
     deactivated |-> deactivated]
MCImportedRows ==
    short :> Imported(lower, 3, "active", 1, 0, Never, 1)
    @@ long :> Imported(upper, 101, "suspended", 1, 1, 0, Never)

(* All checks, as of the clock's now; two of them, as of a time that the       *)
(* caller gives.                                                              *)
MCAuditRequests ==
    {[checks |-> {}, limit |-> 0, now |-> Never],
     [checks |-> {"created_at_in_future", "duplicate_normalized_email"}, limit |-> 501,
      now |-> EarliestTime]}

----------------------------------------------------------------------------
VARIABLE component

Components ==
    {"memory", "documents", "container", "context", "operations", "directory", "agent"}

(* What does not run begins in one of its initial states only; each is        *)
(* settled before the next one's are enumerated.                              *)
ComponentsInit ==
    /\ component \in Components
    /\ InMemoryInit
    /\ PipelineInit
    /\ component # "documents" => \A u \in Uploads : upload[u].key = NoKey
    /\ ContextInit
    /\ component # "context" => mayReadDocuments
    /\ OperationsInit
    /\ DirectoryInit
    /\ component # "directory" => users = {}
    /\ Init
    /\ component # "agent" => \A r \in Runs :
                               run[r] = NewRun(CHOOSE request \in RequestsOf[r] : TRUE)
    /\ ContainerInit
    /\ component # "container" => settings = {}

MemoryRuns ==
    /\ component = "memory" /\ InMemoryNext
    /\ UNCHANGED <<component, pipelineVars, containerVars, contextVars, operationsVars,
                   directoryVars, vars>>
DocumentsRun ==
    /\ component = "documents" /\ PipelineNext
    /\ UNCHANGED <<component, inMemoryVars, containerVars, contextVars, operationsVars,
                   directoryVars, vars>>
ContainerRuns ==
    /\ component = "container" /\ ContainerNext
    /\ UNCHANGED <<component, inMemoryVars, pipelineVars, contextVars, operationsVars,
                   directoryVars, vars>>
ContextRuns ==
    /\ component = "context" /\ ContextNext
    /\ UNCHANGED <<component, inMemoryVars, pipelineVars, containerVars, operationsVars,
                   directoryVars, vars>>
OperationsRun ==
    /\ component = "operations" /\ OperationsNext
    /\ UNCHANGED <<component, inMemoryVars, pipelineVars, containerVars, contextVars,
                   directoryVars, vars>>
DirectoryRuns ==
    /\ component = "directory" /\ DirectoryNext
    /\ UNCHANGED <<component, inMemoryVars, pipelineVars, containerVars, contextVars,
                   operationsVars, vars>>
AgentRuns ==
    /\ component = "agent" /\ Next
    /\ UNCHANGED <<component, inMemoryVars, pipelineVars, containerVars, contextVars,
                   operationsVars, directoryVars>>

ComponentsNext ==
    MemoryRuns \/ DocumentsRun \/ ContainerRuns \/ ContextRuns \/ OperationsRun
        \/ DirectoryRuns \/ AgentRuns

(* PipelineFairness and Fairness: what does not run has nothing to do, and its *)
(* fairness asks nothing.                                                     *)
ComponentsFairness ==
    /\ \A p \in Publishers : WF_pipelineVars(component = "documents" /\ PublisherStep(p))
    /\ \A i \in Ingesters : WF_pipelineVars(component = "documents" /\ IngesterStep(i))
    /\ \A r \in Runs :
          WF_vars(/\ component = "agent"
                  /\ RunStep(r) \/ (GatewayStep(r) /\ UNCHANGED run))

ComponentsSpec ==
    /\ ComponentsInit
    /\ [][ComponentsNext]_<<component, inMemoryVars, pipelineVars, containerVars,
                            contextVars, operationsVars, directoryVars, vars>>
    /\ ComponentsFairness
=============================================================================
