------------------------- MODULE ApplicationContainer -------------------------
(* A process from its settings to its exit: Settings() validates what it reads, *)
(* Container.build wires the modules and lists the managed resources,           *)
(* Container.start starts them in that order and rolls back when one fails,     *)
(* Container.close stops them in reverse and disposes of the engine last.       *)
(*                                                                              *)
(* Settings are the set of what is switched on and of the credentials present;  *)
(* the environment is local unless "production" or "staging" (or test) is there. *)
EXTENDS Naturals, Sequences

CONSTANTS
    SettingsRead,               \* what the environment may say
    MaxContainerFaults          \* bound: failing starts and stops, dying tasks

Features ==
    {"production", "staging", "auth_bypass", "sqlite", "smoke", "checkpointing",
     "blob", "kafka", "outbox", "ingestion", "overlap_fills_chunk",
     "long_term", "consolidation",
     "chat_key", "embedding_key", "pinecone_key", "connection_string"}

ASSUME ContainerAssumption ==
    /\ SettingsRead \subseteq SUBSET Features
    /\ MaxContainerFaults \in Nat

VARIABLES
    phase,              \* how far the process is
    settings,
    resources,          \* _resources
    started,            \* _started_resources
    running,            \* the started ones that work: a task may have ended
    engineOpen,
    containerFaults

containerVars == <<phase, settings, resources, started, running, engineOpen, containerFaults>>

(* Mutant: the document tasks are listed before the storage they read.        *)
StorageLast ==
    <<"checkpointer", "orchestrator", "short_term_retention", "vector_sync",
      "reconciliation", "memory_retention", "consolidation",
      "outbox_publisher", "document_ingestion", "blob_storage">>

BuildOrder ==
    <<"checkpointer", "orchestrator", "short_term_retention", "vector_sync",
      "reconciliation", "memory_retention", "consolidation",
      "blob_storage", "outbox_publisher", "document_ingestion">>

AllResources ==
    {"checkpointer", "orchestrator", "short_term_retention", "vector_sync",
     "reconciliation", "memory_retention", "consolidation",
     "blob_storage", "outbox_publisher", "document_ingestion"}
Passive == {"checkpointer", "orchestrator", "blob_storage"}
Tasks == AllResources \ Passive

(* What a resource calls that is itself a managed resource.                   *)
Uses(r) ==
    CASE r \in {"orchestrator", "short_term_retention"} -> {"checkpointer"}
      [] r = "document_ingestion" -> {"blob_storage"}
      [] OTHER -> {}

ContainerTypeOK ==
    /\ phase \in {"reading", "rejected", "loaded", "build_failed", "built", "starting",
                  "rolling_back", "start_failed", "serving", "closing", "closed"}
    /\ settings \in SUBSET Features
    /\ resources \in SUBSET AllResources
    /\ started \in SUBSET resources /\ running \in SUBSET started
    /\ engineOpen \in BOOLEAN
    /\ containerFaults \in 0 .. MaxContainerFaults

ContainerInit ==
    /\ phase = "reading" /\ settings \in SettingsRead
    /\ resources = {} /\ started = {} /\ running = {}
    /\ engineOpen = FALSE /\ containerFaults = 0

----------------------------------------------------------------------------
(* The model validators of Settings.                                          *)

RefusesDatabase(s) ==
    \/ "production" \in s /\ "sqlite" \in s
    \/ "checkpointing" \in s /\ "sqlite" \in s
RefusesSmoke(s) == "smoke" \in s /\ ~({"chat_key", "embedding_key"} \subseteq s)
RefusesDocuments(s) ==
    \/ "blob" \in s /\ "connection_string" \notin s
    \/ "outbox" \in s /\ "kafka" \notin s
    \/ "ingestion" \in s /\ (~({"blob", "long_term"} \subseteq s) \/ "overlap_fills_chunk" \in s)

(* Mutant: only the key of the index is asked for.                            *)
EmbeddingKeyUnchecked(s) ==
    /\ "long_term" \in s
    /\ \/ "pinecone_key" \notin s
       \/ "consolidation" \in s /\ "chat_key" \notin s

RefusesLongTerm(s) ==
    /\ "long_term" \in s
    /\ \/ ~({"pinecone_key", "embedding_key"} \subseteq s)
       \/ "consolidation" \in s /\ "chat_key" \notin s
RefusesBypass(s) == "auth_bypass" \in s /\ s \cap {"production", "staging"} # {}

Valid(s) ==
    ~(RefusesDatabase(s) \/ RefusesSmoke(s) \/ RefusesDocuments(s)
        \/ RefusesLongTerm(s) \/ RefusesBypass(s))

LoadSettings ==
    /\ phase = "reading"
    /\ phase' = IF Valid(settings) THEN "loaded" ELSE "rejected"
    /\ UNCHANGED <<settings, resources, started, running, engineOpen, containerFaults>>

----------------------------------------------------------------------------
(* Container.build.                                                           *)

HasAssistant(s) == "chat_key" \in s
(* The retention job is given the checkpointer with or without an assistant;  *)
(* it is a managed resource only with one.                                    *)
AssistantResources(s) ==
    IF ~HasAssistant(s) THEN {}
    ELSE {"orchestrator"} \cup (IF "checkpointing" \in s THEN {"checkpointer"} ELSE {})
MemoryResources(s) ==
    IF "long_term" \notin s THEN {}
    ELSE {"vector_sync", "reconciliation", "memory_retention"} \cup
         (IF "consolidation" \in s /\ "chat_key" \in s THEN {"consolidation"} ELSE {})
(* Without blob storage there is no documents module, and no publisher.       *)
DocumentResources(s) ==
    IF "blob" \notin s THEN {}
    ELSE {"blob_storage"} \cup (IF "outbox" \in s THEN {"outbox_publisher"} ELSE {})
                          \cup (IF "ingestion" \in s THEN {"document_ingestion"} ELSE {})

ResourcesOf(s) ==
    AssistantResources(s) \cup {"short_term_retention"} \cup MemoryResources(s)
        \cup DocumentResources(s)

(* The RuntimeErrors of the builders and PostgresCheckpointer's ValueError.   *)
BuildRaises(s) ==
    \/ "blob" \in s /\ "connection_string" \notin s
    \/ "checkpointing" \in s /\ "sqlite" \in s
    \/ "long_term" \in s /\ ~({"pinecone_key", "embedding_key"} \subseteq s)

(* The settings are not looked at again: they are forgotten here.             *)
Build ==
    /\ phase = "loaded"
    /\ engineOpen' = TRUE
    /\ IF BuildRaises(settings)
       THEN phase' = "build_failed" /\ UNCHANGED <<settings, resources>>
       ELSE phase' = "built" /\ resources' = ResourcesOf(settings) /\ settings' = {}
    /\ UNCHANGED <<started, running, containerFaults>>

----------------------------------------------------------------------------
(* Container.start and Container.close.                                       *)

Precedes(a, b) ==
    \E i, j \in DOMAIN BuildOrder : i < j /\ BuildOrder[i] = a /\ BuildOrder[j] = b
NextToStart(r) ==
    /\ r \in resources \ started
    /\ \A other \in resources \ started : other = r \/ Precedes(r, other)
NextToStop(r) == r \in started /\ \A other \in started : other = r \/ Precedes(other, r)
ContainerFault ==
    containerFaults < MaxContainerFaults /\ containerFaults' = containerFaults + 1

StartNext(r) ==
    /\ phase \in {"built", "starting"} /\ NextToStart(r)
    /\ started' = started \cup {r} /\ running' = running \cup {r}
    /\ phase' = IF started' = resources THEN "serving" ELSE "starting"
    /\ UNCHANGED <<settings, resources, engineOpen, containerFaults>>

(* A start that raises, or a start that is cancelled.                         *)
StartFails ==
    /\ phase \in {"built", "starting"}
    /\ ContainerFault
    /\ phase' = IF started = {} THEN "start_failed" ELSE "rolling_back"
    /\ UNCHANGED <<settings, resources, started, running, engineOpen>>

(* A stop that raises is collected, and the next one is stopped all the same. *)
Stops(r) ==
    /\ NextToStop(r)
    /\ started' = started \ {r} /\ running' = running \ {r}
    /\ UNCHANGED <<settings, resources, engineOpen, containerFaults>>

RollBackNext(r) ==
    /\ phase = "rolling_back"
    /\ Stops(r)
    /\ phase' = IF started' = {} THEN "start_failed" ELSE "rolling_back"

(* A task without a handler of its own ends with its first error.             *)
TaskDies(r) ==
    /\ r \in running \cap Tasks
    /\ ContainerFault
    /\ running' = running \ {r}
    /\ UNCHANGED <<phase, settings, resources, started, engineOpen>>

(* The lifespan's finally: after serving, and after a failed start as well.   *)
ShutDown ==
    /\ phase \in {"serving", "start_failed"}
    /\ phase' = "closing"
    /\ UNCHANGED <<settings, resources, started, running, engineOpen, containerFaults>>

CloseNext(r) ==
    /\ phase = "closing"
    /\ Stops(r)
    /\ UNCHANGED phase

DisposeEngine ==
    /\ phase = "closing" /\ started = {}
    /\ engineOpen' = FALSE /\ phase' = "closed"
    /\ UNCHANGED <<settings, resources, started, running, containerFaults>>

ContainerNext ==
    \/ LoadSettings \/ Build \/ StartFails \/ ShutDown \/ DisposeEngine
    \/ \E r \in AllResources :
          StartNext(r) \/ RollBackNext(r) \/ TaskDies(r) \/ CloseNext(r)

ContainerSpec == ContainerInit /\ [][ContainerNext]_containerVars

----------------------------------------------------------------------------
(* Settings that pass validation can always be built: the builders' checks of *)
(* credentials are never what stops the application.                          *)
ValidSettingsBuild == phase # "build_failed"

(* While a resource works, the database engine and every managed resource it  *)
(* calls work too, also while a failed start is rolled back; nothing is left  *)
(* running by a failed start, nor by a container that has closed.             *)
UsersStopFirst ==
    /\ \A r \in running : engineOpen /\ Uses(r) \cap resources \subseteq running
    /\ phase \in {"start_failed", "closed"} => started = {} /\ running = {}
    /\ phase = "closed" => ~engineOpen
=============================================================================
