--------------------------- MODULE DocumentPipeline ---------------------------
(* Uploads store a blob and then, in one transaction, a document and an        *)
(* outbox row. Two kinds of background tasks work the outbox off under row     *)
(* locks (FOR UPDATE SKIP LOCKED): a publisher sends the row's event to Kafka, *)
(* an ingester turns the blob into chunks of long-term memory. Each chunk      *)
(* commits in a transaction of its own, before the task's transaction does.    *)
EXTENDS Naturals, FiniteSets

CONSTANTS
    Uploads,                    \* calls of UploadDocument.execute
    Keys, NoKey,                \* idempotency keys of the clients
    Requests,                   \* what the uploads may bring: keys and texts
    Publishers, Ingesters,      \* background tasks, one of each per process
    BatchSize,                  \* outbox_publish_batch_size, document_ingestion_batch_size
    MaxPublishRetries,          \* outbox_max_retries
    MaxChunksPerText,           \* bound: chunks of a document's text
    MaxPipelineFaults           \* bound: failures, kills and lost connections

Texts == [readable : {TRUE}, chunks : 0 .. MaxChunksPerText]
            \cup {[readable |-> FALSE, chunks |-> 0]}
ChunksIn(text) == 1 .. text.chunks

ASSUME PipelineAssumption ==
    /\ NoKey \notin Keys
    /\ Requests \subseteq [Uploads -> [key : Keys \cup {NoKey}, text : Texts]]
    /\ IsFiniteSet(Uploads)
    /\ BatchSize \in Nat \ {0} /\ MaxPublishRetries \in Nat
    /\ MaxChunksPerText \in Nat /\ MaxPipelineFaults \in Nat

VARIABLES
    upload,             \* per upload: its progress, idempotency key and text
    blobs,              \* uploads whose bytes are in the blob container
    status,             \* documents.status; "none" where there is no row
    outbox,             \* the rows of outbox, by id
    topic,              \* per document: how often its event is on the topic
    chunks,             \* per document and chunk: rows of long-term memory
    publisher, ingester,
    pipelineFaults

pipelineVars == <<upload, blobs, status, outbox, topic, chunks, publisher, ingester,
                  pipelineFaults>>

RowIds == 1 .. Cardinality(Uploads)
ChunkIds == 1 .. MaxChunksPerText
UploadLocal == [pc : {"new", "stored", "checked", "created", "refused", "failed"},
                key : Keys \cup {NoKey}, text : Texts]
OutboxRow == [document : Uploads, retries : 0 .. MaxPublishRetries,
              published : BOOLEAN, ingested : BOOLEAN]
PublisherLocal == [pc : {"idle", "publishing", "dead"},
                   batch : SUBSET RowIds, sent : SUBSET RowIds, raised : SUBSET RowIds]
IdlePublisher == [pc |-> "idle", batch |-> {}, sent |-> {}, raised |-> {}]
IngesterLocal == [pc : {"idle", "opening", "chunking", "dead"},
                  batch : SUBSET RowIds, done : SUBSET RowIds,
                  left : SUBSET ChunkIds, connected : BOOLEAN]
IdleIngester == [pc |-> "idle", batch |-> {}, done |-> {}, left |-> {}, connected |-> TRUE]

(* A chunk can be recorded again only by a task that failed in between.       *)
PipelineTypeOK ==
    /\ upload \in [Uploads -> UploadLocal]
    /\ blobs \in SUBSET Uploads
    /\ status \in [Uploads -> {"none", "queued", "indexed", "failed"}]
    /\ DOMAIN outbox \subseteq RowIds
    /\ \A r \in DOMAIN outbox : outbox[r] \in OutboxRow
    /\ topic \in [Uploads -> 0 .. 1 + pipelineFaults]
    /\ chunks \in [Uploads -> [ChunkIds -> 0 .. 1 + pipelineFaults]]
    /\ publisher \in [Publishers -> PublisherLocal]
    /\ ingester \in [Ingesters -> IngesterLocal]
    /\ pipelineFaults \in 0 .. MaxPipelineFaults

PipelineInit ==
    /\ \E brought \in Requests :
          upload = [u \in Uploads |->
              [pc |-> "new", key |-> brought[u].key, text |-> brought[u].text]]
    /\ blobs = {} /\ status = [u \in Uploads |-> "none"]
    /\ outbox = [r \in {} |-> {}]
    /\ topic = [u \in Uploads |-> 0]
    /\ chunks = [u \in Uploads |-> [k \in ChunkIds |-> 0]]
    /\ publisher = [p \in Publishers |-> IdlePublisher]
    /\ ingester = [i \in Ingesters |-> IdleIngester]
    /\ pipelineFaults = 0

Fault == pipelineFaults < MaxPipelineFaults /\ pipelineFaults' = pipelineFaults + 1

Documents == {u \in Uploads : status[u] # "none"}
KeyTaken(key) == key # NoKey /\ \E d \in Documents : upload[d].key = key
MovesUpload(u, pc) == upload' = [upload EXCEPT ![u].pc = pc]

----------------------------------------------------------------------------
(* UploadDocument.execute.                                                    *)

(* StorageUploadFailedError, after or before the bytes arrived.               *)
BlobUploadFails(u) ==
    /\ upload[u].pc = "new"
    /\ Fault
    /\ blobs' \in {blobs, blobs \cup {u}}
    /\ MovesUpload(u, "failed")
    /\ UNCHANGED <<status, outbox, topic, chunks, publisher, ingester>>

StoreBlob(u) ==
    /\ upload[u].pc = "new"
    /\ blobs' = blobs \cup {u}
    /\ MovesUpload(u, "stored")
    /\ UNCHANGED <<status, outbox, topic, chunks, publisher, ingester, pipelineFaults>>

(* get_by_idempotency_key; DocumentAlreadyExistsError leaves the blob.        *)
CheckKey(u) ==
    /\ upload[u].pc = "stored"
    /\ MovesUpload(u, IF KeyTaken(upload[u].key) THEN "refused" ELSE "checked")
    /\ UNCHANGED <<blobs, status, outbox, topic, chunks, publisher, ingester, pipelineFaults>>

NextRowId == Cardinality(DOMAIN outbox) + 1
NewOutboxRow(u) == [document |-> u, retries |-> 0, published |-> FALSE, ingested |-> FALSE]

(* The unique index on idempotency_key refuses what was checked too early.    *)
CommitUpload(u) ==
    /\ upload[u].pc = "checked"
    /\ IF KeyTaken(upload[u].key)
       THEN MovesUpload(u, "failed") /\ UNCHANGED <<status, outbox>>
       ELSE /\ MovesUpload(u, "created")
            /\ status' = [status EXCEPT ![u] = "queued"]
            /\ outbox' = [r \in DOMAIN outbox \cup {NextRowId} |->
                             IF r = NextRowId THEN NewOutboxRow(u) ELSE outbox[r]]
    /\ UNCHANGED <<blobs, topic, chunks, publisher, ingester, pipelineFaults>>

UploadStep(u) ==
    BlobUploadFails(u) \/ StoreBlob(u) \/ CheckKey(u) \/ CommitUpload(u)

----------------------------------------------------------------------------
(* with_for_update(skip_locked=True) over the lowest ids, LIMIT BatchSize. The *)
(* locks go with the connection.                                              *)

LockedRows == UNION ({publisher[p].batch : p \in Publishers} \cup
                     {ingester[i].batch : i \in {j \in Ingesters : ingester[j].connected}})
Lowest(rows) ==
    {r \in rows : Cardinality({q \in rows : q < r}) < BatchSize}

ToPublish == {r \in DOMAIN outbox \ LockedRows :
                 ~outbox[r].published /\ outbox[r].retries < MaxPublishRetries}

(* OutboxPublisher._publish_batch: rows in id order, one transaction.         *)
PollOutbox(p) ==
    /\ publisher[p].pc = "idle"
    /\ ToPublish # {}
    /\ publisher' = [publisher EXCEPT ![p] =
          [IdlePublisher EXCEPT !.pc = "publishing", !.batch = Lowest(ToPublish)]]
    /\ UNCHANGED <<upload, blobs, status, outbox, topic, chunks, ingester, pipelineFaults>>

Unsent(p) == publisher[p].batch \ (publisher[p].sent \cup publisher[p].raised)
First(rows) == CHOOSE r \in rows : \A q \in rows : r <= q

PublishNext(p) ==
    /\ publisher[p].pc = "publishing" /\ Unsent(p) # {}
    /\ topic' = [topic EXCEPT ![outbox[First(Unsent(p))].document] = @ + 1]
    /\ publisher' = [publisher EXCEPT ![p].sent = @ \cup {First(Unsent(p))}]
    /\ UNCHANGED <<upload, blobs, status, outbox, chunks, ingester, pipelineFaults>>

(* "kafka delivery failed": the event may have arrived all the same.          *)
PublishRaises(p) ==
    /\ publisher[p].pc = "publishing" /\ Unsent(p) # {}
    /\ Fault
    /\ \E more \in {0, 1} :
          topic' = [topic EXCEPT ![outbox[First(Unsent(p))].document] = @ + more]
    /\ publisher' = [publisher EXCEPT ![p].raised = @ \cup {First(Unsent(p))}]
    /\ UNCHANGED <<upload, blobs, status, outbox, chunks, ingester>>

CommitPublished(p) ==
    /\ publisher[p].pc = "publishing" /\ Unsent(p) = {}
    /\ outbox' = [r \in DOMAIN outbox |->
          [outbox[r] EXCEPT
              !.published = @ \/ r \in publisher[p].sent,
              !.retries = IF r \in publisher[p].raised THEN @ + 1 ELSE @]]
    /\ publisher' = [publisher EXCEPT ![p] = IdlePublisher]
    /\ UNCHANGED <<upload, blobs, status, topic, chunks, ingester, pipelineFaults>>

(* A database error has no handler and ends the task; so does a kill. The     *)
(* transaction rolls back, what was sent stays sent.                          *)
PublisherDies(p) ==
    /\ publisher[p].pc = "publishing"
    /\ Fault
    /\ publisher' = [publisher EXCEPT ![p] = [IdlePublisher EXCEPT !.pc = "dead"]]
    /\ UNCHANGED <<upload, blobs, status, outbox, topic, chunks, ingester>>

(* The next process starts its own task.                                      *)
RestartPublisher(p) ==
    /\ publisher[p].pc = "dead"
    /\ publisher' = [publisher EXCEPT ![p] = IdlePublisher]
    /\ UNCHANGED <<upload, blobs, status, outbox, topic, chunks, ingester, pipelineFaults>>

PublisherStep(p) == PollOutbox(p) \/ PublishNext(p) \/ CommitPublished(p)

----------------------------------------------------------------------------
(* DocumentIngestionConsumer.ingest_once: rows in id order, one transaction.  *)

(* Mutant: the rows are read without FOR UPDATE.                              *)
ReadsLockedRows == {r \in DOMAIN outbox : ~outbox[r].ingested}

ToIngest == {r \in DOMAIN outbox \ LockedRows : ~outbox[r].ingested}

PollEvents(i) ==
    /\ ingester[i].pc = "idle"
    /\ ToIngest # {}
    /\ ingester' = [ingester EXCEPT ![i] =
          [IdleIngester EXCEPT !.pc = "opening", !.batch = Lowest(ToIngest)]]
    /\ UNCHANGED <<upload, blobs, status, outbox, topic, chunks, publisher, pipelineFaults>>

Undone(i) == ingester[i].batch \ ingester[i].done
Current(i) == outbox[First(Undone(i))].document

(* session.get, download, extract. A document row is never deleted, so it is  *)
(* found. A TextExtractionError marks the document failed and goes on.        *)
OpenDocument(i) ==
    /\ ingester[i].pc = "opening" /\ ingester[i].connected /\ Undone(i) # {}
    /\ Current(i) \in blobs
    /\ ingester' = [ingester EXCEPT ![i] =
          IF ~upload[Current(i)].text.readable
          THEN [ingester[i] EXCEPT !.done = @ \cup {First(Undone(i))}]
          ELSE [ingester[i] EXCEPT !.pc = "chunking",
                                   !.left = ChunksIn(upload[Current(i)].text)]]
    /\ UNCHANGED <<upload, blobs, status, outbox, topic, chunks, publisher, pipelineFaults>>

(* memory_store.record opens a session of its own and commits it.             *)
RecordChunk(i) ==
    /\ ingester[i].pc = "chunking" /\ ingester[i].left # {}
    /\ chunks' = [chunks EXCEPT ![Current(i)][First(ingester[i].left)] = @ + 1]
    /\ ingester' = [ingester EXCEPT ![i].left = @ \ {First(@)}]
    /\ UNCHANGED <<upload, blobs, status, outbox, topic, publisher, pipelineFaults>>

(* Mutant: the last chunk is not waited for.                                  *)
FinishesOneEarly(i) ==
    /\ ingester[i].pc = "chunking" /\ Cardinality(ingester[i].left) <= 1
    /\ ingester' = [ingester EXCEPT ![i] =
          [ingester[i] EXCEPT !.pc = "opening", !.left = {},
                              !.done = @ \cup {First(Undone(i))}]]
    /\ UNCHANGED <<upload, blobs, status, outbox, topic, chunks, publisher, pipelineFaults>>

FinishDocument(i) ==
    /\ ingester[i].pc = "chunking" /\ ingester[i].left = {}
    /\ ingester' = [ingester EXCEPT ![i] =
          [ingester[i] EXCEPT !.pc = "opening", !.done = @ \cup {First(Undone(i))}]]
    /\ UNCHANGED <<upload, blobs, status, outbox, topic, chunks, publisher, pipelineFaults>>

IngestedBy(i) == {outbox[r].document : r \in ingester[i].batch}
Outcome(u) == IF upload[u].text.readable THEN "indexed" ELSE "failed"

(* Mutant: the branch of the unreadable text does not set ingested_at.        *)
LeavesFailedPending(i) ==
    /\ ingester[i].pc = "opening" /\ ingester[i].connected /\ Undone(i) = {}
    /\ status' = [u \in Uploads |-> IF u \in IngestedBy(i) THEN Outcome(u) ELSE status[u]]
    /\ outbox' = [r \in DOMAIN outbox |->
          [outbox[r] EXCEPT !.ingested =
              @ \/ (r \in ingester[i].batch /\ Outcome(outbox[r].document) = "indexed")]]
    /\ ingester' = [ingester EXCEPT ![i] = IdleIngester]
    /\ UNCHANGED <<upload, blobs, topic, chunks, publisher, pipelineFaults>>

(* The statuses and the ingested_at stamps of the batch commit together;      *)
(* "ingesting" is only ever a pending value of this transaction.              *)
CommitIngested(i) ==
    /\ ingester[i].pc = "opening" /\ ingester[i].connected /\ Undone(i) = {}
    /\ status' = [u \in Uploads |-> IF u \in IngestedBy(i) THEN Outcome(u) ELSE status[u]]
    /\ outbox' = [r \in DOMAIN outbox |->
          [outbox[r] EXCEPT !.ingested = @ \/ r \in ingester[i].batch]]
    /\ ingester' = [ingester EXCEPT ![i] = IdleIngester]
    /\ UNCHANGED <<upload, blobs, topic, chunks, publisher, pipelineFaults>>

IngesterStops(i) ==
    /\ ingester' = [ingester EXCEPT ![i] = [IdleIngester EXCEPT !.pc = "dead"]]
    /\ UNCHANGED <<upload, blobs, status, outbox, topic, chunks, publisher>>

(* Whatever is not a TextExtractionError (a failed download, a database       *)
(* error) has no handler and ends the task; so does a kill.                   *)
IngesterDies(i) ==
    /\ ingester[i].pc \in {"opening", "chunking"}
    /\ Fault
    /\ IngesterStops(i)

(* PostgreSQL drops the connection, and the row locks with it; the task finds *)
(* out at its next statement, which is not before the document's last chunk.  *)
ConnectionLost(i) ==
    /\ ingester[i].pc \in {"opening", "chunking"} /\ ingester[i].connected
    /\ Fault
    /\ ingester' = [ingester EXCEPT ![i].connected = FALSE]
    /\ UNCHANGED <<upload, blobs, status, outbox, topic, chunks, publisher>>

NoticeLostConnection(i) ==
    /\ ingester[i].pc = "opening" /\ ~ingester[i].connected
    /\ IngesterStops(i)
    /\ UNCHANGED pipelineFaults

RestartIngester(i) ==
    /\ ingester[i].pc = "dead"
    /\ ingester' = [ingester EXCEPT ![i] = IdleIngester]
    /\ UNCHANGED <<upload, blobs, status, outbox, topic, chunks, publisher, pipelineFaults>>

IngesterStep(i) ==
    \/ PollEvents(i) \/ OpenDocument(i) \/ RecordChunk(i) \/ FinishDocument(i)
    \/ CommitIngested(i) \/ NoticeLostConnection(i)

----------------------------------------------------------------------------
PipelineNext ==
    \/ \E u \in Uploads : UploadStep(u)
    \/ \E p \in Publishers : PublisherStep(p) \/ PublishRaises(p) \/ PublisherDies(p)
                                \/ RestartPublisher(p)
    \/ \E i \in Ingesters : IngesterStep(i) \/ IngesterDies(i) \/ ConnectionLost(i)
                                \/ RestartIngester(i)

PipelineSpec == PipelineInit /\ [][PipelineNext]_pipelineVars

(* asyncio runs a ready task; nobody promises that a dead one is restarted.   *)
PipelineFairness ==
    /\ \A p \in Publishers : WF_pipelineVars(PublisherStep(p))
    /\ \A i \in Ingesters : WF_pipelineVars(IngesterStep(i))

----------------------------------------------------------------------------
(* What the tables say has happened: every document has its blob and exactly  *)
(* one outbox row, keys are not shared, a published row's event is on the     *)
(* topic, a document has its final status exactly when its row is stamped     *)
(* ingested, and an indexed document has every chunk of its text in memory.   *)
StampsAreEarned ==
    /\ Documents \subseteq blobs
    /\ \A d \in Documents : \E r \in DOMAIN outbox : outbox[r].document = d
    /\ \A r, q \in DOMAIN outbox : outbox[r].document = outbox[q].document => r = q
    /\ \A d, e \in Documents : upload[d].key = upload[e].key => d = e \/ upload[d].key = NoKey
    /\ \A r \in DOMAIN outbox :
          LET d == outbox[r].document IN
          /\ outbox[r].published => topic[d] > 0
          /\ outbox[r].ingested <=> status[d] \in {"indexed", "failed"}
          /\ status[d] = "indexed" => \A k \in ChunksIn(upload[d].text) : chunks[d][k] > 0

(* A document that has its final status keeps it, and gets no further chunk,  *)
(* however many ingesters poll the same rows; only one whose connection is    *)
(* lost may still be recording.                                               *)
IndexedDocumentsStayAsTheyAre ==
    [][\A u \in Uploads :
          status[u] \in {"indexed", "failed"} =>
              /\ status'[u] = status[u]
              /\ chunks'[u] # chunks[u] => \E i \in Ingesters : ~ingester[i].connected
      ]_pipelineVars

(* Every outbox row is published or has used up its retries, and is ingested, *)
(* unless every task of the kind has died; in particular neither kind starves *)
(* the other of the row locks.                                                *)
OutboxIsWorkedOff ==
    \A r \in RowIds :
        r \in DOMAIN outbox
            ~> /\ r \in DOMAIN outbox
               /\ \/ outbox[r].published \/ outbox[r].retries = MaxPublishRetries
                  \/ \A p \in Publishers : publisher[p].pc = "dead"
               /\ outbox[r].ingested \/ \A i \in Ingesters : ingester[i].pc = "dead"
=============================================================================
