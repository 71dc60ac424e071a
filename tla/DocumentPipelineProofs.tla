------------------------ MODULE DocumentPipelineProofs ------------------------
(* What the rows of documents and outbox say has happened. Proofs for any     *)
(* finite number of uploads, any requests, batch size, retry limit, texts and *)
(* tasks, and any number of failures.                                         *)
EXTENDS DocumentPipeline, FiniteSetTheorems, WellFoundedInduction, TLAPS

USE DEF pipelineVars

(* The shape of the tables, without the bounds of the instances TLC checks.   *)
Row == [document : Uploads, retries : Nat, published : BOOLEAN, ingested : BOOLEAN]
PublisherTask ==
    [pc : {"idle", "publishing", "dead"},
     batch : SUBSET Nat, sent : SUBSET Nat, raised : SUBSET Nat]
IngesterTask ==
    [pc : {"idle", "opening", "chunking", "dead"}, batch : SUBSET Nat,
     done : SUBSET Nat, left : SUBSET ChunkIds, connected : BOOLEAN]

Shape ==
    /\ upload \in [Uploads -> UploadLocal]
    /\ blobs \subseteq Uploads
    /\ status \in [Uploads -> {"none", "queued", "indexed", "failed"}]
    /\ \E n \in Nat : DOMAIN outbox = 1 .. n
    /\ \A r \in DOMAIN outbox : outbox[r] \in Row
    /\ topic \in [Uploads -> Nat]
    /\ chunks \in [Uploads -> [ChunkIds -> Nat]]
    /\ publisher \in [Publishers -> PublisherTask]
    /\ ingester \in [Ingesters -> IngesterTask]

(* An upload has a document only at its end, and its bytes before that.       *)
UploadsInOrder ==
    \A u \in Uploads :
        /\ upload[u].pc \in {"stored", "checked"} => u \in blobs
        /\ upload[u].pc \in {"new", "stored", "checked"} => status[u] = "none"

(* The final status is the one the document's text calls for.                 *)
StatusesMatchRows ==
    /\ \A r \in DOMAIN outbox : status[outbox[r].document] # "none"
    /\ \A u \in Uploads : status[u] \in {"indexed", "failed"} => status[u] = Outcome(u)

Complete(u) == \A k \in ChunksIn(upload[u].text) : chunks[u][k] > 0

(* What a task has seen happen of its batch so far.                           *)
PublisherKnows(p) ==
    /\ publisher[p].sent \subseteq publisher[p].batch
    /\ publisher[p].batch \subseteq DOMAIN outbox
    /\ \A r \in publisher[p].sent : topic[outbox[r].document] > 0

IngesterKnows(i) ==
    /\ ingester[i].done \subseteq ingester[i].batch
    /\ ingester[i].batch \subseteq DOMAIN outbox
    /\ \A r \in ingester[i].done :
          upload[outbox[r].document].text.readable => Complete(outbox[r].document)
    /\ ingester[i].pc = "chunking" =>
          /\ Undone(i) # {}
          /\ upload[Current(i)].text.readable
          /\ \A k \in ChunksIn(upload[Current(i)].text) \ ingester[i].left :
                chunks[Current(i)][k] > 0

(* The row locks: while its connection lasts, an ingester works on rows that  *)
(* nobody has ingested and no other connected ingester works on.              *)
Locked(i, r) == ingester[i].connected /\ r \in ingester[i].batch
RowsAreLocked ==
    /\ \A i \in Ingesters, r \in DOMAIN outbox : Locked(i, r) => ~outbox[r].ingested
    /\ \A i, j \in Ingesters, r \in DOMAIN outbox : Locked(i, r) /\ Locked(j, r) => i = j

PInv ==
    /\ Shape /\ UploadsInOrder /\ StatusesMatchRows /\ StampsAreEarned
    /\ \A p \in Publishers : PublisherKnows(p)
    /\ \A i \in Ingesters : IngesterKnows(i)
    /\ RowsAreLocked
----------------------------------------------------------------------------
LEMMA FirstIsIn ==
    ASSUME NEW rows \in SUBSET Nat, rows # {}
    PROVE  First(rows) \in rows
  <1>1. PICK x \in rows : \A y \in rows : ~ (<<y, x>> \in OpToRel(<, Nat))
    BY NatLessThanWellFounded, WFMin
  <1>2. \A y \in rows : x <= y
    <2> TAKE y \in rows
    <2>1. ~ (<<y, x>> \in OpToRel(<, Nat))
      BY <1>1
    <2>2. ~ (y < x)
      BY <2>1 DEF OpToRel
    <2> QED BY <2>2
  <1> QED BY <1>2 DEF First

LEMMA NextRowIsNew ==
    ASSUME NEW n \in Nat, DOMAIN outbox = 1 .. n
    PROVE  NextRowId = n + 1
  <1>1. Cardinality(1 .. n) = n
    BY FS_Interval
  <1> QED BY <1>1 DEF NextRowId

LEMMA ChunksFit ==
    ASSUME Shape, NEW u \in Uploads
    PROVE  ChunksIn(upload[u].text) \subseteq ChunkIds
  <1>1. upload[u].text \in Texts
    BY DEF Shape, UploadLocal
  <1>2. upload[u].text.chunks \in 0 .. MaxChunksPerText
    <2>1. CASE upload[u].text \in [readable : {TRUE}, chunks : 0 .. MaxChunksPerText]
      BY <2>1
    <2>2. CASE upload[u].text = [readable |-> FALSE, chunks |-> 0]
      <3>1. upload[u].text.chunks = 0
        BY <2>2
      <3> QED BY <3>1, PipelineAssumption
    <2> QED BY <1>1, <2>1, <2>2 DEF Texts
  <1> QED BY <1>2, PipelineAssumption DEF ChunksIn, ChunkIds

(* Rows are never deleted, texts never change, and events and chunks stay.    *)
Grows ==
    /\ DOMAIN outbox \subseteq DOMAIN outbox'
    /\ \A r \in DOMAIN outbox : outbox'[r].document = outbox[r].document
    /\ \A u \in Uploads : upload'[u].text = upload[u].text
    /\ \A u \in Uploads : topic[u] > 0 => topic'[u] > 0
    /\ \A u \in Uploads : \A k \in ChunkIds : chunks[u][k] > 0 => chunks'[u][k] > 0

LEMMA PublisherRemembers ==
    ASSUME Shape, Grows, NEW p \in Publishers, PublisherKnows(p),
           publisher'[p] = publisher[p]
    PROVE  PublisherKnows(p)'
  <1>1. \A r \in DOMAIN outbox : outbox[r].document \in Uploads
    BY DEF Shape, Row
  <1> QED BY <1>1 DEF Grows, PublisherKnows

LEMMA StaysComplete ==
    ASSUME Shape, Grows, NEW u \in Uploads, Complete(u)
    PROVE  Complete(u)'
  BY ChunksFit DEF Grows, Complete

(* An ingester works on the first row of its batch that is not done.          *)
LEMMA CurrentRow ==
    ASSUME Shape, NEW i \in Ingesters, IngesterKnows(i), Undone(i) # {}
    PROVE  /\ First(Undone(i)) \in Undone(i) /\ First(Undone(i)) \in DOMAIN outbox
           /\ Current(i) \in Uploads
  <1>1. Undone(i) \in SUBSET Nat /\ Undone(i) \subseteq DOMAIN outbox
    BY DEF Shape, IngesterTask, Undone, IngesterKnows
  <1>2. First(Undone(i)) \in Undone(i)
    BY <1>1, FirstIsIn
  <1> QED BY <1>1, <1>2 DEF Current, Shape, Row

LEMMA IngesterRemembers ==
    ASSUME Shape, Grows, NEW i \in Ingesters, IngesterKnows(i), ingester'[i] = ingester[i]
    PROVE  IngesterKnows(i)'
  <1>1. \A r \in DOMAIN outbox : outbox[r].document \in Uploads
    BY DEF Shape, Row
  <1>2. Undone(i)' = Undone(i)
    BY DEF Undone
  <1>3. \A r \in ingester'[i].done :
            upload'[outbox'[r].document].text.readable => Complete(outbox[r].document)'
    BY <1>1, StaysComplete DEF IngesterKnows, Grows
  <1>4. \A r \in ingester'[i].done :
            (upload[outbox[r].document].text.readable => Complete(outbox[r].document))'
    <2> TAKE r \in ingester'[i].done
    <2>1. outbox'[r].document = outbox[r].document
      BY DEF IngesterKnows, Grows
    <2> QED BY <1>3, <2>1 DEF Complete
  <1>5. ASSUME ingester[i].pc = "chunking"
        PROVE  (/\ Undone(i) # {}
                /\ upload[Current(i)].text.readable
                /\ \A k \in ChunksIn(upload[Current(i)].text) \ ingester[i].left :
                      chunks[Current(i)][k] > 0)'
    <2>1. Current(i) \in Uploads /\ First(Undone(i)) \in DOMAIN outbox
      BY <1>5, CurrentRow DEF IngesterKnows
    <2>2. Current(i)' = Current(i)
      BY <1>2, <2>1 DEF Current, Grows
    <2>3. upload'[Current(i)].text = upload[Current(i)].text
            /\ ChunksIn(upload[Current(i)].text) \subseteq ChunkIds
      BY <2>1, ChunksFit DEF Grows
    <2>4. \A k \in ChunksIn(upload[Current(i)].text) \ ingester[i].left :
              chunks'[Current(i)][k] > 0
      BY <1>5, <2>1, <2>3 DEF Grows, IngesterKnows
    <2> QED BY <1>2, <1>5, <2>2, <2>3, <2>4 DEF IngesterKnows
  <1>6. (ingester[i].done \subseteq ingester[i].batch /\ ingester[i].batch \subseteq DOMAIN outbox)'
    BY DEF IngesterKnows, Grows
  <1> QED BY <1>4, <1>5, <1>6 DEF IngesterKnows

(* Steps that leave uploads, documents and outbox alone.                      *)
LEMMA TablesStay ==
    ASSUME PInv, Shape', Grows, UNCHANGED <<upload, blobs, status, outbox>>
    PROVE  UploadsInOrder' /\ StatusesMatchRows' /\ StampsAreEarned'
  <1> USE DEF PInv
  <1>1. UploadsInOrder' /\ StatusesMatchRows'
    BY DEF UploadsInOrder, StatusesMatchRows, Outcome
  <1>2. \A r \in DOMAIN outbox : outbox[r].document \in Uploads
    BY DEF Shape, Row
  <1>3. Documents' = Documents
    BY DEF Documents
  <1>4. \A u \in Uploads : \A k \in ChunksIn(upload[u].text) :
            chunks[u][k] > 0 => chunks'[u][k] > 0
    BY ChunksFit DEF Grows
  <1>5. StampsAreEarned'
    BY <1>2, <1>3, <1>4 DEF StampsAreEarned, Grows
  <1> QED BY <1>1, <1>5

----------------------------------------------------------------------------
LEMMA InitHolds == PipelineInit => PInv
  <1> SUFFICES ASSUME PipelineInit PROVE PInv
    OBVIOUS
  <1>1. \A u \in Uploads : upload[u].pc = "new"
    BY DEF PipelineInit
  <1>2. upload \in [Uploads -> UploadLocal]
    <2>1. PICK brought \in Requests :
            upload = [u \in Uploads |->
                        [pc |-> "new", key |-> brought[u].key, text |-> brought[u].text]]
      BY DEF PipelineInit
    <2>2. brought \in [Uploads -> [key : Keys \cup {NoKey}, text : Texts]]
      BY PipelineAssumption
    <2> QED BY <2>1, <2>2 DEF UploadLocal
  <1>3. DOMAIN outbox = {} /\ DOMAIN outbox = 1 .. 0
    BY DEF PipelineInit
  <1>4. publisher \in [Publishers -> PublisherTask] /\ ingester \in [Ingesters -> IngesterTask]
    BY DEF PipelineInit, PublisherTask, IngesterTask, IdlePublisher, IdleIngester
  <1>5. Shape
    <2>1. /\ blobs \subseteq Uploads /\ topic \in [Uploads -> Nat]
          /\ status \in [Uploads -> {"none", "queued", "indexed", "failed"}]
          /\ chunks \in [Uploads -> [ChunkIds -> Nat]]
      BY DEF PipelineInit
    <2>2. \E n \in Nat : DOMAIN outbox = 1 .. n
      BY <1>3
    <2> QED BY <1>2, <1>3, <1>4, <2>1, <2>2 DEF Shape
  <1>6. UploadsInOrder /\ StatusesMatchRows
    BY <1>1, <1>3 DEF PipelineInit, UploadsInOrder, StatusesMatchRows
  <1>7. Documents = {}
    BY DEF Documents, PipelineInit
  <1>8. StampsAreEarned
    BY <1>3, <1>7 DEF StampsAreEarned
  <1>9. \A p \in Publishers : PublisherKnows(p)
    BY DEF PipelineInit, PublisherKnows, IdlePublisher
  <1>10. \A i \in Ingesters : IngesterKnows(i)
    BY DEF PipelineInit, IngesterKnows, IdleIngester
  <1>11. RowsAreLocked
    BY <1>3 DEF RowsAreLocked
  <1> QED BY <1>5, <1>6, <1>8, <1>9, <1>10, <1>11 DEF PInv

(* An upload on its way to the commit.                                        *)
LEMMA UploadMoves ==
    ASSUME PInv, NEW u \in Uploads, BlobUploadFails(u) \/ StoreBlob(u) \/ CheckKey(u)
    PROVE  PInv'
  <1> USE DEF PInv
  <1>1. PICK pc \in {"stored", "checked", "refused", "failed"} :
          /\ upload' = [upload EXCEPT ![u].pc = pc]
          /\ pc \in {"stored", "checked"} => u \in blobs'
          /\ upload[u].pc \in {"new", "stored"}
    <2>1. upload[u].pc = "stored" => u \in blobs
      BY DEF UploadsInOrder
    <2>2. CASE BlobUploadFails(u)
      BY <2>2 DEF BlobUploadFails, MovesUpload
    <2>3. CASE StoreBlob(u)
      BY <2>3 DEF StoreBlob, MovesUpload
    <2>4. CASE CheckKey(u)
      BY <2>1, <2>4 DEF CheckKey, MovesUpload
    <2> QED BY <2>2, <2>3, <2>4
  <1>2. /\ UNCHANGED <<status, outbox, topic, chunks, publisher, ingester>>
        /\ blobs \subseteq blobs' /\ blobs' \subseteq Uploads
    BY DEF BlobUploadFails, StoreBlob, CheckKey, Shape
  <1>3. \A v \in Uploads : upload'[v].text = upload[v].text /\ upload'[v].key = upload[v].key
    BY <1>1 DEF Shape, UploadLocal
  <1>4. Shape'
    BY <1>1, <1>2 DEF Shape, UploadLocal
  <1>5. Grows
    BY <1>2, <1>3 DEF Grows
  <1>6. UploadsInOrder'
    <2> SUFFICES ASSUME NEW v \in Uploads
                 PROVE  /\ upload'[v].pc \in {"stored", "checked"} => v \in blobs'
                        /\ upload'[v].pc \in {"new", "stored", "checked"} => status'[v] = "none"
      BY DEF UploadsInOrder
    <2>1. CASE v = u
      BY <1>1, <1>2, <2>1 DEF Shape, UploadLocal, UploadsInOrder
    <2>2. CASE v # u
      BY <1>1, <1>2, <2>2 DEF Shape, UploadsInOrder
    <2> QED BY <2>1, <2>2
  <1>7. StatusesMatchRows'
    BY <1>2, <1>3 DEF StatusesMatchRows, Outcome
  <1>8. StampsAreEarned'
    <2>1. Documents' = Documents /\ Documents \subseteq Uploads
      BY <1>2 DEF Documents
    <2>2. \A r \in DOMAIN outbox : outbox[r].document \in Uploads
      BY DEF Shape, Row
    <2> QED BY <1>2, <1>3, <2>1, <2>2 DEF StampsAreEarned
  <1>9. \A p \in Publishers : PublisherKnows(p)'
    BY <1>2, <1>5, PublisherRemembers
  <1>10. \A i \in Ingesters : IngesterKnows(i)'
    BY <1>2, <1>5, IngesterRemembers
  <1>11. RowsAreLocked'
    BY <1>2 DEF RowsAreLocked, Locked
  <1> QED BY <1>4, <1>6, <1>7, <1>8, <1>9, <1>10, <1>11

(* One outbox row for a document that is new, with a key that is not taken.   *)
LEMMA CommitUploadHolds ==
    ASSUME PInv, NEW u \in Uploads, CommitUpload(u)
    PROVE  PInv'
  <1> USE DEF PInv
  <1>1. PICK pc \in {"created", "failed"} : upload' = [upload EXCEPT ![u].pc = pc]
    BY DEF CommitUpload, MovesUpload
  <1>2. /\ upload[u].pc = "checked" /\ u \in blobs /\ status[u] = "none"
        /\ UNCHANGED <<blobs, topic, chunks, publisher, ingester>>
    BY DEF CommitUpload, UploadsInOrder
  <1>3. \A v \in Uploads : upload'[v].text = upload[v].text /\ upload'[v].key = upload[v].key
    BY <1>1 DEF Shape, UploadLocal
  <1>4. \A v \in Uploads : upload'[v].pc = IF v = u THEN pc ELSE upload[v].pc
    BY <1>1 DEF Shape, UploadLocal
  <1>5. upload' \in [Uploads -> UploadLocal]
    BY <1>1 DEF Shape, UploadLocal
  <1>6. CASE KeyTaken(upload[u].key)
    <2>1. UNCHANGED <<status, outbox>>
      BY <1>6 DEF CommitUpload
    <2>2. Shape' /\ Grows
      BY <1>2, <1>3, <1>5, <2>1 DEF Shape, Grows
    <2>3. UploadsInOrder'
      BY <1>2, <1>4, <2>1 DEF UploadsInOrder
    <2>4. StatusesMatchRows'
      BY <1>3, <2>1 DEF StatusesMatchRows, Outcome
    <2>5. Documents' = Documents /\ Documents \subseteq Uploads
      BY <2>1 DEF Documents
    <2>6. \A r \in DOMAIN outbox : outbox[r].document \in Uploads
      BY DEF Shape, Row
    <2>7. StampsAreEarned'
      BY <1>2, <1>3, <2>1, <2>5, <2>6 DEF StampsAreEarned
    <2>8. RowsAreLocked'
      BY <1>2, <2>1 DEF RowsAreLocked, Locked
    <2> QED BY <1>2, <2>2, <2>3, <2>4, <2>7, <2>8, PublisherRemembers, IngesterRemembers
  <1>7. CASE ~KeyTaken(upload[u].key)
    <2>1. PICK n \in Nat : DOMAIN outbox = 1 .. n
      BY DEF Shape
    <2>2. NextRowId = n + 1 /\ n + 1 \notin DOMAIN outbox
      BY <2>1, NextRowIsNew
    <2>3. /\ status' = [status EXCEPT ![u] = "queued"]
          /\ outbox' = [r \in DOMAIN outbox \cup {n + 1} |->
                           IF r = n + 1 THEN NewOutboxRow(u) ELSE outbox[r]]
      BY <1>7, <2>2 DEF CommitUpload
    <2>4. /\ DOMAIN outbox' = DOMAIN outbox \cup {n + 1} /\ DOMAIN outbox' = 1 .. n + 1
          /\ outbox'[n + 1] = NewOutboxRow(u)
          /\ \A r \in DOMAIN outbox : outbox'[r] = outbox[r]
      BY <2>1, <2>2, <2>3
    <2>5. /\ NewOutboxRow(u) \in Row /\ NewOutboxRow(u).document = u
          /\ ~NewOutboxRow(u).published /\ ~NewOutboxRow(u).ingested
      BY DEF NewOutboxRow, Row
    <2>6. status'[u] = "queued" /\ \A v \in Uploads : v # u => status'[v] = status[v]
      BY <2>3 DEF Shape
    <2>7. Shape'
      <3>1. \A r \in DOMAIN outbox' : outbox'[r] \in Row
        BY <2>4, <2>5 DEF Shape
      <3>2. \E m \in Nat : DOMAIN outbox' = 1 .. m
        BY <2>1, <2>4
      <3>3. status' \in [Uploads -> {"none", "queued", "indexed", "failed"}]
        BY <2>3 DEF Shape
      <3> QED BY <1>2, <1>5, <3>1, <3>2, <3>3 DEF Shape
    <2>8. Grows
      BY <1>2, <1>3, <2>4 DEF Grows
    <2>9. UploadsInOrder'
      BY <1>2, <1>4, <2>6 DEF UploadsInOrder
    <2>10. \A r \in DOMAIN outbox : outbox[r].document \in Uploads /\ outbox[r].document # u
      BY <1>2 DEF Shape, Row, StatusesMatchRows
    <2>11. StatusesMatchRows'
      BY <1>3, <2>4, <2>5, <2>6, <2>10 DEF StatusesMatchRows, Outcome
    <2>12. Documents' = Documents \cup {u} /\ u \notin Documents /\ Documents \subseteq Uploads
      BY <1>2, <2>6 DEF Documents
    <2>13. /\ Documents' \subseteq blobs'
           /\ \A d \in Documents' : \E r \in DOMAIN outbox' : outbox'[r].document = d
           /\ \A r, q \in DOMAIN outbox' : outbox'[r].document = outbox'[q].document => r = q
      <3>1. Documents' \subseteq blobs'
        BY <1>2, <2>12 DEF StampsAreEarned
      <3>2. ASSUME NEW d \in Documents
            PROVE  \E r \in DOMAIN outbox' : outbox'[r].document = d
        <4>1. PICK r \in DOMAIN outbox : outbox[r].document = d
          BY DEF StampsAreEarned
        <4> QED BY <2>4, <4>1
      <3>3. \E r \in DOMAIN outbox' : outbox'[r].document = u
        BY <2>4, <2>5
      <3>4. ASSUME NEW r \in DOMAIN outbox', NEW q \in DOMAIN outbox',
                   outbox'[r].document = outbox'[q].document
            PROVE  r = q
        <4>1. CASE r \in DOMAIN outbox /\ q \in DOMAIN outbox
          BY <2>4, <3>4, <4>1 DEF StampsAreEarned
        <4>2. CASE r = n + 1 \/ q = n + 1
          BY <2>4, <2>5, <2>10, <3>4, <4>2
        <4> QED BY <2>4, <4>1, <4>2
      <3> QED BY <2>12, <3>1, <3>2, <3>3, <3>4
    <2>14. \A d, e \in Documents' :
              upload'[d].key = upload'[e].key => d = e \/ upload'[d].key = NoKey
      <3> SUFFICES ASSUME NEW d \in Documents', NEW e \in Documents',
                          upload'[d].key = upload'[e].key
                   PROVE  d = e \/ upload'[d].key = NoKey
        OBVIOUS
      <3>1. upload[d].key = upload[e].key /\ upload'[d].key = upload[d].key
        BY <1>3, <2>12
      <3>2. CASE d \in Documents /\ e \in Documents
        BY <3>1, <3>2 DEF StampsAreEarned
      <3>3. CASE d = u \/ e = u
        BY <1>7, <2>12, <3>1, <3>3 DEF KeyTaken
      <3> QED BY <2>12, <3>2, <3>3
    <2>15. \A r \in DOMAIN outbox : status'[outbox[r].document] = status[outbox[r].document]
      BY <2>6, <2>10
    <2>16. \A r \in DOMAIN outbox' :
              LET d == outbox'[r].document IN
              /\ outbox'[r].published => topic'[d] > 0
              /\ outbox'[r].ingested <=> status'[d] \in {"indexed", "failed"}
              /\ status'[d] = "indexed" =>
                    \A k \in ChunksIn(upload'[d].text) : chunks'[d][k] > 0
      <3> TAKE r \in DOMAIN outbox'
      <3>1. CASE r = n + 1
        BY <2>4, <2>5, <2>6, <3>1
      <3>2. CASE r \in DOMAIN outbox
        <4>1. outbox'[r] = outbox[r] /\ outbox[r].document \in Uploads
          BY <2>4, <2>10, <3>2
        <4>2. /\ outbox[r].published => topic[outbox[r].document] > 0
              /\ outbox[r].ingested <=> status[outbox[r].document] \in {"indexed", "failed"}
              /\ status[outbox[r].document] = "indexed" => Complete(outbox[r].document)
          BY <3>2 DEF StampsAreEarned, Complete
        <4> QED BY <1>2, <1>3, <2>15, <3>2, <4>1, <4>2 DEF Complete
      <3> QED BY <2>4, <3>1, <3>2
    <2>17. StampsAreEarned'
      BY <2>13, <2>14, <2>16 DEF StampsAreEarned
    <2>18. RowsAreLocked'
      <3>1. \A i \in Ingesters : ingester[i].batch \subseteq DOMAIN outbox
        BY DEF IngesterKnows
      <3> QED BY <1>2, <2>4, <2>5, <3>1 DEF RowsAreLocked, Locked
    <2> QED BY <1>2, <2>7, <2>8, <2>9, <2>11, <2>17, <2>18, PublisherRemembers,
               IngesterRemembers
  <1> QED BY <1>6, <1>7

----------------------------------------------------------------------------
LEMMA PollIsOverRows ==
    ASSUME Shape, NEW rows \in SUBSET (DOMAIN outbox)
    PROVE  Lowest(rows) \subseteq rows /\ rows \subseteq Nat
  BY DEF Lowest, Shape

LEMMA UnsentRow ==
    ASSUME Shape, NEW p \in Publishers, PublisherKnows(p), Unsent(p) # {}
    PROVE  /\ First(Unsent(p)) \in Unsent(p) /\ First(Unsent(p)) \in DOMAIN outbox
           /\ outbox[First(Unsent(p))].document \in Uploads
  <1>1. Unsent(p) \in SUBSET Nat /\ Unsent(p) \subseteq DOMAIN outbox
    BY DEF Shape, PublisherTask, Unsent, PublisherKnows
  <1>2. First(Unsent(p)) \in Unsent(p)
    BY <1>1, FirstIsIn
  <1> QED BY <1>1, <1>2 DEF Shape, Row

(* A publisher between its commits: it changes itself, and sends events.      *)
LEMMA PublisherMoves ==
    ASSUME PInv, NEW p \in Publishers,
           PollOutbox(p) \/ PublishNext(p) \/ PublishRaises(p) \/ PublisherDies(p)
               \/ RestartPublisher(p)
    PROVE  PInv'
  <1> USE DEF PInv
  <1>1. UNCHANGED <<upload, blobs, status, outbox, chunks, ingester>>
    BY DEF PollOutbox, PublishNext, PublishRaises, PublisherDies, RestartPublisher
  <1>2. PICK task \in PublisherTask :
          /\ publisher' = [publisher EXCEPT ![p] = task]
          /\ topic' \in [Uploads -> Nat]
          /\ \A u \in Uploads : topic'[u] >= topic[u]
          /\ task.sent \subseteq task.batch /\ task.batch \subseteq DOMAIN outbox
          /\ \A r \in task.sent : topic'[outbox[r].document] > 0
    <2>0. topic \in [Uploads -> Nat] /\ \A u \in Uploads : topic[u] >= topic[u]
      BY DEF Shape
    <2>1. CASE PollOutbox(p)
      <3> DEFINE task == [IdlePublisher EXCEPT !.pc = "publishing",
                                               !.batch = Lowest(ToPublish)]
      <3>1. ToPublish \in SUBSET (DOMAIN outbox)
        BY DEF ToPublish
      <3>2. Lowest(ToPublish) \subseteq DOMAIN outbox /\ Lowest(ToPublish) \subseteq Nat
        BY <3>1, PollIsOverRows
      <3>3. /\ task \in PublisherTask /\ task.sent = {} /\ task.batch = Lowest(ToPublish)
            /\ publisher' = [publisher EXCEPT ![p] = task] /\ topic' = topic
        BY <2>1, <3>2 DEF PollOutbox, IdlePublisher, PublisherTask
      <3> HIDE DEF task
      <3> QED BY <2>0, <3>2, <3>3
    <2>2. CASE PublishNext(p)
      <3> DEFINE r0 == First(Unsent(p))
                 task == [publisher[p] EXCEPT !.sent = @ \cup {r0}]
      <3>1. /\ r0 \in Unsent(p) /\ r0 \in DOMAIN outbox /\ outbox[r0].document \in Uploads
        BY <2>2, UnsentRow DEF PublishNext
      <3>2. topic' = [topic EXCEPT ![outbox[r0].document] = @ + 1]
              /\ publisher' = [publisher EXCEPT ![p] = task]
        BY <2>2 DEF PublishNext, Shape
      <3>3. r0 \in Nat /\ r0 \in publisher[p].batch
        BY <3>1 DEF Shape, Unsent, PublisherTask
      <3> HIDE DEF r0
      <3>4. task \in PublisherTask /\ task.sent = publisher[p].sent \cup {r0}
              /\ task.batch = publisher[p].batch
        BY <3>3 DEF Shape, PublisherTask
      <3>5. /\ topic' \in [Uploads -> Nat]
            /\ \A u \in Uploads : topic'[u] >= topic[u]
            /\ topic'[outbox[r0].document] > 0
        BY <3>1, <3>2 DEF Shape
      <3>6. \A r \in publisher[p].sent :
                topic[outbox[r].document] > 0 /\ outbox[r].document \in Uploads
        BY DEF PublisherKnows, Shape, Row
      <3>7. \A r \in task.sent : topic'[outbox[r].document] > 0
        <4> HIDE DEF task
        <4>1. \A r \in publisher[p].sent : topic'[outbox[r].document] > 0
          BY <2>0, <3>5, <3>6
        <4> QED BY <3>4, <3>5, <4>1
      <3> QED BY <3>2, <3>3, <3>4, <3>5, <3>7 DEF PublisherKnows
    <2>3. CASE PublishRaises(p)
      <3> DEFINE r0 == First(Unsent(p))
                 task == [publisher[p] EXCEPT !.raised = @ \cup {r0}]
      <3>1. /\ r0 \in Unsent(p) /\ r0 \in DOMAIN outbox /\ outbox[r0].document \in Uploads
        BY <2>3, UnsentRow DEF PublishRaises
      <3>2. PICK more \in {0, 1} :
              /\ topic' = [topic EXCEPT ![outbox[r0].document] = @ + more]
              /\ publisher' = [publisher EXCEPT ![p] = task]
        BY <2>3 DEF PublishRaises, Shape
      <3>3. r0 \in Nat
        BY <3>1 DEF Shape, Unsent, PublisherTask
      <3> HIDE DEF r0
      <3>4. task \in PublisherTask /\ task.sent = publisher[p].sent
              /\ task.batch = publisher[p].batch
        BY <3>3 DEF Shape, PublisherTask
      <3>5. topic' \in [Uploads -> Nat] /\ \A u \in Uploads : topic'[u] >= topic[u]
        BY <3>1, <3>2 DEF Shape
      <3>6. \A r \in publisher[p].sent :
                topic[outbox[r].document] > 0 /\ outbox[r].document \in Uploads
        BY DEF PublisherKnows, Shape, Row
      <3>7. \A r \in task.sent : topic'[outbox[r].document] > 0
        BY <3>4, <3>5, <3>6 DEF Shape
      <3> QED BY <3>2, <3>4, <3>5, <3>7 DEF PublisherKnows
    <2>4. CASE PublisherDies(p)
      <3> DEFINE task == [IdlePublisher EXCEPT !.pc = "dead"]
      <3>1. task \in PublisherTask /\ task.sent = {} /\ task.batch = {}
              /\ publisher' = [publisher EXCEPT ![p] = task] /\ topic' = topic
        BY <2>4 DEF PublisherDies, IdlePublisher, PublisherTask
      <3> HIDE DEF task
      <3> QED BY <2>0, <3>1
    <2>5. CASE RestartPublisher(p)
      <3>1. /\ IdlePublisher \in PublisherTask /\ IdlePublisher.sent = {}
            /\ IdlePublisher.batch = {}
            /\ publisher' = [publisher EXCEPT ![p] = IdlePublisher] /\ topic' = topic
        BY <2>5 DEF RestartPublisher, IdlePublisher, PublisherTask
      <3> QED BY <2>0, <3>1
    <2> QED BY <2>1, <2>2, <2>3, <2>4, <2>5
  <1>3. Shape'
    BY <1>1, <1>2 DEF Shape
  <1>4. Grows
    BY <1>1, <1>2 DEF Grows, Shape
  <1>5. PublisherKnows(p)'
    BY <1>1, <1>2 DEF PublisherKnows, Shape
  <1>6. \A k \in Publishers : k # p => publisher'[k] = publisher[k]
    BY <1>2 DEF Shape
  <1>7. RowsAreLocked'
    BY <1>1 DEF RowsAreLocked, Locked
  <1> QED BY <1>1, <1>3, <1>4, <1>5, <1>6, <1>7, TablesStay, PublisherRemembers,
             IngesterRemembers

(* published_at only for what was sent.                                       *)
LEMMA CommitPublishedHolds ==
    ASSUME PInv, NEW p \in Publishers, CommitPublished(p)
    PROVE  PInv'
  <1> USE DEF PInv
  <1>1. UNCHANGED <<upload, blobs, status, topic, chunks, ingester>>
    BY DEF CommitPublished
  <1>2. DOMAIN outbox' = DOMAIN outbox
    BY DEF CommitPublished
  <1>3. ASSUME NEW r \in DOMAIN outbox
        PROVE  /\ outbox'[r] \in Row /\ outbox'[r].document = outbox[r].document
               /\ outbox'[r].ingested = outbox[r].ingested
               /\ outbox'[r].published =>
                      outbox[r].published \/ r \in publisher[p].sent
    <2>1. outbox[r] \in Row
      BY DEF Shape
    <2>2. outbox'[r] = [outbox[r] EXCEPT
              !.published = @ \/ r \in publisher[p].sent,
              !.retries = IF r \in publisher[p].raised THEN @ + 1 ELSE @]
      BY DEF CommitPublished
    <2> DEFINE pub == outbox[r].published \/ r \in publisher[p].sent
               tries == IF r \in publisher[p].raised THEN outbox[r].retries + 1
                        ELSE outbox[r].retries
    <2>3. pub \in BOOLEAN /\ tries \in Nat
      BY <2>1 DEF Row
    <2>4. outbox'[r] = [outbox[r] EXCEPT !.published = pub, !.retries = tries]
      BY <2>2
    <2>5. pub => outbox[r].published \/ r \in publisher[p].sent
      OBVIOUS
    <2> HIDE DEF pub, tries
    <2> QED BY <2>1, <2>3, <2>4, <2>5 DEF Row
  <1>4. publisher' = [publisher EXCEPT ![p] = IdlePublisher]
          /\ IdlePublisher \in PublisherTask
          /\ IdlePublisher.sent = {} /\ IdlePublisher.batch = {}
    BY DEF CommitPublished, IdlePublisher, PublisherTask
  <1>5. Shape'
    BY <1>1, <1>2, <1>3, <1>4 DEF Shape
  <1>6. Grows
    BY <1>1, <1>2, <1>3 DEF Grows
  <1>7. UploadsInOrder' /\ StatusesMatchRows'
    BY <1>1, <1>2, <1>3 DEF UploadsInOrder, StatusesMatchRows, Outcome
  <1>8. StampsAreEarned'
    <2>1. Documents' = Documents
      BY <1>1 DEF Documents
    <2>2. \A r \in publisher[p].sent : topic[outbox[r].document] > 0
      BY DEF PublisherKnows
    <2>3. /\ Documents' \subseteq blobs'
          /\ \A d \in Documents' : \E r \in DOMAIN outbox' : outbox'[r].document = d
          /\ \A r, q \in DOMAIN outbox' : outbox'[r].document = outbox'[q].document => r = q
          /\ \A d, e \in Documents' :
                upload'[d].key = upload'[e].key => d = e \/ upload'[d].key = NoKey
      BY <1>1, <1>2, <1>3, <2>1 DEF StampsAreEarned
    <2>4. ASSUME NEW r \in DOMAIN outbox'
          PROVE  LET d == outbox'[r].document IN
                 /\ outbox'[r].published => topic'[d] > 0
                 /\ outbox'[r].ingested <=> status'[d] \in {"indexed", "failed"}
                 /\ status'[d] = "indexed" =>
                       \A k \in ChunksIn(upload'[d].text) : chunks'[d][k] > 0
      BY <1>1, <1>2, <1>3, <2>2 DEF StampsAreEarned
    <2> QED BY <2>3, <2>4 DEF StampsAreEarned
  <1>9. \A k \in Publishers : PublisherKnows(k)'
    <2> TAKE k \in Publishers
    <2>1. CASE k = p
      BY <1>4, <2>1 DEF PublisherKnows, Shape
    <2>2. CASE k # p
      <3>1. publisher'[k] = publisher[k]
        BY <1>4, <2>2 DEF Shape
      <3> QED BY <1>6, <3>1, PublisherRemembers
    <2> QED BY <2>1, <2>2
  <1>10. RowsAreLocked'
    BY <1>1, <1>2, <1>3 DEF RowsAreLocked, Locked
  <1> QED BY <1>1, <1>5, <1>6, <1>7, <1>8, <1>9, <1>10, IngesterRemembers

----------------------------------------------------------------------------
(* What an ingester may do before it commits: change itself and add chunks,   *)
(* as long as it knows what happened and holds rows that are free.            *)
LEMMA IngesterMoves ==
    ASSUME PInv, NEW i \in Ingesters, NEW task \in IngesterTask,
           ingester' = [ingester EXCEPT ![i] = task],
           UNCHANGED <<upload, blobs, status, outbox, topic, publisher>>,
           chunks' \in [Uploads -> [ChunkIds -> Nat]],
           \A u \in Uploads : \A k \in ChunkIds : chunks[u][k] > 0 => chunks'[u][k] > 0,
           IngesterKnows(i)',
           task.connected =>
               \A r \in task.batch : r \in DOMAIN outbox =>
                   ~outbox[r].ingested /\ \A j \in Ingesters : Locked(j, r) => j = i
    PROVE  PInv'
  <1> USE DEF PInv
  <1>1. Shape' /\ Grows
    BY DEF Shape, Grows
  <1>2. \A j \in Ingesters : ingester'[j] = IF j = i THEN task ELSE ingester[j]
    BY DEF Shape
  <1>3. \A j \in Ingesters : IngesterKnows(j)'
    BY <1>1, <1>2, IngesterRemembers
  <1>4. \A j \in Ingesters, r \in DOMAIN outbox :
            Locked(j, r)' => Locked(j, r) \/ (j = i /\ task.connected /\ r \in task.batch)
    BY <1>2 DEF Locked
  <1>5. ASSUME NEW j \in Ingesters, NEW r \in DOMAIN outbox', Locked(j, r)'
        PROVE  ~outbox'[r].ingested
    BY <1>4, <1>5 DEF RowsAreLocked
  <1>6. ASSUME NEW j \in Ingesters, NEW k \in Ingesters, NEW r \in DOMAIN outbox',
               Locked(j, r)', Locked(k, r)'
        PROVE  j = k
    <2>1. CASE j = i /\ k # i
      <3>1. Locked(k, r)
        BY <1>2, <1>6, <2>1 DEF Locked
      <3>2. task.connected /\ r \in task.batch
        BY <1>2, <1>6, <2>1 DEF Locked
      <3> QED BY <2>1, <3>1, <3>2
    <2>2. CASE k = i /\ j # i
      <3>1. Locked(j, r)
        BY <1>2, <1>6, <2>2 DEF Locked
      <3>2. task.connected /\ r \in task.batch
        BY <1>2, <1>6, <2>2 DEF Locked
      <3> QED BY <2>2, <3>1, <3>2
    <2>3. CASE j # i /\ k # i
      <3>1. Locked(j, r) /\ Locked(k, r)
        BY <1>2, <1>6, <2>3 DEF Locked
      <3> QED BY <3>1 DEF RowsAreLocked
    <2> QED BY <2>1, <2>2, <2>3
  <1>7. RowsAreLocked'
    BY <1>5, <1>6 DEF RowsAreLocked
  <1> QED BY <1>1, <1>3, <1>7, TablesStay, PublisherRemembers

(* An ingester that keeps its batch and its connection keeps its locks.       *)
LEMMA SameLocks ==
    ASSUME PInv, NEW i \in Ingesters, NEW task,
           task.batch = ingester[i].batch, task.connected => ingester[i].connected
    PROVE  task.connected =>
               \A r \in task.batch : r \in DOMAIN outbox =>
                   ~outbox[r].ingested /\ \A j \in Ingesters : Locked(j, r) => j = i
  BY DEF PInv, RowsAreLocked, Locked

LEMMA PollEventsHolds ==
    ASSUME PInv, NEW i \in Ingesters, PollEvents(i)
    PROVE  PInv'
  <1> USE DEF PInv
  <1> DEFINE task == [IdleIngester EXCEPT !.pc = "opening", !.batch = Lowest(ToIngest)]
  <1>1. ToIngest \in SUBSET (DOMAIN outbox)
    BY DEF ToIngest
  <1>2. Lowest(ToIngest) \subseteq ToIngest /\ ToIngest \subseteq Nat
    BY <1>1, PollIsOverRows
  <1>3. /\ task \in IngesterTask /\ task.batch = Lowest(ToIngest) /\ task.done = {}
        /\ task.pc = "opening"
    BY <1>2 DEF IdleIngester, IngesterTask
  <1>4. ingester' = [ingester EXCEPT ![i] = task]
          /\ UNCHANGED <<upload, blobs, status, outbox, topic, chunks, publisher>>
    BY DEF PollEvents
  <1> HIDE DEF task
  <1>5. ingester'[i] = task
    BY <1>4 DEF Shape
  <1>6. IngesterKnows(i)'
    BY <1>1, <1>2, <1>3, <1>4, <1>5 DEF IngesterKnows
  <1>7. \A r \in ToIngest :
            ~outbox[r].ingested /\ \A j \in Ingesters : ~Locked(j, r)
    BY DEF ToIngest, LockedRows, Locked
  <1>8. chunks' \in [Uploads -> [ChunkIds -> Nat]]
    BY <1>4 DEF Shape
  <1>9. \A r \in task.batch : ~outbox[r].ingested /\ \A j \in Ingesters : ~Locked(j, r)
    BY <1>2, <1>3, <1>7
  <1> QED BY <1>3, <1>4, <1>6, <1>8, <1>9, IngesterMoves

LEMMA OpenDocumentHolds ==
    ASSUME PInv, NEW i \in Ingesters, OpenDocument(i)
    PROVE  PInv'
  <1> USE DEF PInv
  <1> DEFINE r0 == First(Undone(i))
  <1>1. r0 \in Undone(i) /\ r0 \in DOMAIN outbox /\ Current(i) \in Uploads
          /\ Current(i) = outbox[r0].document
    BY CurrentRow DEF OpenDocument, Current
  <1>2. r0 \in Nat /\ r0 \in ingester[i].batch
    BY <1>1 DEF Shape, Undone, IngesterTask
  <1>3. /\ ingester[i] \in IngesterTask
        /\ UNCHANGED <<upload, blobs, status, outbox, topic, chunks, publisher>>
    BY DEF OpenDocument, Shape
  <1>4. chunks' \in [Uploads -> [ChunkIds -> Nat]]
    BY <1>3 DEF Shape
  <1>5. CASE ~upload[Current(i)].text.readable
    <2> DEFINE task == [ingester[i] EXCEPT !.done = @ \cup {r0}]
    <2>1. ingester' = [ingester EXCEPT ![i] = task]
      BY <1>5 DEF OpenDocument, Shape
    <2> HIDE DEF r0
    <2>2. /\ task \in IngesterTask /\ task.done = ingester[i].done \cup {r0}
          /\ task.batch = ingester[i].batch /\ task.pc = ingester[i].pc
          /\ task.connected = ingester[i].connected
      BY <1>2, <1>3 DEF IngesterTask
    <2> HIDE DEF task
    <2>3. ingester'[i] = task /\ ingester[i].pc = "opening"
      BY <2>1 DEF Shape, OpenDocument
    <2>4. IngesterKnows(i)'
      <3>1. (ingester[i].done \subseteq ingester[i].batch
               /\ ingester[i].batch \subseteq DOMAIN outbox)'
        BY <1>2, <1>3, <2>2, <2>3 DEF IngesterKnows
      <3>2. \A r \in task.done : upload[outbox[r].document].text.readable =>
                Complete(outbox[r].document)
        BY <1>1, <1>5, <2>2 DEF IngesterKnows
      <3> QED BY <1>3, <2>2, <2>3, <3>1, <3>2 DEF IngesterKnows, Complete
    <2> QED BY <1>3, <1>4, <2>1, <2>2, <2>4, SameLocks, IngesterMoves
  <1>6. CASE upload[Current(i)].text.readable
    <2> DEFINE fit == ChunksIn(upload[Current(i)].text)
               task == [ingester[i] EXCEPT !.pc = "chunking", !.left = fit]
    <2>1. ingester' = [ingester EXCEPT ![i] = task]
      BY <1>6 DEF OpenDocument, Shape
    <2>2. fit \subseteq ChunkIds
      BY <1>1, ChunksFit
    <2>3. /\ task \in IngesterTask /\ task.done = ingester[i].done
          /\ task.batch = ingester[i].batch /\ task.left = fit
          /\ task.connected = ingester[i].connected
      <3> HIDE DEF fit
      <3> QED BY <1>3, <2>2 DEF IngesterTask
    <2> HIDE DEF task
    <2>4. ingester'[i] = task
      BY <2>1 DEF Shape
    <2>5. Undone(i)' = Undone(i) /\ Undone(i) # {}
      BY <2>3, <2>4 DEF Undone, OpenDocument
    <2>6. Current(i)' = Current(i)
      BY <1>3, <2>5 DEF Current
    <2>7. IngesterKnows(i)'
      <3>1. (ingester[i].done \subseteq ingester[i].batch
               /\ ingester[i].batch \subseteq DOMAIN outbox)'
        BY <1>3, <2>3, <2>4 DEF IngesterKnows
      <3>2. \A r \in task.done : upload[outbox[r].document].text.readable =>
                Complete(outbox[r].document)
        BY <2>3 DEF IngesterKnows
      <3> QED BY <1>3, <1>6, <2>3, <2>4, <2>5, <2>6, <3>1, <3>2 DEF IngesterKnows, Complete
    <2> QED BY <1>3, <1>4, <2>1, <2>3, <2>7, SameLocks, IngesterMoves
  <1> QED BY <1>5, <1>6

LEMMA RecordChunkHolds ==
    ASSUME PInv, NEW i \in Ingesters, RecordChunk(i)
    PROVE  PInv'
  <1> USE DEF PInv
  <1> DEFINE k0 == First(ingester[i].left)
             task == [ingester[i] EXCEPT !.left = @ \ {k0}]
  <1>1. /\ ingester[i].pc = "chunking" /\ ingester[i] \in IngesterTask
        /\ UNCHANGED <<upload, blobs, status, outbox, topic, publisher>>
    BY DEF RecordChunk, Shape
  <1>2. k0 \in ingester[i].left /\ k0 \in ChunkIds
    <2>1. ingester[i].left \subseteq ChunkIds /\ ingester[i].left # {}
      BY <1>1 DEF IngesterTask, RecordChunk
    <2>2. ChunkIds \subseteq Nat
      BY DEF ChunkIds
    <2> QED BY <2>1, <2>2, FirstIsIn
  <1>3. Current(i) \in Uploads /\ upload[Current(i)].text.readable
    BY <1>1, CurrentRow DEF IngesterKnows
  <1>4. ingester' = [ingester EXCEPT ![i] = task]
    BY DEF RecordChunk, Shape
  <1>5. chunks' = [chunks EXCEPT ![Current(i)] =
                      [chunks[Current(i)] EXCEPT ![k0] = chunks[Current(i)][k0] + 1]]
    BY DEF RecordChunk
  <1> HIDE DEF k0
  <1>6. /\ task \in IngesterTask /\ task.done = ingester[i].done
        /\ task.batch = ingester[i].batch /\ task.left = ingester[i].left \ {k0}
        /\ task.connected = ingester[i].connected /\ task.pc = "chunking"
    BY <1>1 DEF IngesterTask
  <1> HIDE DEF task
  <1>7. chunks[Current(i)] \in [ChunkIds -> Nat] /\ chunks[Current(i)][k0] \in Nat
    BY <1>2, <1>3 DEF Shape
  <1> DEFINE more == [chunks[Current(i)] EXCEPT ![k0] = chunks[Current(i)][k0] + 1]
  <1>8. /\ more \in [ChunkIds -> Nat] /\ more[k0] > 0
        /\ \A k \in ChunkIds : k # k0 => more[k] = chunks[Current(i)][k]
        /\ chunks' = [chunks EXCEPT ![Current(i)] = more]
    <2>1. chunks[Current(i)][k0] + 1 \in Nat /\ chunks[Current(i)][k0] + 1 > 0
      BY <1>7
    <2> QED BY <1>2, <1>5, <1>7, <2>1
  <1> HIDE DEF more
  <1>9. chunks' \in [Uploads -> [ChunkIds -> Nat]]
    BY <1>8 DEF Shape
  <1>10. /\ \A u \in Uploads : u # Current(i) => chunks'[u] = chunks[u]
         /\ chunks'[Current(i)] = more
    BY <1>3, <1>8 DEF Shape
  <1>11. /\ chunks'[Current(i)][k0] > 0
         /\ \A k \in ChunkIds : k # k0 => chunks'[Current(i)][k] = chunks[Current(i)][k]
    BY <1>8, <1>10
  <1>12. \A u \in Uploads : \A k \in ChunkIds : chunks[u][k] > 0 => chunks'[u][k] > 0
    BY <1>10, <1>11
  <1>13. ingester'[i] = task
    BY <1>4 DEF Shape
  <1>14. Undone(i)' = Undone(i) /\ Undone(i) # {}
    BY <1>1, <1>6, <1>13 DEF Undone, IngesterKnows
  <1>15. Current(i)' = Current(i)
    BY <1>1, <1>14 DEF Current
  <1>16. IngesterKnows(i)'
    <2>1. (ingester[i].done \subseteq ingester[i].batch
             /\ ingester[i].batch \subseteq DOMAIN outbox)'
      BY <1>1, <1>6, <1>13 DEF IngesterKnows
    <2>3. \A r \in ingester[i].done : outbox[r].document \in Uploads
      BY DEF IngesterKnows, Shape, Row
    <2>4. \A u \in Uploads : Complete(u) =>
              \A k \in ChunksIn(upload[u].text) : chunks'[u][k] > 0
      BY <1>12, ChunksFit DEF Complete
    <2>5. \A r \in task.done : (upload[outbox[r].document].text.readable =>
              Complete(outbox[r].document))'
      BY <1>1, <1>6, <2>3, <2>4 DEF Complete, IngesterKnows
    <2>6. ChunksIn(upload[Current(i)].text) \subseteq ChunkIds
      BY <1>3, ChunksFit
    <2>7. \A k \in ChunksIn(upload[Current(i)].text) \ task.left :
              chunks'[Current(i)][k] > 0
      BY <1>1, <1>6, <1>11, <2>6 DEF IngesterKnows
    <2> QED BY <1>1, <1>3, <1>6, <1>13, <1>14, <1>15, <2>1, <2>5, <2>7 DEF IngesterKnows
  <1> QED BY <1>1, <1>4, <1>6, <1>9, <1>12, <1>16, SameLocks, IngesterMoves

LEMMA FinishDocumentHolds ==
    ASSUME PInv, NEW i \in Ingesters, FinishDocument(i)
    PROVE  PInv'
  <1> USE DEF PInv
  <1> DEFINE r0 == First(Undone(i))
             task == [ingester[i] EXCEPT !.pc = "opening", !.done = @ \cup {r0}]
  <1>1. /\ ingester[i].pc = "chunking" /\ ingester[i].left = {}
        /\ ingester[i] \in IngesterTask
        /\ UNCHANGED <<upload, blobs, status, outbox, topic, chunks, publisher>>
    BY DEF FinishDocument, Shape
  <1>2. r0 \in Undone(i) /\ r0 \in DOMAIN outbox /\ Current(i) = outbox[r0].document
          /\ Complete(Current(i))
    BY <1>1, CurrentRow DEF IngesterKnows, Current, Complete
  <1>3. r0 \in Nat /\ r0 \in ingester[i].batch
    BY <1>2 DEF Shape, Undone, IngesterTask
  <1>4. ingester' = [ingester EXCEPT ![i] = task]
    BY DEF FinishDocument, Shape
  <1> HIDE DEF r0
  <1>5. /\ task \in IngesterTask /\ task.done = ingester[i].done \cup {r0}
        /\ task.batch = ingester[i].batch /\ task.pc = "opening"
        /\ task.connected = ingester[i].connected
    BY <1>1, <1>3 DEF IngesterTask
  <1> HIDE DEF task
  <1>6. ingester'[i] = task
    BY <1>4 DEF Shape
  <1>7. IngesterKnows(i)'
    <2>1. (ingester[i].done \subseteq ingester[i].batch
             /\ ingester[i].batch \subseteq DOMAIN outbox)'
      BY <1>1, <1>3, <1>5, <1>6 DEF IngesterKnows
    <2>2. \A r \in task.done : upload[outbox[r].document].text.readable =>
              Complete(outbox[r].document)
      BY <1>2, <1>5 DEF IngesterKnows
    <2> QED BY <1>1, <1>5, <1>6, <2>1, <2>2 DEF IngesterKnows, Complete
  <1>8. chunks' \in [Uploads -> [ChunkIds -> Nat]]
    BY <1>1 DEF Shape
  <1> QED BY <1>1, <1>4, <1>5, <1>7, <1>8, SameLocks, IngesterMoves

(* A task that stops, loses its connection or starts afresh.                  *)
LEMMA InterruptionsHold ==
    ASSUME PInv, NEW i \in Ingesters,
           IngesterDies(i) \/ ConnectionLost(i) \/ NoticeLostConnection(i)
               \/ RestartIngester(i)
    PROVE  PInv'
  <1> USE DEF PInv
  <1>1. UNCHANGED <<upload, blobs, status, outbox, topic, chunks, publisher>>
    BY DEF IngesterDies, ConnectionLost, NoticeLostConnection, RestartIngester, IngesterStops
  <1>2. chunks' \in [Uploads -> [ChunkIds -> Nat]]
    BY <1>1 DEF Shape
  <1>3. CASE ConnectionLost(i)
    <2> DEFINE task == [ingester[i] EXCEPT !.connected = FALSE]
    <2>1. ingester' = [ingester EXCEPT ![i] = task] /\ ingester[i] \in IngesterTask
      BY <1>3 DEF ConnectionLost, Shape
    <2>2. /\ task \in IngesterTask /\ task.batch = ingester[i].batch /\ ~task.connected
          /\ task.done = ingester[i].done /\ task.left = ingester[i].left
          /\ task.pc = ingester[i].pc
      BY <2>1 DEF IngesterTask
    <2> HIDE DEF task
    <2>3. ingester'[i] = task
      BY <2>1 DEF Shape
    <2>4. Undone(i)' = Undone(i) /\ Current(i)' = Current(i)
      BY <1>1, <2>2, <2>3 DEF Undone, Current
    <2>5. IngesterKnows(i)'
      BY <1>1, <2>2, <2>3, <2>4 DEF IngesterKnows, Complete
    <2> QED BY <1>1, <1>2, <2>1, <2>2, <2>5, IngesterMoves
  <1>4. CASE ~ConnectionLost(i)
    <2>1. PICK task \in IngesterTask :
            /\ ingester' = [ingester EXCEPT ![i] = task]
            /\ task.batch = {} /\ task.done = {} /\ task.pc # "chunking"
      <3> DEFINE dead == [IdleIngester EXCEPT !.pc = "dead"]
      <3>1. /\ IdleIngester \in IngesterTask /\ IdleIngester.batch = {}
            /\ IdleIngester.done = {} /\ IdleIngester.pc # "chunking"
        BY DEF IdleIngester, IngesterTask
      <3>2. /\ dead \in IngesterTask /\ dead.batch = {} /\ dead.done = {}
            /\ dead.pc # "chunking"
        BY DEF IdleIngester, IngesterTask
      <3>3. \/ ingester' = [ingester EXCEPT ![i] = dead]
            \/ ingester' = [ingester EXCEPT ![i] = IdleIngester]
        BY <1>4 DEF IngesterDies, NoticeLostConnection, RestartIngester, IngesterStops
      <3> HIDE DEF dead
      <3> QED BY <3>1, <3>2, <3>3
    <2>2. ingester'[i] = task
      BY <2>1 DEF Shape
    <2>3. IngesterKnows(i)'
      BY <2>1, <2>2 DEF IngesterKnows
    <2> QED BY <1>1, <1>2, <2>1, <2>3, IngesterMoves
  <1> QED BY <1>3, <1>4

(* Statuses and stamps of the whole batch, every row of which is done.        *)
LEMMA CommitIngestedHolds ==
    ASSUME PInv, NEW i \in Ingesters, CommitIngested(i)
    PROVE  PInv'
  <1> USE DEF PInv
  <1>1. /\ ingester[i].connected /\ Undone(i) = {}
        /\ UNCHANGED <<upload, blobs, topic, chunks, publisher>>
        /\ ingester' = [ingester EXCEPT ![i] = IdleIngester]
    BY DEF CommitIngested
  <1>2. ingester[i].batch \subseteq DOMAIN outbox /\ ingester[i].batch = ingester[i].done
    BY <1>1 DEF IngesterKnows, Undone
  <1>3. \A r \in DOMAIN outbox : outbox[r] \in Row /\ outbox[r].document \in Uploads
    BY DEF Shape, Row
  <1>4. DOMAIN outbox' = DOMAIN outbox
    BY DEF CommitIngested
  <1>5. ASSUME NEW r \in DOMAIN outbox
        PROVE  /\ outbox'[r] \in Row /\ outbox'[r].document = outbox[r].document
               /\ outbox'[r].published = outbox[r].published
               /\ outbox'[r].ingested <=> outbox[r].ingested \/ r \in ingester[i].batch
    <2> DEFINE stamped == outbox[r].ingested \/ r \in ingester[i].batch
    <2>1. outbox'[r] = [outbox[r] EXCEPT !.ingested = stamped]
      BY DEF CommitIngested
    <2>2. stamped \in BOOLEAN
      BY <1>3 DEF Row
    <2>3. stamped <=> outbox[r].ingested \/ r \in ingester[i].batch
      OBVIOUS
    <2> HIDE DEF stamped
    <2> QED BY <1>3, <2>1, <2>2, <2>3 DEF Row
  <1>6. \A u \in Uploads : Outcome(u) \in {"indexed", "failed"}
    BY DEF Outcome
  <1>7. status' = [u \in Uploads |-> IF u \in IngestedBy(i) THEN Outcome(u) ELSE status[u]]
    BY DEF CommitIngested
  <1>8. \A r \in DOMAIN outbox : outbox[r].document \in IngestedBy(i) <=> r \in ingester[i].batch
    BY <1>2 DEF IngestedBy, StampsAreEarned
  <1>9. \A u \in IngestedBy(i) : u \in Uploads /\ status[u] # "none"
    BY <1>2, <1>3 DEF IngestedBy, StatusesMatchRows
  <1>10. /\ IdleIngester \in IngesterTask /\ IdleIngester.batch = {}
         /\ IdleIngester.done = {} /\ IdleIngester.pc # "chunking"
    BY DEF IdleIngester, IngesterTask
  <1>11. Shape'
    <2>1. status' \in [Uploads -> {"none", "queued", "indexed", "failed"}]
      BY <1>6, <1>7 DEF Shape
    <2> QED BY <1>1, <1>4, <1>5, <1>10, <2>1 DEF Shape
  <1>12. Grows
    BY <1>1, <1>4, <1>5 DEF Grows
  <1>13. \A u \in Uploads : status'[u] = "none" <=> status[u] = "none"
    BY <1>6, <1>7, <1>9
  <1>14. UploadsInOrder'
    BY <1>1, <1>13 DEF UploadsInOrder
  <1>15. \A u \in Uploads : Outcome(u)' = Outcome(u)
    BY <1>1 DEF Outcome
  <1>16. StatusesMatchRows'
    BY <1>3, <1>4, <1>5, <1>7, <1>13, <1>15 DEF StatusesMatchRows
  <1>17. StampsAreEarned'
    <2>1. Documents' = Documents
      BY <1>13 DEF Documents
    <2>2. /\ Documents' \subseteq blobs'
          /\ \A d \in Documents' : \E r \in DOMAIN outbox' : outbox'[r].document = d
          /\ \A r, q \in DOMAIN outbox' : outbox'[r].document = outbox'[q].document => r = q
          /\ \A d, e \in Documents' :
                upload'[d].key = upload'[e].key => d = e \/ upload'[d].key = NoKey
      BY <1>1, <1>4, <1>5, <2>1 DEF StampsAreEarned
    <2>3. ASSUME NEW r \in DOMAIN outbox
          PROVE  /\ outbox'[r].published => topic[outbox[r].document] > 0
                 /\ outbox'[r].ingested <=>
                        status'[outbox[r].document] \in {"indexed", "failed"}
                 /\ status'[outbox[r].document] = "indexed" => Complete(outbox[r].document)
      <3>1. outbox'[r].published => topic[outbox[r].document] > 0
        BY <1>5 DEF StampsAreEarned
      <3>2. CASE r \in ingester[i].batch
        <4>1. status'[outbox[r].document] = Outcome(outbox[r].document) /\ outbox'[r].ingested
          BY <1>3, <1>5, <1>7, <1>8, <3>2
        <4>2. upload[outbox[r].document].text.readable => Complete(outbox[r].document)
          BY <1>2, <3>2 DEF IngesterKnows
        <4> QED BY <1>3, <1>6, <3>1, <4>1, <4>2 DEF Outcome
      <3>3. CASE r \notin ingester[i].batch
        <4>1. status'[outbox[r].document] = status[outbox[r].document]
                /\ (outbox'[r].ingested <=> outbox[r].ingested)
          BY <1>3, <1>5, <1>7, <1>8, <3>3
        <4> QED BY <3>1, <4>1 DEF StampsAreEarned, Complete
      <3> QED BY <3>2, <3>3
    <2>4. ASSUME NEW r \in DOMAIN outbox'
          PROVE  LET d == outbox'[r].document IN
                 /\ outbox'[r].published => topic'[d] > 0
                 /\ outbox'[r].ingested <=> status'[d] \in {"indexed", "failed"}
                 /\ status'[d] = "indexed" =>
                       \A k \in ChunksIn(upload'[d].text) : chunks'[d][k] > 0
      BY <1>1, <1>4, <1>5, <2>3 DEF Complete
    <2> QED BY <2>2, <2>4 DEF StampsAreEarned
  <1>18. \A j \in Ingesters : IngesterKnows(j)'
    <2> TAKE j \in Ingesters
    <2>1. CASE j = i
      <3>1. ingester'[i] = IdleIngester
        BY <1>1 DEF Shape
      <3> QED BY <1>10, <2>1, <3>1 DEF IngesterKnows
    <2>2. CASE j # i
      <3>1. ingester'[j] = ingester[j]
        BY <1>1, <2>2 DEF Shape
      <3> QED BY <1>12, <3>1, IngesterRemembers
    <2> QED BY <2>1, <2>2
  <1>19. RowsAreLocked'
    <2>1. \A j \in Ingesters, r \in DOMAIN outbox : Locked(j, r)' => Locked(j, r) /\ j # i
      BY <1>1, <1>10 DEF Locked, Shape
    <2>2. \A r \in ingester[i].batch : Locked(i, r)
      BY <1>1 DEF Locked
    <2>3. \A j \in Ingesters, r \in DOMAIN outbox : Locked(j, r)' => ~outbox'[r].ingested
      BY <1>2, <1>5, <2>1, <2>2 DEF RowsAreLocked
    <2> QED BY <1>4, <2>1, <2>3 DEF RowsAreLocked
  <1> QED BY <1>1, <1>11, <1>12, <1>14, <1>16, <1>17, <1>18, <1>19, PublisherRemembers

----------------------------------------------------------------------------
LEMMA NextHolds == PInv /\ [PipelineNext]_pipelineVars => PInv'
  <1> SUFFICES ASSUME PInv, [PipelineNext]_pipelineVars PROVE PInv'
    OBVIOUS
  <1>1. CASE UNCHANGED pipelineVars
    BY <1>1 DEF PInv, Shape, UploadsInOrder, StatusesMatchRows, StampsAreEarned, Documents,
       Outcome, PublisherKnows, IngesterKnows, Complete, Undone, Current, RowsAreLocked, Locked
  <1>2. CASE PipelineNext
    BY <1>2, UploadMoves, CommitUploadHolds, PublisherMoves, CommitPublishedHolds,
       PollEventsHolds, OpenDocumentHolds, RecordChunkHolds, FinishDocumentHolds,
       CommitIngestedHolds, InterruptionsHold
    DEF PipelineNext, UploadStep, PublisherStep, IngesterStep
  <1> QED BY <1>1, <1>2

LEMMA PipelineInvariance == PipelineSpec => []PInv
  BY InitHolds, NextHolds, PTL DEF PipelineSpec

(* Whatever uploads, publishers and ingesters interleave, die, restart or lose *)
(* their connection: a document has its blob and one outbox row, its key is    *)
(* its own, published_at means that the event is on the topic, ingested_at     *)
(* goes with a final status, and "indexed" with every chunk in memory.         *)
THEOREM OutboxTellsTheTruth == PipelineSpec => []StampsAreEarned
  BY PipelineInvariance, PTL DEF PInv

(* A final status is never set twice to different values, and the chunks of a *)
(* document with a final status change only under an ingester whose row locks *)
(* are gone with its connection: SKIP LOCKED keeps all others apart.          *)
THEOREM FinalDocumentsStay == PipelineSpec => IndexedDocumentsStayAsTheyAre
  <1>1. ASSUME PInv, PipelineNext, NEW u \in Uploads, status[u] \in {"indexed", "failed"}
        PROVE  status'[u] = status[u]
    <2>1. CASE status' = status
      BY <2>1
    <2>2. ASSUME NEW v \in Uploads, CommitUpload(v) PROVE status'[u] = status[u]
      BY <1>1, <2>2 DEF CommitUpload, PInv, UploadsInOrder, Shape
    <2>3. ASSUME NEW i \in Ingesters, CommitIngested(i) PROVE status'[u] = status[u]
      BY <1>1, <2>3 DEF CommitIngested, PInv, StatusesMatchRows
    <2> QED BY <1>1, <2>1, <2>2, <2>3 DEF PipelineNext, UploadStep, BlobUploadFails,
       StoreBlob, CheckKey, PublisherStep, PollOutbox, PublishNext, CommitPublished,
       PublishRaises, PublisherDies, RestartPublisher, IngesterStep, PollEvents,
       OpenDocument, RecordChunk, FinishDocument, NoticeLostConnection, IngesterDies,
       ConnectionLost, RestartIngester, IngesterStops
  <1>2. ASSUME PInv, PipelineNext, NEW u \in Uploads, status[u] \in {"indexed", "failed"},
               chunks'[u] # chunks[u]
        PROVE  \E i \in Ingesters : ~ingester[i].connected
    <2>1. PICK i \in Ingesters : RecordChunk(i)
      BY <1>2 DEF PipelineNext, UploadStep, BlobUploadFails, StoreBlob, CheckKey,
         CommitUpload, PublisherStep, PollOutbox, PublishNext, CommitPublished,
         PublishRaises, PublisherDies, RestartPublisher, IngesterStep, PollEvents,
         OpenDocument, FinishDocument, CommitIngested, NoticeLostConnection, IngesterDies,
         ConnectionLost, RestartIngester, IngesterStops
    <2>2. u = Current(i)
      BY <1>2, <2>1 DEF RecordChunk, PInv, Shape
    <2>3. First(Undone(i)) \in Undone(i) /\ First(Undone(i)) \in DOMAIN outbox
      BY <1>2, <2>1, CurrentRow DEF RecordChunk, PInv, IngesterKnows
    <2>4. outbox[First(Undone(i))].ingested
      BY <1>2, <2>2, <2>3 DEF PInv, StampsAreEarned, Current
    <2>5. ~ingester[i].connected
      BY <1>2, <2>3, <2>4 DEF PInv, RowsAreLocked, Locked, Undone
    <2> QED BY <2>5
  <1>3. PInv /\ [PipelineNext]_pipelineVars =>
            [\A u \in Uploads :
                status[u] \in {"indexed", "failed"} =>
                    /\ status'[u] = status[u]
                    /\ chunks'[u] # chunks[u] => \E i \in Ingesters : ~ingester[i].connected
            ]_pipelineVars
    BY <1>1, <1>2
  <1> QED BY <1>3, PipelineInvariance, PTL DEF PipelineSpec, IndexedDocumentsStayAsTheyAre

===============================================================================
