---------------------------- MODULE MemoryMirror ----------------------------
(* The shared state of long-term memory: the PostgreSQL mirror table          *)
(* assistant_memory_records, its candidate table, the row locks that open     *)
(* transactions hold, and the vector index (Pinecone) the mirror describes.   *)
(* The workers that act on this state are modules of their own.               *)
(*                                                                            *)
(* A conversation stands for its turns, so source_turn_ids is a set of        *)
(* conversations; a fact stands for its normalized content hash.              *)
EXTENDS Naturals, FiniteSets

CONSTANTS
    MaxRecords,          \* bound: memory rows ever inserted
    MaxChunks,           \* bound: how many of them are document chunks
    MaxBackoffExponent,  \* largest retry count whose power of two is a finite float
    Users, NoOwner,
    Facts, NoFact,
    Convs, NoConv,
    ConvOwner,           \* [Convs -> Users]
    SyncWorkers, Erasers, Nobody

ASSUME MaxRecordsAssumption == MaxRecords \in Nat \ {0}
ASSUME MaxChunksAssumption == MaxChunks \in Nat
ASSUME BackoffAssumption == MaxBackoffExponent \in Nat
ASSUME OwnersAssumption == /\ NoOwner \notin Users
                           /\ ConvOwner \in [Convs -> Users]
ASSUME SessionsAssumption == /\ Nobody \notin SyncWorkers \cup Erasers
                             /\ SyncWorkers \cap Erasers = {}

VARIABLES
    rows,       \* the table: a row's life, and what outlives it in the vector's metadata
    vectors,    \* vector ids stored under each namespace of the index
    lockedBy,   \* the session whose open transaction holds the row's lock
    promotions  \* candidates whose promoted_memory_record_id is set

mirrorVars == <<rows, vectors, lockedBy, promotions>>

(* Rows are numbered in created_at order; the number is the id, and so the    *)
(* vector id, which uuid4 never reuses.                                       *)
MemoryIds == 1 .. MaxRecords
Kinds == {"conversation_summary", "document_chunk"}
Namespaces == {"user-memory", "documents"}
NamespaceFor(kind) ==
    IF kind = "conversation_summary" THEN "user-memory" ELSE "documents"

(* "unused": not inserted yet; "live": deleted_at is NULL; "soft": deleted_at *)
(* is set; "gone": the row was deleted. expiry abstracts expires_at.          *)
RowStates == {"unused", "live", "soft", "gone"}
Row == [state : RowStates, kind : Kinds, owner : Users \cup {NoOwner},
        fact : Facts \cup {NoFact}, sources : SUBSET Convs,
        expiry : {"never", "ahead", "passed"}, synced : BOOLEAN,
        retries : 0 .. MaxBackoffExponent]

InsertedRow(kind, owner, fact, sources, expiry) ==
    [state |-> "live", kind |-> kind, owner |-> owner, fact |-> fact,
     sources |-> sources, expiry |-> expiry, synced |-> FALSE, retries |-> 0]
UnusedRow ==
    [InsertedRow("document_chunk", NoOwner, NoFact, {}, "never")
        EXCEPT !.state = "unused"]

(* What is still known of a deleted row is what its vector's metadata says.   *)
DeletedRow(row) ==
    [UnusedRow EXCEPT !.state = "gone", !.kind = row.kind, !.owner = row.owner]

Promotion == [conv : Convs, fact : Facts, record : MemoryIds]

MirrorTypeOK ==
    /\ rows \in [MemoryIds -> Row]
    /\ vectors \in [Namespaces -> SUBSET MemoryIds]
    /\ lockedBy \in [MemoryIds -> SyncWorkers \cup Erasers \cup {Nobody}]
    /\ promotions \in SUBSET Promotion

Live(m) == rows[m].state = "live"
Soft(m) == rows[m].state = "soft"
Gone(m) == rows[m].state = "gone"
Unlocked(m) == lockedBy[m] = Nobody
Namespace(m) == NamespaceFor(rows[m].kind)
FreshId(m) == /\ rows[m].state = "unused"
              /\ \A k \in 1 .. (m - 1) : rows[k].state # "unused"

(* ORDER BY created_at LIMIT n                                                *)
FirstOf(S, n) == {m \in S : Cardinality({k \in S : k < m}) < n}
(* LIMIT n under an order the model does not keep                             *)
LimitedTo(S, n) ==
    {B \in SUBSET S : Cardinality(B) = IF Cardinality(S) < n THEN Cardinality(S) ELSE n}

(* The active row of a user's fact: at most one, by the partial unique index. *)
ActiveFact(user, fact) ==
    {m \in MemoryIds : /\ Live(m)
                       /\ rows[m].kind = "conversation_summary"
                       /\ rows[m].owner = user
                       /\ rows[m].fact = fact}

DeleteRowsOf(S) ==
    rows' = [m \in MemoryIds |->
                IF m \in S /\ rows[m].state \in {"live", "soft"}
                THEN DeletedRow(rows[m]) ELSE rows[m]]
ReleaseLocks(session) ==
    lockedBy' = [m \in MemoryIds |->
                    IF lockedBy[m] = session THEN Nobody ELSE lockedBy[m]]
DeleteIds(namespace, S) ==
    vectors' = [vectors EXCEPT ![namespace] = @ \ S]

MirrorInit ==
    /\ rows = [m \in MemoryIds |-> UnusedRow]
    /\ vectors = [n \in Namespaces |-> {}]
    /\ lockedBy = [m \in MemoryIds |-> Nobody]
    /\ promotions = {}

Chunks == {m \in MemoryIds : rows[m].state # "unused" /\ rows[m].kind = "document_chunk"}

(* Document ingestion commits one chunk: owned by nobody, and never expiring. *)
RecordDocumentChunk ==
    /\ Cardinality(Chunks) < MaxChunks
    /\ \E m \in MemoryIds :
          /\ FreshId(m)
          /\ rows' = [rows EXCEPT ![m] =
                        InsertedRow("document_chunk", NoOwner, NoFact, {}, "never")]
    /\ UNCHANGED <<vectors, lockedBy, promotions>>

(* The clock reaches a row's expires_at.                                      *)
ExpiryPasses ==
    /\ \E m \in MemoryIds :
          /\ rows[m].expiry = "ahead"
          /\ rows' = [rows EXCEPT ![m].expiry = "passed"]
    /\ UNCHANGED <<vectors, lockedBy, promotions>>
=============================================================================
