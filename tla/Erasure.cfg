SPECIFICATION FairSpec

CONSTANTS
    MaxRecords = 1
    MaxChunks = 0
    MaxBackoffExponent = 2
    Users = {alice, bob}
    NoOwner = NoOwner
    Facts = {f1}
    NoFact = NoFact
    Convs = {v1}
    NoConv = NoConv
    Nobody = Nobody
    alice = alice
    bob = bob
    v1 = v1
    SyncWorkers = {s1}
    Reconcilers = {r1}
    RetentionJobs = {}
    Consolidators = {c1}
    Erasers = {e1}
    SyncBatchSize = 1
    RetentionBatchSize = 1
    ConsolidationBatchSize = 1
    MaxFaults = 1
    ConvOwner <- MCOneOwner

CHECK_DEADLOCK FALSE

INVARIANTS
    ErasureTouchesOwnRowsOnly

PROPERTIES
    LiveVectorsAreKept
    OrphansAreSwept
    EveryRowIsSynced
