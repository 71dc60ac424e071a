SPECIFICATION FairSpec

CONSTANTS
    MaxRecords = 2
    MaxChunks = 0
    MaxBackoffExponent = 2
    Users = {alice}
    NoOwner = NoOwner
    Facts = {f1}
    NoFact = NoFact
    Convs = {v1, v2}
    NoConv = NoConv
    Nobody = Nobody
    alice = alice
    bob = bob
    v1 = v1
    SyncWorkers = {s1}
    Reconcilers = {}
    RetentionJobs = {t1}
    Consolidators = {c1}
    Erasers = {}
    SyncBatchSize = 1
    RetentionBatchSize = 1
    ConsolidationBatchSize = 1
    MaxFaults = 0
    ConvOwner <- MCOneOwner

INVARIANTS
    LineagePreserved

PROPERTIES
    ExpiredMemoryIsPurged
    IdleConversationsAreConsolidated
