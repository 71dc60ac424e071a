SPECIFICATION FairSpec

CONSTANTS
    MaxRecords = 2
    MaxChunks = 0
    MaxBackoffExponent = 2
    Users = {alice}
    NoOwner = NoOwner
    Facts = {f1}
    NoFact = NoFact
    Convs = {v1, v2}
    NoConv = NoConv
    Nobody = Nobody
    alice = alice
    bob = bob
    v1 = v1
    SyncWorkers = {}
    Reconcilers = {}
    RetentionJobs = {}
    Consolidators = {c1}
    Erasers = {e1}
    SyncBatchSize = 1
    RetentionBatchSize = 1
    ConsolidationBatchSize = 1
    MaxFaults = 0
    ConvOwner <- MCOneOwner

CHECK_DEADLOCK FALSE

PROPERTIES
    ErasureCompletes
