SPECIFICATION Spec

CONSTANTS
    MaxRecords = 1
    MaxChunks = 1
    MaxBackoffExponent = 1
    Users = {alice}
    NoOwner = NoOwner
    Facts = {f1}
    NoFact = NoFact
    Convs = {v1}
    NoConv = NoConv
    Nobody = Nobody
    alice = alice
    bob = bob
    v1 = v1
    SyncWorkers = {s1}
    Reconcilers = {r1}
    RetentionJobs = {}
    Consolidators = {}
    Erasers = {}
    SyncBatchSize = 1
    RetentionBatchSize = 1
    ConsolidationBatchSize = 1
    MaxFaults = 0
    ConvOwner <- MCOneOwner

PROPERTIES
    ReconciliationDeletesOnlyOrphans
