SPECIFICATION DeploymentsSpec

CONSTANTS
    MaxRecords = 2
    MaxChunks = 1
    MaxBackoffExponent = 1
    Users = {alice}
    NoOwner = NoOwner
    Facts = {f1}
    NoFact = NoFact
    Convs = {v1, v2}
    NoConv = NoConv
    Nobody = Nobody
    alice = alice
    bob = bob
    s1 = s1
    s2 = s2
    r1 = r1
    t1 = t1
    c1 = c1
    c2 = c2
    v1 = v1
    v2 = v2
    SyncWorkers = {s1, s2}
    Reconcilers = {r1}
    RetentionJobs = {t1}
    Consolidators = {c1, c2}
    Erasers = {}
    SyncBatchSize = 2
    RetentionBatchSize = 2
    ConsolidationBatchSize = 1
    MaxFaults = 2
    ConvOwner <- MCOneOwner

INVARIANTS
    TypeOK
    SyncingRowsStayLive
    VectorsHaveRows
    OneActiveRowPerFact

PROPERTIES
    OnlyLiveRowsArePublished
    StampsFailOnlyWithVectors
    LiveVectorsAreKept
    ImplementsMirroredIndex
