SPECIFICATION ComponentsSpec

CONSTANTS
    Users = {alice, bob}
    NoOne = NoOne
    Conversations = {c1, c2}
    MaxTurns = 3
    MaxExchanges = 3

    Uploads = {u1, u2}
    u1 = u1
    u2 = u2
    Keys = {k1}
    k1 = k1
    NoKey = NoKey
    Requests <- MCRequests
    Publishers = {p1}
    Ingesters = {i1, i2}
    BatchSize = 2
    MaxPublishRetries = 1
    MaxChunksPerText = 2
    MaxPipelineFaults = 1

    SettingsRead <- MCSettingsRead
    MaxContainerFaults = 2

    Contents = {0, 1, 2}
    TokensOf <- MCTokensOf
    TotalBudget = 5
    MaxBlocks = 2

    SiteCodes = {"north", "south"}
    AnySite = "any"
    InitialRows <- MCInitialRows
    Payloads <- MCPayloads
    EvidenceLimit = 2
    MaxSnapshots = 3
    MaxStatusChanges = 1

    Registrations = {call1, call2}
    Emails = {lower, upper}
    lower = lower
    upper = upper
    LowerTrim <- MCLowerTrim
    NameLengths = {1, 2}
    ImportedRows <- MCImportedRows
    short = short
    long = long
    AuditRequests <- MCAuditRequests
    EarliestTime = 0
    LatestTime = 1

    MaxCalls = 1
    WindowSeconds = 2
    TicksPerSecond = 1
    MaxTime = 2
    Runs = {r1, r2}
    r1 = r1
    r2 = r2
    Actors = {alice}
    alice = alice
    ActorOf <- MCActorOf
    Tools = {read, write}
    read = read
    write = write
    WriteTools = {write}
    SiteTools = {read}
    NoTool = NoTool
    Sites = {north, south}
    north = north
    south = south
    NoSite = NoSite
    MaxRetries <- MCMaxRetries
    AllowWriteTools = FALSE
    QueriesMayFail = TRUE
    MaxTotalCalls = 2
    MaxCallsPerTool = 1
    RequestsOf <- MCRequestsOf

CHECK_DEADLOCK FALSE

INVARIANTS
    StampsAreEarned
    ValidSettingsBuild
    UsersStopFirst
    ContextFitsBudget
    ToolResultsAdapt
    FollowUpsQuoteTheLatestResult
    OneUserPerEmail
    AuditMissesNothing
    CallsWithinBudget
    AdmissionsBounded
    RetryAfterIsHonest
    DecisionsAreDurable
    HandlersSeeAuthorizedSites

PROPERTIES
    InMemoryImplementsLedger
    IndexedDocumentsStayAsTheyAre
    OutboxIsWorkedOff
    QueriesEnd
