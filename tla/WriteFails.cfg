SPECIFICATION Spec

CONSTANTS
    MaxCalls = 1
    WindowSeconds = 2
    TicksPerSecond = 1
    MaxTime = 3
    Runs = {r1, r2}
    r1 = r1
    r2 = r2
    Actors = {alice}
    alice = alice
    ActorOf <- MCActorOf
    Tools = {read, write}
    read = read
    write = write
    WriteTools = {write}
    SiteTools = {read}
    NoTool = NoTool
    Sites = {north, south}
    north = north
    south = south
    NoSite = NoSite
    MaxRetries <- MCMaxRetries
    AllowWriteTools = TRUE
    QueriesMayFail = FALSE
    MaxTotalCalls = 2
    MaxCallsPerTool = 1
    RequestsOf <- MCRequestsOf

CHECK_DEADLOCK FALSE

INVARIANTS
    ApprovedChangesSucceed
