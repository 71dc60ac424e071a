SPECIFICATION FairSpec

CONSTANTS
    Users = {alice, bob}
    NoOne = NoOne
    Conversations = {c1}
    Queries = {q1, q2}
    Jobs = {j1}
    MaxFaults = 1

INVARIANTS
    TypeOK
    RowsMatchTheirConversation
    QueriesReadTheirOwnersRows

PROPERTIES
    ConsolidationReadsEveryTurn
    LiveTurnsLeaveWithTheirConversation
    ImplementsLedger
    QueriesEnd
    StaleConversationsArePurged

CHECK_DEADLOCK FALSE
