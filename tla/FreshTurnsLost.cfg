SPECIFICATION Spec

CONSTANTS
    Users = {alice}
    NoOne = NoOne
    Conversations = {c1}
    Queries = {q1, q2}
    Jobs = {j1}
    MaxFaults = 0

PROPERTY
    RetentionDeletesOnlyExpired

CHECK_DEADLOCK FALSE
