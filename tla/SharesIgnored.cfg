SPECIFICATION ContextSpec

CONSTANTS
    Contents = {1, 2}
    TokensOf <- MCTokensOf
    TotalBudget = 6
    MaxBlocks = 2

CHECK_DEADLOCK FALSE

INVARIANTS
    SharesAreKept
