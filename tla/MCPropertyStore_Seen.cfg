CONSTANTS
    s1 = s1
    s2 = s2
    k1 = k1
    k2 = k2
    p1 = p1
    p2 = p2
    None = None
    Sessions <- MCSessions
    Listings <- MCListings
    Prices <- MCPrices
    Batches <- MCBatches
    IdLists <- MCIdLists
    StaleAfter = 1
    MaxTime = 2
    MaxTransactions = 3
SPECIFICATION Spec
PROPERTY SeenIsActive
\* Nobody begins a transaction after MaxTransactions.
CHECK_DEADLOCK FALSE
