CONSTANTS
    s1 = s1
    s2 = s2
    k1 = k1
    k2 = k2
    p1 = p1
    p2 = p2
    None = None
    Sessions <- MCSessions
    Listings <- MCListings
    Prices <- MCPrices
    Batches <- MCBatches
    IdLists <- MCIdLists
    StaleAfter = 0
    MaxTime = 1
    MaxTransactions = 3
SPECIFICATION FairSpec
INVARIANT TypeOK
INVARIANT HistoryCompleteUnlessOverlapped
PROPERTY DeactivatesOnlyUnseen
PROPERTY TransactionsEnd
\* Nobody begins a transaction after MaxTransactions.
CHECK_DEADLOCK FALSE
