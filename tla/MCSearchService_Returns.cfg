CONSTANTS
    p1 = p1
    p2 = p2
    s1 = s1
    s2 = s2
    k1 = k1
    k2 = k2
    k3 = k3
    None = None
    Parsers <- MCParsers
    ParserOrder <- MCParserOrder
    Searches <- MCSearches
    Pages <- MCPages
    Keys <- MCKeys
    Bits <- MCBits
    Hash <- MCHash
    UseExactCheck = TRUE
    ExactCheckThreshold = 3
    FailureThreshold = 1
    SuccessThreshold = 1
    Timeout = 1
SPECIFICATION Spec
INVARIANT ReturnsWhatItFound
