CONSTANTS
    c1 = c1
    c2 = c2
    k1 = k1
    k2 = k2
    None = None
    Clients <- MCClients
    Keys <- MCKeys
    Ttls <- MCTtls
    DefaultTtl = 1
    CacheNone = FALSE
    MayFail = TRUE
    MaxVersion = 2
    MaxTime = 2
    MaxSize = 1
SPECIFICATION Spec
INVARIANT TypeOK
INVARIANT CoherentUnlessOverlapped
 
SYMMETRY MCSymmetry
