CONSTANTS
    k1 = k1
    k2 = k2
    k3 = k3
    v1 = v1
    v2 = v2
    c1 = c1
    c2 = c2
    None = None
    Keys <- MCKeys
    Values <- MCValues
    Ttls <- MCTtls
    MaxSize = 2
    MaxTime = 2
    MaxOps = 4
    TagCallers = {c1, c2}
    TagKeys = {"avito", "cian"}
    Tags = {"parser"}
    TagsOf <- MCTagsOf
    TagTtl = 2
    MaxVersion = 1
    Processes = {"p", "q"}
    Users = {"user"}
    Reached <- MCReached
    CacheTtl = 2
    Lifetime = 1
    Starters = {"s", "t"}
    Stoppers = {"u", "v"}
    MaxTasks = 4
SPECIFICATION MCSpec
INVARIANT CachesTypeOK
INVARIANT ServesLastWrite
 
INVARIANT CachedAnswersRecent
INVARIANT OneTaskRuns
PROPERTY EvictsLeastRecentlyUsed
SYMMETRY MCSymmetry
\* The callers stop after MaxOps calls and the clocks at their MaxTime.
CHECK_DEADLOCK FALSE
