CONSTANTS
    None = None
    k1 = k1
    k2 = k2
    k3 = k3
    k4 = k4
    a1 = a1
    a2 = a2
    x1 = x1
    x2 = x2
    Keys <- MCKeys
    Bits <- MCBits
    Hash <- MCHash
    UseExactCheck = TRUE
    ExactCheckThreshold = 2
    Sockets = {a1, a2, "s3"}
    Messages = {"m"}
    Asked = {"city", "general"}
\* One parser at a time, over one location at a time.
    Parsers = {a1, a2}
    Places = {x1, x2}
    MaxParsers = 1
    MaxLocations = 1
    LocationRetries = 1
\* Three batches, the last one shorter, of which two run at a time.
    Items = 5
    BatchSize = 2
    MaxConcurrent = 2
    Attempts = 3
    Callers = {a1, a2}
    Checkers = {x1, x2}
    MaxRetries = 1
    ErrorThreshold = 1
    ConsecutiveFailureThreshold = 2
    AlertCooldown = 2
    MaxCalls = 2
    MaxTime = 4
\* Three calls of add_rule: one rule removed and another added during one notification.
    RuleNames = {x1, x2}
    Loops = {1, 2}
    Cooldown = 2
    MaxAdded = 3
    CheckTime = 2
    Limits = {0, 2, 3}
    Offsets = {0, 1}
    BATCH_SIZE = 2
    MaxRows = 4
    MaxChanges = 2
    Writers = {1, 2, 3}
    AuditBatch = 2
    MaxEntries = 5
    MaxTasks = 2
    MaxSteps = 3
\* Four alerts: some are deleted and a new one takes the number of another.
    Emails = {x1, x2}
    MaxAlerts = 4
    ClientNames = {x1, x2}
    Users = {a1, a2}
    RequestAttempts = 2
    MaxClients = 2
    MaxRequests = 2
\* One property, with a row as a favourite and a row in a collection.
    Sessions = {a1, a2}
    Properties = {"p"}
    Collections = {x1, x2}
    MaxBookings = 3
    Offers <- MCOffers
    Requests <- MCRequests
    PageLimits = {1, 2}
    MaxFound = 3
    ListingChanges = 2
SPECIFICATION MCSpec
INVARIANT ServicesTypeOK
INVARIANT SeenIsRemembered
INVARIANT FalsePositivesAreCollisions
INVARIANT ConnectedAreServed
INVARIANT WorkAccounted
INVARIANT AlertingSound
 
INVARIANT AnswerDistinctAndComplete
 
INVARIANT TasksAnswerTruly
INVARIANT PoolSound
SYMMETRY MCSymmetry
\* Batches end, callers stop at their bounds and clients hang up.
CHECK_DEADLOCK FALSE
