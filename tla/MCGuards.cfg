CONSTANTS
    t1 = t1
    t2 = t2
    t3 = t3
    None = None
    Callers <- MCCallers
    FailureThreshold = 2
    SuccessThreshold = 2
    Timeout = 1
    MaxCalls = 6
    ResetBound = 4
    MaxTime = 1
\* Three tasks, two requests in a window.
    KeyTasks <- MCCallers
    KeyRequests = 2
    KeyWindow = 3
    KeyTime = 5
    KeyAcquires = 6
\* Two requests a second, three in two; half seconds, so that truncation matters.
    AddressRequests = 3
    AddressWindow = 2
    BurstRequests = 2
    BurstWindow = 1
    Second = 2
    AddressTime = 9
    AdaptiveTasks = {t1, t2}
    MinDelay = 1
    BaseDelay = 2
    MaxDelay = 5
    AdaptiveSuccesses = 2
    AdaptiveTime = 7
    Kinds = {"login", "register"}
    AttemptLimits <- MCAttempts
    AttemptWindows <- MCAttemptWindows
    Bans <- MCBans
    AuthTime = 6
    Tiers = {"anonymous", "admin"}
    TierRequests <- MCTierRequests
    TierBursts <- MCTierBursts
    DailyLimit <- MCDailyLimit
    TierWindow = 2
    TierBurstWindow = 1
    Day = 3
    TierTime = 5
    Roles = {"user", "admin"}
    RoleRequests <- MCRoleRequests
    Endpoints = {"list", "login", "search"}
    EndpointRequests <- MCEndpointRequests
    RoleWindow = 2
    EndpointWindow <- MCEndpointWindow
    RoleTime = 4
SPECIFICATION MCSpec
INVARIANT TypeOK
 
INVARIANT ClosedBelowThreshold
INVARIANT CallsAccounted
PROPERTY ImplementsProtocol
INVARIANT LimitersTypeOK
 
INVARIANT CountsWhatWasAdmitted
INVARIANT NoOvertaking
INVARIANT WaitingSuffices
PROPERTY BanStands
SYMMETRY MCSymmetry
\* The callers stop after their calls and the clocks at their MaxTime.
CHECK_DEADLOCK FALSE
