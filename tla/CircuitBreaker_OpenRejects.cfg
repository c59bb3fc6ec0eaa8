\* Three callers on one breaker, thresholds of 2 so that late results of calls
\* admitted in one state can decide the next one.
CONSTANTS
    None = None
    Callers = {c1, c2, c3}
    FailureThreshold = 2
    SuccessThreshold = 2
    Timeout = 1
    MaxCalls = 6
    ResetBound = 4
    MaxTime = 1
SPECIFICATION Spec
PROPERTY OpenRejectsUntilTimeout
\* The callers stop once MaxCalls calls were made.
CHECK_DEADLOCK FALSE
