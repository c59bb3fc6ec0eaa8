CONSTANTS
    Tasks = {t1, t2, t3}
    MaxRequests = 2
    TimeWindow = 2
    MaxTime = 4
    MaxAcquires = 5
SPECIFICATION Spec
INVARIANT WindowRespected
\* The tasks stop after MaxAcquires calls and the clock at MaxTime.
CHECK_DEADLOCK FALSE
