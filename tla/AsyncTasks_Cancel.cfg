CONSTANTS
    None = None
    MaxTasks = 2
    MaxSteps = 3
SPECIFICATION Spec
INVARIANT CancelledStaysCancelled
\* Tasks end.
CHECK_DEADLOCK FALSE
