\* Three batches of two items, the last one shorter; two batches at a time.
CONSTANTS
    Items = 5
    BatchSize = 2
    MaxConcurrent = 2
    Attempts = 3
SPECIFICATION Spec
INVARIANT RetryCallsAgain
CHECK_DEADLOCK FALSE
