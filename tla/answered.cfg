\* Two requests under fair scheduling: lock waits end.
SPECIFICATION FairSpec
CONSTANTS
    Users = {u1}
    Ids = {i1, i2}
    Requests = {r1, r2}
    Workers = {}
    None = None
    Lifetime = 1
    Leeway = 1
    Retention = 0
    MaxTime = 2
    BatchSizes = {2}
    MaxBatches = 2
    MaxRetries = 1
    MaxCrashes = 0
PROPERTIES EveryRequestAnswered
\* Handlers and workers may all be idle with the clock at its bound.
CHECK_DEADLOCK FALSE
