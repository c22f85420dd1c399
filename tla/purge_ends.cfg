\* A request and a purge worker under fair scheduling: each gets through,
\* also out of a deadlock with the other.
SPECIFICATION FairSpec
CONSTANTS
    Users = {u1}
    Ids = {i1, i2, i3}
    Requests = {r1}
    Workers = {w1}
    None = None
    Lifetime = 1
    Leeway = 1
    Retention = 0
    MaxTime = 2
    BatchSizes = {2}
    MaxBatches = 2
    MaxRetries = 1
    MaxCrashes = 0
INVARIANTS RequestsDeadlockOnlyWhenStale
PROPERTIES EveryRequestAnswered EveryPurgeEnds
\* Handlers and workers may all be idle with the clock at its bound.
CHECK_DEADLOCK FALSE
