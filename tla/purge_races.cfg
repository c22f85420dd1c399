\* A request and a purge worker on the rows of one rotation chain, with a
\* retention window, batches of one or two and a worker crash.
SPECIFICATION Spec
CONSTANTS
    Users = {u1}
    Ids = {i1, i2, i3}
    Requests = {r1}
    Workers = {w1}
    None = None
    Lifetime = 1
    Leeway = 0
    Retention = 1
    MaxTime = 3
    BatchSizes = {1, 2}
    MaxBatches = 2
    MaxRetries = 1
    MaxCrashes = 1
SYMMETRY Symmetry
INVARIANTS AuthInv
PROPERTIES PurgeOnlyStale ChainsLeftIntact
\* Handlers and workers may all be idle with the clock at its bound.
CHECK_DEADLOCK FALSE
