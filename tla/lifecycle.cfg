\* Two accounts, a request and a purge worker: every step of the system is a
\* step of the token lifecycle.
SPECIFICATION Spec
CONSTANTS
    Users = {u1, u2}
    Ids = {i1, i2, i3}
    Requests = {r1}
    Workers = {w1}
    None = None
    Lifetime = 1
    Leeway = 0
    Retention = 0
    MaxTime = 2
    BatchSizes = {2}
    MaxBatches = 2
    MaxRetries = 1
    MaxCrashes = 0
SYMMETRY Symmetry
PROPERTIES ImplementsLifecycle
\* Handlers and workers may all be idle with the clock at its bound.
CHECK_DEADLOCK FALSE
