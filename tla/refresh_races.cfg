\* One account, three requests, no purge: every race between logins,
\* rotations, replays and logouts of one user.
SPECIFICATION Spec
CONSTANTS
    Users = {u1}
    Ids = {i1, i2, i3}
    Requests = {r1, r2, r3}
    Workers = {}
    None = None
    Lifetime = 1
    Leeway = 1
    Retention = 0
    MaxTime = 2
    BatchSizes = {2}
    MaxBatches = 2
    MaxRetries = 1
    MaxCrashes = 0
SYMMETRY Symmetry
INVARIANTS Inv OneSuccessor ChainShape
PROPERTIES ReuseContained IssuedToActive AnsweredIsSpent
\* Handlers and workers may all be idle with the clock at its bound.
CHECK_DEADLOCK FALSE
