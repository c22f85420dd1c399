\* Parts that share no state, one at a time.  Three worker threads that each ask
\* for the session factory twice, with any number of failed constructions; two
\* requests, one connection, which an authenticated one needs twice; every kind of
\* failure and of options, with a worker that dies once; and migrations over
\* colliding addresses, with crashes and accounts written in between.
SPECIFICATION Spec
CONSTANTS
    Threads = {t1, t2, t3}
    Free = Free
    MaxCalls = 2
    Requests = {r1, r2}
    Subjects = {s1}
    PoolLimit = 1
    WorkerThreads = 2
    ActorOptions <- Actors
    MessageOptions <- Senders
    MaxCopies = 5
    None = None
    ExplicitDelay = 7
    MaxCrashes = 1
    Absent = Absent
    Users = {u1, u2, u3}
    Addresses = {"a", "A", "b", "B", "!"}
    Valid = {"a", "A", "b", "B"}
    Canonical <- MCCanonical
    MaxWrites = 3
INVARIANTS OneEngine PoolInv RetriesAsDeclared NoStatementRefused RollbackExact
PROPERTIES EverythingEnds
\* Threads, requests and jobs end, and colliding addresses stop both migrations.
CHECK_DEADLOCK FALSE
