-------------------------------- MODULE MCParts --------------------------------
(***************************************************************************)
(* Parts of the system that share no state, explored one at a time.        *)
(***************************************************************************)
EXTENDS SessionFactory, ConnectionPool, MCRetries, MCEmail

VARIABLE part

Init ==
    /\ part \in {"factory", "pool", "job", "email"}
    /\ FactoryInit
    /\ PoolInit /\ (part # "pool" => account = [u \in Subjects |-> "active"])
    /\ JobInit /\ (part # "job" => actor = CHOOSE a \in ActorOptions : TRUE)
    /\ EmailInit /\ (part # "email" => email = [u \in Users |-> Absent])

Factory(step) == part = "factory" /\ step /\ UNCHANGED <<poolVars, jobVars, emailVars, part>>
Pool(step) == part = "pool" /\ step /\ UNCHANGED <<factoryVars, jobVars, emailVars, part>>
Jobs(step) == part = "job" /\ step /\ UNCHANGED <<factoryVars, poolVars, emailVars, part>>
Email(step) == part = "email" /\ step /\ UNCHANGED <<factoryVars, poolVars, jobVars, part>>

Next == Factory(FactoryNext) \/ Pool(PoolNext) \/ Jobs(JobNext) \/ Email(EmailNext)

all == <<factoryVars, poolVars, jobVars, emailVars, part>>

\* The fairness of each part; those that rest have no step to take.
Spec ==
    /\ Init
    /\ [][Next]_all
    /\ \A t \in Threads : WF_factoryVars(ThreadStep(t))
    /\ \A r \in Requests : SF_poolVars(RequestStep(r) \/ CheckOut(r))
    /\ \A c \in Copies : WF_jobVars(JobStep(c))

\* What was begun ends: every call of the session factory, also after another
\* thread failed to build it; every request, although it needs the only connection
\* twice; every copy of a job, wherever its worker dies.
EverythingEnds == EveryCallReturns /\ RequestsDrain /\ JobEnds
=============================================================================
