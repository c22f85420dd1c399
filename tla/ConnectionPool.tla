---------------------------- MODULE ConnectionPool ----------------------------
(***************************************************************************)
(* What a request does with accounts, threads and database connections:    *)
(* bearer authentication in a session of its own, then the endpoint in the *)
(* session of the request, both from one bounded pool, while an operator   *)
(* changes the accounts.                                                   *)
(***************************************************************************)
EXTENDS FiniteSets, Naturals

CONSTANTS
    Requests,
    Subjects,
    PoolLimit,      \* pool_size + max_overflow
    WorkerThreads   \* threads that run synchronous handlers and dependencies

ASSUME SubjectsAssumption == Subjects # {}
ASSUME PoolAssumption == PoolLimit \in Nat \ {0}
ASSUME ThreadAssumption == WorkerThreads \in Nat \ {0}

VARIABLES
    account,    \* state of each users row
    pc,         \* where each request is
    job,        \* what each request asks for
    seen,       \* the state of its account each request read
    held,       \* connections checked out: <<request, session>>
    answer,     \* the status each request is answered with, 0 before
    during      \* history: the states of its account since the request began

poolVars == <<account, pc, job, seen, held, answer, during>>

States == {"active", "inactive", "removed"}
Sessions == {"lookup", "endpoint"}

\* Collections are read without a token, written with one; users/me reads the
\* account only; register, login, refresh and logout write without a token;
\* readiness reads, and turns a database error into 503.
Routes == {
    [guard |-> FALSE, session |-> "reads",   failure |-> 500],
    [guard |-> FALSE, session |-> "commits", failure |-> 500],
    [guard |-> TRUE,  session |-> "commits", failure |-> 500],
    [guard |-> TRUE,  session |-> "none",    failure |-> 500],
    [guard |-> FALSE, session |-> "reads",   failure |-> 503]}

\* No header, a token decode_token refuses, or a token whose subject is user.
Credentials == {"none", "refused", "valid"}

\* An endpoint without a guard does not look at the header.
Job == {j \in [route : Routes, credentials : Credentials, user : Subjects] :
            j.route.guard \/ j.credentials = "none"}

PoolInit ==
    /\ account \in [Subjects -> {"active", "removed"}]
    /\ pc = [r \in Requests |-> "new"]
    /\ job = [r \in Requests |-> CHOOSE j \in Job : TRUE]
    /\ seen = [r \in Requests |-> "removed"]
    /\ held = {}
    /\ answer = [r \in Requests |-> 0]
    /\ during = [r \in Requests |-> {}]

Running(r) == pc[r] \notin {"new", "answered"}

\* A thread is busy while it runs a dependency or the endpoint, also while it
\* is blocked in the pool.
Busy == {r \in Requests : pc[r] \in {"lookup", "loading", "query", "work"}}

Goto(r, point) == pc' = [pc EXCEPT ![r] = point]

Answer(r, status) == answer' = [answer EXCEPT ![r] = status]

ReturnConnections(r) == held' = {c \in held : c[1] # r}

Arrive(r) ==
    /\ pc[r] = "new"
    /\ \E j \in Job :
        /\ job' = [job EXCEPT ![r] = j]
        /\ during' = [during EXCEPT ![r] = {account[j.user]}]
        /\ Goto(r, IF j.route.guard THEN "guard" ELSE "enter")
    /\ UNCHANGED <<account, seen, held, answer>>

\* get_current_user up to its session: a refused token is answered before
\* anything is asked of the database.
Authenticate(r) ==
    /\ pc[r] = "guard"
    /\ Cardinality(Busy) < WorkerThreads
    /\ IF job[r].credentials = "valid"
       THEN Goto(r, "lookup") /\ UNCHANGED answer
       ELSE Goto(r, "answered") /\ Answer(r, 401)
    /\ UNCHANGED <<account, job, seen, held, during>>

\* The first statement of a session checks a connection out of the pool.
CheckOut(r) ==
    /\ Cardinality(held) < PoolLimit
    /\ \/ pc[r] = "lookup" /\ held' = held \cup {<<r, "lookup">>} /\ Goto(r, "loading")
       \/ pc[r] = "query" /\ held' = held \cup {<<r, "endpoint">>} /\ Goto(r, "work")
    /\ UNCHANGED <<account, job, seen, answer, during>>

Load_KeepSession(r) ==  \* mutant: the lookup uses a session that lives as long as the request
    /\ pc[r] = "loading"
    /\ seen' = [seen EXCEPT ![r] = account[job[r].user]]
    /\ Goto(r, "loaded")
    /\ UNCHANGED <<account, job, held, answer, during>>

\* The user is read and expunged, and the session closed: its connection is
\* back before the endpoint asks for one.
Load(r) ==
    /\ pc[r] = "loading"
    /\ seen' = [seen EXCEPT ![r] = account[job[r].user]]
    /\ ReturnConnections(r)
    /\ Goto(r, "loaded")
    /\ UNCHANGED <<account, job, answer, during>>

Verdict_AnyAccount(r) ==    \* mutant: any account that exists will do
    IF seen[r] = "removed" THEN 401 ELSE 200

\* What the detached user allows.
Verdict(r) == CASE seen[r] = "removed" -> 401
                [] seen[r] = "inactive" -> 403
                [] seen[r] = "active" -> 200

\* get_current_active_user; users/me is answered from the detached user.
CheckActive(r) ==
    /\ pc[r] = "loaded"
    /\ IF Verdict(r) = 200 /\ job[r].route.session # "none"
       THEN Goto(r, "enter") /\ UNCHANGED answer
       ELSE Goto(r, "answered") /\ Answer(r, Verdict(r))
    /\ UNCHANGED <<account, job, seen, held, during>>

\* get_session opens a session, which takes no connection yet, and the endpoint
\* is given a thread.
Enter(r) ==
    /\ pc[r] = "enter"
    /\ Cardinality(Busy) < WorkerThreads
    /\ Goto(r, "query")
    /\ UNCHANGED <<account, job, seen, held, answer, during>>

\* The endpoint is done, with success or an error: session.begin() has returned
\* the connection at its end; an endpoint that only reads still holds it.
Work(r) ==
    /\ pc[r] = "work"
    /\ \E status \in {200, 409, job[r].route.failure} : Answer(r, status)
    /\ IF job[r].route.session = "commits" THEN ReturnConnections(r) ELSE UNCHANGED held
    /\ Goto(r, "exit")
    /\ UNCHANGED <<account, job, seen, during>>

Close_LeftOpen(r) ==    \* mutant: the session is not closed
    /\ pc[r] = "exit"
    /\ Goto(r, "answered")
    /\ UNCHANGED <<account, job, seen, held, answer, during>>

\* The generator of get_session is resumed, after an error too, and closes the
\* session.  The framework gives this a thread of its own.
Close(r) ==
    /\ pc[r] = "exit"
    /\ ReturnConnections(r)
    /\ Goto(r, "answered")
    /\ UNCHANGED <<account, job, seen, answer, during>>

\* No connection became free within pool_timeout.
Timeout(r) ==
    /\ pc[r] \in {"lookup", "query"}
    /\ Cardinality(held) = PoolLimit
    /\ Answer(r, IF pc[r] = "query" THEN job[r].route.failure ELSE 500)
    /\ Goto(r, IF pc[r] = "query" THEN "exit" ELSE "answered")
    /\ UNCHANGED <<account, job, seen, held, during>>

\* An operator deactivates, reactivates or deletes an account.
ChangeAccount(u) ==
    /\ account[u] # "removed"
    /\ \E s \in States :
        /\ account' = [account EXCEPT ![u] = s]
        /\ during' = [r \in Requests |-> IF job[r].user = u /\ Running(r)
                                         THEN during[r] \cup {s} ELSE during[r]]
    /\ UNCHANGED <<pc, job, seen, held, answer>>

RequestStep(r) == Authenticate(r) \/ Load(r) \/ CheckActive(r) \/ Enter(r) \/ Work(r) \/ Close(r)

PoolNext ==
    \/ \E r \in Requests : Arrive(r) \/ RequestStep(r) \/ CheckOut(r) \/ Timeout(r)
    \/ \E u \in Subjects : ChangeAccount(u)

PoolSpec == PoolInit /\ [][PoolNext]_poolVars

\* Requests that wait for a thread or a connection are served in turn.  Nothing
\* is assumed of Timeout: waiting must end without it.
PoolFairSpec == PoolSpec /\ \A r \in Requests : SF_poolVars(RequestStep(r) \/ CheckOut(r))

-----------------------------------------------------------------------------

Points == {"new", "answered", "guard", "lookup", "loading", "loaded", "enter", "query", "work", "exit"}

PoolTypeOK ==
    /\ account \in [Subjects -> States]
    /\ pc \in [Requests -> Points]
    /\ job \in [Requests -> Job]
    /\ seen \in [Requests -> States]
    /\ held \subseteq Requests \X Sessions
    /\ answer \in [Requests -> {0, 200, 401, 403, 409, 500, 503}]
    /\ during \in [Requests -> SUBSET States]

\* The pool is never overdrawn.
PoolBounded == IsFiniteSet(held) /\ Cardinality(held) <= PoolLimit

\* A connection is out only while a session has a use for it, so a request that
\* waits for one holds none (requests cannot wait for each other), and an
\* answered request has given all it had back: an authenticated request occupies
\* one connection at a time.
HeldInUse ==
    /\ \A r \in Requests : <<r, "lookup">> \in held <=> pc[r] = "loading"
    /\ \A r \in Requests : <<r, "endpoint">> \in held => pc[r] \in {"work", "exit"}
    /\ \A r \in Requests : pc[r] = "work" => <<r, "endpoint">> \in held

Admitted(r) == job[r].route.guard /\ pc[r] \in {"enter", "query", "work", "exit"}

\* The account is read before the endpoint runs and not again: what is promised
\* is that every verdict was true of the account at some moment of the request.
\* A guarded endpoint runs only with an accepted token of an account that was
\* active since the request began; it is refused with 403 only if it was
\* inactive, and an accepted token with 401 only if it was gone.
VerdictWasTrue ==
    \A r \in Requests :
        /\ Admitted(r) => job[r].credentials = "valid" /\ "active" \in during[r]
        /\ answer[r] = 403 => "inactive" \in during[r]
        /\ answer[r] = 401 /\ job[r].credentials = "valid" => "removed" \in during[r]

\* Every request is answered, with a pool and threads for fewer requests than
\* there are and without any of them having to time out.
RequestsDrain == \A r \in Requests : Running(r) ~> ~Running(r)

\* While a request is under way there is one that does not wait: for a thread,
\* with all of them busy, or for a connection, with all of them out.
WaitsForNone(r) ==
    /\ Running(r)
    /\ pc[r] \in {"guard", "enter"} => Cardinality(Busy) < WorkerThreads
    /\ pc[r] \in {"lookup", "query"} => Cardinality(held) < PoolLimit
SomebodyMoves == (\E r \in Requests : Running(r)) => \E r \in Requests : WaitsForNone(r)

\* Every step but an operator's takes one request further on its way, so none
\* has more steps than there are points.
Way == [new |-> 0, guard |-> 1, lookup |-> 2, loading |-> 3, loaded |-> 4, enter |-> 5,
        query |-> 6, work |-> 7, exit |-> 8, answered |-> 9]
RequestsAdvance ==
    [][\/ \E u \in Subjects : ChangeAccount(u)
       \/ \E r \in Requests : pc' = [pc EXCEPT ![r] = pc'[r]] /\ Way[pc[r]] < Way[pc'[r]]]_poolVars

\* What a request knows on its way: it is not answered yet, what it read of its
\* account was true during the request, and only an accepted token got it there.
Knowledge ==
    \A r \in Requests :
        /\ pc[r] \notin {"exit", "answered"} => answer[r] = 0
        /\ pc[r] = "exit" => answer[r] \notin {401, 403}
        /\ Running(r) => account[job[r].user] \in during[r]
        /\ pc[r] = "loaded" => seen[r] \in during[r]
        /\ pc[r] \in {"guard", "lookup", "loading", "loaded"} => job[r].route.guard
        /\ pc[r] \in {"lookup", "loading", "loaded"} => job[r].credentials = "valid"

\* The inductive invariant.
PoolInv == PoolTypeOK /\ PoolBounded /\ HeldInUse /\ VerdictWasTrue /\ Knowledge
=============================================================================
