------------------------------ MODULE PartsProofs ------------------------------
(***************************************************************************)
(* The parts that share no state, each for all values of its constants:    *)
(* one engine per process; the pool, the accounts and the verdicts; no job *)
(* lost and none retried too often; migrations that meet no conflict, find *)
(* every account and can be taken back; headers that are honoured.         *)
(***************************************************************************)
EXTENDS SessionFactory, ConnectionPool, Retries, EmailIdentities, Headers, OrderProofs

-----------------------------------------------------------------------------
(* The session factory                                                     *)

\* What each thread inside the lock knows about the global is preserved by
\* every step of every thread: the lock excludes the others, and a published
\* factory is never replaced.
LEMMA FactoryStep == FactoryInv /\ [FactoryNext]_factoryVars => FactoryInv'
<1> SUFFICES ASSUME FactoryInv, [FactoryNext]_factoryVars PROVE FactoryInv'
    OBVIOUS
<1> USE DEF FactoryInv, FactoryTypeOK, OneEngine, NoFactory, Proceed
<1>1. ASSUME NEW t \in Threads, Check(t) PROVE FactoryInv'
    BY <1>1, CallsAssumption DEF Check
<1>2. ASSUME NEW t \in Threads, Acquire(t) PROVE FactoryInv'
    BY <1>2, FreeAssumption DEF Acquire
<1>3. ASSUME NEW t \in Threads, Recheck(t) PROVE FactoryInv'
    BY <1>3, FreeAssumption DEF Recheck
<1>4. ASSUME NEW t \in Threads, Build(t) PROVE FactoryInv'
  <2>1. engines = 0 /\ factory' = 1 /\ engines' = 1
    BY <1>4 DEF Build
  <2>2. \A s \in Threads : s # t => place[s] \notin {"locked", "building"}
    BY <1>4, FreeAssumption DEF Build
  <2>3. place' = [place EXCEPT ![t] = "warm"] /\ lock' = Free /\ UNCHANGED <<calls, got>>
    BY <1>4 DEF Build
  <2>4. FactoryTypeOK' /\ factory' = engines' /\ OneEngine'
    BY <2>1, <2>3
  <2>5. \A s \in Threads : got'[s] \in {NoFactory, factory'}
    BY <1>4, <2>3 DEF Build
  <2>6. \A s \in Threads : place'[s] \notin {"locked", "building"}
    BY <2>2, <2>3
  <2>7. \A s \in Threads : lock' # s
    BY <2>3, FreeAssumption
  <2> QED
    BY <2>1, <2>4, <2>5, <2>6, <2>7
<1>5. ASSUME NEW t \in Threads, Raise(t) PROVE FactoryInv'
    BY <1>5, FreeAssumption DEF Raise
<1>6. ASSUME NEW t \in Threads, Return(t) PROVE FactoryInv'
    BY <1>6 DEF Return
<1>7. CASE UNCHANGED factoryVars
    BY <1>7 DEF factoryVars
<1> QED
    BY <1>1, <1>2, <1>3, <1>4, <1>5, <1>6, <1>7 DEF FactoryNext, ThreadStep

\* The inductive invariant of get_session_factory.
THEOREM FactoryInvariance == FactorySpec => []FactoryInv
<1>1. FactoryInit => FactoryInv
    BY CallsAssumption, FreeAssumption DEF FactoryInit, FactoryInv, FactoryTypeOK, OneEngine, NoFactory
<1> QED
    BY <1>1, FactoryStep, PTL DEF FactorySpec

\* One engine, and so one connection pool, per process.
THEOREM OneEnginePerProcess == FactorySpec => []OneEngine
<1>1. FactoryInv => OneEngine
    BY DEF FactoryInv
<1> QED
    BY <1>1, FactoryInvariance, PTL

\* Every caller that gets a factory gets the same one.
THEOREM FactoryIsShared == FactorySpec => []SameForAll
<1>1. FactoryInv => SameForAll
    BY DEF FactoryInv, FactoryTypeOK, SameForAll
<1> QED
    BY <1>1, FactoryInvariance, PTL

\* Nobody waits for a lock that was forgotten, also after a construction that
\* raised: the thread inside it is under way.
THEOREM FactoryKeepsMoving == FactorySpec => []SomeThreadMoves
<1>1. FactoryInv => SomeThreadMoves
  <2> SUFFICES ASSUME FactoryInv, NEW t \in Threads, place[t] # "idle"
               PROVE  \E s \in Threads : place[s] # "idle" /\ (place[s] = "cold" => lock = Free)
    BY DEF SomeThreadMoves
  <2>1. CASE lock = Free
    BY <2>1
  <2>2. CASE lock # Free
    <3>1. PICK s \in Threads : lock = s
      BY <2>2 DEF FactoryInv, FactoryTypeOK
    <3>2. place[s] \in {"locked", "building"}
      BY <3>1 DEF FactoryInv
    <3> QED
      BY <3>2
  <2> QED
    BY <2>1, <2>2
<1> QED
  BY <1>1, FactoryInvariance, PTL

-----------------------------------------------------------------------------
(* Requests, sessions and connections                                      *)

\* Giving connections back never overdraws the pool.
LEMMA ReturnBounded ==
    ASSUME PoolBounded, NEW r \in Requests, ReturnConnections(r)
    PROVE  PoolBounded'
<1>1. held' \subseteq held
    BY DEF ReturnConnections
<1>2. IsFiniteSet(held') /\ Cardinality(held') <= Cardinality(held)
    BY <1>1, FS_Subset DEF PoolBounded
<1>3. Cardinality(held) \in Nat /\ Cardinality(held') \in Nat
    BY <1>2, FS_CardinalityType DEF PoolBounded
<1> QED
    BY <1>2, <1>3, PoolAssumption DEF PoolBounded

\* Nor does taking one when one is left.
LEMMA CheckOutBounded ==
    ASSUME PoolBounded, NEW r \in Requests, CheckOut(r)
    PROVE  PoolBounded'
<1>1. PICK c : held' = held \cup {c}
    BY DEF CheckOut
<1>2. Cardinality(held) \in Nat /\ Cardinality(held) < PoolLimit
    BY FS_CardinalityType DEF PoolBounded, CheckOut
<1>3. IsFiniteSet(held') /\ Cardinality(held') \in {Cardinality(held), Cardinality(held) + 1}
    BY <1>1, FS_AddElement DEF PoolBounded
<1> QED
    BY <1>2, <1>3, PoolAssumption DEF PoolBounded

\* Every step keeps the pool within its limit.
LEMMA StepBounded == PoolInv /\ [PoolNext]_poolVars => PoolBounded'
<1> SUFFICES ASSUME PoolInv, [PoolNext]_poolVars PROVE PoolBounded'
    OBVIOUS
<1> USE DEF PoolInv
<1>1. CASE UNCHANGED held
    BY <1>1 DEF PoolBounded
<1>2. ASSUME NEW r \in Requests, ReturnConnections(r) PROVE PoolBounded'
    BY <1>2, ReturnBounded
<1>3. ASSUME NEW r \in Requests, CheckOut(r) PROVE PoolBounded'
    BY <1>3, CheckOutBounded
<1> QED
    BY <1>1, <1>2, <1>3
    DEF PoolNext, RequestStep, Arrive, Authenticate, Load, CheckActive, Enter, Work, Close, Timeout,
        ChangeAccount, poolVars

\* Every step keeps the types.
LEMMA StepTypes == PoolInv /\ [PoolNext]_poolVars => PoolTypeOK'
<1> SUFFICES ASSUME PoolInv, [PoolNext]_poolVars PROVE PoolTypeOK'
    OBVIOUS
<1> USE DEF PoolInv, PoolTypeOK, Points, States, Goto, Answer
<1>1. ASSUME NEW r \in Requests, Arrive(r) PROVE PoolTypeOK'
    BY <1>1 DEF Arrive, Job
<1>2. ASSUME NEW r \in Requests, Authenticate(r) PROVE PoolTypeOK'
    BY <1>2 DEF Authenticate
<1>3. ASSUME NEW r \in Requests, CheckOut(r) PROVE PoolTypeOK'
    BY <1>3 DEF CheckOut, Sessions
<1>4. ASSUME NEW r \in Requests, Load(r) PROVE PoolTypeOK'
    BY <1>4 DEF Load, ReturnConnections, Job
<1>5. ASSUME NEW r \in Requests, CheckActive(r) PROVE PoolTypeOK'
    BY <1>5 DEF CheckActive, Verdict
<1>6. ASSUME NEW r \in Requests, Enter(r) PROVE PoolTypeOK'
    BY <1>6 DEF Enter
<1>7. ASSUME NEW r \in Requests, Work(r) PROVE PoolTypeOK'
    BY <1>7 DEF Work, ReturnConnections, Job, Routes
<1>8. ASSUME NEW r \in Requests, Close(r) PROVE PoolTypeOK'
    BY <1>8 DEF Close, ReturnConnections
<1>9. ASSUME NEW r \in Requests, Timeout(r) PROVE PoolTypeOK'
    BY <1>9 DEF Timeout, Job, Routes
<1>10. ASSUME NEW u \in Subjects, ChangeAccount(u) PROVE PoolTypeOK'
    BY <1>10 DEF ChangeAccount
<1>11. CASE UNCHANGED poolVars
    BY <1>11 DEF poolVars
<1> QED
    BY <1>1, <1>2, <1>3, <1>4, <1>5, <1>6, <1>7, <1>8, <1>9, <1>10, <1>11 DEF PoolNext, RequestStep

\* A session is closed before its request goes on, and only the request itself
\* takes or returns its connections.
LEMMA StepHeld == PoolInv /\ [PoolNext]_poolVars => HeldInUse'
<1> SUFFICES ASSUME PoolInv, [PoolNext]_poolVars PROVE HeldInUse'
    OBVIOUS
<1> USE DEF PoolInv, PoolTypeOK, HeldInUse, Goto, ReturnConnections
<1>1. ASSUME NEW r \in Requests, Arrive(r) PROVE HeldInUse'
    BY <1>1 DEF Arrive
<1>2. ASSUME NEW r \in Requests, Authenticate(r) PROVE HeldInUse'
    BY <1>2 DEF Authenticate
<1>3. ASSUME NEW r \in Requests, CheckOut(r) PROVE HeldInUse'
    BY <1>3 DEF CheckOut
<1>4. ASSUME NEW r \in Requests, Load(r) PROVE HeldInUse'
    BY <1>4 DEF Load
<1>5. ASSUME NEW r \in Requests, CheckActive(r) PROVE HeldInUse'
    BY <1>5 DEF CheckActive
<1>6. ASSUME NEW r \in Requests, Enter(r) PROVE HeldInUse'
    BY <1>6 DEF Enter
<1>7. ASSUME NEW r \in Requests, Work(r) PROVE HeldInUse'
    BY <1>7 DEF Work
<1>8. ASSUME NEW r \in Requests, Close(r) PROVE HeldInUse'
    BY <1>8 DEF Close
<1>9. ASSUME NEW r \in Requests, Timeout(r) PROVE HeldInUse'
    BY <1>9 DEF Timeout
<1>10. CASE UNCHANGED <<pc, held>>
    BY <1>10
<1> QED
    BY <1>1, <1>2, <1>3, <1>4, <1>5, <1>6, <1>7, <1>8, <1>9, <1>10
    DEF PoolNext, RequestStep, ChangeAccount, poolVars

\* What was read of an account stays among the states it had during the
\* request, so the verdict drawn from it does.
LEMMA StepVerdict == PoolInv /\ [PoolNext]_poolVars => VerdictWasTrue' /\ Knowledge'
<1> SUFFICES ASSUME PoolInv, [PoolNext]_poolVars PROVE VerdictWasTrue' /\ Knowledge'
    OBVIOUS
<1> DEFINE Goal == VerdictWasTrue' /\ Knowledge'
<1> USE DEF PoolInv, PoolTypeOK, Points, States, VerdictWasTrue, Knowledge, Admitted, Running, Goto, Answer
<1>1. ASSUME NEW r \in Requests, Arrive(r) PROVE Goal
    BY <1>1 DEF Arrive, Job
<1>2. ASSUME NEW r \in Requests, Authenticate(r) PROVE Goal
    BY <1>2 DEF Authenticate
<1>3. ASSUME NEW r \in Requests, CheckOut(r) PROVE Goal
    BY <1>3 DEF CheckOut
<1>4. ASSUME NEW r \in Requests, Load(r) PROVE Goal
    BY <1>4 DEF Load
<1>5. ASSUME NEW r \in Requests, CheckActive(r) PROVE Goal
    BY <1>5 DEF CheckActive, Verdict
<1>6. ASSUME NEW r \in Requests, Enter(r) PROVE Goal
    BY <1>6 DEF Enter
<1>7. ASSUME NEW r \in Requests, Work(r) PROVE Goal
  <2>1. PICK status \in {200, 409, job[r].route.failure} : answer' = [answer EXCEPT ![r] = status]
      BY <1>7 DEF Work
  <2>2. job[r].route.failure \in {500, 503}
      BY DEF Job, Routes
  <2>3. answer' = [answer EXCEPT ![r] = status] /\ status \notin {401, 403}
      BY <2>1, <2>2
  <2>4. /\ pc[r] = "work" /\ pc' = [pc EXCEPT ![r] = "exit"]
        /\ UNCHANGED <<account, job, seen, during>>
      BY <1>7 DEF Work
  <2> QED
      BY <2>3, <2>4
<1>8. ASSUME NEW r \in Requests, Close(r) PROVE Goal
    BY <1>8 DEF Close
<1>9. ASSUME NEW r \in Requests, Timeout(r) PROVE Goal
    BY <1>9 DEF Timeout, Job, Routes
<1>10. ASSUME NEW u \in Subjects, ChangeAccount(u) PROVE Goal
    BY <1>10 DEF ChangeAccount
<1>11. CASE UNCHANGED poolVars
    BY <1>11 DEF poolVars
<1> QED
    BY <1>1, <1>2, <1>3, <1>4, <1>5, <1>6, <1>7, <1>8, <1>9, <1>10, <1>11 DEF PoolNext, RequestStep

\* The inductive invariant of the pool and of the requests that share it.
THEOREM PoolInvariance == PoolSpec => []PoolInv
<1>1. PoolInit => PoolInv
  <2> SUFFICES ASSUME PoolInit PROVE PoolInv
      OBVIOUS
  <2>1. \E j : j \in Job
    <3>1. PICK u \in Subjects : TRUE
        BY SubjectsAssumption
    <3>2. [guard |-> FALSE, session |-> "reads", failure |-> 500] \in Routes
        BY DEF Routes
    <3>3. [route |-> [guard |-> FALSE, session |-> "reads", failure |-> 500],
           credentials |-> "none", user |-> u] \in Job
        BY <3>2 DEF Job, Credentials
    <3> QED
        BY <3>3
  <2>2. PoolTypeOK
      BY <2>1 DEF PoolInit, PoolTypeOK, Points, States
  <2>3. PoolBounded
      BY FS_EmptySet, PoolAssumption DEF PoolInit, PoolBounded
  <2>4. HeldInUse /\ VerdictWasTrue /\ Knowledge
      BY DEF PoolInit, HeldInUse, VerdictWasTrue, Knowledge, Admitted, Running
  <2> QED
      BY <2>2, <2>3, <2>4 DEF PoolInv
<1>2. PoolInv /\ [PoolNext]_poolVars => PoolInv'
    BY StepBounded, StepTypes, StepHeld, StepVerdict DEF PoolInv
<1> QED
    BY <1>1, <1>2, PTL DEF PoolSpec

\* No request waits for a connection while it holds one, none keeps one after
\* its answer, and the pool is never overdrawn.
THEOREM ConnectionsInUse == PoolSpec => [](HeldInUse /\ PoolBounded)
<1>1. PoolInv => HeldInUse /\ PoolBounded
    BY DEF PoolInv
<1> QED
    BY <1>1, PoolInvariance, PTL

\* A guarded endpoint runs only for an account that was active during the
\* request, and a refusal gives a reason that was true during it.
THEOREM VerdictsWereTrue == PoolSpec => []VerdictWasTrue
<1>1. PoolInv => VerdictWasTrue
    BY DEF PoolInv
<1> QED
    BY <1>1, PoolInvariance, PTL

\* Requests cannot all wait for each other: who holds a connection waits for
\* nothing, and who keeps a thread busy waits at most for a connection.
THEOREM PoolKeepsMoving == PoolSpec => []SomebodyMoves
<1>1. PoolInv => SomebodyMoves
  <2> SUFFICES ASSUME PoolInv, NEW r \in Requests, Running(r)
               PROVE  \E q \in Requests : WaitsForNone(q)
    BY DEF SomebodyMoves
  <2>1. \A q \in Requests : pc[q] \in {"loading", "loaded", "work", "exit"} => WaitsForNone(q)
    BY DEF WaitsForNone, Running
  <2>2. IsFiniteSet(held) /\ Cardinality(held) \in Nat /\ Cardinality(held) <= PoolLimit
    BY FS_CardinalityType DEF PoolInv, PoolBounded
  <2>3. ASSUME ~ Cardinality(held) < PoolLimit PROVE \E q \in Requests : WaitsForNone(q)
    <3>1. held # {}
      BY <2>2, <2>3, FS_EmptySet, PoolAssumption
    <3>2. PICK q \in Requests, s \in Sessions : <<q, s>> \in held
      BY <3>1 DEF PoolInv, PoolTypeOK
    <3>3. pc[q] \in {"loading", "work", "exit"}
      BY <3>2 DEF PoolInv, HeldInUse, Sessions
    <3> QED
      BY <2>1, <3>3
  <2>4. ASSUME NEW q \in Requests, pc[q] \in {"lookup", "query"}, Cardinality(held) < PoolLimit
        PROVE  WaitsForNone(q)
    BY <2>4 DEF WaitsForNone, Running
  <2>5. CASE \E q \in Busy : TRUE
    <3>1. PICK q \in Requests : pc[q] \in {"lookup", "loading", "query", "work"}
      BY <2>5 DEF Busy
    <3> QED
      BY <2>1, <2>3, <2>4, <3>1
  <2>6. CASE Busy = {}
    <3>1. Cardinality(Busy) < WorkerThreads
      BY <2>6, FS_EmptySet, ThreadAssumption
    <3>2. r \notin Busy
      BY <2>6
    <3>3. pc[r] \notin {"lookup", "query"}
      BY <3>2 DEF Busy
    <3> QED
      BY <3>1, <3>3 DEF WaitsForNone
  <2> QED
    BY <2>5, <2>6
<1> QED
  BY <1>1, PoolInvariance, PTL

\* Every step but an operator's takes one request further on its way.
THEOREM RequestsComeToAnEnd == PoolSpec => RequestsAdvance
<1> DEFINE Further(r) == pc' = [pc EXCEPT ![r] = pc'[r]] /\ Way[pc[r]] < Way[pc'[r]]
<1>1. ASSUME PoolInv, NEW r \in Requests, Arrive(r) \/ RequestStep(r) \/ CheckOut(r) \/ Timeout(r)
      PROVE  Further(r)
  <2> USE <1>1
  <2>1. pc \in [Requests -> Points]
    BY DEF PoolInv, PoolTypeOK
  <2>2. /\ Way["new"] = 0 /\ Way["guard"] = 1 /\ Way["lookup"] = 2 /\ Way["loading"] = 3
        /\ Way["loaded"] = 4 /\ Way["enter"] = 5 /\ Way["query"] = 6 /\ Way["work"] = 7
        /\ Way["exit"] = 8 /\ Way["answered"] = 9
    BY DEF Way
  <2>3. ASSUME NEW point, pc' = [pc EXCEPT ![r] = point], Way[pc[r]] < Way[point]
        PROVE  Further(r)
    <3>1. pc'[r] = point
      BY <2>1, <2>3
    <3>2. pc' = [pc EXCEPT ![r] = pc'[r]]
      BY <2>3, <3>1
    <3>3. Way[pc[r]] < Way[pc'[r]]
      BY <2>3, <3>1
    <3> QED
      BY <3>2, <3>3
  <2> HIDE DEF Further
  <2>4. CASE Arrive(r)
    <3>1. pc[r] = "new" /\ (pc' = [pc EXCEPT ![r] = "guard"] \/ pc' = [pc EXCEPT ![r] = "enter"])
      BY <2>4 DEF Arrive, Goto
    <3> QED
      BY <2>2, <2>3, <3>1
  <2>5. CASE Authenticate(r)
    <3>1. pc[r] = "guard" /\ (pc' = [pc EXCEPT ![r] = "lookup"] \/ pc' = [pc EXCEPT ![r] = "answered"])
      BY <2>5 DEF Authenticate, Goto
    <3> QED
      BY <2>2, <2>3, <3>1
  <2>6. CASE Load(r)
    <3>1. pc[r] = "loading" /\ pc' = [pc EXCEPT ![r] = "loaded"]
      BY <2>6 DEF Load, Goto
    <3>2. Way[pc[r]] < Way["loaded"]
      BY <2>2, <3>1
    <3> QED
      BY <2>3, <3>1, <3>2
  <2>7. CASE CheckActive(r)
    <3>1. pc[r] = "loaded" /\ (pc' = [pc EXCEPT ![r] = "enter"] \/ pc' = [pc EXCEPT ![r] = "answered"])
      BY <2>7 DEF CheckActive, Goto
    <3> QED
      BY <2>2, <2>3, <3>1
  <2>8. CASE Enter(r)
    <3>1. pc[r] = "enter" /\ pc' = [pc EXCEPT ![r] = "query"]
      BY <2>8 DEF Enter, Goto
    <3>2. Way[pc[r]] < Way["query"]
      BY <2>2, <3>1
    <3> QED
      BY <2>3, <3>1, <3>2
  <2>9. CASE Work(r)
    <3>1. pc[r] = "work" /\ pc' = [pc EXCEPT ![r] = "exit"]
      BY <2>9 DEF Work, Goto
    <3>2. Way[pc[r]] < Way["exit"]
      BY <2>2, <3>1
    <3> QED
      BY <2>3, <3>1, <3>2
  <2>10. CASE Close(r)
    <3>1. pc[r] = "exit" /\ pc' = [pc EXCEPT ![r] = "answered"]
      BY <2>10 DEF Close, Goto
    <3>2. Way[pc[r]] < Way["answered"]
      BY <2>2, <3>1
    <3> QED
      BY <2>3, <3>1, <3>2
  <2>11. CASE CheckOut(r)
    <3>1. \/ pc[r] = "lookup" /\ pc' = [pc EXCEPT ![r] = "loading"]
          \/ pc[r] = "query" /\ pc' = [pc EXCEPT ![r] = "work"]
      BY <2>11 DEF CheckOut, Goto
    <3> QED
      BY <2>2, <2>3, <3>1
  <2>12. CASE Timeout(r)
    <3>1. \/ pc[r] = "lookup" /\ pc' = [pc EXCEPT ![r] = "answered"]
          \/ pc[r] = "query" /\ pc' = [pc EXCEPT ![r] = "exit"]
      BY <2>12 DEF Timeout, Goto
    <3> QED
      BY <2>2, <2>3, <3>1
  <2> QED
    BY <2>4, <2>5, <2>6, <2>7, <2>8, <2>9, <2>10, <2>11, <2>12 DEF RequestStep
<1>2. PoolInv /\ [PoolNext]_poolVars => [\/ \E u \in Subjects : ChangeAccount(u)
                                         \/ \E r \in Requests : Further(r)]_poolVars
  BY <1>1 DEF PoolNext
<1> QED
  BY <1>2, PoolInvariance, PTL DEF PoolSpec, RequestsAdvance

-----------------------------------------------------------------------------
(* Jobs and their retries                                                  *)

\* The inductive invariant is kept by every step of a worker and by its death.
LEMMA JobStepInv == JobInv /\ [JobNext]_jobVars => JobInv'
<1> SUFFICES ASSUME JobInv, [JobNext]_jobVars PROVE JobInv'
    OBVIOUS
<1> DEFINE Bounded(n) == \A i \in 0 .. n : i < n =>
                IF Get(actor, "retry_when", None) # None THEN i \in actor["retry_when"]
                ELSE Maximum # None => i < Maximum
<1> USE CopiesAssumption, NoneAssumption DEF JobInv, JobTypeOK, Copy, Succession, Copies
<1>1. \A c \in Copies : copy[c] = None \/ copy[c] \in Copy
    OBVIOUS
<1>2. ASSUME UNCHANGED <<actor, message>>,
             \A c \in Live' : copy'[c].retries \in Nat /\ Bounded(copy'[c].retries)
      PROVE  RetriesBounded'
    BY <1>2 DEF RetriesBounded, Get, Option, Maximum
<1>3. \A c \in Live : copy[c].retries \in Nat /\ Bounded(copy[c].retries)
    BY <1>1 DEF RetriesBounded, Live
<1>4. ASSUME NEW c \in Live, NEW v \in Copy,
             copy' = [copy EXCEPT ![c] = v], UNCHANGED <<actor, message>>,
             v.retries = copy[c].retries, crashes' \in 0 .. MaxCrashes,
             v.at \in {"processed", "settled"} /\ ~ v.done /\ ~ v.failed => c + 1 \in Live
      PROVE  JobInv'
  <2>1. Live' = Live /\ copy' \in [Copies -> Copy \cup {None}]
      BY <1>4 DEF Live
  <2>2. Succession'
      BY <1>4, <2>1 DEF Live
  <2>3. RetriesBounded'
      BY <1>2, <1>3, <1>4, <2>1 DEF Live
  <2> QED
      BY <1>4, <2>1, <2>2, <2>3
<1>5. ASSUME NEW c \in Copies, Deliver(c) PROVE JobInv'
  <2>1. c \in Live /\ [copy[c] EXCEPT !.at = "running"] \in Copy
      BY <1>1, <1>5 DEF Deliver, At, Live
  <2> QED
      BY <1>1, <1>4, <1>5, <2>1 DEF Deliver
<1>6. ASSUME NEW c \in Copies, Succeed(c) \/ FailDeclared(c) \/ Exhausted(c) PROVE JobInv'
  <2>1. /\ c \in Live
        /\ Processed(c, TRUE, FALSE) \in Copy
        /\ Processed(c, FALSE, TRUE) \in Copy
        /\ Processed(c, TRUE, FALSE).done /\ Processed(c, FALSE, TRUE).failed
        /\ Processed(c, TRUE, FALSE).retries = copy[c].retries
        /\ Processed(c, FALSE, TRUE).retries = copy[c].retries
      BY <1>1, <1>6 DEF Succeed, FailDeclared, Exhausted, At, Live, Processed
  <2>2. CASE copy' = [copy EXCEPT ![c] = Processed(c, TRUE, FALSE)] /\ UNCHANGED <<actor, message, crashes>>
      BY <1>4, <2>1, <2>2
  <2>3. CASE copy' = [copy EXCEPT ![c] = Processed(c, FALSE, TRUE)] /\ UNCHANGED <<actor, message, crashes>>
      BY <1>4, <2>1, <2>3
  <2> QED
      BY <1>6, <2>2, <2>3 DEF Succeed, FailDeclared, Exhausted
<1>7. ASSUME NEW c \in Copies, Retry(c) PROVE JobInv'
  <2>1. PICK d \in Copies :
            /\ Live = 1 .. d - 1
            /\ copy' = [copy EXCEPT ![c] = Processed(c, FALSE, FALSE),
                                    ![d] = Enqueued(copy[c].retries + 1)]
      BY <1>7 DEF Retry
  <2>2. c \in Live /\ RetryAllowed(copy[c].retries) /\ UNCHANGED <<actor, message, crashes>>
      BY <1>7 DEF Retry, At, Live
  <2>3. /\ Processed(c, FALSE, FALSE) \in Copy
        /\ Processed(c, FALSE, FALSE).retries = copy[c].retries
    <3>1. copy[c] \in Copy
        BY <1>1, <2>2 DEF Live
    <3> QED
        BY <3>1 DEF Processed
  <2>8. /\ Enqueued(copy[c].retries + 1) \in Copy
        /\ Enqueued(copy[c].retries + 1).retries = copy[c].retries + 1
        /\ Enqueued(copy[c].retries + 1).at = "queued"
    <3>1. copy[c].retries + 1 \in Nat
        BY <1>3, <2>2
    <3> QED
        BY <3>1 DEF Enqueued
  <2>4. /\ Live' = 1 .. d /\ c \in 1 .. d - 1
        /\ copy' \in [Copies -> Copy \cup {None}]
        /\ \A e \in Live \ {c} : copy'[e] = copy[e]
        /\ copy'[c] = Processed(c, FALSE, FALSE)
        /\ copy'[d] = Enqueued(copy[c].retries + 1)
    <3> DEFINE p == Processed(c, FALSE, FALSE)
               e == Enqueued(copy[c].retries + 1)
    <3>1. p \in Copy /\ e \in Copy /\ copy' = [copy EXCEPT ![c] = p, ![d] = e]
        BY <2>1, <2>3, <2>8
    <3> HIDE DEF p, e
    <3>2. p # None /\ e # None
        BY <3>1
    <3>3. c \in 1 .. d - 1 /\ \A i \in Copies : copy[i] # None <=> i \in 1 .. d - 1
        BY <2>1, <2>2 DEF Live
    <3>4. /\ copy' \in [Copies -> Copy \cup {None}]
          /\ copy'[c] = p /\ copy'[d] = e
          /\ \A i \in Copies \ {c, d} : copy'[i] = copy[i]
        BY <3>1, <3>3
    <3>5. Live' = 1 .. d
        BY <3>2, <3>3, <3>4 DEF Live
    <3> QED
        BY <3>3, <3>4, <3>5 DEF Live, p, e
  <2>5. Succession'
      BY <2>1, <2>3, <2>4, <2>8
  <2>6. Bounded(copy[c].retries + 1)
    <3>1. copy[c].retries \in Nat /\ Bounded(copy[c].retries)
        BY <1>3, <2>2
    <3>2. IF Get(actor, "retry_when", None) # None THEN copy[c].retries \in actor["retry_when"]
          ELSE Maximum # None => copy[c].retries < Maximum
        BY <2>2 DEF RetryAllowed, Get
    <3> QED
        BY <3>1, <3>2
  <2>9. \A e \in Live' : copy'[e].retries \in Nat /\ Bounded(copy'[e].retries)
    <3> HIDE DEF Bounded
    <3>1. copy'[c].retries \in Nat /\ Bounded(copy'[c].retries)
        BY <1>3, <2>2, <2>3, <2>4
    <3>2. copy'[d].retries \in Nat /\ Bounded(copy'[d].retries)
        BY <1>3, <2>2, <2>4, <2>6, <2>8
    <3>3. Live' = Live \cup {d}
        BY <2>1, <2>4
    <3> QED
        BY <1>3, <2>4, <3>1, <3>2, <3>3
  <2>7. RetriesBounded'
      BY <1>2, <2>2, <2>9
  <2> QED
      BY <2>2, <2>4, <2>5, <2>7
<1>8. ASSUME NEW c \in Copies, Settle(c) PROVE JobInv'
  <2>1. c \in Live /\ [copy[c] EXCEPT !.at = "settled"] \in Copy /\ copy[c].at = "processed"
      BY <1>1, <1>8 DEF Settle, At, Live
  <2> QED
      BY <1>1, <1>4, <1>8, <2>1 DEF Settle
<1>9. ASSUME NEW c \in Copies, WorkerDies(c) PROVE JobInv'
  <2>1. /\ c \in Live
        /\ Enqueued(copy[c].retries) \in Copy
        /\ Enqueued(copy[c].retries).retries = copy[c].retries
        /\ Enqueued(copy[c].retries).at = "queued"
      BY <1>1, <1>9 DEF WorkerDies, At, Live, Enqueued
  <2>2. /\ copy' = [copy EXCEPT ![c] = Enqueued(copy[c].retries)]
        /\ UNCHANGED <<actor, message>> /\ crashes' \in 0 .. MaxCrashes
      BY <1>9 DEF WorkerDies
  <2> QED
      BY <1>4, <2>1, <2>2
<1>10. CASE UNCHANGED jobVars
    BY <1>10 DEF jobVars, RetriesBounded, Live, Get, Option, Maximum
<1>11. CASE Send
  <2>1. Enqueued(0) \in Copy /\ Enqueued(0).retries = 0 /\ Enqueued(0).at = "queued"
      BY DEF Enqueued
  <2>2. Live' = {1} /\ 1 \in Copies /\ copy' \in [Copies -> Copy \cup {None}] /\ copy'[1] = Enqueued(0)
      BY <1>11, <2>1 DEF Send, Live
  <2>3. Succession'
      BY <2>1, <2>2
  <2>4. RetriesBounded'
      BY <2>1, <2>2 DEF RetriesBounded
  <2> QED
      BY <1>11, <2>2, <2>3, <2>4 DEF Send
<1> QED
    BY <1>5, <1>6, <1>7, <1>8, <1>9, <1>10, <1>11 DEF JobNext, JobStep

\* The inductive invariant of the retry middleware.
THEOREM RetriesInvariance == JobSpec => []JobInv
<1>1. JobInit => JobInv
  <2> SUFFICES ASSUME JobInit PROVE JobInv
      OBVIOUS
  <2> USE CopiesAssumption, NoneAssumption DEF JobInit, Copies, Enqueued, Copy
  <2>1. JobTypeOK
      BY DEF JobTypeOK
  <2>2. Live = {}
      BY DEF Live
  <2>3. Succession
      BY <2>2 DEF Succession
  <2>4. RetriesBounded
      BY <2>2 DEF RetriesBounded
  <2> QED
      BY <2>1, <2>3, <2>4 DEF JobInv
<1> QED
    BY <1>1, JobStepInv, PTL DEF JobSpec

\* No copy of a message is retried more often than its options allow.
THEOREM RetriesAreBounded == JobSpec => []RetriesBounded
<1>1. JobInv => RetriesBounded
    BY DEF JobInv
<1> QED
    BY <1>1, RetriesInvariance, PTL

\* A job that neither succeeded nor was given up has a copy left to settle.
THEOREM JobsAreNotLost == JobSpec => []NotLost
<1>1. JobInv => NotLost
  <2> SUFFICES ASSUME JobInv, Live # {} PROVE NotLost
      BY DEF NotLost
  <2>1. PICK k \in Copies : Live = 1 .. k
    <3>1. PICK k \in 0 .. MaxCopies : Live = 1 .. k
        BY DEF JobInv, Succession
    <3>2. k # 0
        BY <3>1
    <3> QED
        BY <3>1, <3>2, CopiesAssumption DEF Copies
  <2>2. k \in Live /\ k + 1 \notin Live /\ copy[k] \in Copy
      BY <2>1 DEF Copies, JobInv, JobTypeOK, Live
  <2>3. copy[k].at = "settled" => copy[k].done \/ copy[k].failed
      BY <2>2 DEF JobInv, Succession
  <2> QED
      BY <2>2, <2>3 DEF NotLost
<1> QED
    BY <1>1, RetriesInvariance, PTL

\* A step that enqueues nothing keeps the counters of all copies and the delays.
LEMMA KeepsCounters ==
    ASSUME JobTypeOK, NEW c \in Copies, At(c, copy[c].at), NEW v \in Copy,
           v.retries = copy[c].retries, copy' = [copy EXCEPT ![c] = v]
    PROVE  /\ Live' = Live /\ c \in Live /\ copy'[c] = v
           /\ \A e \in Live : copy'[e].retries = copy[e].retries
           /\ \A e \in Live \ {c} : copy'[e] = copy[e]
    BY NoneAssumption DEF JobTypeOK, Live, At, Copy

\* What the options say is the same before and after a step that keeps them.
LEMMA KeepsOptions ==
    ASSUME UNCHANGED <<actor, message>>
    PROVE  /\ Throws' = Throws
           /\ Either("on_retry_exhausted")' = Either("on_retry_exhausted")
           /\ \A n : Backoffs(n)' = Backoffs(n)
    BY DEF Throws, Either, Get, Backoffs, Option

\* The delays drawn and the notices sent stay true of the copies there are.
LEMMA ReportStep == JobInv /\ ReportInv /\ [JobNext]_jobVars => ReportInv'
<1> SUFFICES ASSUME JobInv, ReportInv, [JobNext]_jobVars PROVE ReportInv'
    OBVIOUS
<1>1. /\ JobTypeOK
      /\ \A c \in Live : c \in Copies /\ copy[c] \in Copy
    BY DEF JobInv, JobTypeOK, Live
<1>2. ASSUME NEW c \in Copies, At(c, copy[c].at), NEW v \in Copy,
             v.retries = copy[c].retries, copy' = [copy EXCEPT ![c] = v],
             v.failed => copy[c].failed \/ Throws # None,
             UNCHANGED <<actor, message, delays, notices>>
      PROVE  ReportInv'
  <2>1. /\ Live' = Live /\ c \in Live /\ copy'[c] = v
        /\ \A e \in Live : copy'[e].retries = copy[e].retries
        /\ \A e \in Live \ {c} : copy'[e] = copy[e]
    BY <1>1, <1>2, KeepsCounters
  <2>2. /\ Throws' = Throws
        /\ Either("on_retry_exhausted")' = Either("on_retry_exhausted")
        /\ \A n : Backoffs(n)' = Backoffs(n)
    BY <1>2, KeepsOptions
  <2>3. DelaysDrawn'
    BY <1>2, <2>1, <2>2 DEF ReportInv, DelaysDrawn
  <2>4. FailureReported'
    BY <1>2, <2>1, <2>2 DEF ReportInv, FailureReported
  <2> QED
    BY <2>3, <2>4 DEF ReportInv
<1>3. ASSUME NEW c \in Copies, At(c, copy[c].at)
      PROVE  /\ c \in Live
             /\ [copy[c] EXCEPT !.at = "running"] \in Copy
             /\ [copy[c] EXCEPT !.at = "settled"] \in Copy
             /\ Processed(c, TRUE, FALSE) \in Copy
             /\ Processed(c, FALSE, FALSE) \in Copy
             /\ Processed(c, FALSE, TRUE) \in Copy
             /\ Enqueued(copy[c].retries) \in Copy
             /\ Enqueued(copy[c].retries + 1) \in Copy
  <2>1. c \in Live /\ copy[c] \in Copy
    BY <1>1, <1>3 DEF At, Live
  <2>2. copy[c].retries \in Nat /\ copy[c].retries + 1 \in Nat
    BY <2>1 DEF Copy
  <2>3. Enqueued(copy[c].retries) \in Copy /\ Enqueued(copy[c].retries + 1) \in Copy
    BY <2>2 DEF Copy, Enqueued
  <2>4. /\ [copy[c] EXCEPT !.at = "running"] \in Copy
        /\ [copy[c] EXCEPT !.at = "settled"] \in Copy
    BY <2>1 DEF Copy
  <2>5. \A done, failed \in BOOLEAN : Processed(c, done, failed) \in Copy
    BY <2>1 DEF Copy, Processed
  <2> QED
    BY <2>1, <2>3, <2>4, <2>5
<1>4. ASSUME NEW c \in Copies, Deliver(c) PROVE ReportInv'
  <2>1. At(c, copy[c].at)
    BY <1>4 DEF Deliver, At
  <2>2. copy[c] \in Copy
    BY <1>1, <1>3, <2>1
  <2>3. LET v == [copy[c] EXCEPT !.at = "running"] IN v.retries = copy[c].retries /\ v.failed = copy[c].failed
    BY <2>2 DEF Copy
  <2> QED
    BY <1>2, <1>3, <1>4, <2>1, <2>3 DEF Deliver
<1>5. ASSUME NEW c \in Copies, Succeed(c) PROVE ReportInv'
  <2>1. At(c, copy[c].at)
    BY <1>5 DEF Succeed, At
  <2>2. copy[c] \in Copy
    BY <1>1, <1>3, <2>1
  <2>3. LET v == Processed(c, TRUE, FALSE) IN v.retries = copy[c].retries /\ v.failed = FALSE
    BY <2>2 DEF Copy, Processed
  <2> QED
    BY <1>2, <1>3, <1>5, <2>1, <2>3 DEF Succeed
<1>6. ASSUME NEW c \in Copies, FailDeclared(c) PROVE ReportInv'
  <2>1. At(c, copy[c].at)
    BY <1>6 DEF FailDeclared, At
  <2>2. copy[c] \in Copy
    BY <1>1, <1>3, <2>1
  <2>3. LET v == Processed(c, FALSE, TRUE) IN v.retries = copy[c].retries
    BY <2>2 DEF Copy, Processed
  <2> QED
    BY <1>2, <1>3, <1>6, <2>1, <2>3 DEF FailDeclared
<1>7. ASSUME NEW c \in Copies, Settle(c) PROVE ReportInv'
  <2>1. At(c, copy[c].at)
    BY <1>7 DEF Settle, At
  <2>2. copy[c] \in Copy
    BY <1>1, <1>3, <2>1
  <2>3. LET v == [copy[c] EXCEPT !.at = "settled"] IN v.retries = copy[c].retries /\ v.failed = copy[c].failed
    BY <2>2 DEF Copy
  <2> QED
    BY <1>2, <1>3, <1>7, <2>1, <2>3 DEF Settle
<1>8. ASSUME NEW c \in Copies, WorkerDies(c) PROVE ReportInv'
  <2>1. At(c, copy[c].at)
    BY <1>8 DEF WorkerDies, At
  <2>2. LET v == Enqueued(copy[c].retries) IN v.retries = copy[c].retries /\ v.failed = FALSE
    BY DEF Enqueued
  <2> QED
    BY <1>2, <1>3, <1>8, <2>1, <2>2 DEF WorkerDies
<1>9. ASSUME NEW c \in Copies, Exhausted(c) PROVE ReportInv'
  <2>1. At(c, copy[c].at)
    BY <1>9 DEF Exhausted, At
  <2>2. copy[c] \in Copy /\ Processed(c, FALSE, TRUE) \in Copy
    BY <1>1, <1>3, <2>1
  <2>3. Processed(c, FALSE, TRUE).retries = copy[c].retries
    BY <2>2 DEF Copy, Processed
  <2>4. /\ Live' = Live /\ c \in Live
        /\ \A e \in Live : copy'[e].retries = copy[e].retries
    BY <1>1, <1>9, <2>1, <2>2, <2>3, KeepsCounters DEF Exhausted
  <2>5. /\ Either("on_retry_exhausted")' = Either("on_retry_exhausted")
        /\ \A n : Backoffs(n)' = Backoffs(n)
    BY <1>9, KeepsOptions DEF Exhausted
  <2>6. DelaysDrawn'
    BY <1>9, <2>4, <2>5 DEF Exhausted, ReportInv, DelaysDrawn
  <2>7. Either("on_retry_exhausted") # None => notices' # {}
    BY <1>9 DEF Exhausted
  <2>8. \A n \in notices' : n \in notices \/ n.retries = copy[c].retries
    BY <1>9 DEF Exhausted
  <2>9. FailureReported'
    BY <2>4, <2>5, <2>7, <2>8 DEF ReportInv, FailureReported
  <2> QED
    BY <2>6, <2>9 DEF ReportInv
<1>10. ASSUME NEW c \in Copies, Retry(c) PROVE ReportInv'
  <2> DEFINE p == Processed(c, FALSE, FALSE)
             q == Enqueued(copy[c].retries + 1)
  <2>1. At(c, copy[c].at)
    BY <1>10 DEF Retry, At
  <2>2. PICK d \in Copies :
            /\ Live = 1 .. d - 1
            /\ copy' = [copy EXCEPT ![c] = p, ![d] = q]
            /\ \/ delays' = [delays EXCEPT ![d] = Backoffs(copy[c].retries)]
               \/ delays' = [delays EXCEPT ![d] = {ExplicitDelay}]
    BY <1>10 DEF Retry
  <2>3. /\ copy[c] \in Copy /\ c \in Live /\ copy \in [Copies -> Copy \cup {None}]
        /\ p \in Copy /\ q \in Copy
    BY <1>1, <1>3, <2>1 DEF JobTypeOK
  <2>4. /\ p.retries = copy[c].retries /\ p.failed = FALSE
        /\ q.retries = copy[c].retries + 1 /\ q.failed = FALSE
        /\ copy[c].retries \in Nat
    BY <2>3 DEF Copy, Processed, Enqueued
  <2> HIDE DEF p, q
  <2>5. d \notin Live /\ c # d
    BY <2>2, <2>3 DEF Copies
  <2>6. /\ copy'[c] = p /\ copy'[d] = q
        /\ \A e \in Copies \ {c, d} : copy'[e] = copy[e]
    BY <2>2, <2>3, <2>5
  <2>7. /\ Live' = Live \cup {d}
        /\ \A e \in Live : copy'[e].retries = copy[e].retries
        /\ \A e \in Live' : copy'[e].failed => e \in Live /\ copy[e].failed
    BY <2>3, <2>4, <2>5, <2>6, NoneAssumption DEF Live, Copy
  <2>8. /\ Throws' = Throws
        /\ Either("on_retry_exhausted")' = Either("on_retry_exhausted")
        /\ \A n : Backoffs(n)' = Backoffs(n)
    BY <1>10, KeepsOptions DEF Retry
  <2>9. /\ DOMAIN delays' = Copies
        /\ delays'[d] \in {Backoffs(copy[c].retries), {ExplicitDelay}}
        /\ \A e \in Copies \ {d} : delays'[e] = delays[e]
    BY <2>2 DEF ReportInv, DelaysDrawn
  <2>10. DelaysDrawn'
    <3> SUFFICES ASSUME NEW e \in Live', copy'[e].retries > 0
                 PROVE  delays'[e] \in {Backoffs(copy'[e].retries - 1), {ExplicitDelay}}
      BY <2>8, <2>9 DEF DelaysDrawn
    <3>1. CASE e = d
      <4>1. copy'[e].retries - 1 = copy[c].retries
        BY <2>4, <2>6, <3>1
      <4> QED
        BY <2>9, <3>1, <4>1
    <3>2. CASE e \in Live
      BY <2>5, <2>7, <2>9, <3>2 DEF ReportInv, DelaysDrawn, Live
    <3> QED
      BY <2>7, <3>1, <3>2
  <2>11. FailureReported'
    <3>1. notices' = notices
      BY <1>10 DEF Retry
    <3> QED
      BY <2>7, <2>8, <3>1 DEF ReportInv, FailureReported
  <2> QED
    BY <2>10, <2>11 DEF ReportInv
<1>11. CASE Send
  <2>1. Live = {} /\ copy' = [copy EXCEPT ![1] = Enqueued(0)] /\ UNCHANGED <<delays, notices>>
    BY <1>11 DEF Send
  <2>2. \A e \in Live' : e = 1 /\ copy'[e] = Enqueued(0)
    BY <1>1, <2>1 DEF Live, JobTypeOK
  <2>3. notices' = {}
    BY <2>1 DEF ReportInv, FailureReported
  <2>4. Enqueued(0).retries = 0 /\ Enqueued(0).failed = FALSE
    BY DEF Enqueued
  <2>5. DelaysDrawn'
    BY <2>1, <2>2, <2>4 DEF ReportInv, DelaysDrawn
  <2>6. FailureReported'
    BY <2>2, <2>3, <2>4 DEF FailureReported
  <2> QED
    BY <2>5, <2>6 DEF ReportInv
<1>12. CASE UNCHANGED jobVars
  BY <1>12 DEF jobVars, ReportInv, DelaysDrawn, FailureReported, Live, Throws, Either, Get,
               Backoffs, Option
<1> QED
    BY <1>4, <1>5, <1>6, <1>7, <1>8, <1>9, <1>10, <1>11, <1>12 DEF JobNext, JobStep

\* For the options of the application's actors, what Backoffs draws from is the
\* schedule in the docstring of SharedRetries: the cap is never reached.
LEMMA ScheduleIsDrawn ==
    actor = [max_retries |-> 3, min_backoff |-> 15000] /\ message = << >> =>
        \A n \in 1 .. 3 :
            Backoffs(n - 1) = Documented(n)
<1> SUFFICES ASSUME actor = [max_retries |-> 3, min_backoff |-> 15000], message = << >>, NEW n \in 1 .. 3
    PROVE  Backoffs(n - 1) = Documented(n)
    OBVIOUS
<1>1. /\ Option("min_backoff", DefaultMinBackoff) = 15000
      /\ Option("max_backoff", SevenDays) = SevenDays
  <2>1. DOMAIN message = {} /\ DOMAIN actor = {"max_retries", "min_backoff"}
    BY SMT
  <2>2. actor["min_backoff"] = 15000
    BY SMT
  <2> QED
    BY SMT, <2>1, <2>2 DEF Option, Get
<1>2. SevenDays \in Nat /\ SevenDays > 100000
  BY SMT DEF SevenDays
<1>3. \A jitter \in 0 .. 10 * n - 1 :
        Smaller(15000 * 2 ^ Smaller(n - 1, 16) + 1000 * jitter, Smaller(SevenDays, SevenDays))
          = 1000 * (15 * <<1, 2, 4>>[n] + jitter)
  <2> SUFFICES ASSUME NEW jitter \in 0 .. 10 * n - 1
               PROVE  Smaller(15000 * 2 ^ Smaller(n - 1, 16) + 1000 * jitter, Smaller(SevenDays, SevenDays))
                        = 1000 * (15 * <<1, 2, 4>>[n] + jitter)
    OBVIOUS
  <2>1. 2 ^ 0 = 1 /\ 2 ^ 1 = 2 /\ 2 ^ 2 = 4
    BY SMT
  <2>2. CASE n = 1
    BY SMT, <1>2, <2>1, <2>2 DEF Smaller
  <2>3. CASE n = 2
    BY SMT, <1>2, <2>1, <2>3 DEF Smaller
  <2>4. CASE n = 3
    BY SMT, <1>2, <2>1, <2>4 DEF Smaller
  <2> QED
    BY SMT, <2>2, <2>3, <2>4
<1> DEFINE drawn(jitter) == Smaller(15000 * 2 ^ Smaller(n - 1, 16) + 1000 * jitter, Smaller(SevenDays, SevenDays))
           said(jitter) == 1000 * (15 * <<1, 2, 4>>[n] + jitter)
           jitters == 0 .. 10 * n - 1
<1>4. (n - 1) + 1 = n
  OBVIOUS
<1>5. Backoffs(n - 1) = {drawn(jitter) : jitter \in jitters}
  BY SMTT(30), <1>1, <1>4 DEF Backoffs, MaxExponent
<1>6. Documented(n) = {said(jitter) : jitter \in jitters}
  BY DEF Documented
<1>7. \A jitter \in jitters : drawn(jitter) = said(jitter)
  BY <1>3
<1> HIDE DEF drawn, said, jitters
<1> QED
  BY <1>5, <1>6, <1>7

\* A job is retried as its options and the docstring of SharedRetries say: not
\* lost, as often as allowed, so late, and with its failure reported.
THEOREM JobsRetriedAsDeclared == JobSpec => []RetriesAsDeclared
<1>1. JobInit => ReportInv
  <2> SUFFICES ASSUME JobInit PROVE ReportInv
    OBVIOUS
  <2>1. Live = {} /\ notices = {} /\ DOMAIN delays = Copies
    BY DEF JobInit, Live
  <2> QED
    BY <2>1 DEF ReportInv, DelaysDrawn, FailureReported
<1>2. JobSpec => []ReportInv
  BY <1>1, ReportStep, RetriesInvariance, PTL DEF JobSpec
<1>3. JobInv /\ ReportInv => DocumentedSchedule
  <2> SUFFICES ASSUME JobInv, ReportInv, NEW c \in Live,
                      actor = [max_retries |-> 3, min_backoff |-> 15000], message = << >>,
                      copy[c].retries > 0, delays[c] # {ExplicitDelay}
               PROVE  delays[c] = Documented(copy[c].retries)
    BY DEF DocumentedSchedule
  <2>1. copy[c].retries \in Nat
    BY DEF JobInv, JobTypeOK, Live, Copy
  <2>2. Get(actor, "retry_when", None) = None /\ Maximum = 3
    BY DEF Get, Maximum, Option
  <2>3. copy[c].retries \in 1 .. 3
    BY <2>1, <2>2, NoneAssumption DEF JobInv, RetriesBounded
  <2>4. delays[c] = Backoffs(copy[c].retries - 1)
    BY DEF ReportInv, DelaysDrawn
  <2> QED
    BY <2>3, <2>4, ScheduleIsDrawn
<1>4. ReportInv => FailureReported
  BY DEF ReportInv
<1> QED
  BY <1>2, <1>3, <1>4, RetriesInvariance, RetriesAreBounded, JobsAreNotLost, PTL DEF RetriesAsDeclared

-----------------------------------------------------------------------------
(* The migration of e-mail addresses                                       *)

LEMMA EmailInitInv == EmailInit => EmailInv
<1> SUFFICES ASSUME EmailInit PROVE EmailInv
    OBVIOUS
<1>1. /\ email \in [Users -> Addresses \cup {Absent}]
      /\ Distinct(email, {u \in Users : email[u] # Absent})
    BY DEF EmailInit
<1>2. backups \in [Users -> [original : Addresses, canonical : Addresses] \cup {Absent}]
    BY DEF EmailInit, NoBackups
<1>3. before \in [email : [Users -> Addresses \cup {Absent}],
                  backups : [Users -> [original : Addresses, canonical : Addresses] \cup {Absent}]]
    BY <1>1, <1>2 DEF EmailInit
<1>4. writes \in 0 .. MaxWrites
    BY AddressAssumption DEF EmailInit
<1>5. EmailTypeOK
    BY <1>1, <1>2, <1>3, <1>4 DEF EmailInit, EmailTypeOK
<1>6. Idle(email, backups)
    BY <1>1 DEF EmailInit, Idle, NoBackups
<1> QED BY <1>5, <1>6 DEF EmailInit, EmailInv

LEMMA UpgradeInv == EmailInv /\ Upgrade => EmailInv'
<1> SUFFICES ASSUME EmailInv, Upgrade PROVE EmailInv'
    OBVIOUS
<1> USE AddressAssumption
<1>1. EmailTypeOK'
    BY DEF EmailInv, EmailTypeOK, Upgrade, data, history, Accounts
<1>2. Idle(before.email, before.backups)'
    BY DEF EmailInv, Upgrade, data, history, Idle, TargetOf, Same
<1>3. Upgrading'
  <2>1. /\ before'.email = email
        /\ email' = email /\ backups' = backups /\ backups = NoBackups
        /\ changed' = {u \in Users : email[u] # Absent /\ Canonical[email[u]] # email[u]}
        /\ revision' = "0004"
    BY DEF EmailInv, Idle, Upgrade, data, history, Accounts
  <2>2. \A u \in Users : email[u] # Absent => email[u] \in Valid
    BY DEF Upgrade, Accounts
  <2>3. \A u, v \in Users : email[u] # Absent /\ email[v] # Absent /\ Canonical[email[u]] = Canonical[email[v]] => u = v
    BY DEF Upgrade, Accounts
  <2> QED BY <2>1, <2>2, <2>3 DEF Upgrading, NoBackups
<1> QED BY <1>1, <1>2, <1>3 DEF EmailInv, Upgrade

LEMMA DowngradeInv == EmailInv /\ Downgrade => EmailInv'
<1> SUFFICES ASSUME EmailInv, Downgrade PROVE EmailInv'
    OBVIOUS
<1> USE AddressAssumption
<1>1. EmailTypeOK'
    BY DEF EmailInv, EmailTypeOK, Downgrade, data, history, Accounts
<1>2. Idle(before.email, before.backups)'
    BY DEF EmailInv, Downgrade, data, history, Idle, TargetOf, Same
<1>3. Downgrading'
    BY DEF EmailInv, Downgrade, data, history, Downgrading, Target, TargetOf, Accounts
<1> QED BY <1>1, <1>2, <1>3 DEF EmailInv, Downgrade

\* A row that an upgrade writes takes the place of no other: the other would have
\* the same canonical address.
LEMMA NormalizeInv == ASSUME NEW u \in Users, EmailInv, NormalizeRow(u) PROVE EmailInv'
<1> USE AddressAssumption
<1> DEFINE old == before.email
           row == [original |-> email[u], canonical |-> Canonical[email[u]]]
<1>1. /\ Upgrading /\ Idle(before.email, before.backups) /\ EmailTypeOK /\ u \in changed
      /\ migration = "upgrade"
    BY DEF EmailInv, NormalizeRow, Rewrite
<1>2. /\ old[u] # Absent /\ old[u] \in Valid /\ email[u] = old[u]
      /\ Canonical[old[u]] # old[u] /\ Canonical[old[u]] \in Valid
    BY <1>1 DEF Upgrading
<1>3. row \in [original : Addresses, canonical : Addresses]
    BY <1>2
<1>4. EmailTypeOK'
    BY <1>1, <1>2, <1>3 DEF EmailTypeOK, NormalizeRow, Rewrite, history
<1>5. Upgrading'
  <2>1. /\ email' = [email EXCEPT ![u] = Canonical[old[u]]]
        /\ backups' = [backups EXCEPT ![u] = [original |-> old[u], canonical |-> Canonical[old[u]]]]
        /\ changed' = changed \ {u} /\ before' = before /\ revision' = revision
    BY <1>2 DEF NormalizeRow, Rewrite
  <2>2. email'[u] = Canonical[old[u]] /\ backups'[u] = [original |-> old[u], canonical |-> Canonical[old[u]]]
    BY <2>1, <1>1 DEF EmailTypeOK
  <2>3. \A v \in Users : v # u => email'[v] = email[v] /\ backups'[v] = backups[v]
                                  /\ (v \in changed' <=> v \in changed)
    BY <2>1, <1>1 DEF EmailTypeOK
  <2>4. u \notin changed' /\ \A v \in Users : (v # u /\ v \in changed') => v \in changed
    BY <2>3, <2>1
  <2>5. \A v \in Users : old[v] = Absent =>
            email'[v] = Absent /\ backups'[v] = Absent /\ v \notin changed'
    BY <1>1, <1>2, <2>3 DEF Upgrading
  <2>6. \A v \in Users : old[v] # Absent =>
            /\ old[v] \in Valid
            /\ v \in changed' => email'[v] = old[v] /\ backups'[v] = Absent /\ Canonical[old[v]] # old[v]
            /\ v \notin changed' =>
                /\ email'[v] = Canonical[old[v]]
                /\ backups'[v] = IF email'[v] = old[v] THEN Absent
                                 ELSE [original |-> old[v], canonical |-> email'[v]]
    <3> TAKE v \in Users
    <3>1. CASE v = u
      <4>1. /\ email'[v] = Canonical[old[v]]
            /\ backups'[v] = [original |-> old[v], canonical |-> email'[v]]
        BY <3>1, <2>2
      <4>2. old[v] \in Valid /\ v \notin changed' /\ email'[v] # old[v]
        BY <3>1, <1>2, <2>2, <2>4
      <4> QED BY <4>1, <4>2
    <3>2. CASE v # u
        BY <3>2, <1>1, <2>3 DEF Upgrading
    <3> QED BY <3>1, <3>2
  <2> QED BY <1>1, <2>1, <2>5, <2>6 DEF Upgrading
<1>6. ~ \E v \in {w \in Users : email[w] # Absent} \ {u} : email[v] = Canonical[email[u]]
  <2> SUFFICES ASSUME NEW v \in Users, email[v] # Absent, v # u, email[v] = Canonical[old[u]]
               PROVE FALSE
    BY <1>2
  <2>1. old[v] # Absent /\ old[v] \in Valid
    BY <1>1 DEF Upgrading
  <2>2. email[v] = old[v] \/ email[v] = Canonical[old[v]]
    BY <1>1, <2>1 DEF Upgrading
  <2>3. Canonical[old[v]] = Canonical[old[u]]
    BY <1>2, <2>2
  <2> QED BY <1>1, <1>2, <2>1, <2>3 DEF Upgrading
<1>7. Idle(before.email, before.backups)'
    BY <1>1 DEF NormalizeRow, Rewrite, history, Idle, TargetOf, Same
<1> QED BY <1>1, <1>4, <1>5, <1>6, <1>7 DEF EmailInv, NormalizeRow, Rewrite, Accounts

\* A row that a downgrade writes: what it gets back is not canonical, so nobody
\* has it who is still to be restored, and nobody else may have it.
LEMMA RestoreInv == ASSUME NEW u \in Users, EmailInv, RestoreRow(u) PROVE EmailInv'
<1> USE AddressAssumption
<1> DEFINE old == before.email
           target(v) == TargetOf(old, backups, v)
<1>1. /\ Downgrading /\ Idle(before.email, before.backups) /\ EmailTypeOK /\ u \in changed
      /\ migration = "downgrade" /\ backups = before.backups
    BY DEF EmailInv, RestoreRow, Rewrite, Downgrading
<1>2. old[u] # Absent /\ email[u] = old[u] /\ target(u) # old[u] /\ Target(u) = target(u)
    BY <1>1 DEF Downgrading, Target, TargetOf
<1>3. target(u) \in Valid /\ Canonical[target(u)] # target(u)
    BY <1>1, <1>2 DEF Idle, TargetOf
<1>4. EmailTypeOK'
    BY <1>1, <1>2, <1>3 DEF EmailTypeOK, RestoreRow, Rewrite, history
<1>5. Downgrading'
  <2>1. /\ email' = [email EXCEPT ![u] = target(u)] /\ backups' = backups
        /\ changed' = changed \ {u} /\ before' = before /\ revision' = revision
    BY <1>2 DEF RestoreRow, Rewrite
  <2>2. email'[u] = target(u) /\ \A v \in Users : v # u => email'[v] = email[v]
    BY <2>1, <1>1 DEF EmailTypeOK
  <2>3. \A v \in Users : v # u => (v \in changed' <=> v \in changed)
    BY <2>1
  <2> QED BY <1>1, <1>2, <2>1, <2>2, <2>3 DEF Downgrading
<1>6. ~ \E v \in {w \in Users : email[w] # Absent} \ {u} : email[v] = Target(u)
  <2> SUFFICES ASSUME NEW v \in Users, email[v] # Absent, v # u, email[v] = target(u)
               PROVE FALSE
    BY <1>2
  <2>1. old[v] # Absent
    BY <1>1 DEF Downgrading
  <2>2. target(v) = target(u)
    <3>1. CASE v \notin changed
        BY <3>1, <1>1, <2>1 DEF Downgrading
    <3>2. CASE v \in changed
      <4>1. old[v] = target(u)
        BY <3>2, <1>1, <2>1 DEF Downgrading
      <4>2. backups[v] # Absent => Canonical[backups[v].canonical] = backups[v].canonical
        BY <1>1 DEF Idle
      <4> QED BY <4>1, <4>2, <1>3 DEF TargetOf
    <3> QED BY <3>1, <3>2
  <2> QED BY <1>1, <1>2, <2>1, <2>2 DEF Downgrading
<1>7. Idle(before.email, before.backups)'
    BY <1>1 DEF RestoreRow, Rewrite, history, Idle, TargetOf, Same
<1> QED BY <1>1, <1>4, <1>5, <1>6, <1>7 DEF EmailInv, RestoreRow, Rewrite, Accounts

LEMMA FinishInv == EmailInv /\ Finish => EmailInv'
<1> SUFFICES ASSUME EmailInv, Finish PROVE EmailInv'
    OBVIOUS
<1> USE AddressAssumption
<1> DEFINE old == before.email
<1>1. EmailTypeOK'
    BY DEF EmailInv, EmailTypeOK, Finish, data, history, NoBackups
<1>2. CASE migration = "upgrade"
  <2>1. /\ Upgrading /\ Idle(old, before.backups) /\ changed = {} /\ email' = email
        /\ backups' = backups /\ revision' = "0005" /\ given' = old /\ touched' = {}
    BY <1>2 DEF EmailInv, Finish
  <2>2. \A u \in Users : email[u] # Absent =>
            /\ old[u] # Absent /\ old[u] \in Valid /\ email[u] = Canonical[old[u]]
    BY <2>1 DEF Upgrading
  <2>3. \A u \in Users : email[u] # Absent => TargetOf(email, backups, u) = old[u]
    <3> SUFFICES ASSUME NEW u \in Users, email[u] # Absent PROVE TargetOf(email, backups, u) = old[u]
        OBVIOUS
    <3>1. CASE email[u] = old[u]
      <4>1. backups[u] = Absent
        BY <3>1, <2>1, <2>2 DEF Upgrading
      <4> QED BY <3>1, <4>1 DEF TargetOf
    <3>2. CASE email[u] # old[u]
      <4>1. backups[u] = [original |-> old[u], canonical |-> email[u]]
        BY <3>2, <2>1, <2>2 DEF Upgrading
      <4>2. backups[u] \in [original : Addresses, canonical : Addresses]
        BY <4>1, <2>2
      <4> QED BY <4>1, <4>2 DEF TargetOf
    <3> QED BY <3>1, <3>2
  <2>4. Distinct(email, {u \in Users : email[u] # Absent})
    <3>1. \A u, v \in Users :
            old[u] # Absent /\ old[v] # Absent /\ Canonical[old[u]] = Canonical[old[v]] => u = v
        BY <2>1 DEF Upgrading
    <3> QED BY <2>2, <3>1 DEF Distinct
  <2>5. \A u \in Users : backups[u] # Absent =>
            /\ backups[u].original \in Valid
            /\ backups[u].canonical = Canonical[backups[u].original]
            /\ backups[u].canonical # backups[u].original
    <3> SUFFICES ASSUME NEW u \in Users, backups[u] # Absent
                 PROVE  /\ backups[u].original \in Valid
                        /\ backups[u].canonical = Canonical[backups[u].original]
                        /\ backups[u].canonical # backups[u].original
        OBVIOUS
    <3>1. /\ old[u] # Absent /\ old[u] \in Valid /\ email[u] = Canonical[old[u]]
          /\ backups[u] = IF email[u] = old[u] THEN Absent
                          ELSE [original |-> old[u], canonical |-> email[u]]
        BY <2>1 DEF Upgrading
    <3>2. email[u] # old[u] /\ backups[u] = [original |-> old[u], canonical |-> email[u]]
        BY <3>1
    <3> QED BY <3>1, <3>2
  <2>6. \A u \in Users : email[u] # Absent => email[u] \in Valid /\ Canonical[email[u]] = email[u]
    BY <2>2
  <2>7. Idle(email, backups)'
    BY <2>1, <2>3, <2>4, <2>5, <2>6 DEF Idle, TargetOf, Distinct
  <2> QED BY <1>1, <1>2, <2>7 DEF EmailInv, Finish
<1>3. CASE migration = "downgrade"
  <2>1. /\ Downgrading /\ Idle(old, backups) /\ changed = {} /\ email' = email
        /\ backups' = NoBackups /\ revision' = "0004" /\ given' = given /\ touched' = touched
    BY <1>3 DEF EmailInv, Finish, Downgrading
  <2>2. \A u \in Users : email[u] # Absent => old[u] # Absent /\ email[u] = TargetOf(old, backups, u)
    BY <2>1 DEF Downgrading
  <2>3. Distinct(email, {u \in Users : email[u] # Absent})
    BY <2>1, <2>2 DEF Distinct, Downgrading
  <2>4. \A u \in Users : email[u] # Absent =>
            email[u] = given[u] \/ (u \in touched /\ Same(email[u], given[u]))
    BY <2>1, <2>2 DEF Idle, Downgrading
  <2>5. Idle(email, backups)'
    BY <2>1, <2>3, <2>4 DEF Idle, NoBackups, Distinct, Same
  <2> QED BY <1>1, <1>3, <2>5 DEF EmailInv, Finish
<1> QED BY <1>2, <1>3 DEF EmailInv, EmailTypeOK, Finish

LEMMA CrashInv == EmailInv /\ Crash => EmailInv'
<1> SUFFICES ASSUME EmailInv, Crash PROVE EmailInv'
    OBVIOUS
<1>1. EmailTypeOK'
    BY DEF EmailInv, EmailTypeOK, Crash, history
<1>2. Idle(email, backups)'
    BY DEF EmailInv, Crash, history, Idle, TargetOf, Same, Distinct
<1> QED BY <1>1, <1>2 DEF EmailInv, Crash

LEMMA RegisterInv == ASSUME NEW u \in Users, EmailInv, Register(u) PROVE EmailInv'
<1> USE AddressAssumption
<1>1. PICK a \in Valid : Canonical[a] \notin Taken /\ Give(u, Canonical[a])
    BY DEF Register
<1> DEFINE c == Canonical[a]
<1>2. c \in Valid /\ Canonical[c] = c /\ c # Absent
    OBVIOUS
<1>3. /\ email' = [email EXCEPT ![u] = c] /\ given' = [given EXCEPT ![u] = c]
      /\ backups' = backups /\ revision' = revision /\ touched' = touched /\ backups[u] = Absent
      /\ migration = "none" /\ migration' = "none" /\ EmailTypeOK /\ Idle(email, backups)
    BY <1>1 DEF Give, Register, EmailInv
<1>4. EmailTypeOK'
    BY <1>1, <1>2, <1>3 DEF EmailTypeOK, Give
<1>5. /\ email'[u] = c /\ given'[u] = c
      /\ \A v \in Users : v # u => email'[v] = email[v] /\ given'[v] = given[v]
    BY <1>3 DEF EmailTypeOK
<1>6. \A v \in Users : email[v] # Absent => email[v] # c
    BY <1>1 DEF Taken, Accounts
<1>7. Idle(email, backups)'
    BY <1>2, <1>3, <1>5, <1>6 DEF Idle, Distinct, TargetOf, Same
<1> QED BY <1>1, <1>3, <1>4, <1>7 DEF EmailInv, Give

LEMMA CorrectInv == ASSUME NEW u \in Users, EmailInv, Correct(u) PROVE EmailInv'
<1> USE AddressAssumption
<1>1. PICK a \in Valid \ Taken : Give(u, a)
    BY DEF Correct
<1>2. /\ email' = [email EXCEPT ![u] = a] /\ given' = [given EXCEPT ![u] = a]
      /\ backups' = backups /\ revision' = revision /\ touched' = touched \cup {u}
      /\ migration = "none" /\ migration' = "none" /\ EmailTypeOK /\ Idle(email, backups)
    BY <1>1 DEF Give, Correct, EmailInv
<1>3. EmailTypeOK'
    BY <1>1, <1>2 DEF EmailTypeOK, Give
<1>4. /\ email'[u] = a /\ given'[u] = a /\ u \in touched'
      /\ \A v \in Users : v # u => email'[v] = email[v] /\ given'[v] = given[v]
                                   /\ (v \in touched' <=> v \in touched)
    BY <1>2 DEF EmailTypeOK
<1>5. \A v \in Users : email[v] # Absent => email[v] # a
    BY <1>1 DEF Taken, Accounts
<1>6. TargetOf(email', backups', u) = a \/ Same(TargetOf(email', backups', u), a)
    BY <1>1, <1>2, <1>4 DEF TargetOf, Same, Idle
<1>7. \A v \in Users : v # u => TargetOf(email', backups', v) = TargetOf(email, backups, v)
    BY <1>2, <1>4 DEF TargetOf
<1>8. Idle(email, backups)'
  <2>1. Distinct(email', {v \in Users : email'[v] # Absent})
    BY <1>1, <1>2, <1>4, <1>5 DEF Idle, Distinct
  <2>2. revision = "0005" => \A v \in Users : email'[v] # Absent =>
            /\ \/ TargetOf(email', backups', v) = given'[v]
               \/ v \in touched' /\ Same(TargetOf(email', backups', v), given'[v])
            /\ v \notin touched' => email'[v] \in Valid /\ Canonical[email'[v]] = email'[v]
    BY <1>2, <1>4, <1>6, <1>7 DEF Idle
  <2>3. revision = "0004" => \A v \in Users : email'[v] # Absent =>
            email'[v] = given'[v] \/ (v \in touched' /\ Same(email'[v], given'[v]))
    BY <1>2, <1>4 DEF Idle
  <2> QED BY <1>2, <2>1, <2>2, <2>3 DEF Idle, Distinct, TargetOf, Same
<1> QED BY <1>1, <1>2, <1>3, <1>8 DEF EmailInv, Give

LEMMA DeleteInv == ASSUME NEW u \in Users, EmailInv, Delete(u) PROVE EmailInv'
<1> USE AddressAssumption
<1>1. /\ email' = [email EXCEPT ![u] = Absent] /\ given' = [given EXCEPT ![u] = Absent]
      /\ backups' = backups /\ revision' = revision /\ touched' = touched
      /\ migration = "none" /\ migration' = "none" /\ EmailTypeOK /\ Idle(email, backups)
    BY DEF Give, Delete, EmailInv
<1>2. EmailTypeOK'
    BY <1>1 DEF EmailTypeOK, Give, Delete
<1>3. email'[u] = Absent /\ \A v \in Users : v # u => email'[v] = email[v] /\ given'[v] = given[v]
    BY <1>1 DEF EmailTypeOK
<1>4. Idle(email, backups)'
    BY <1>1, <1>3 DEF Idle, Distinct, TargetOf, Same
<1> QED BY <1>1, <1>2, <1>4 DEF EmailInv, Delete, Give

\* The inductive invariant, which includes that all variables have their types.
THEOREM EmailInvariance == EmailSpec => []EmailInv
<1>1. EmailInv /\ [EmailNext]_emailVars => EmailInv'
  <2> SUFFICES ASSUME EmailInv, [EmailNext]_emailVars PROVE EmailInv'
    OBVIOUS
  <2>1. CASE UNCHANGED emailVars
    <3>1. /\ UNCHANGED <<email, backups, revision, migration, changed, before, refused, given, touched>>
          /\ UNCHANGED <<data, history, writes>>
      BY <2>1 DEF emailVars, data, history
    <3>2. EmailTypeOK' /\ Idle(email, backups)' = Idle(email, backups)
          /\ Idle(before.email, before.backups)' = Idle(before.email, before.backups)
      BY <3>1 DEF data, history, EmailInv, EmailTypeOK, Idle, Distinct, TargetOf, Same
    <3>3. (Upgrading' <=> Upgrading) /\ (Downgrading' <=> Downgrading)
      BY <3>1 DEF Upgrading, Downgrading, TargetOf, Same
    <3> QED
      BY <3>1, <3>2, <3>3 DEF EmailInv
  <2> QED
    BY <2>1, UpgradeInv, DowngradeInv, NormalizeInv, RestoreInv, FinishInv, CrashInv,
       RegisterInv, CorrectInv, DeleteInv DEF EmailNext
<1> QED BY <1>1, EmailInitInv, PTL DEF EmailSpec

\* After the upgrade a login can find every account.
THEOREM EveryAccountFound == EmailSpec => []LoginsFindAccounts
<1>1. EmailInv => LoginsFindAccounts
    BY DEF EmailInv, Idle, LoginsFindAccounts, Accounts
<1> QED BY <1>1, EmailInvariance, PTL

\* The migrations never meet the unique constraint.
THEOREM MigrationsMeetNoConflict == EmailSpec => []NoStatementRefused
<1>1. EmailInv => NoStatementRefused
    BY DEF EmailInv, NoStatementRefused
<1> QED BY <1>1, EmailInvariance, PTL

\* A downgrade gives every account back the address it had.
THEOREM DowngradeIsExact == EmailSpec => []RollbackExact
<1>1. EmailInv => RollbackExact
    BY DEF EmailInv, Idle, RollbackExact, Accounts, Same
<1> QED BY <1>1, EmailInvariance, PTL

-----------------------------------------------------------------------------
(* Media types                                                             *)

Entries == MediaRanges \cup LanguageRanges \cup {Unparsed, Open}

HeaderOK ==
    /\ header \in Seq(Entries)
    /\ kind = "language" => header \in Seq(LanguageRanges \cup {Unparsed, Open})

\* A header is made of entries.
LEMMA HeaderMade == HeaderSpec => []HeaderOK
<1>1. HeaderInit => HeaderOK
  BY DEF HeaderInit, HeaderOK
<1>2. HeaderOK /\ [HeaderNext]_<<kind, header>> => HeaderOK'
  <2> SUFFICES ASSUME HeaderOK, [HeaderNext]_<<kind, header>> PROVE HeaderOK'
    OBVIOUS
  <2>1. ASSUME NEW entry \in MediaRanges \cup {Unparsed, Open}, kind = "accept", AddEntry(entry)
        PROVE  HeaderOK'
    <3>1. entry \in Entries /\ kind' # "language"
      BY <2>1 DEF Entries, AddEntry
    <3> QED
      BY <2>1, <3>1, AppendProperties DEF HeaderOK, AddEntry
  <2>2. ASSUME NEW entry \in LanguageRanges \cup {Unparsed, Open}, kind = "language", AddEntry(entry)
        PROVE  HeaderOK'
    <3>1. entry \in Entries
      BY DEF Entries
    <3> QED
      BY <2>2, <3>1, AppendProperties DEF HeaderOK, AddEntry
  <2>3. CASE UNCHANGED <<kind, header>>
    BY <2>3 DEF HeaderOK
  <2> QED
    BY <2>1, <2>2, <2>3 DEF HeaderNext
<1> QED
  BY <1>1, <1>2, PTL DEF HeaderSpec

\* Where the media type itself is named, it decides.
LEMMA InstancesDecide ==
    ASSUME NEW h, NEW n \in Named(h, "jsonapi"), h[n].q # Malformed
    PROVE  Decisive(h) = {k \in Named(h, "jsonapi") : h[k].q # Malformed}
<1> DEFINE weighed == {k \in Given(h) : Weighed(h[k])}
           instances == {k \in Named(h, "jsonapi") : h[k].q # Malformed}
<1>1. \A k \in weighed : h[k].range \in {"jsonapi", "application", "any"}
  BY DEF Weighed, Specificity
<1>2. /\ Specificity["jsonapi"] = 2
      /\ \A range \in {"application", "any"} : Specificity[range] \in {0, 1}
  BY DEF Specificity
<1>3. instances = {k \in weighed : h[k].range = "jsonapi"}
  BY DEF Named, Weighed, Specificity
<1>4. n \in weighed /\ h[n].range = "jsonapi"
  BY <1>3
<1>5. \A k \in weighed : Specificity[h[k].range] \in {0, 1, 2} /\ (Specificity[h[k].range] = 2 <=> h[k].range = "jsonapi")
  BY <1>1, <1>2
<1> HIDE DEF weighed, instances
<1>6. \A k \in weighed : (\A j \in weighed : Specificity[h[j].range] <= Specificity[h[k].range])
                             <=> h[k].range = "jsonapi"
  BY <1>4, <1>5
<1>7. Decisive(h) = {k \in weighed : \A j \in weighed : Specificity[h[j].range] <= Specificity[h[k].range]}
  BY DEF Decisive, weighed
<1> QED
  BY <1>3, <1>6, <1>7 DEF instances

LEMMA JsonApiKept == HeaderOK => JsonApiRule
<1> SUFFICES ASSUME HeaderOK, Readable(header) PROVE
        LET instances == {n \in Named(header, "jsonapi") : header[n].q # Malformed} IN
        /\ instances # {} /\ (\A n \in instances : Foreign(header[n])) => ~ AcceptAllows(header)
        /\ (\E n \in instances : ~ Foreign(header[n]) /\ Quality(header[n]) > 0) => AcceptAllows(header)
  BY DEF JsonApiRule
<1> DEFINE instances == {n \in Named(header, "jsonapi") : header[n].q # Malformed}
<1> SUFFICES ASSUME instances # {} PROVE
        /\ (\A n \in instances : Foreign(header[n])) => ~ AcceptAllows(header)
        /\ (\E n \in instances : ~ Foreign(header[n]) /\ Quality(header[n]) > 0) => AcceptAllows(header)
  OBVIOUS
<1>1. Decisive(header) = instances
  BY InstancesDecide
<1>2. header # <<>>
  BY DEF Named, Given
<1>3. ASSUME \A n \in instances : Foreign(header[n]) PROVE ~ AcceptAllows(header)
  <2>1. \A n \in instances : Weight(header[n]) = 0
    BY <1>3 DEF Weight
  <2> QED
    BY <1>1, <1>2, <2>1 DEF AcceptAllows
<1>4. ASSUME NEW n \in instances, ~ Foreign(header[n]), Quality(header[n]) > 0
      PROVE  AcceptAllows(header)
  <2>1. Weight(header[n]) > 0
    BY <1>4 DEF Weight
  <2> QED
    BY <1>1, <1>4, <2>1 DEF AcceptAllows
<1> QED
  BY <1>3, <1>4

\* Entries that change places weigh what they weighed.
LEMMA UnorderedKept == HeaderOK => RangesUnordered
<1> SUFFICES ASSUME HeaderOK, NEW n \in 1 .. Len(header) - 1
    PROVE  AcceptAllows([header EXCEPT ![n] = header[n + 1], ![n + 1] = header[n]]) = AcceptAllows(header)
  BY DEF RangesUnordered
<1> DEFINE turned == [header EXCEPT ![n] = header[n + 1], ![n + 1] = header[n]]
           order == [m \in DOMAIN header |-> IF m = n THEN n + 1 ELSE IF m = n + 1 THEN n ELSE m]
<1>1. /\ DOMAIN header = 1 .. Len(header) /\ Len(header) \in Nat
      /\ n \in DOMAIN header /\ n + 1 \in DOMAIN header /\ n # n + 1
      /\ header = [m \in DOMAIN header |-> header[m]]
  BY LenProperties DEF HeaderOK
<1>2. \A m \in DOMAIN header : order[m] \in DOMAIN header /\ order[order[m]] = m
  BY <1>1
<1>3. DOMAIN turned = DOMAIN header /\ \A m \in DOMAIN header : turned[m] = header[order[m]]
  BY <1>1
<1>4. header # <<>> /\ turned # <<>>
  BY <1>1, <1>3
<1> HIDE DEF turned, order
<1>5. Readable(turned) <=> Readable(header)
  BY <1>2, <1>3 DEF Readable, Range
<1>6. \A m \in DOMAIN header : m \in Given(turned) <=> order[m] \in Given(header)
  BY <1>2, <1>3 DEF Given
<1>7. \A m \in DOMAIN header : m \in Decisive(turned) <=> order[m] \in Decisive(header)
  <2> DEFINE W(h) == {k \in Given(h) : Weighed(h[k])}
  <2>1. \A m \in DOMAIN header : m \in W(turned) <=> order[m] \in W(header)
    BY <1>2, <1>3, <1>6
  <2>2. W(turned) \subseteq DOMAIN header /\ W(header) \subseteq DOMAIN header
    BY <1>3 DEF Given
  <2>3. \A h : Decisive(h) = {k \in W(h) : \A j \in W(h) : Specificity[h[j].range] <= Specificity[h[k].range]}
    BY DEF Decisive
  <2> HIDE DEF W
  <2> TAKE m \in DOMAIN header
  <2>4. ASSUME m \in Decisive(turned) PROVE order[m] \in Decisive(header)
    <3>1. \A j \in W(header) : order[j] \in W(turned) /\ turned[order[j]] = header[j]
      BY <1>2, <1>3, <2>1, <2>2
    <3> QED
      BY <1>2, <1>3, <2>1, <2>3, <2>4, <3>1
  <2>5. ASSUME order[m] \in Decisive(header) PROVE m \in Decisive(turned)
    <3>1. \A j \in W(turned) : order[j] \in W(header) /\ turned[j] = header[order[j]]
      BY <1>3, <2>1, <2>2
    <3> QED
      BY <1>3, <2>1, <2>3, <2>5, <3>1
  <2> QED
    BY <2>4, <2>5
<1>8. Decisive(turned) \subseteq DOMAIN header /\ Decisive(header) \subseteq DOMAIN header
  BY <1>3 DEF Decisive, Given
<1>9. (\E m \in Decisive(turned) : Weight(turned[m]) > 0) <=> (\E m \in Decisive(header) : Weight(header[m]) > 0)
  <2>1. ASSUME NEW m \in Decisive(turned), Weight(turned[m]) > 0
        PROVE  \E k \in Decisive(header) : Weight(header[k]) > 0
    BY <1>3, <1>7, <1>8, <2>1
  <2>2. ASSUME NEW m \in Decisive(header), Weight(header[m]) > 0
        PROVE  \E k \in Decisive(turned) : Weight(turned[k]) > 0
    <3>1. order[m] \in Decisive(turned) /\ turned[order[m]] = header[m]
      BY <1>2, <1>3, <1>7, <1>8
    <3> QED
      BY <2>2, <3>1
  <2> QED
    BY <2>1, <2>2
<1>10. AcceptAllows(turned) <=> AcceptAllows(header)
  BY <1>4, <1>5, <1>9 DEF AcceptAllows
<1> QED
  BY <1>10 DEF turned, AcceptAllows

LEMMA BothKept == HeaderOK => BothHeaders
<1> SUFFICES ASSUME HeaderOK, Len(header) = 1, ContentTypeAccepted(header[1]) PROVE AcceptAllows(header)
  BY DEF BothHeaders
<1>1. DOMAIN header = {1}
  BY LenProperties DEF HeaderOK
<1>2. Readable(header)
  BY <1>1 DEF Readable, Range, ContentTypeAccepted
<1>3. 1 \in Named(header, "jsonapi") /\ header[1].q # Malformed
  BY <1>1 DEF Named, Given, ContentTypeAccepted, NotGiven, Malformed
<1>4. 1 \in Decisive(header)
  BY <1>3, InstancesDecide
<1>5. Weight(header[1]) = MaxQuality
  BY DEF Weight, Foreign, ContentTypeAccepted, Quality
<1> QED
  BY <1>2, <1>4, <1>5, QualityAssumption DEF AcceptAllows

-----------------------------------------------------------------------------
(* Languages                                                               *)

\* A header of languages whose quotes are closed.
Legible(h) == h \in Seq(LanguageRanges \cup {Unparsed})

Best(h, language) ==
    {n \in Effective(h, language) : \A k \in Effective(h, language) :
        LanguageQuality(h[k]) <= LanguageQuality(h[n])}

First(n, S) == n \in S /\ \A k \in S : n <= k

LEMMA LegibleHeader == HeaderOK /\ kind = "language" /\ Readable(header) => Legible(header)
<1> SUFFICES ASSUME header \in Seq(LanguageRanges \cup {Unparsed, Open}), Readable(header)
    PROVE  header \in Seq(LanguageRanges \cup {Unparsed})
  BY DEF HeaderOK, Legible
<1>1. header \in [1 .. Len(header) -> LanguageRanges \cup {Unparsed, Open}] /\ Len(header) \in Nat
      /\ DOMAIN header = 1 .. Len(header)
  BY LenProperties
<1>2. \A n \in 1 .. Len(header) : header[n] # Open
  BY <1>1 DEF Readable, Range
<1>3. header \in [1 .. Len(header) -> LanguageRanges \cup {Unparsed}]
  BY <1>1, <1>2
<1> QED
  BY <1>1, <1>3

LEMMA EntriesGiven ==
    ASSUME NEW h, Legible(h)
    PROVE  /\ Len(h) \in Nat /\ DOMAIN h = 1 .. Len(h)
           /\ \A n \in Given(h) : /\ n \in 1 .. Len(h) /\ h[n] \in LanguageRanges
                                  /\ h[n].subtags \in Nat /\ LanguageQuality(h[n]) \in Nat
           /\ \A language : Candidates(h, language) \subseteq Given(h)
<1>1. Len(h) \in Nat /\ DOMAIN h = 1 .. Len(h)
  BY LenProperties DEF Legible
<1>2. \A n \in Given(h) : n \in 1 .. Len(h) /\ h[n] \in LanguageRanges
  BY <1>1, ElementOfSeq DEF Legible, Given
<1>3. \A n \in Given(h) : h[n].subtags \in Nat /\ h[n].q \in Qualities
  BY <1>2, EntriesAssumption
<1>4. \A n \in Given(h) : LanguageQuality(h[n]) \in Nat
  BY <1>3, QualityAssumption DEF LanguageQuality, Quality, Qualities, NotGiven, Malformed
<1>5. \A language : Candidates(h, language) \subseteq Given(h)
  BY DEF Candidates, Named
<1> QED
  BY <1>1, <1>2, <1>3, <1>4, <1>5

\* A language that is mentioned has an entry that decides, the first of the best.
LEMMA PreferenceIs ==
    ASSUME NEW h, Legible(h), NEW language
    PROVE  IF Candidates(h, language) = {}
           THEN Preference(h, language) = [quality |-> 0, order |-> Len(h) + 1]
           ELSE \E n : /\ First(n, Best(h, language))
                       /\ Preference(h, language) = [quality |-> LanguageQuality(h[n]), order |-> n]
<1> DEFINE candidates == Candidates(h, language)
           effective == Effective(h, language)
           best == Best(h, language)
           places == 1 .. Len(h)
<1>1. Len(h) \in Nat /\ candidates \subseteq Given(h) /\ Given(h) \subseteq places
  BY EntriesGiven
<1>2. CASE candidates = {}
  <2>1. effective = {}
    BY <1>2 DEF Effective
  <2> QED
    BY <1>2, <2>1 DEF Preference
<1>3. CASE candidates # {}
  <2> DEFINE subtags == [n \in places |-> IF n \in Given(h) THEN h[n].subtags ELSE 0]
             quality == [n \in places |-> IF n \in Given(h) THEN LanguageQuality(h[n]) ELSE 0]
  <2>1. subtags \in [places -> Nat] /\ quality \in [places -> Nat]
    BY EntriesGiven
  <2>2. \A n \in Given(h) : subtags[n] = h[n].subtags /\ quality[n] = LanguageQuality(h[n])
    BY <1>1
  <2> HIDE DEF subtags, quality
  <2>3. \E n \in candidates : \A k \in candidates : subtags[k] <= subtags[n]
    BY <1>1, <1>3, <2>1, Greatest
  <2>4. effective # {}
    BY <1>1, <2>2, <2>3 DEF Effective
  <2>5. effective \subseteq Given(h) /\ effective \subseteq places
    BY <1>1 DEF Effective
  <2>6. \E n \in effective : \A k \in effective : quality[k] <= quality[n]
    BY <1>1, <2>1, <2>4, <2>5, Greatest
  <2>7. best # {} /\ best \in SUBSET Nat
    BY <2>2, <2>5, <2>6 DEF Best
  <2>8. \E n \in best : \A k \in best : n <= k
    BY <2>7, LeastNumber
  <2>9. First(Min(best), best)
    BY <2>8 DEF Min, First
  <2>10. Preference(h, language) = [quality |-> LanguageQuality(h[Min(best)]), order |-> Min(best)]
    BY <2>4 DEF Preference, Best
  <2> QED
    BY <1>3, <2>9, <2>10
<1> QED
  BY <1>2, <1>3

LEMMA PreferenceTyped ==
    ASSUME NEW h, Legible(h), NEW language
    PROVE  Preference(h, language).quality \in Nat
<1>1. CASE Candidates(h, language) = {}
  BY <1>1, PreferenceIs
<1>2. CASE Candidates(h, language) # {}
  <2>1. PICK n : /\ First(n, Best(h, language))
                 /\ Preference(h, language) = [quality |-> LanguageQuality(h[n]), order |-> n]
    BY <1>2, PreferenceIs
  <2>2. n \in Given(h)
    BY <2>1, EntriesGiven DEF First, Best, Effective
  <2> QED
    BY <2>1, <2>2, EntriesGiven
<1> QED
  BY <1>1, <1>2

LEMMA ExcludedKept == HeaderOK => ExcludedNeverChosen
<1> SUFFICES ASSUME Legible(header), NEW l \in Languages, NEW other \in Languages,
                    Named(header, l) # {}, \A n \in Named(header, l) : header[n].q = 0,
                    Preference(header, other).quality > 0
    PROVE  Language(header) # l
  BY LegibleHeader DEF ExcludedNeverChosen
<1>1. Candidates(header, l) = Named(header, l)
  BY DEF Candidates
<1>2. PICK n : /\ First(n, Best(header, l))
               /\ Preference(header, l) = [quality |-> LanguageQuality(header[n]), order |-> n]
  BY <1>1, PreferenceIs
<1>3. n \in Named(header, l)
  BY <1>1, <1>2 DEF First, Best, Effective
<1>4. Preference(header, l).quality = 0
  BY <1>2, <1>3 DEF LanguageQuality, Quality, NotGiven
<1>5. l # other /\ Preference(header, other).quality \in Nat
  BY <1>4, PreferenceTyped
<1>6. CASE l = "ko" /\ other = "en"
  <2>1. Preference(header, "en").quality > Preference(header, "ko").quality
    BY <1>4, <1>6
  <2>2. Readable(header)
    BY EntriesGiven, ElementOfSeq, EntriesAssumption DEF Legible, Readable, Range
  <2> QED
    BY <1>6, <2>1, <2>2 DEF Language
<1>7. CASE l = "en" /\ other = "ko"
  BY <1>4, <1>5, <1>7 DEF Language
<1> QED
  BY <1>5, <1>6, <1>7 DEF Languages

-----------------------------------------------------------------------------
(* A header without one of its entries                                     *)

\* Where the entries after a gap were before.
Shift(n, i) == IF i < n THEN i ELSE i + 1

LEMMA Removed ==
    ASSUME NEW h, Legible(h), NEW n \in DOMAIN h
    PROVE  /\ Legible(RemoveAt(h, n)) /\ Len(RemoveAt(h, n)) = Len(h) - 1
           /\ \A i \in 1 .. Len(h) - 1 : RemoveAt(h, n)[i] = h[Shift(n, i)]
<1> DEFINE S == LanguageRanges \cup {Unparsed}
           front == SubSeq(h, 1, n - 1)
           back == SubSeq(h, n + 1, Len(h))
<1>1. /\ h \in Seq(S) /\ Len(h) \in Nat /\ DOMAIN h = 1 .. Len(h) /\ n \in 1 .. Len(h)
      /\ \A i \in 1 .. Len(h) : h[i] \in S
  BY LenProperties, ElementOfSeq DEF Legible
<1>2. /\ front \in Seq(S) /\ Len(front) = n - 1
      /\ \A i \in 1 .. n - 1 : front[i] = h[i]
  <2>1. \A i \in 1 .. n - 1 : h[i] \in S
    BY <1>1
  <2>2. /\ front \in Seq(S) /\ Len(front) = IF 1 <= n - 1 THEN (n - 1) - 1 + 1 ELSE 0
        /\ \A i \in 1 .. (n - 1) - 1 + 1 : front[i] = h[1 + i - 1]
    BY <1>1, <2>1, SubSeqProperties
  <2> QED
    BY <1>1, <2>2
<1>3. /\ back \in Seq(S) /\ Len(back) = Len(h) - n
      /\ \A i \in 1 .. Len(h) - n : back[i] = h[n + i]
  <2>1. \A i \in n + 1 .. Len(h) : h[i] \in S
    BY <1>1
  <2>2. /\ back \in Seq(S) /\ Len(back) = IF n + 1 <= Len(h) THEN Len(h) - (n + 1) + 1 ELSE 0
        /\ \A i \in 1 .. Len(h) - (n + 1) + 1 : back[i] = h[(n + 1) + i - 1]
    BY <1>1, <2>1, SubSeqProperties
  <2> QED
    BY <1>1, <2>2
<1> HIDE DEF S, front, back
<1>4. /\ front \o back \in Seq(S) /\ Len(front \o back) = Len(front) + Len(back)
      /\ \A i \in 1 .. Len(front) + Len(back) : (front \o back)[i] =
            IF i <= Len(front) THEN front[i] ELSE back[i - Len(front)]
  BY <1>2, <1>3, ConcatProperties
<1>5. RemoveAt(h, n) = front \o back
  BY DEF RemoveAt, front, back
<1>6. ASSUME NEW i \in 1 .. Len(h) - 1 PROVE (front \o back)[i] = h[Shift(n, i)]
  <2>1. CASE i < n
    BY <1>1, <1>2, <1>3, <1>4, <2>1 DEF Shift
  <2>2. CASE ~ (i < n)
    <3>1. i - (n - 1) \in 1 .. Len(h) - n /\ n + (i - (n - 1)) = i + 1 /\ ~ (i <= n - 1)
      BY <1>1, <2>2
    <3>2. (front \o back)[i] = back[i - (n - 1)]
      BY <1>1, <1>2, <1>3, <1>4, <3>1, SMTT(30)
    <3>3. back[i - (n - 1)] = h[i + 1]
      BY <1>3, <3>1
    <3> QED
      BY <2>2, <3>2, <3>3 DEF Shift
  <2> QED
    BY <2>1, <2>2
<1>7. Legible(front \o back)
  BY <1>4 DEF Legible, S
<1>8. Len(front \o back) = Len(h) - 1
  BY <1>1, <1>2, <1>3, <1>4
<1> QED
  BY <1>5, <1>6, <1>7, <1>8

\* What is found without the entry is what is found with it, further on.
Shifted(S, T, n) ==
    /\ \A i \in S : Shift(n, i) \in T
    /\ \A j \in T : \E i \in S : j = Shift(n, i)

LEMMA PreferenceStays ==
    ASSUME NEW h, Legible(h), NEW n \in DOMAIN h, NEW language \in Languages,
           h[n] = Unparsed \/ h[n].range \notin Languages \cup {"*"}
    PROVE  LET p == Preference(h, language)
               q == Preference(RemoveAt(h, n), language)
           IN  /\ q.quality = p.quality
               /\ p.quality > 0 => /\ q.order \in 1 .. Len(h) - 1
                                   /\ p.order = Shift(n, q.order)
<1> DEFINE g == RemoveAt(h, n)
           p == Preference(h, language)
           q == Preference(g, language)
<1> SUFFICES /\ q.quality = p.quality
             /\ p.quality > 0 => q.order \in 1 .. Len(h) - 1 /\ p.order = Shift(n, q.order)
  OBVIOUS
<1>1. /\ Legible(g) /\ Len(g) = Len(h) - 1 /\ \A i \in 1 .. Len(h) - 1 : g[i] = h[Shift(n, i)]
      /\ Len(h) \in Nat /\ DOMAIN h = 1 .. Len(h) /\ DOMAIN g = 1 .. Len(h) - 1
  BY Removed, EntriesGiven
<1> HIDE DEF g, p, q
<1>2. \A i \in 1 .. Len(h) - 1 : Shift(n, i) \in 1 .. Len(h) /\ Shift(n, i) # n
  BY <1>1 DEF Shift
<1>3. \A j \in 1 .. Len(h) : j # n => \E i \in 1 .. Len(h) - 1 : j = Shift(n, i)
  <2> TAKE j \in 1 .. Len(h)
  <2>1. CASE j < n
    <3>1. j \in 1 .. Len(h) - 1 /\ j = Shift(n, j)
      BY <1>1, <2>1 DEF Shift
    <3> QED
      BY <3>1
  <2>2. CASE j > n
    <3>1. j - 1 \in 1 .. Len(h) - 1 /\ j = Shift(n, j - 1)
      BY <1>1, <2>2 DEF Shift
    <3> QED
      BY <3>1
  <2> QED
    BY <1>1, <2>1, <2>2
<1>4. \A range \in Languages \cup {"*"} : Shifted(Named(g, range), Named(h, range), n)
  <2> TAKE range \in Languages \cup {"*"}
  <2>1. ASSUME NEW i \in Named(g, range) PROVE Shift(n, i) \in Named(h, range)
    BY <1>1, <1>2 DEF Named, Given
  <2>2. ASSUME NEW j \in Named(h, range) PROVE \E i \in Named(g, range) : j = Shift(n, i)
    <3>1. j \in 1 .. Len(h) /\ j # n
      BY <1>1 DEF Named, Given
    <3>2. PICK i \in 1 .. Len(h) - 1 : j = Shift(n, i)
      BY <1>3, <3>1
    <3>3. i \in Named(g, range)
      BY <1>1, <3>2 DEF Named, Given
    <3> QED
      BY <3>2, <3>3
  <2> QED
    BY <2>1, <2>2 DEF Shifted
<1>5. Shifted(Candidates(g, language), Candidates(h, language), n)
  <2>1. Shifted(Named(g, language), Named(h, language), n) /\ Shifted(Named(g, "*"), Named(h, "*"), n)
    BY <1>4
  <2>2. Named(g, language) = {} <=> Named(h, language) = {}
    BY <2>1 DEF Shifted
  <2> QED
    BY <2>1, <2>2 DEF Candidates
<1>6. Candidates(g, language) \subseteq 1 .. Len(h) - 1
  BY <1>1, EntriesGiven
<1>7. Shifted(Effective(g, language), Effective(h, language), n)
  <2> DEFINE C == Candidates(g, language)
             D == Candidates(h, language)
  <2>1. \A i \in C : Shift(n, i) \in D /\ g[i].subtags = h[Shift(n, i)].subtags
    BY <1>1, <1>5, <1>6 DEF Shifted
  <2>2. \A j \in D : \E i \in C : j = Shift(n, i)
    BY <1>5 DEF Shifted
  <2>3. Effective(g, language) = {i \in C : \A k \in C : g[k].subtags <= g[i].subtags}
    BY DEF Effective
  <2>4. Effective(h, language) = {i \in D : \A k \in D : h[k].subtags <= h[i].subtags}
    BY DEF Effective
  <2> HIDE DEF C, D
  <2>5. \A i \in C : i \in Effective(g, language) <=> Shift(n, i) \in Effective(h, language)
    <3> TAKE i \in C
    <3>1. ASSUME i \in Effective(g, language), NEW k \in D PROVE h[k].subtags <= h[Shift(n, i)].subtags
      <4>1. PICK m \in C : k = Shift(n, m)
        BY <2>2
      <4> QED
        BY <2>1, <2>3, <3>1, <4>1
    <3>2. ASSUME Shift(n, i) \in Effective(h, language), NEW k \in C PROVE g[k].subtags <= g[i].subtags
      BY <2>1, <2>4, <3>2
    <3> QED
      BY <2>1, <2>3, <2>4, <3>1, <3>2
  <2> QED
    BY <2>2, <2>3, <2>4, <2>5 DEF Shifted
<1>8. Effective(g, language) \subseteq 1 .. Len(h) - 1
  BY <1>6 DEF Effective
<1>9. Shifted(Best(g, language), Best(h, language), n)
  <2> DEFINE C == Effective(g, language)
             D == Effective(h, language)
  <2>1. \A i \in C : Shift(n, i) \in D /\ LanguageQuality(g[i]) = LanguageQuality(h[Shift(n, i)])
    BY <1>1, <1>7, <1>8 DEF Shifted
  <2>2. \A j \in D : \E i \in C : j = Shift(n, i)
    BY <1>7 DEF Shifted
  <2>3. Best(g, language) = {i \in C : \A k \in C : LanguageQuality(g[k]) <= LanguageQuality(g[i])}
    BY DEF Best
  <2>4. Best(h, language) = {i \in D : \A k \in D : LanguageQuality(h[k]) <= LanguageQuality(h[i])}
    BY DEF Best
  <2> HIDE DEF C, D
  <2>5. \A i \in C : i \in Best(g, language) <=> Shift(n, i) \in Best(h, language)
    <3> TAKE i \in C
    <3>1. ASSUME i \in Best(g, language), NEW k \in D
          PROVE  LanguageQuality(h[k]) <= LanguageQuality(h[Shift(n, i)])
      <4>1. PICK m \in C : k = Shift(n, m)
        BY <2>2
      <4> QED
        BY <2>1, <2>3, <3>1, <4>1
    <3>2. ASSUME Shift(n, i) \in Best(h, language), NEW k \in C
          PROVE  LanguageQuality(g[k]) <= LanguageQuality(g[i])
      BY <2>1, <2>4, <3>2
    <3> QED
      BY <2>1, <2>3, <2>4, <3>1, <3>2
  <2> QED
    BY <2>2, <2>3, <2>4, <2>5 DEF Shifted
<1>10. CASE Candidates(h, language) = {}
  <2>1. Candidates(g, language) = {}
    BY <1>5, <1>10 DEF Shifted
  <2>2. Preference(h, language).quality = 0 /\ Preference(g, language).quality = 0
    BY <1>1, <1>10, <2>1, PreferenceIs
  <2> QED
    BY <2>2 DEF p, q
<1>11. CASE Candidates(h, language) # {}
  <2>1. PICK j : /\ First(j, Best(h, language))
                 /\ Preference(h, language) = [quality |-> LanguageQuality(h[j]), order |-> j]
    BY <1>11, PreferenceIs
  <2>2. Candidates(g, language) # {}
    BY <1>5, <1>11 DEF Shifted
  <2>3. PICK i : /\ First(i, Best(g, language))
                 /\ Preference(g, language) = [quality |-> LanguageQuality(g[i]), order |-> i]
    BY <1>1, <2>2, PreferenceIs
  <2>4. PICK k \in Best(g, language) : j = Shift(n, k)
    BY <1>9, <2>1 DEF First, Shifted
  <2>5. i \in 1 .. Len(h) - 1 /\ k \in 1 .. Len(h) - 1 /\ i <= k
    BY <1>8, <2>3 DEF First, Best
  <2>6. Shift(n, i) \in Best(h, language) /\ j <= Shift(n, i)
    BY <1>9, <2>1, <2>3 DEF First, Shifted
  <2>7. j = Shift(n, i)
    BY <1>1, <2>4, <2>5, <2>6 DEF Shift
  <2>8. LanguageQuality(g[i]) = LanguageQuality(h[j])
    BY <1>1, <2>5, <2>7
  <2> QED
    BY <2>1, <2>3, <2>5, <2>7, <2>8 DEF p, q
<1> QED
  BY <1>10, <1>11

LEMMA IgnoredKept == HeaderOK => UnsupportedIgnored
<1> SUFFICES ASSUME Legible(header), NEW n \in DOMAIN header,
                    header[n] = Unparsed \/ header[n].range \notin Languages \cup {"*"}
    PROVE  Language(RemoveAt(header, n)) = Language(header)
  BY LegibleHeader DEF UnsupportedIgnored
<1> DEFINE g == RemoveAt(header, n)
           ko == Preference(header, "ko")
           en == Preference(header, "en")
           ko2 == Preference(g, "ko")
           en2 == Preference(g, "en")
<1>1. /\ ko2.quality = ko.quality
      /\ ko.quality > 0 => ko2.order \in 1 .. Len(header) - 1 /\ ko.order = Shift(n, ko2.order)
      /\ en2.quality = en.quality
      /\ en.quality > 0 => en2.order \in 1 .. Len(header) - 1 /\ en.order = Shift(n, en2.order)
  BY PreferenceStays DEF Languages
<1>2. ko.quality \in Nat /\ en.quality \in Nat
  BY PreferenceTyped
<1>3. \A h : Legible(h) => Readable(h)
  BY EntriesGiven, ElementOfSeq, EntriesAssumption DEF Legible, Readable, Range
<1>4. Readable(header) /\ Readable(g)
  BY <1>3, Removed
<1>5. Len(header) \in Nat /\ n \in 1 .. Len(header)
  BY EntriesGiven
<1>6. Language(g) = "en" <=> \/ en2.quality > ko2.quality
                             \/ en2.quality = ko2.quality /\ en2.quality > 0 /\ en2.order < ko2.order
  BY <1>4 DEF Language
<1>7. Language(header) = "en" <=> \/ en.quality > ko.quality
                                  \/ en.quality = ko.quality /\ en.quality > 0 /\ en.order < ko.order
  BY <1>4 DEF Language
<1>8. Language(g) \in {"en", "ko"} /\ Language(header) \in {"en", "ko"}
  BY DEF Language
<1> HIDE DEF g, ko, en, ko2, en2
<1>9. en.quality = ko.quality /\ en.quality > 0 => (en2.order < ko2.order <=> en.order < ko.order)
  BY <1>1, <1>5 DEF Shift
<1>10. Language(g) = "en" <=> Language(header) = "en"
  BY <1>1, <1>6, <1>7, <1>9
<1> QED
  BY <1>8, <1>10 DEF g

\* Every header, however long and in whatever order, is answered for as JSON:API and
\* the client's preferences ask (validate_accept, resolve_language).
THEOREM EveryHeaderHonoured == HeaderSpec => []HeadersHonoured
<1>1. HeaderOK => HeadersHonoured
  BY JsonApiKept, UnorderedKept, BothKept, ExcludedKept, IgnoredKept DEF HeadersHonoured
<1> QED
  BY <1>1, HeaderMade, PTL
================================================================================
