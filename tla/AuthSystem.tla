------------------------------ MODULE AuthSystem ------------------------------
(***************************************************************************)
(* The API handlers and the purge workers on the same two tables.          *)
(***************************************************************************)
EXTENDS RefreshSessions, PurgeSessions

vars == <<tableVars, requestVars, workerVars>>

Init == TablesInit /\ RequestsInit /\ WorkersInit

Next ==
    \/ Environment /\ UNCHANGED <<requestVars, workerVars>>
    \/ \E r \in Requests : RequestStep(r) /\ UNCHANGED workerVars
    \/ \E w \in Workers : WorkerStep(w) /\ UNCHANGED requestVars

\* A handler and a worker keep running once started.  A lock wait is served:
\* PostgreSQL queues the waiters of a row, so one that waits while the lock is
\* released again and again gets it.  A blocked worker is released or times
\* out.  Nothing forces a request to arrive, a connection to fail, a worker to
\* crash, the operator to act or the clock to move.
Fairness ==
    /\ \A r \in Requests : WF_vars(Proceed(r) /\ UNCHANGED workerVars)
                           /\ SF_vars(Acquire(r) /\ UNCHANGED workerVars)
    /\ \A w \in Workers : WF_vars((WorkerProceed(w) \/ WorkerAcquire(w) \/ LockTimeout(w))
                                  /\ UNCHANGED requestVars)

Spec == Init /\ [][Next]_vars
FairSpec == Spec /\ Fairness

TypeOK == TablesTypeOK /\ RequestsTypeOK /\ WorkersTypeOK

-----------------------------------------------------------------------------
(* The purge against the API.                                              *)

\* A row disappears only with its user or once it has been expired for longer
\* than the retention window, so a token that could still be accepted never
\* loses its row; and never while a transaction of the API holds it.
PurgeOnlyStale ==
    [][\A i \in Ids : session[i] # None /\ session'[i] = None
            => \/ account'[session[i].user] = "removed"
               \/ /\ session[i].expires + Retention < clock
                  /\ rowLock[i] \notin Requests]_vars

\* Surviving rotation chains are left intact: a live row loses its successor
\* only in the step that deletes the successor.
ChainsLeftIntact ==
    [][\A i \in Ids : /\ session[i] # None /\ session[i].next # None
                      /\ session'[i] # None /\ session'[i].next # session[i].next
            => session'[i].next = None /\ session'[session[i].next] = None]_vars

-----------------------------------------------------------------------------
(* Waiting.                                                                *)

\* The transactions p waits for: the holders of the locks it asks for, when
\* it can take none of them.
Waits(p) ==
    IF p \in Requests THEN
        CASE pc[p] = "user" -> {userLock[job[p].user]} \ {None}
          [] pc[p] = "session" -> {rowLock[job[p].tok]} \ {None}
          [] pc[p] = "revoke" /\ \A i \in todo[p] : rowLock[i] # None -> {rowLock[i] : i \in todo[p]}
          [] OTHER -> {}
    ELSE IF Blocked(p) THEN {rowLock[j] : j \in cascade[p]} ELSE {}

\* A set of transactions each of which waits for one of the set and is waited
\* for by one of it: a cycle of the waits-for graph, or several.
Deadlocked(S) ==
    /\ S # {}
    /\ \A p \in S : Waits(p) \cap S # {} /\ \E q \in S : p \in Waits(q)

\* A request is part of a deadlock only when its transaction has been open for
\* longer than the retention window: handlers lock the user first, so they
\* cannot deadlock with each other, and the purge holds a row of a chain only
\* when every earlier row of the chain is out of the window as well.
RequestsDeadlockOnlyWhenStale ==
    \A S \in SUBSET Procs : Deadlocked(S) =>
        \A r \in S \cap Requests : clock - now[r] > Retention

\* Chains of waits are short: a handler waits for at most one other handler, the
\* one that has the lock of its user, which is under way and can itself only be
\* kept waiting by a purge.
WaitsAreShort ==
    \A r \in Requests : \A h \in Waits(r) \cap Requests :
        /\ pc[r] = "user" /\ h # r
        /\ pc[h] \in {"session", "revoke", "commit"}
        /\ Waits(h) \subseteq Workers

Less(old, new) == new \subseteq old /\ new # old

\* Each step a handler takes of its own, failure included, brings its
\* transaction closer to its end: to a later point, or past one more row of its
\* UPDATE.
Stage == [idle |-> 0, user |-> 1, session |-> 2, revoke |-> 3, commit |-> 4, failed |-> 5]
HandlersAdvance ==
    [][\A r \in Requests : Acquire(r) \/ Proceed(r) =>
        \/ pc'[r] = "idle"
        \/ Stage[pc[r]] < Stage[pc'[r]]
        \/ pc'[r] = pc[r] /\ Less(todo[r], todo'[r])]_vars

\* Each step a worker takes of its own, a lock timeout included, ends its message,
\* or begins one of finitely many attempts, or one of finitely many batches, or
\* leaves less of the batch to do.
PurgesAdvance ==
    [][\A w \in Workers : WorkerAcquire(w) \/ WorkerProceed(w) \/ LockTimeout(w) =>
        \/ wpc'[w] = "idle"
        \/ wpc'[w] = "retry" /\ run'[w].attempt = run[w].attempt + 1
        \/ /\ wpc'[w] # "retry" /\ run'[w].attempt = run[w].attempt
           /\ \/ wpc[w] = "retry"
              \/ wpc[w] = "cascade" /\ run'[w].batches = run[w].batches + 1
              \/ /\ run'[w] = run[w]
                 /\ \/ wpc[w] = "select" /\ wpc'[w] = "cascade"
                    \/ wpc'[w] = wpc[w] /\ (Less(scan[w], scan'[w]) \/ Less(cascade[w], cascade'[w]))]_vars

\* Tables, locks and transactions implement the lifecycle of a token: every
\* committed step of every handler, worker and operator is one of its steps.
TokenStatus == [i \in Ids |-> IF token[i] = None THEN "unused"
                               ELSE IF Spent(i) THEN "spent" ELSE "live"]
Lifecycle == INSTANCE SessionLifecycle WITH claims <- token, status <- TokenStatus
ImplementsLifecycle == Lifecycle!Spec

\* Every request is answered, whatever the purge and the other requests do.
EveryRequestAnswered == \A r \in Requests : pc[r] # "idle" ~> pc[r] = "idle"

\* Every purge message ends: done, out of retries, or at the batch cap.
EveryPurgeEnds == \A w \in Workers : wpc[w] # "idle" ~> wpc[w] = "idle"
=============================================================================
