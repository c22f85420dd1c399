------------------------------ MODULE ChainProofs ------------------------------
(***************************************************************************)
(* The purge next to the API, for every number of handlers and workers:    *)
(* what it deletes, what it leaves of the rotation chains, when it can be  *)
(* in a deadlock, and that the whole implements the lifecycle of a token.  *)
(***************************************************************************)
EXTENDS AuthProofs

-----------------------------------------------------------------------------
(* What a step of one process, or of the environment (None), may do to the *)
(* tables, to the locks and to what the other processes know.              *)

StepOf(p) ==
    \/ p = None /\ Environment /\ UNCHANGED <<requestVars, workerVars>>
    \/ p \in Requests /\ RequestStep(p) /\ UNCHANGED workerVars
    \/ p \in Workers /\ WorkerStep(p) /\ UNCHANGED requestVars

TokensKept ==
    /\ clock' \in {clock, clock + 1}
    /\ \A i \in Ids : token[i] # None => token'[i] = token[i]

\* A row that stays keeps its owner and its date; who holds it may revoke it,
\* link it to a new row, or unlink it from a row the purge deletes.
RowKept(p, i) ==
    session[i] # None /\ session'[i] # None =>
        /\ session'[i].user = session[i].user
        /\ session'[i].expires = session[i].expires
        /\ session'[i].revoked # session[i].revoked =>
             p \in Requests /\ rowLock[i] = p /\ session'[i].revoked
        /\ session'[i].next # session[i].next =>
             \/ p \in Requests /\ session[i].next = None /\ session'[i].next \in Fresh
             \/ p \in Workers /\ session[i].next \in picked[p] /\ session'[i].next = None

\* A new row is the row of a new token.
RowMade(p, i) ==
    session[i] = None /\ session'[i] # None =>
        p \in Requests /\ token[i] = None /\ session'[i].expires = token'[i].exp /\ session'[i].next = None

\* A row goes with its user, or in a batch of the purge.
RowGone(p, i) ==
    session[i] # None /\ session'[i] = None =>
        \/ /\ p = None
           /\ account'[session[i].user] = "removed"
           /\ \A j \in Ids : session'[j] # None => session'[j].user # session[i].user
        \/ p \in Workers /\ wpc[p] = "cascade" /\ i \in picked[p]

RowsKept(p) == \A i \in Ids : RowKept(p, i) /\ RowMade(p, i) /\ RowGone(p, i)

\* Nobody takes or gives back a lock of another, or touches what it protects.
LocksKept(p) ==
    /\ \A i \in Ids : /\ rowLock'[i] \in {None, p, rowLock[i]}
                      /\ rowLock[i] \notin {None, p} => /\ rowLock'[i] = rowLock[i]
                                                        /\ session'[i] = session[i]
    /\ \A u \in Users : /\ userLock'[u] \in {None, p, userLock[u]}
                        /\ userLock[u] \notin {None, p} => userLock'[u] = userLock[u]

OthersUnmoved(p) ==
    /\ \A q \in Requests \ {p} : /\ pc'[q] = pc[q] /\ job'[q] = job[q] /\ now'[q] = now[q]
                                 /\ outcome'[q] = outcome[q] /\ todo'[q] = todo[q]
    /\ \A v \in Workers \ {p} : /\ wpc'[v] = wpc[v] /\ run'[v] = run[v] /\ scan'[v] = scan[v]
                                /\ picked'[v] = picked[v] /\ cascade'[v] = cascade[v]

Effect(p) == TokensKept /\ RowsKept(p) /\ LocksKept(p) /\ OthersUnmoved(p)

\* The clock and the operator: they wait for locks and change no row but the
\* rows of a removed user.
LEMMA EnvironmentEffect ==
    ASSUME Inv, Environment, UNCHANGED <<requestVars, workerVars>>
    PROVE  Effect(None)
<1> USE DEF Effect, requestVars, workerVars, Inv, TypeOK, TablesTypeOK
<1>1. CASE Tick
    BY <1>1 DEF Tick, TokensKept, RowsKept, RowKept, RowMade, RowGone, LocksKept, OthersUnmoved
<1>2. ASSUME NEW u \in Users, SetActive(u) PROVE Effect(None)
    BY <1>2 DEF SetActive, TokensKept, RowsKept, RowKept, RowMade, RowGone, LocksKept, OthersUnmoved
<1>3. ASSUME NEW u \in Users, RemoveUser(u) PROVE Effect(None)
  <2>1. RowsKept(None)
    BY <1>3 DEF RemoveUser, SessionsOf, Stored, RowsKept, RowKept, RowMade, RowGone
  <2>2. TokensKept /\ OthersUnmoved(None)
    BY <1>3 DEF RemoveUser, TokensKept, OthersUnmoved
  <2>3. LocksKept(None)
    BY <1>3 DEF RemoveUser, SessionsOf, Stored, LocksKept
  <2> QED
    BY <2>1, <2>2, <2>3
<1> QED
    BY <1>1, <1>2, <1>3 DEF Environment

\* A handler that starts, waits or moves on writes nothing; it takes free locks.
LEMMA MoveEffect ==
    ASSUME Inv, NEW r \in Requests, UNCHANGED workerVars,
           \/ Begin(r) \/ Acquire(r)
           \/ UserGone(r) \/ SessionGone(r) \/ RevokeDone(r) \/ Failed(r)
    PROVE  Effect(r) /\ UNCHANGED <<clock, account, token, session>>
<1> USE DEF tableVars, Goto, Decide
<1>1. UNCHANGED <<clock, account, token, session>>
    BY DEF Begin, Register, BeginLogin, BeginRefresh, BeginLogout, Receive, Acquire,
       LockUserForLogin, LockUserForToken, LockSession, RevokeRow, UserGone, SessionGone,
       RevokeDone, Failed
<1>2. \A q \in Requests \ {r} : /\ pc'[q] = pc[q] /\ job'[q] = job[q] /\ now'[q] = now[q]
                                /\ outcome'[q] = outcome[q] /\ todo'[q] = todo[q]
    BY DEF Begin, Register, BeginLogin, BeginRefresh, BeginLogout, Receive, Acquire,
       LockUserForLogin, LockUserForToken, LockSession, RevokeRow, UserGone, SessionGone,
       RevokeDone, Failed, Inv, TypeOK, RequestsTypeOK
<1>3. \A i \in Ids : rowLock'[i] \in {None, r, rowLock[i]} /\ (rowLock[i] # None => rowLock'[i] = rowLock[i])
    BY DEF Begin, Register, BeginLogin, BeginRefresh, BeginLogout, Receive, Acquire, AcquireRow,
       LockUserForLogin, LockUserForToken, LockSession, RevokeRow, UserGone, SessionGone,
       RevokeDone, Failed, Inv, TypeOK, TablesTypeOK
<1>4. \A u \in Users : userLock'[u] \in {None, r, userLock[u]} /\ (userLock[u] # None => userLock'[u] = userLock[u])
    BY DEF Begin, Register, BeginLogin, BeginRefresh, BeginLogout, Receive, Acquire, AcquireUser,
       LockUserForLogin, LockUserForToken, LockSession, RevokeRow, UserGone, SessionGone,
       RevokeDone, Failed, Inv, TypeOK, TablesTypeOK
<1>5. TokensKept /\ RowsKept(r)
    BY <1>1 DEF TokensKept, RowsKept, RowKept, RowMade, RowGone, Inv, TypeOK, TablesTypeOK
<1>6. LocksKept(r) /\ OthersUnmoved(r)
    BY <1>1, <1>2, <1>3, <1>4 DEF LocksKept, OthersUnmoved, workerVars
<1> QED
    BY <1>1, <1>5, <1>6 DEF Effect

\* What CommitIssue writes: a new row, and its link from the row rotated.
IssueWrites(r, n) ==
    LET i == job[r].tok IN
    /\ token[n] = None /\ session[n] = None /\ rowLock[n] = None
    /\ token'[n] # None
    /\ token'[n].sub = job[r].user /\ token'[n].parent = i /\ token'[n].exp = now[r] + Lifetime
    /\ \A j \in Ids \ {n} : token'[j] = token[j]
    /\ session'[n] # None
    /\ session'[n].user = job[r].user /\ session'[n].expires = now[r] + Lifetime
    /\ ~session'[n].revoked /\ session'[n].next = None
    /\ i # None => /\ i \in Ids /\ i # n /\ rowLock[i] = r
                   /\ session[i] # None /\ ~session[i].revoked /\ session[i].user = job[r].user
                   /\ token[i] # None /\ token[i].sub = job[r].user
                   /\ session'[i] # None /\ session'[i].revoked /\ session'[i].next = n
                   /\ session'[i].user = session[i].user
                   /\ session'[i].expires = session[i].expires
    /\ \A j \in Ids \ {n, i} : session'[j] = session[j]

\* It writes that, for a fresh id.
LEMMA IssueFacts ==
    ASSUME Inv, NEW r \in Requests, CommitIssue(r)
    PROVE  \E n \in Fresh : IssueWrites(r, n)
<1> DEFINE i == job[r].tok
<1>1. PICK n \in Fresh : /\ token' = [token EXCEPT ![n] = NewClaims(r)]
                         /\ session' = Rotated(r, i, n)
    BY DEF CommitIssue
<1>2. /\ job[r].user \in Users /\ i \in Ids \cup {None} /\ now[r] \in Nat
      /\ i # None => token[i] # None /\ token[i].sub = job[r].user
    BY DEF CommitIssue, Inv, JobOK, InTransaction, TypeOK, RequestsTypeOK, Job
<1>3. i # None => /\ rowLock[i] = r /\ session[i] # None /\ session[i] \in Row
                  /\ ~session[i].revoked /\ session[i].user = job[r].user
    BY <1>2, NoneAssumption
    DEF CommitIssue, Inv, RotatingUnspent, LockedStored, RowOfToken, Stored, TypeOK, TablesTypeOK
<1>4. n \in Ids /\ n # i /\ token[n] = None /\ session[n] = None /\ rowLock[n] = None
    BY <1>2, NoneAssumption DEF Fresh, Issued, Inv, RowOfToken, Stored, LockedStored
<1>5. /\ NewRow(r) # None /\ NewClaims(r) # None
      /\ token'[n] = NewClaims(r) /\ \A j \in Ids \ {n} : token'[j] = token[j]
  <2>1. NewRow(r) \in Row /\ NewClaims(r) \in Claims
    BY <1>2, TimeAssumption DEF NewRow, NewClaims, Row, Claims
  <2>2. token'[n] = NewClaims(r) /\ \A j \in Ids \ {n} : token'[j] = token[j]
    BY <1>1, <1>4 DEF Inv, TypeOK, TablesTypeOK
  <2> QED
    BY <2>1, <2>2, NoneIsNoRecord
<1>6. session'[n] = NewRow(r)
    BY <1>1, <1>4 DEF Rotated
<1>7. \A j \in Ids \ {n, i} : session'[j] = session[j]
    BY <1>1, Zenon DEF Rotated
<1>8. i # None => session'[i] = [session[i] EXCEPT !.revoked = TRUE, !.next = n]
    BY <1>1, <1>2, <1>4, NoneAssumption, Zenon DEF Rotated
<1>9. i # None => /\ session'[i] \in Row /\ session'[i].revoked /\ session'[i].next = n
                  /\ session'[i].user = session[i].user /\ session'[i].expires = session[i].expires
    BY <1>3, <1>4, <1>8 DEF Row
<1>10. /\ NewRow(r).user = job[r].user /\ NewRow(r).expires = now[r] + Lifetime
       /\ ~NewRow(r).revoked /\ NewRow(r).next = None
       /\ NewClaims(r).sub = job[r].user /\ NewClaims(r).exp = now[r] + Lifetime
       /\ NewClaims(r).parent = i
    BY DEF NewRow, NewClaims
<1> HIDE DEF i
<1>11. IssueWrites(r, n)
    BY <1>2, <1>3, <1>4, <1>5, <1>6, <1>7, <1>9, <1>10, NoneIsNoRecord, NoneAssumption
    DEF IssueWrites, i
<1> QED
    BY <1>11

\* What CommitVerdict writes: the rows it holds are revoked, and nothing else.
LEMMA VerdictFacts ==
    ASSUME Inv, NEW r \in Requests, CommitVerdict(r), NEW i \in Ids
    PROVE  /\ session[i] = None <=> session'[i] = None
           /\ rowLock[i] # r => session'[i] = session[i]
           /\ rowLock[i] = r => /\ session'[i].user = session[i].user
                                /\ session'[i].expires = session[i].expires
                                /\ session'[i].next = session[i].next
                                /\ session'[i].revoked
<1>1. rowLock[i] = r => session[i] # None /\ session[i] \in Row
    BY NoneAssumption DEF Inv, LockedStored, TypeOK, TablesTypeOK
<1>2. session'[i] = IF rowLock[i] = r THEN [session[i] EXCEPT !.revoked = TRUE] ELSE session[i]
    BY DEF CommitVerdict, WithRevoked, LockedBy
<1>3. session[i] \in Row => /\ [session[i] EXCEPT !.revoked = TRUE] \in Row
                            /\ [session[i] EXCEPT !.revoked = TRUE].user = session[i].user
                            /\ [session[i] EXCEPT !.revoked = TRUE].expires = session[i].expires
                            /\ [session[i] EXCEPT !.revoked = TRUE].next = session[i].next
                            /\ [session[i] EXCEPT !.revoked = TRUE].revoked
    BY DEF Row
<1> QED
    BY <1>1, <1>2, <1>3, NoneIsNoRecord

\* The end of a transaction touches only the rows it holds and the one it makes.
LEMMA EndEffect ==
    ASSUME Inv, ChainShape, NEW r \in Requests, UNCHANGED workerVars,
           CommitRegister(r) \/ CommitIssue(r) \/ CommitVerdict(r) \/ Rollback(r)
    PROVE  Effect(r)
<1>1. PICK point \in {"idle", "failed"} : Finish(r, point)
    BY DEF CommitRegister, CommitIssue, CommitVerdict, Rollback
<1>2. OthersUnmoved(r)
    BY <1>1 DEF Finish, Goto, OthersUnmoved, workerVars, Inv, TypeOK, RequestsTypeOK
<1>3. /\ \A i \in Ids : rowLock'[i] \in {None, rowLock[i]} /\ (rowLock[i] # r => rowLock'[i] = rowLock[i])
      /\ \A u \in Users : userLock'[u] \in {None, userLock[u]} /\ (userLock[u] # r => userLock'[u] = userLock[u])
    BY <1>1 DEF Finish, ReleaseLocks, ReleaseRows
<1>4. CASE CommitRegister(r) \/ Rollback(r)
  <2>1. TokensKept /\ RowsKept(r) /\ UNCHANGED session
    BY <1>4 DEF CommitRegister, Rollback, TokensKept, RowsKept, RowKept, RowMade, RowGone,
       Inv, TypeOK, TablesTypeOK
  <2> QED
    BY <1>2, <1>3, <2>1 DEF Effect, LocksKept
<1>5. CASE CommitVerdict(r)
  <2>1. RowsKept(r) /\ \A i \in Ids : rowLock[i] # r => session'[i] = session[i]
    BY <1>5, VerdictFacts DEF RowsKept, RowKept, RowMade, RowGone
  <2>2. TokensKept
    BY <1>5 DEF CommitVerdict, TokensKept, Inv, TypeOK, TablesTypeOK
  <2> QED
    BY <1>2, <1>3, <2>1, <2>2 DEF Effect, LocksKept
<1>6. CASE CommitIssue(r)
  <2>1. PICK n \in Fresh : IssueWrites(r, n)
    BY <1>6, IssueFacts
  <2>2. TokensKept
    BY <1>6, <2>1 DEF CommitIssue, IssueWrites, TokensKept, Inv, TypeOK, TablesTypeOK
  <2>3. job[r].tok # None => session[job[r].tok].next = None
    BY <2>1 DEF IssueWrites, ChainShape, Stored
  <2>4. ASSUME NEW i \in Ids PROVE RowKept(r, i) /\ RowMade(r, i) /\ RowGone(r, i)
    <3>1. CASE i = n
      BY <2>1, <3>1 DEF IssueWrites, RowKept, RowMade, RowGone
    <3>2. CASE i # n /\ i = job[r].tok
      BY <2>1, <2>3, <3>2, NoneAssumption DEF IssueWrites, RowKept, RowMade, RowGone
    <3>3. CASE i \notin {n, job[r].tok}
      BY <2>1, <3>3 DEF IssueWrites, RowKept, RowMade, RowGone
    <3> QED
      BY <3>1, <3>2, <3>3
  <2>5. \A i \in Ids : rowLock[i] \notin {None, r} => session'[i] = session[i]
    BY <2>1, NoneAssumption DEF IssueWrites
  <2> QED
    BY <1>2, <1>3, <2>2, <2>4, <2>5 DEF Effect, LocksKept, RowsKept
<1> QED
    BY <1>4, <1>5, <1>6

\* What CommitBatch leaves of each row.
LEMMA BatchFacts ==
    ASSUME Inv, CascadeExact, NEW w \in Workers, CommitBatch(w), NEW i \in Ids
    PROVE  /\ i \in picked[w] => session[i] # None /\ rowLock[i] = w /\ session'[i] = None
           /\ rowLock[i] # w => session'[i] = session[i]
           /\ rowLock[i] = w /\ i \notin picked[w] =>
                /\ session[i] # None /\ session'[i] # None
                /\ session'[i].user = session[i].user
                /\ session'[i].expires = session[i].expires
                /\ session'[i].revoked = session[i].revoked
                /\ session'[i].next = None
                /\ session[i].next \in picked[w]
<1>1. /\ i \in picked[w] => rowLock[i] = w
      /\ rowLock[i] = w => session[i] \in Row
    BY NoneAssumption DEF Inv, PickedLocked, LockedBy, LockedStored, TypeOK, TablesTypeOK
<1>2. session'[i] = IF i \in picked[w] THEN None
                    ELSE IF rowLock[i] = w THEN [session[i] EXCEPT !.next = None]
                    ELSE session[i]
    BY Zenon DEF CommitBatch, Purged, LockedBy
<1>3. session[i] \in Row => /\ [session[i] EXCEPT !.next = None] \in Row
                            /\ [session[i] EXCEPT !.next = None].user = session[i].user
                            /\ [session[i] EXCEPT !.next = None].expires = session[i].expires
                            /\ [session[i] EXCEPT !.next = None].revoked = session[i].revoked
                            /\ [session[i] EXCEPT !.next = None].next = None
    BY DEF Row
<1>4. rowLock[i] = w /\ i \notin picked[w] => session[i].next \in picked[w]
    BY DEF CascadeExact, LockedBy
<1> QED
    BY <1>1, <1>2, <1>3, <1>4, NoneIsNoRecord

\* A step of a worker takes free rows, and deletes or unlinks only rows it holds.
LEMMA PurgeEffect ==
    ASSUME Inv, CascadeExact, NEW w \in Workers, WorkerStep(w), UNCHANGED requestVars
    PROVE  Effect(w)
<1>1. OthersUnmoved(w)
    BY DEF WorkerStep, WorkerAcquire, WorkerProceed, Deliver, Redeliver, Start, TryRow,
       DeleteRows, CascadeRow, CommitBatch, LockTimeout, Crash, Abort, WorkerGoto, Drop,
       OthersUnmoved, requestVars, Inv, TypeOK, WorkersTypeOK
<1>2. WorkerEffect(w)
    BY WorkerFacts
<1>3. TokensKept /\ LocksKept(w)
    BY <1>2 DEF WorkerEffect, TokensKept, LocksKept, Inv, TypeOK, TablesTypeOK
<1>4. RowsKept(w)
  <2>1. CASE CommitBatch(w)
    <3>1. wpc[w] = "cascade"
      BY <2>1 DEF CommitBatch
    <3> QED
      BY <2>1, <3>1, BatchFacts DEF RowsKept, RowKept, RowMade, RowGone
  <2>2. CASE ~CommitBatch(w)
    <3>1. UNCHANGED session
      BY <2>2 DEF WorkerStep, WorkerAcquire, WorkerProceed, Deliver, Redeliver, Start, TryRow,
         DeleteRows, CascadeRow, LockTimeout, Crash, Abort, tableVars
    <3> QED
      BY <3>1 DEF RowsKept, RowKept, RowMade, RowGone
  <2> QED
    BY <2>1, <2>2
<1> QED
    BY <1>1, <1>3, <1>4 DEF Effect

\* So has every step.
LEMMA StepEffect ==
    ASSUME Inv, ChainShape, CascadeExact, NEW p \in Procs \cup {None}, StepOf(p)
    PROVE  Effect(p)
<1>1. CASE p \in Requests
    BY <1>1, NoneAssumption, ProcsAssumption, MoveEffect, EndEffect DEF StepOf, RequestStep, Proceed
<1>2. CASE p \in Workers
    BY <1>2, NoneAssumption, ProcsAssumption, PurgeEffect DEF StepOf
<1>3. CASE p = None
    BY <1>3, NoneAssumption, EnvironmentEffect DEF StepOf
<1> QED
    BY <1>1, <1>2, <1>3 DEF Procs

\* Next is a step of somebody.
LEMMA NextSteps == Next => \E p \in Procs \cup {None} : StepOf(p)
    BY DEF Next, StepOf, Procs

-----------------------------------------------------------------------------
(* Dates: the clock of a transaction is read under its locks.              *)

\* The clock a handler keeps is the one it reads when it takes its last lock.
LEMMA ClockRead ==
    ASSUME Inv, NEW r \in Requests, RequestStep(r)
    PROVE  now'[r] \in {now[r], clock, 0}
<1>1. CASE Begin(r)
    BY <1>1 DEF Begin, Register, BeginLogin, BeginRefresh, BeginLogout, Receive
<1>2. CASE Acquire(r)
    BY <1>2 DEF Acquire, LockUserForLogin, LockUserForToken, LockSession, RevokeRow,
       Inv, TypeOK, RequestsTypeOK
<1>3. CASE Proceed(r) \/ Rollback(r)
    BY <1>3 DEF Proceed, UserGone, SessionGone, RevokeDone, CommitRegister, CommitIssue,
       CommitVerdict, Failed, Rollback, Finish, Inv, TypeOK, RequestsTypeOK
<1> QED
    BY <1>1, <1>2, <1>3 DEF RequestStep

\* A handler comes to rotate a token only by LockSession, which reads the clock.
LEMMA RotationStarts ==
    ASSUME Inv, NEW r \in Requests, RequestStep(r),
           pc'[r] = "commit", outcome'[r] = "ISSUED", job'[r].tok # None
    PROVE  LockSession(r) /\ now'[r] = clock /\ job' = job
<1> USE DEF Goto, Decide, Inv, TypeOK, RequestsTypeOK
<1>1. ~Begin(r)
    BY DEF Begin, Register, BeginLogin, BeginRefresh, BeginLogout, Receive
<1>2. ~LockUserForLogin(r)
    BY DEF LockUserForLogin, JobOK, InTransaction
<1>3. ~LockUserForToken(r) /\ ~(\E i \in Ids : RevokeRow(r, i))
    BY DEF LockUserForToken, RevokeRow
<1>4. ~Proceed(r) /\ ~Rollback(r)
    BY DEF Proceed, UserGone, SessionGone, RevokeDone, CommitRegister, CommitIssue,
       CommitVerdict, Failed, Rollback, Finish, ReuseFrontier, Revoking
<1>5. LockSession(r)
    BY <1>1, <1>2, <1>3, <1>4 DEF RequestStep, Acquire
<1> QED
    BY <1>5 DEF LockSession

\* Every step keeps the dates of rows and tokens.
LEMMA DatesStep ==
    ASSUME Inv, Inv', DatesInv, NEW p \in Procs \cup {None}, StepOf(p), Effect(p)
    PROVE  DatesInv'
<1>1. clock \in Nat /\ clock' \in Nat /\ clock <= clock' /\ Lifetime \in Nat
    BY TimeAssumption DEF Effect, TokensKept, Inv, TypeOK, TablesTypeOK
<1>2. \A i \in Ids : token[i] # None => token'[i] = token[i] /\ token[i].exp \in Nat
    BY DEF Effect, TokensKept, Inv, TypeOK, TablesTypeOK, Claims
<1>3. p \in Requests => RequestStep(p)
    BY NoneAssumption, ProcsAssumption DEF StepOf
<1>4. \A q \in Requests : q # p => /\ pc'[q] = pc[q] /\ job'[q] = job[q]
                                   /\ now'[q] = now[q] /\ outcome'[q] = outcome[q]
    BY DEF Effect, OthersUnmoved
<1>5. \A q \in Requests : now[q] \in Nat
    BY DEF Inv, TypeOK, RequestsTypeOK
<1>6. NowPast'
  <2> SUFFICES ASSUME NEW q \in Requests PROVE now'[q] <= clock'
    BY DEF NowPast
  <2>1. CASE q = p
    BY <1>1, <1>3, <1>5, <2>1, ClockRead DEF DatesInv, NowPast
  <2>2. CASE q # p
    BY <1>1, <1>4, <1>5, <2>2 DEF DatesInv, NowPast
  <2> QED
    BY <2>1, <2>2
<1>7. RowDates'
  <2> SUFFICES ASSUME NEW i \in Ids, session'[i] # None PROVE session'[i].expires = token'[i].exp
    BY DEF RowDates, Stored
  <2>1. CASE session[i] = None
    BY <2>1 DEF Effect, RowsKept, RowMade
  <2>2. CASE session[i] # None
    <3>1. session'[i].expires = session[i].expires
      BY <2>2 DEF Effect, RowsKept, RowKept
    <3>2. session[i].expires = token[i].exp /\ token[i] # None
      BY <2>2 DEF DatesInv, RowDates, Inv, RowOfToken, Stored
    <3> QED
      BY <1>2, <3>1, <3>2
  <2> QED
    BY <2>1, <2>2
<1>8. IssuedBefore'
  <2> SUFFICES ASSUME NEW i \in Ids, token'[i] # None PROVE token'[i].exp <= clock' + Lifetime
    BY DEF IssuedBefore, Issued
  <2>1. CASE token[i] # None
    BY <1>1, <1>2, <2>1 DEF DatesInv, IssuedBefore, Issued
  <2>2. CASE token[i] = None
    <3>1. PICK r \in Requests : CommitIssue(r)
      BY <2>2 DEF StepOf, Environment, Tick, SetActive, RemoveUser, RequestStep, Begin, Register,
         BeginLogin, BeginRefresh, BeginLogout, Receive, Acquire, LockUserForLogin,
         LockUserForToken, LockSession, RevokeRow, Proceed, UserGone, SessionGone, RevokeDone,
         CommitRegister, CommitVerdict, Failed, Rollback, WorkerStep, WorkerAcquire,
         WorkerProceed, Deliver, Redeliver, Start, TryRow, DeleteRows, CascadeRow, CommitBatch,
         LockTimeout, Crash, Abort, tableVars
    <3>2. PICK n \in Fresh : IssueWrites(r, n)
      BY <3>1, IssueFacts
    <3>3. i = n /\ token'[i].exp = now[r] + Lifetime
      BY <2>2, <3>2 DEF IssueWrites
    <3> QED
      BY <1>1, <1>5, <3>3 DEF DatesInv, NowPast
  <2> QED
    BY <2>1, <2>2
<1>9. RotatingLater'
  <2> SUFFICES ASSUME NEW q \in Requests,
                      pc'[q] = "commit", outcome'[q] = "ISSUED", job'[q].tok # None
               PROVE  token'[job'[q].tok].exp <= now'[q] + Lifetime
    BY DEF RotatingLater
  <2>1. CASE q = p
    <3>1. /\ now'[q] = clock /\ job'[q] = job[q]
          /\ job[q].tok \in Ids /\ token[job[q].tok] # None
      BY <1>3, <2>1, RotationStarts DEF LockSession, Inv, JobOK, InTransaction
    <3> QED
      BY <1>1, <1>2, <3>1 DEF DatesInv, IssuedBefore, Issued
  <2>2. CASE q # p
    <3>1. job[q].tok \in Ids /\ token[job[q].tok] # None
      BY <1>4, <2>2 DEF Inv, JobOK, InTransaction, TypeOK, RequestsTypeOK, Job
    <3> QED
      BY <1>2, <1>4, <2>2, <3>1 DEF DatesInv, RotatingLater
  <2> QED
    BY <2>1, <2>2
<1> QED
    BY <1>6, <1>7, <1>8, <1>9 DEF DatesInv

-----------------------------------------------------------------------------
(* Locks: the user first, then rows of that user.                          *)

\* What each handler's own steps leave of the locks it has.
HandlerLocks(r) ==
    /\ pc[r] \in {"idle", "user", "failed"} => \A u \in Users : userLock[u] # r
    /\ pc[r] \in {"idle", "user", "session", "failed"} => LockedBy(r) \cup todo[r] = {}
    /\ \A i \in LockedBy(r) \cup todo[r] :
        /\ token[i] # None
        /\ token[i].sub = job[r].user
        /\ userLock[job[r].user] = r
    /\ pc[r] = "revoke" =>
        /\ now[r] < token[job[r].tok].exp
        /\ todo[r] \cap LockedBy(r) = {}
        /\ \A i \in Stored \cap (todo[r] \cup LockedBy(r)) : i # job[r].tok => ~session[i].revoked
    /\ pc[r] = "commit" /\ outcome[r] = "REGISTERED"
        => account[job[r].user] = "unregistered" /\ userLock[job[r].user] = r

\* The invariant on locks says that of every handler.
LEMMA LocksOfHandlers == LocksInv <=> \A r \in Requests : HandlerLocks(r)
    BY DEF LocksInv, NothingHeld, UserFirst, ReuseOpen, RegisteringNew, HandlerLocks

\* Requests that start, and the user lock.
LEMMA FirstLocks ==
    ASSUME Inv, NEW r \in Requests, HandlerLocks(r),
           Begin(r) \/ LockUserForLogin(r) \/ LockUserForToken(r)
    PROVE  HandlerLocks(r)'
<1> USE DEF Inv, TypeOK, TablesTypeOK, RequestsTypeOK, Goto, Decide, HandlerLocks, LockedBy, tableVars
<1>1. ASSUME NEW u \in Users, Register(r, u) PROVE HandlerLocks(r)'
  <2>1. /\ pc'[r] = "commit" /\ LockedBy(r)' = {} /\ todo'[r] = {}
        /\ job'[r].user = u /\ account'[u] = "unregistered" /\ userLock'[u] = r
    BY <1>1 DEF Register, AcquireUser, NoJob
  <2> QED
    BY <2>1
<1>2. CASE Begin(r) /\ \A u \in Users : ~Register(r, u)
  <2>1. /\ pc[r] = "idle" /\ pc'[r] = "user"
        /\ UNCHANGED <<userLock, rowLock, todo>>
    BY <1>2 DEF Begin, BeginLogin, BeginRefresh, BeginLogout, Receive
  <2> QED
    BY <2>1
<1>3. CASE LockUserForLogin(r) \/ LockUserForToken(r)
  <2>1. /\ pc[r] = "user" /\ pc'[r] \in {"commit", "session"}
        /\ UNCHANGED <<rowLock, todo>>
        /\ pc'[r] = "commit" => outcome'[r] # "REGISTERED"
    BY <1>3 DEF LockUserForLogin, LockUserForToken, IssueVerdict
  <2> QED
    BY <2>1
<1> QED
    BY <1>1, <1>2, <1>3 DEF Begin

\* The row of the presented token, and those of the reuse UPDATE.
LEMMA RowLocks ==
    ASSUME Inv, RowDates, NEW r \in Requests, HandlerLocks(r),
           LockSession(r) \/ \E i \in Ids : RevokeRow(r, i)
    PROVE  HandlerLocks(r)'
<1> USE DEF Inv, TypeOK, TablesTypeOK, RequestsTypeOK, Goto, Decide
<1>1. CASE LockSession(r)
  <2> DEFINE i == job[r].tok
             u == job[r].user
  <2>1. /\ pc[r] = "session" /\ i \in Ids /\ session[i] # None /\ token[i] # None /\ token[i].sub = u
        /\ session[i].user = u /\ session[i].expires = token[i].exp
        /\ userLock[u] = r /\ LockedBy(r) = {} /\ todo[r] = {} /\ u \in Users
    BY <1>1 DEF LockSession, JobOK, InTransaction, RowOfToken, RowDates, Stored, UserLocked,
       HoldsUser, HandlerLocks
  <2>2. /\ UNCHANGED <<clock, account, token, session, userLock, job>>
        /\ rowLock' = [rowLock EXCEPT ![i] = r] /\ now'[r] = clock
    BY <1>1 DEF LockSession, AcquireRow
  <2>3. LockedBy(r)' = {i}
    BY <2>1, <2>2 DEF LockedBy
  <2>4. \/ /\ pc'[r] = "commit" /\ outcome'[r] # "REGISTERED" /\ todo'[r] = {}
        \/ /\ pc'[r] = "revoke" /\ session[i].revoked /\ todo'[r] = Unrevoked(u)
           /\ ~(session[i].expires <= clock)
    BY <1>1, <2>1 DEF LockSession, IssueVerdict, TooLate
  <2>5. \A j \in Unrevoked(u) : /\ token[j] # None /\ token[j].sub = u /\ ~session[j].revoked
                                /\ j \in Ids
    BY DEF Unrevoked, SessionsOf, Stored, RowOfToken
  <2>6. pc'[r] = "revoke" => now'[r] < token[i].exp
    BY <2>1, <2>2, <2>4 DEF Claims
  <2>7. pc'[r] = "revoke" => i \notin todo'[r]
    BY <2>4, <2>5
  <2>8. pc'[r] \in {"commit", "revoke"}
    BY <2>4
  <2>9. \A j \in LockedBy(r)' \cup todo'[r] : token'[j] # None /\ token'[j].sub = u
    BY <2>1, <2>2, <2>3, <2>4, <2>5
  <2>10. userLock'[u] = r /\ job'[r].user = u /\ job'[r].tok = i
    BY <2>1, <2>2
  <2>11. pc'[r] = "revoke" =>
            /\ now'[r] < token'[i].exp
            /\ todo'[r] \cap LockedBy(r)' = {}
            /\ \A j \in Stored' \cap (todo'[r] \cup LockedBy(r)') : j # i => ~session'[j].revoked
    <3> SUFFICES ASSUME pc'[r] = "revoke"
                 PROVE  /\ now'[r] < token'[i].exp
                        /\ todo'[r] \cap LockedBy(r)' = {}
                        /\ \A j \in Stored' \cap (todo'[r] \cup LockedBy(r)') : j # i => ~session'[j].revoked
      OBVIOUS
    <3>1. now'[r] < token'[i].exp
      BY <2>2, <2>6
    <3>2. todo'[r] \cap LockedBy(r)' = {}
      BY <2>3, <2>7
    <3>3. \A j \in todo'[r] \cup LockedBy(r)' : j # i => ~session'[j].revoked
      BY <2>2, <2>3, <2>4, <2>5
    <3> QED
      BY <3>1, <3>2, <3>3
  <2>12. pc'[r] = "commit" => outcome'[r] # "REGISTERED"
    BY <2>4
  <2> HIDE DEF i, u
  <2> QED
    BY <2>8, <2>9, <2>10, <2>11, <2>12 DEF HandlerLocks
<1>2. ASSUME NEW i \in Ids, RevokeRow(r, i) PROVE HandlerLocks(r)'
  <2>1. /\ pc[r] = "revoke" /\ i \in todo[r] /\ todo'[r] = todo[r] \ {i}
        /\ UNCHANGED <<clock, account, token, session, userLock, pc, job, now, outcome>>
        /\ rowLock' = rowLock \/ rowLock' = [rowLock EXCEPT ![i] = r]
    BY <1>2 DEF RevokeRow, AcquireRow
  <2>2. LockedBy(r)' \subseteq LockedBy(r) \cup {i}
    BY <2>1 DEF LockedBy
  <2> QED
    BY <2>1, <2>2 DEF HandlerLocks, Stored
<1> QED
    BY <1>1, <1>2

\* Steps that take no lock, and the ends, which give all of them back.
LEMMA LastLocks ==
    ASSUME Inv, NEW r \in Requests, HandlerLocks(r), Proceed(r) \/ Rollback(r)
    PROVE  HandlerLocks(r)'
<1> USE DEF Inv, TypeOK, TablesTypeOK, RequestsTypeOK, Goto, Decide, HandlerLocks, LockedBy, tableVars
<1>1. CASE UserGone(r) \/ SessionGone(r) \/ Failed(r)
  <2>1. /\ pc[r] \in {"user", "session", "failed"} /\ pc'[r] \in {"commit", "idle"}
        /\ pc'[r] = "idle" => pc[r] = "failed"
        /\ pc'[r] = "commit" => outcome'[r] # "REGISTERED"
        /\ UNCHANGED <<userLock, rowLock, todo>>
    BY <1>1 DEF UserGone, SessionGone, Failed
  <2> QED
    BY <2>1
<1>2. CASE RevokeDone(r)
  <2>1. /\ pc'[r] = "commit" /\ outcome'[r] = "TOKEN_REVOKED"
        /\ UNCHANGED <<tableVars, job, now, todo>>
    BY <1>2 DEF RevokeDone, ReuseFrontier, Revoking
  <2> QED
    BY <2>1
<1>3. CASE CommitRegister(r) \/ CommitIssue(r) \/ CommitVerdict(r) \/ Rollback(r)
  <2>1. PICK point \in {"idle", "failed"} : Finish(r, point)
    BY <1>3 DEF CommitRegister, CommitIssue, CommitVerdict, Rollback
  <2>2. /\ pc'[r] = point /\ todo'[r] = {}
        /\ LockedBy(r)' = {} /\ \A u \in Users : userLock'[u] # r
    BY <2>1, NoneAssumption DEF Finish, ReleaseLocks, ReleaseRows
  <2> QED
    BY <2>2
<1> QED
    BY <1>1, <1>2, <1>3 DEF Proceed

\* What a handler holds stays its own while the others step.
LEMMA OthersLocks ==
    ASSUME Inv, LocksInv, NEW p \in Procs \cup {None}, StepOf(p), Effect(p),
           NEW q \in Requests, q # p
    PROVE  HandlerLocks(q)'
<1>1. /\ HandlerLocks(q) /\ q # None
      /\ pc'[q] = pc[q] /\ job'[q] = job[q] /\ now'[q] = now[q]
      /\ outcome'[q] = outcome[q] /\ todo'[q] = todo[q]
    BY LocksOfHandlers, NoneAssumption DEF Effect, OthersUnmoved
<1>2. /\ LockedBy(q)' \subseteq LockedBy(q)
      /\ \A u \in Users : userLock'[u] = q <=> userLock[u] = q
    BY <1>1 DEF Effect, LocksKept, LockedBy
<1>3. \A i \in Ids : token[i] # None => token'[i] = token[i] /\ token[i].sub \in Users
    BY DEF Effect, TokensKept, Inv, TypeOK, TablesTypeOK, Claims
<1>4. /\ pc[q] = "revoke" => job[q].tok \in Ids /\ token[job[q].tok] # None
      /\ InTransaction(q) => job[q].user \in Users
      /\ todo[q] \cup LockedBy(q) \subseteq Ids
    BY DEF Inv, JobOK, InTransaction, TypeOK, RequestsTypeOK, LockedBy
<1>5. ASSUME NEW i \in Ids, i \in todo[q] \cup LockedBy(q), session'[i] # None,
             session[i] # None => ~session[i].revoked
      PROVE  ~session'[i].revoked
  <2>1. token[i] # None /\ userLock[token[i].sub] = q
    BY <1>1, <1>5 DEF HandlerLocks
  <2>2. session[i] # None
    BY <1>5, <2>1 DEF Effect, RowsKept, RowMade
  <2>3. CASE p \in Requests /\ rowLock[i] = p
    BY <1>1, <2>1, <2>3, LocksOfHandlers DEF HandlerLocks, LockedBy
  <2>4. CASE ~(p \in Requests /\ rowLock[i] = p)
    <3>1. session'[i].revoked = session[i].revoked
      BY <1>5, <2>2, <2>4 DEF Effect, RowsKept, RowKept
    <3> QED
      BY <1>5, <2>2, <3>1
  <2> QED
    BY <2>3, <2>4
<1>6. ASSUME NEW u \in Users, account[u] = "unregistered", userLock[u] = q
      PROVE  account'[u] = "unregistered"
  <2>1. ASSUME Environment PROVE account'[u] = account[u]
    BY <1>6, <2>1 DEF Environment, Tick, SetActive, RemoveUser, HasRow, Inv, TypeOK, TablesTypeOK
  <2>2. ASSUME p \in Requests, RequestStep(p) PROVE account'[u] = account[u]
    <3>1. CASE CommitRegister(p)
      <4>1. userLock[job[p].user] = p
        BY <2>2, <3>1 DEF CommitRegister, LocksInv, RegisteringNew
      <4> QED
        BY <1>6, <3>1, <4>1 DEF CommitRegister, Inv, TypeOK, TablesTypeOK
    <3>2. CASE ~CommitRegister(p)
      BY <2>2, <3>2 DEF RequestStep, Begin, Register, BeginLogin, BeginRefresh, BeginLogout,
         Receive, Acquire, LockUserForLogin, LockUserForToken, LockSession, RevokeRow, Proceed,
         UserGone, SessionGone, RevokeDone, CommitIssue, CommitVerdict, Failed, Rollback, tableVars
    <3> QED
      BY <3>1, <3>2
  <2>3. ASSUME p \in Workers, WorkerStep(p) PROVE account'[u] = account[u]
    BY <2>3, WorkerFacts DEF WorkerEffect
  <2> QED
    BY <1>6, <2>1, <2>2, <2>3 DEF StepOf
<1>7. pc[q] = "revoke" => \A i \in Stored' \cap (todo'[q] \cup LockedBy(q)') :
                              i # job'[q].tok => ~session'[i].revoked
    BY <1>1, <1>2, <1>4, <1>5 DEF HandlerLocks, Stored
<1> QED
    BY <1>1, <1>2, <1>3, <1>4, <1>6, <1>7 DEF HandlerLocks, InTransaction

\* Every step keeps the order of locks.
LEMMA LocksStep ==
    ASSUME Inv, DatesInv, LocksInv, NEW p \in Procs \cup {None}, StepOf(p), Effect(p)
    PROVE  LocksInv'
<1> SUFFICES ASSUME NEW q \in Requests PROVE HandlerLocks(q)'
    BY DEF LocksInv, NothingHeld, UserFirst, ReuseOpen, RegisteringNew, HandlerLocks
<1>1. CASE q # p
    BY <1>1, OthersLocks
<1>2. CASE q = p
  <2>1. RequestStep(q) /\ HandlerLocks(q)
    BY <1>2, NoneAssumption, ProcsAssumption, LocksOfHandlers DEF StepOf
  <2> QED
    BY <2>1, FirstLocks, RowLocks, LastLocks DEF RequestStep, Acquire, DatesInv
<1> QED
    BY <1>1, <1>2

-----------------------------------------------------------------------------
(* The purge: what it picks is out of the window, and its cascade is exact. *)

BatchOK(w) ==
    /\ IF wpc[w] \in {"select", "cascade"} THEN run[w].cutoff <= clock - Retention
                                           ELSE picked[w] = {} /\ scan[w] = {}
    /\ \A i \in scan[w] \cup picked[w] : token[i] # None /\ token[i].exp < run[w].cutoff
    /\ \A j \in LockedBy(w) \ picked[w] : session[j].next \in picked[w]
    /\ \A j \in cascade[w] : token[j] # None /\ (j \in Stored => session[j].next \in picked[w])
    /\ wpc[w] = "cascade" =>
         \A j \in Stored \ picked[w] :
             session[j].next \in picked[w] => j \in cascade[w] \cup LockedBy(w)

\* The invariant on the purge says that of every worker.
LEMMA PurgeOfWorkers == PurgeInv <=> \A w \in Workers : BatchOK(w)
    BY DEF PurgeInv, PurgeExpired, CascadeExact, BatchOK

\* The steps of a worker itself.
LEMMA OwnBatch ==
    ASSUME Inv, Inv', RowDates, PurgeInv, NEW w \in Workers, WorkerStep(w)
    PROVE  BatchOK(w)'
<1> USE DEF Inv, TypeOK, TablesTypeOK, WorkersTypeOK, WorkerGoto, Drop, ReleaseRows, AcquireRow
<1>1. BatchOK(w) /\ run[w] \in Run /\ clock \in Nat /\ Retention \in Nat /\ w # None
    BY PurgeOfWorkers, TimeAssumption, NoneAssumption
<1>2. \A cutoff : \A i \in Expired(cutoff) : token[i] # None /\ token[i].exp < cutoff
    BY DEF Expired, Stored, RowOfToken, RowDates
<1>3. ASSUME NEW size, NEW attempt, Start(w, size, attempt), wpc[w] \in {"idle", "retry"}
      PROVE  BatchOK(w)'
  <2>1. /\ UNCHANGED <<tableVars, picked, cascade>> /\ picked[w] = {}
        /\ wpc'[w] = "select" /\ run'[w].cutoff = clock - Retention
        /\ scan'[w] = Expired(run'[w].cutoff)
    BY <1>1, <1>3 DEF Start, BatchOK
  <2>2. run'[w].cutoff <= clock - Retention
    BY <1>1, <2>1
  <2> QED
    BY <1>1, <1>2, <2>1, <2>2 DEF BatchOK, tableVars, LockedBy, Stored
<1>4. ASSUME NEW i \in Ids, TryRow(w, i) PROVE BatchOK(w)'
  <2>1. /\ UNCHANGED <<clock, token, session, wpc, run, cascade>>
        /\ wpc[w] = "select" /\ i \in scan[w]
        /\ scan'[w] \subseteq scan[w]
        /\ picked[w] \subseteq picked'[w] /\ picked'[w] \subseteq picked[w] \cup {i}
    BY <1>4 DEF TryRow, Oldest
  <2>2. LockedBy(w)' \ picked'[w] \subseteq LockedBy(w) \ picked[w]
    BY <1>4, <2>1 DEF TryRow, LockedBy
  <2> QED
    BY <1>1, <2>1, <2>2 DEF BatchOK, Stored
<1>5. CASE DeleteRows(w)
  <2>1. /\ UNCHANGED <<tableVars, run, picked>>
        /\ wpc[w] = "select" /\ wpc'[w] = "cascade" /\ scan'[w] = {}
        /\ cascade'[w] = Predecessors(picked[w])
    BY <1>5 DEF DeleteRows
  <2> QED
    BY <1>1, <2>1 DEF BatchOK, tableVars, Predecessors, LockedBy, Stored, RowOfToken
<1>6. ASSUME NEW j \in Ids, CascadeRow(w, j) PROVE BatchOK(w)'
  <2>1. /\ UNCHANGED <<clock, token, session, wpc, run, scan, picked>>
        /\ wpc[w] = "cascade" /\ j \in cascade[w] /\ cascade'[w] = cascade[w] \ {j}
    BY <1>6 DEF CascadeRow
  <2>2. IF j \in Stored THEN LockedBy(w)' = LockedBy(w) \cup {j} ELSE LockedBy(w)' = LockedBy(w)
    BY <1>6 DEF CascadeRow, LockedBy, Stored
  <2> QED
    BY <1>1, <2>1, <2>2 DEF BatchOK, Stored
<1>7. CASE CommitBatch(w)
  <2>1. /\ UNCHANGED <<clock, token, cascade>> /\ wpc[w] = "cascade" /\ cascade[w] = {}
        /\ picked'[w] = {} /\ LockedBy(w)' = {}
    BY <1>1, <1>7 DEF CommitBatch, LockedBy
  <2>2. \/ /\ wpc'[w] = "select" /\ run'[w].cutoff = run[w].cutoff
           /\ scan'[w] \subseteq Expired(run[w].cutoff)
        \/ wpc'[w] = "idle" /\ scan'[w] = {}
    BY <1>1, <1>7 DEF CommitBatch, Run
  <2> QED
    BY <1>1, <1>2, <2>1, <2>2 DEF BatchOK
<1>8. CASE LockTimeout(w) \/ Crash(w)
  <2>1. /\ scan'[w] = {} /\ picked'[w] = {} /\ cascade'[w] = {} /\ LockedBy(w)' = {}
        /\ wpc'[w] \in {"idle", "retry"}
    BY <1>1, <1>8 DEF LockTimeout, Crash, Abort, LockedBy
  <2> QED
    BY <2>1 DEF BatchOK
<1> QED
    BY <1>3, <1>4, <1>5, <1>6, <1>7, <1>8
    DEF WorkerStep, WorkerAcquire, WorkerProceed, Deliver, Redeliver

\* What a worker has selected, and its cascade, stay right while others step:
\* a new link never points at a row the worker holds.
LEMMA OthersBatch ==
    ASSUME Inv, PurgeInv, NEW p \in Procs \cup {None}, StepOf(p), Effect(p),
           NEW w \in Workers, w # p
    PROVE  BatchOK(w)'
<1>1. /\ BatchOK(w) /\ w # None
      /\ wpc'[w] = wpc[w] /\ run'[w] = run[w] /\ scan'[w] = scan[w]
      /\ picked'[w] = picked[w] /\ cascade'[w] = cascade[w]
    BY PurgeOfWorkers, NoneAssumption DEF Effect, OthersUnmoved
<1>2. /\ LockedBy(w)' = LockedBy(w)
      /\ \A i \in LockedBy(w) : session'[i] = session[i]
    BY <1>1 DEF Effect, LocksKept, LockedBy
<1>3. \A i \in Ids : token[i] # None => token'[i] = token[i]
    BY DEF Effect, TokensKept
<1>4. scan[w] \subseteq Ids /\ cascade[w] \subseteq Ids
    BY DEF Inv, TypeOK, WorkersTypeOK
<1>5. \A i \in picked[w] : i \in Ids /\ rowLock[i] = w /\ token[i] # None
    BY <1>1, NoneAssumption DEF Inv, PickedLocked, LockedBy, BatchOK
<1>6. \A v \in Workers : v # w => picked[v] \cap picked[w] = {}
    BY DEF Inv, PickedLocked, LockedBy
<1>7. None \notin picked[w] /\ \A i \in Fresh : i \notin picked[w]
    BY <1>5, NoneAssumption DEF Fresh, Issued
<1>8. ASSUME NEW j \in Ids, session'[j] # None,
             session[j] # None => session[j].next \in picked[w], token[j] # None
      PROVE  session'[j].next \in picked[w]
  <2>1. session[j] # None
    BY <1>8 DEF Effect, RowsKept, RowMade
  <2> QED
    BY <1>6, <1>7, <1>8, <2>1 DEF Effect, RowsKept, RowKept
<1>9. ASSUME NEW j \in Ids, session'[j] # None, session'[j].next \in picked[w]
      PROVE  session[j] # None /\ session[j].next \in picked[w]
  <2>1. session[j] # None
    BY <1>7, <1>9 DEF Effect, RowsKept, RowMade
  <2> QED
    BY <1>7, <1>9, <2>1 DEF Effect, RowsKept, RowKept
<1>10. wpc[w] \in {"select", "cascade"} => run[w].cutoff <= clock' - Retention
  <2>1. /\ clock \in Nat /\ clock' \in {clock, clock + 1} /\ Retention \in Nat /\ run[w].cutoff \in Int
    BY TimeAssumption DEF Effect, TokensKept, Inv, TypeOK, TablesTypeOK, WorkersTypeOK, Run
  <2> QED
    BY <1>1, <2>1 DEF BatchOK
<1> QED
  <2>1. \A j \in LockedBy(w)' \ picked'[w] : session'[j].next \in picked'[w]
    BY <1>1, <1>2 DEF BatchOK
  <2>2. \A j \in cascade'[w] : token'[j] # None /\ (j \in Stored' => session'[j].next \in picked'[w])
    BY <1>1, <1>3, <1>4, <1>8 DEF BatchOK, Stored
  <2>3. wpc'[w] = "cascade" =>
         \A j \in Stored' \ picked'[w] :
             session'[j].next \in picked'[w] => j \in cascade'[w] \cup LockedBy(w)'
    BY <1>1, <1>2, <1>9 DEF BatchOK, Stored
  <2>4. \A i \in scan'[w] \cup picked'[w] : token'[i] # None /\ token'[i].exp < run'[w].cutoff
    BY <1>1, <1>3, <1>4, <1>5 DEF BatchOK
  <2> QED
    BY <1>1, <1>10, <2>1, <2>2, <2>3, <2>4 DEF BatchOK

\* Every step keeps the batches of the purge exact.
LEMMA PurgeStep ==
    ASSUME Inv, Inv', DatesInv, PurgeInv, NEW p \in Procs \cup {None}, StepOf(p), Effect(p)
    PROVE  PurgeInv'
<1> SUFFICES ASSUME NEW w \in Workers PROVE BatchOK(w)'
    BY DEF PurgeInv, PurgeExpired, CascadeExact, BatchOK
<1>1. CASE w = p
    BY <1>1, NoneAssumption, ProcsAssumption, OwnBatch DEF StepOf, DatesInv
<1>2. CASE w # p
    BY <1>2, OthersBatch
<1> QED
    BY <1>1, <1>2

-----------------------------------------------------------------------------
(* Chains.                                                                 *)

\* The purge deletes rows in CommitBatch only, which waits for its cascade.
LEMMA DeletionCommits ==
    ASSUME Inv, NEW w \in Workers, WorkerStep(w), session' # session
    PROVE  CommitBatch(w) /\ wpc[w] = "cascade" /\ cascade[w] = {}
<1>1. CommitBatch(w)
    BY DEF WorkerStep, WorkerAcquire, WorkerProceed, Deliver, Redeliver, Start, TryRow,
       DeleteRows, CascadeRow, LockTimeout, Crash, Abort, tableVars
<1> QED
    BY <1>1 DEF CommitBatch

\* A handler links rows in CommitIssue only.
LEMMA LinkIsIssue ==
    ASSUME Inv, NEW r \in Requests, RequestStep(r), UNCHANGED workerVars,
           NEW i \in Ids, session[i] # None, session'[i].next # session[i].next
    PROVE  CommitIssue(r)
<1>1. ~CommitVerdict(r)
    BY VerdictFacts
<1>2. ~CommitRegister(r) /\ ~Rollback(r)
    BY DEF CommitRegister, Rollback
<1> QED
    BY <1>1, <1>2, MoveEffect DEF RequestStep, Proceed

\* A row that stays linked keeps its successor: users take all of their rows
\* along, and the cascade of a batch has unlinked what pointed at its rows.
LEMMA SuccessorStays ==
    ASSUME Inv, PurgeInv, ChainShape, NEW p \in Procs \cup {None}, StepOf(p), Effect(p),
           NEW i \in Ids, session[i] # None, session'[i] # None,
           session[i].next # None, session'[i].next = session[i].next
    PROVE  session'[session[i].next] # None
<1> DEFINE n == session[i].next
<1>1. n \in Ids /\ session[n] # None /\ session[n].user = session[i].user
    BY DEF ChainShape, Stored
<1>2. session'[i].user = session[i].user
    BY DEF Effect, RowsKept, RowKept
<1> SUFFICES ASSUME session'[n] = None PROVE FALSE
    OBVIOUS
<1>3. p \in Workers /\ n \in picked[p]
    BY <1>1, <1>2 DEF Effect, RowsKept, RowGone
<1>4. CommitBatch(p) /\ wpc[p] = "cascade" /\ cascade[p] = {}
    BY <1>1, <1>3, NoneAssumption, ProcsAssumption, DeletionCommits DEF StepOf
<1>5. i \notin picked[p] /\ rowLock[i] # p
    BY <1>3, <1>4, BatchFacts DEF PurgeInv
<1>6. i \in cascade[p] \cup LockedBy(p)
    BY <1>3, <1>4, <1>5 DEF PurgeInv, CascadeExact, Stored
<1> QED
    BY <1>4, <1>5, <1>6 DEF LockedBy

\* Every step keeps the shape of the chains.
LEMMA ShapeStep ==
    ASSUME Inv, DatesInv, PurgeInv, ChainShape, NEW p \in Procs \cup {None}, StepOf(p), Effect(p)
    PROVE  ChainShape'
<1> SUFFICES ASSUME NEW i \in Ids, session'[i] # None, NEW n, n = session'[i].next, n # None
             PROVE  /\ session'[i].revoked
                    /\ n \in Ids /\ session'[n] # None
                    /\ token'[n].parent = i
                    /\ session'[n].user = session'[i].user
                    /\ session'[n].expires >= session'[i].expires
    BY DEF ChainShape, Stored
<1>1. session[i] # None
    BY DEF Effect, RowsKept, RowMade
<1>2. CASE n = session[i].next
  <2>1. /\ session[i].revoked /\ n \in Ids /\ session[n] # None /\ token[n].parent = i
        /\ session[n].user = session[i].user /\ session[n].expires >= session[i].expires
    BY <1>1, <1>2 DEF ChainShape, Stored
  <2>2. session'[n] # None
    BY <1>1, <1>2, SuccessorStays
  <2>3. token'[n] = token[n]
    BY <2>1 DEF Effect, TokensKept, Inv, RowOfToken, Stored
  <2>4. /\ session'[i].revoked
        /\ session'[i].user = session[i].user /\ session'[i].expires = session[i].expires
    BY <1>1, <2>1 DEF Effect, RowsKept, RowKept
  <2>5. session'[n].user = session[n].user /\ session'[n].expires = session[n].expires
    BY <2>1, <2>2 DEF Effect, RowsKept, RowKept
  <2> QED
    BY <2>1, <2>2, <2>3, <2>4, <2>5
<1>3. CASE n # session[i].next
  <2>1. p \in Requests
    BY <1>1, <1>3 DEF Effect, RowsKept, RowKept
  <2>2. CommitIssue(p)
    BY <1>1, <1>3, <2>1, NoneAssumption, ProcsAssumption, LinkIsIssue DEF StepOf
  <2>3. PICK m \in Fresh : IssueWrites(p, m)
    BY <2>1, <2>2, IssueFacts
  <2>4. i = job[p].tok /\ n = m /\ m \in Ids
    <3>1. i # m /\ m \in Ids
      BY <1>1, <2>3 DEF IssueWrites, Fresh
    <3>2. i = job[p].tok
      BY <1>3, <2>3, <3>1 DEF IssueWrites
    <3> QED
      BY <2>3, <3>1, <3>2, NoneAssumption DEF IssueWrites
  <2>5. /\ token[i] # None /\ session[i].expires = token[i].exp
        /\ token[i].exp <= now[p] + Lifetime
    BY <1>1, <2>1, <2>2, <2>3, <2>4, NoneAssumption
    DEF DatesInv, RowDates, RotatingLater, CommitIssue, Inv, RowOfToken, Stored
  <2>6. now[p] \in Nat /\ Lifetime \in Nat /\ token[i].exp \in Nat
    BY <2>1, <2>5, TimeAssumption DEF Inv, TypeOK, TablesTypeOK, RequestsTypeOK, Claims
  <2> QED
    BY <2>3, <2>4, <2>5, <2>6, NoneAssumption DEF IssueWrites
<1> QED
    BY <1>2, <1>3

-----------------------------------------------------------------------------
(* The theorems.                                                           *)

\* Initially there is no row, no lock and no batch.
LEMMA ChainInit == Init => ChainInv
<1> SUFFICES ASSUME Init PROVE ChainInv
    OBVIOUS
<1> USE DEF Init, TablesInit, RequestsInit, WorkersInit
<1>1. DatesInv
    BY DEF DatesInv, NowPast, RowDates, IssuedBefore, RotatingLater, Stored, Issued
<1>2. LocksInv
    BY NoneAssumption DEF LocksInv, NothingHeld, UserFirst, ReuseOpen, RegisteringNew, LockedBy
<1>3. PurgeInv /\ ChainShape
    BY NoneAssumption DEF PurgeInv, PurgeExpired, CascadeExact, LockedBy, Stored, ChainShape
<1> QED
    BY <1>1, <1>2, <1>3 DEF ChainInv

\* Every step of every process preserves the invariant.
LEMMA ChainNext == Inv /\ Inv' /\ ChainInv /\ [Next]_vars => ChainInv'
<1> SUFFICES ASSUME Inv, Inv', ChainInv, [Next]_vars PROVE ChainInv'
    OBVIOUS
<1>1. CASE Next
  <2>1. PICK p \in Procs \cup {None} : StepOf(p)
    BY <1>1, NextSteps
  <2>2. Effect(p)
    BY <2>1, StepEffect DEF ChainInv, PurgeInv
  <2> QED
    BY <2>1, <2>2, DatesStep, LocksStep, PurgeStep, ShapeStep DEF ChainInv
<1>2. CASE UNCHANGED vars
  <2> USE <1>2 DEF vars, tableVars, requestVars, workerVars, Stored, Issued, LockedBy
  <2>1. DatesInv'
    BY DEF ChainInv, DatesInv, NowPast, RowDates, IssuedBefore, RotatingLater
  <2>2. LocksInv'
    BY DEF ChainInv, LocksInv, NothingHeld, UserFirst, ReuseOpen, RegisteringNew
  <2>3. PurgeInv' /\ ChainShape'
    BY DEF ChainInv, PurgeInv, PurgeExpired, CascadeExact, ChainShape
  <2> QED
    BY <2>1, <2>2, <2>3 DEF ChainInv
<1> QED
    BY <1>1, <1>2

\* Dates, the order of locks, the batches of the purge and the chains are right
\* in every reachable state.
THEOREM ChainInvariance == Spec => []ChainInv
    BY ChainInit, ChainNext, Invariance, PTL DEF Spec

\* The three layers together: what handlers and workers know and hold, what is
\* answered about, and the dates, lock order and chains of the rows.
THEOREM AuthInvariance == Spec => []AuthInv
<1>1. Inv /\ AnswerInv /\ ChainInv => AuthInv
    BY DEF AuthInv
<1> QED
    BY <1>1, Invariance, AnswerInvariance, ChainInvariance, PTL

\* replaced_by_id: a row with a successor is revoked and points at the row of
\* the token issued in exchange, of the same user, which never expires first,
\* whatever rotations, replays, removals and purges have done.
THEOREM ChainsShaped == Spec => []ChainShape
<1>1. ChainInv => ChainShape
    BY DEF ChainInv
<1> QED
    BY <1>1, ChainInvariance, PTL

\* purge_expired_refresh_sessions: a row leaves the table only with its user,
\* or out of the retention window and held by no handler.
THEOREM OnlyStalePurged == Spec => PurgeOnlyStale
<1> DEFINE Step == \A i \in Ids : session[i] # None /\ session'[i] = None
                     => \/ account'[session[i].user] = "removed"
                        \/ /\ session[i].expires + Retention < clock
                           /\ rowLock[i] \notin Requests
<1>1. ASSUME Inv, ChainInv, [Next]_vars PROVE [Step]_vars
  <2> SUFFICES ASSUME Next, NEW i \in Ids, session[i] # None, session'[i] = None
               PROVE  \/ account'[session[i].user] = "removed"
                      \/ /\ session[i].expires + Retention < clock
                         /\ rowLock[i] \notin Requests
    BY <1>1
  <2>1. PICK p \in Procs \cup {None} : StepOf(p)
    BY NextSteps
  <2>2. Effect(p)
    BY <1>1, <2>1, StepEffect DEF ChainInv, PurgeInv
  <2>3. CASE p \in Workers /\ wpc[p] = "cascade" /\ i \in picked[p]
    <3>1. rowLock[i] = p
      BY <1>1, <2>3 DEF Inv, PickedLocked, LockedBy
    <3>2. /\ run[p].cutoff <= clock - Retention
          /\ token[i] # None /\ token[i].exp < run[p].cutoff
          /\ session[i].expires = token[i].exp
      BY <1>1, <2>3 DEF ChainInv, PurgeInv, PurgeExpired, DatesInv, RowDates, Stored
    <3>3. /\ token[i].exp \in Nat /\ clock \in Nat /\ Retention \in Nat /\ run[p].cutoff \in Int
      BY <1>1, <2>3, <3>2, TimeAssumption
      DEF Inv, TypeOK, TablesTypeOK, WorkersTypeOK, Claims, Run
    <3> QED
      BY <2>3, <3>1, <3>2, <3>3, ProcsAssumption
  <2> QED
    BY <2>2, <2>3 DEF Effect, RowsKept, RowGone
<1> QED
    BY <1>1, Invariance, ChainInvariance, PTL DEF Spec, PurgeOnlyStale

\* ON DELETE SET NULL: a row that stays loses its successor only in the step
\* that deletes the successor, and is never linked to another.
THEOREM ChainsIntact == Spec => ChainsLeftIntact
<1> DEFINE Step == \A i \in Ids : /\ session[i] # None /\ session[i].next # None
                                  /\ session'[i] # None /\ session'[i].next # session[i].next
                     => session'[i].next = None /\ session'[session[i].next] = None
<1>1. ASSUME Inv, ChainInv, [Next]_vars PROVE [Step]_vars
  <2> SUFFICES ASSUME Next, NEW i \in Ids, session[i] # None, session[i].next # None,
                      session'[i] # None, session'[i].next # session[i].next
               PROVE  session'[i].next = None /\ session'[session[i].next] = None
    BY <1>1
  <2>1. PICK p \in Procs \cup {None} : StepOf(p)
    BY NextSteps
  <2>2. Effect(p)
    BY <1>1, <2>1, StepEffect DEF ChainInv, PurgeInv
  <2>3. p \in Workers /\ session[i].next \in picked[p] /\ session'[i].next = None
    BY <2>2 DEF Effect, RowsKept, RowKept
  <2>4. CommitBatch(p)
    BY <1>1, <2>1, <2>3, NoneAssumption, ProcsAssumption, DeletionCommits DEF StepOf
  <2>5. session[i].next \in Ids
    BY <1>1, <2>3 DEF Inv, TypeOK, WorkersTypeOK
  <2>6. session'[session[i].next] = None
    BY <1>1, <2>3, <2>4, <2>5, BatchFacts DEF ChainInv, PurgeInv
  <2> QED
    BY <2>3, <2>6
<1> QED
    BY <1>1, Invariance, ChainInvariance, PTL DEF Spec, ChainsLeftIntact

-----------------------------------------------------------------------------
(* Deadlocks.                                                              *)

\* A handler waits for a user lock before it holds anything, then for rows of
\* the user it holds; a worker waits for rows its cascade still has to take.
LEMMA WaitsFor ==
    ASSUME Inv, NEW q \in Procs, NEW x \in Waits(q)
    PROVE  \/ /\ q \in Requests /\ pc[q] = "user"
              /\ \E u \in Users : userLock[u] = x
           \/ /\ q \in Requests /\ pc[q] = "session"
              /\ \E i \in Ids : rowLock[i] = x
           \/ /\ q \in Requests /\ pc[q] = "revoke"
              /\ \E i \in todo[q] : rowLock[i] = x
           \/ /\ q \in Workers
              /\ \E j \in cascade[q] : rowLock[j] = x
<1>1. CASE q \in Requests
  <2>1. pc[q] = "user" => job[q].user \in Users
    BY <1>1 DEF Inv, JobOK, InTransaction
  <2>2. pc[q] = "session" => job[q].tok \in Ids
    BY <1>1 DEF Inv, JobOK, InTransaction
  <2> QED
    BY <1>1, <2>1, <2>2 DEF Waits
<1>2. CASE q \notin Requests
    BY <1>2 DEF Waits, Procs
<1> QED
    BY <1>1, <1>2

\* lock_user_for_refresh comes before any row: two handlers never wait for each
\* other, and a handler waits for the purge and the purge for it only when the
\* handler has been at work for longer than the retention window.
LEMMA DeadlockStale ==
    ASSUME Inv, ChainInv, NEW S \in SUBSET Procs, Deadlocked(S), NEW r \in S \cap Requests
    PROVE  clock - now[r] > Retention
<1> USE DEF ChainInv
<1>1. \A x \in S \cap Requests : pc[x] \in {"user", "session", "revoke"}
    BY DEF Deadlocked, Waits
<1>2. \A x \in S : \E q \in S : x \in Waits(q)
    BY DEF Deadlocked
<1>3. \A x \in S \cap Requests : pc[x] # "user"
  <2> SUFFICES ASSUME NEW x \in S \cap Requests, pc[x] = "user" PROVE FALSE
    OBVIOUS
  <2>1. (\A u \in Users : userLock[u] # x) /\ \A i \in Ids : rowLock[i] # x
    BY DEF LocksInv, NothingHeld, LockedBy
  <2>2. \A q \in Procs : todo[q] \subseteq Ids \/ q \notin Requests
    BY DEF Inv, TypeOK, RequestsTypeOK
  <2>3. \A q \in Workers : cascade[q] \subseteq Ids
    BY DEF Inv, TypeOK, WorkersTypeOK
  <2> QED
    BY <1>2, <2>1, <2>2, <2>3, WaitsFor
<1>4. \A x \in S \cap Requests : pc[x] = "revoke"
  <2> SUFFICES ASSUME NEW x \in S \cap Requests, pc[x] = "session" PROVE FALSE
    BY <1>1, <1>3
  <2>1. \A i \in Ids : rowLock[i] # x
    BY DEF LocksInv, NothingHeld, LockedBy
  <2>2. \A q \in Procs : todo[q] \subseteq Ids \/ q \notin Requests
    BY DEF Inv, TypeOK, RequestsTypeOK
  <2>3. \A q \in Workers : cascade[q] \subseteq Ids
    BY DEF Inv, TypeOK, WorkersTypeOK
  <2> QED
    BY <1>2, <1>3, <2>1, <2>2, <2>3, WaitsFor
<1>5. PICK q \in S : r \in Waits(q)
    BY <1>2
<1>6. q \notin Requests
  <2> SUFFICES ASSUME q \in Requests PROVE FALSE
    OBVIOUS
  <2>1. PICK i \in todo[q] : rowLock[i] = r
    BY <1>4, <1>5, WaitsFor, ProcsAssumption
  <2>2. i \in LockedBy(r)
    BY <2>1 DEF LockedBy, Inv, TypeOK, RequestsTypeOK
  <2>3. userLock[token[i].sub] = q /\ userLock[token[i].sub] = r
    BY <2>1, <2>2 DEF LocksInv, UserFirst
  <2> QED
    BY <1>4, <2>1, <2>2, <2>3 DEF LocksInv, ReuseOpen
<1>7. q \in Workers /\ \E j \in cascade[q] : rowLock[j] = r
    BY <1>5, <1>6, WaitsFor
<1>8. PICK j \in cascade[q] : rowLock[j] = r
    BY <1>7
<1>9. j \in Ids /\ j \in LockedBy(r) /\ j \in Stored
    BY <1>7, <1>8, NoneAssumption
    DEF LockedBy, Stored, Inv, LockedStored, TypeOK, WorkersTypeOK
<1> DEFINE n == session[j].next
<1>10. n \in picked[q] /\ n \in Ids /\ n # None
    BY <1>7, <1>8, <1>9, NoneAssumption DEF PurgeInv, CascadeExact, Inv, TypeOK, WorkersTypeOK
<1>11. session[j].revoked /\ n \in Stored /\ session[n].expires >= session[j].expires
    BY <1>9, <1>10 DEF ChainShape
<1>12. j = job[r].tok
    BY <1>4, <1>9, <1>11 DEF LocksInv, ReuseOpen
<1>13. now[r] < token[j].exp
    BY <1>4, <1>12 DEF LocksInv, ReuseOpen
<1>14. token[n].exp < run[q].cutoff /\ run[q].cutoff <= clock - Retention
    BY <1>7, <1>10 DEF PurgeInv, PurgeExpired
<1>15. session[n].expires = token[n].exp /\ session[j].expires = token[j].exp
    BY <1>9, <1>11 DEF DatesInv, RowDates
<1>16. /\ token[n].exp \in Nat /\ token[j].exp \in Nat /\ now[r] \in Nat
       /\ clock \in Nat /\ run[q].cutoff \in Int /\ Retention \in Nat
  <2>1. token[n] \in Claims /\ token[j] \in Claims
    BY <1>9, <1>11 DEF Inv, RowOfToken, Stored, TypeOK, TablesTypeOK
  <2> QED
    BY <1>7, <2>1, TimeAssumption DEF Claims, Inv, TypeOK, TablesTypeOK, RequestsTypeOK, WorkersTypeOK, Run
<1> HIDE DEF n
<1> QED
    BY <1>11, <1>13, <1>14, <1>15, <1>16

\* A request is in a deadlock only when its transaction has been open for
\* longer than the retention window.
THEOREM DeadlocksOnlyStale == Spec => []RequestsDeadlockOnlyWhenStale
<1>1. Inv /\ ChainInv => RequestsDeadlockOnlyWhenStale
    BY DeadlockStale DEF RequestsDeadlockOnlyWhenStale
<1> QED
    BY <1>1, Invariance, ChainInvariance, PTL

\* A handler that another one keeps waiting waits for the lock of its user: what
\* it asks for later belongs to that user, and nobody else has any of it.
LEMMA HandlersWaitFirst ==
    ASSUME Inv, ChainInv, NEW r \in Requests, NEW h \in Waits(r) \cap Requests
    PROVE  pc[r] = "user" /\ h = userLock[job[r].user] /\ job[r].user \in Users
<1>1. pc[r] \in {"user", "session", "revoke"}
    BY DEF Waits
<1>2. pc[r] # "session"
  <2> SUFFICES ASSUME pc[r] = "session" PROVE FALSE
    OBVIOUS
  <2>1. PICK i : i = job[r].tok
    OBVIOUS
  <2>2. i \in Ids /\ token[i].sub = job[r].user /\ userLock[job[r].user] = r
    BY <2>1 DEF Inv, JobOK, InTransaction, UserLocked, HoldsUser
  <2>3. rowLock[i] = h
    BY <2>1 DEF Waits
  <2>4. i \in LockedBy(h)
    BY <2>2, <2>3 DEF LockedBy
  <2>5. userLock[token[i].sub] = h
    BY <2>4 DEF ChainInv, LocksInv, UserFirst
  <2>6. LockedBy(r) = {}
    BY DEF ChainInv, LocksInv, NothingHeld
  <2> QED
    BY <2>2, <2>4, <2>5, <2>6
<1>3. pc[r] # "revoke"
  <2> SUFFICES ASSUME pc[r] = "revoke" PROVE FALSE
    OBVIOUS
  <2>1. PICK i \in todo[r] : rowLock[i] = h
    BY DEF Waits
  <2>2. i \in Ids
    BY <2>1 DEF Inv, TypeOK, RequestsTypeOK
  <2>3. i \in LockedBy(h)
    BY <2>1, <2>2 DEF LockedBy
  <2>4. userLock[token[i].sub] = h /\ userLock[token[i].sub] = r
    BY <2>1, <2>3 DEF ChainInv, LocksInv, UserFirst
  <2>5. i \notin LockedBy(r)
    BY <2>1 DEF ChainInv, LocksInv, ReuseOpen
  <2> QED
    BY <2>3, <2>4, <2>5
<1>4. pc[r] = "user"
    BY <1>1, <1>2, <1>3
<1>5. h = userLock[job[r].user]
    BY <1>4 DEF Waits
<1>6. job[r].user \in Users
    BY <1>4 DEF Inv, JobOK, InTransaction
<1> QED
    BY <1>4, <1>5, <1>6

\* Whoever is waited for is a transaction.
LEMMA WaitsForProcs ==
    ASSUME Inv, NEW q \in Requests
    PROVE  Waits(q) \subseteq Procs
<1> SUFFICES ASSUME NEW x \in Waits(q) PROVE x \in Procs
    OBVIOUS
<1>1. todo[q] \subseteq Ids
    BY DEF Inv, TypeOK, RequestsTypeOK
<1>2. q \in Procs /\ (\A u \in Users : userLock[u] \in Procs \cup {None})
      /\ (\A i \in Ids : rowLock[i] \in Procs \cup {None})
    BY DEF Procs, Inv, TypeOK, TablesTypeOK
<1>3. x # None
    BY DEF Waits
<1>4. x \in Procs \cup {None}
    BY <1>1, <1>2, ProcsAssumption, WaitsFor
<1> QED
    BY <1>3, <1>4

\* A handler waits for at most one other handler, which is under way and waits for
\* purges only: lock_user_for_refresh is where handlers queue up.
THEOREM HandlersWaitBriefly == Spec => []WaitsAreShort
<1>1. Inv /\ ChainInv => WaitsAreShort
  <2> SUFFICES ASSUME Inv, ChainInv, NEW r \in Requests, NEW h \in Waits(r) \cap Requests
               PROVE  /\ pc[r] = "user" /\ h # r
                      /\ pc[h] \in {"session", "revoke", "commit"}
                      /\ Waits(h) \subseteq Workers
    BY DEF WaitsAreShort
  <2>1. pc[r] = "user" /\ h = userLock[job[r].user] /\ job[r].user \in Users
    BY HandlersWaitFirst
  <2>2. pc[h] \notin {"idle", "user", "failed"}
    BY <2>1 DEF ChainInv, LocksInv, NothingHeld
  <2>3. pc[h] \in {"session", "revoke", "commit"}
    BY <2>2 DEF Inv, TypeOK, RequestsTypeOK, Points
  <2>4. \A x \in Waits(h) : x \notin Requests
    BY <2>2, HandlersWaitFirst
  <2>5. Waits(h) \subseteq Workers
    BY <2>4, WaitsForProcs DEF Procs
  <2> QED
    BY <2>1, <2>2, <2>3, <2>5
<1> QED
    BY <1>1, Invariance, ChainInvariance, PTL

\* No handler goes round in circles: each step it takes of its own, failure
\* included, leads to a later point or past one more row of its UPDATE.
THEOREM HandlersComeToAnEnd == Spec => HandlersAdvance
<1>1. ASSUME Inv, NEW r \in Requests, Acquire(r) \/ Proceed(r)
      PROVE  \/ pc'[r] = "idle"
             \/ Stage[pc[r]] < Stage[pc'[r]]
             \/ pc'[r] = pc[r] /\ Less(todo[r], todo'[r])
  <2> USE <1>1 DEF Goto
  <2>0. pc \in [Requests -> Points] /\ todo \in [Requests -> SUBSET Ids]
    BY DEF Inv, TypeOK, RequestsTypeOK
  <2>1. /\ Stage["user"] = 1 /\ Stage["session"] = 2 /\ Stage["revoke"] = 3 /\ Stage["commit"] = 4
    BY DEF Stage
  <2>2. CASE LockUserForLogin(r) \/ UserGone(r)
    <3>1. pc[r] = "user" /\ pc'[r] = "commit"
      BY <2>0, <2>2 DEF LockUserForLogin, UserGone, Decide
    <3> QED
      BY <2>1, <3>1
  <2>3. CASE LockUserForToken(r)
    <3>1. pc[r] = "user" /\ pc'[r] = "session"
      BY <2>0, <2>3 DEF LockUserForToken
    <3> QED
      BY <2>1, <3>1
  <2>4. CASE LockSession(r) \/ SessionGone(r)
    <3>1. pc[r] = "session" /\ pc'[r] \in {"commit", "revoke"}
      BY <2>0, <2>4 DEF LockSession, SessionGone, Decide
    <3> QED
      BY <2>1, <3>1
  <2>5. ASSUME NEW i \in Ids, RevokeRow(r, i)
        PROVE  pc'[r] = pc[r] /\ Less(todo[r], todo'[r])
    BY <2>0, <2>5 DEF RevokeRow, Less
  <2>6. CASE RevokeDone(r)
    <3>1. pc[r] = "revoke" /\ pc'[r] = "commit"
      BY <2>0, <2>6 DEF RevokeDone
    <3> QED
      BY <2>1, <3>1
  <2>7. CASE CommitRegister(r) \/ CommitIssue(r) \/ CommitVerdict(r) \/ Failed(r)
    BY <2>0, <2>7 DEF CommitRegister, CommitIssue, CommitVerdict, Failed, Finish
  <2> QED
    BY <2>2, <2>3, <2>4, <2>5, <2>6, <2>7 DEF Acquire, Proceed
<1>2. Inv /\ [Next]_vars => [\A r \in Requests : Acquire(r) \/ Proceed(r) =>
        \/ pc'[r] = "idle"
        \/ Stage[pc[r]] < Stage[pc'[r]]
        \/ pc'[r] = pc[r] /\ Less(todo[r], todo'[r])]_vars
    BY <1>1
<1> QED
    BY <1>2, Invariance, PTL DEF Spec, HandlersAdvance

\* No purge goes round in circles: each step a worker takes of its own uses up
\* something of its batch, its batches or its attempts, which are bounded.
THEOREM PurgesComeToAnEnd == Spec => PurgesAdvance
<1> DEFINE Further(w) ==
        \/ wpc'[w] = "idle"
        \/ wpc'[w] = "retry" /\ run'[w].attempt = run[w].attempt + 1
        \/ /\ wpc'[w] # "retry" /\ run'[w].attempt = run[w].attempt
           /\ \/ wpc[w] = "retry"
              \/ wpc[w] = "cascade" /\ run'[w].batches = run[w].batches + 1
              \/ /\ run'[w] = run[w]
                 /\ \/ wpc[w] = "select" /\ wpc'[w] = "cascade"
                    \/ wpc'[w] = wpc[w] /\ (Less(scan[w], scan'[w]) \/ Less(cascade[w], cascade'[w]))
<1>1. ASSUME Inv, NEW w \in Workers, WorkerAcquire(w) \/ WorkerProceed(w) \/ LockTimeout(w)
      PROVE  Further(w)
  <2> USE <1>1 DEF WorkerGoto
  <2>1. /\ wpc \in [Workers -> WorkerPoints] /\ run \in [Workers -> Run]
        /\ scan \in [Workers -> SUBSET Ids] /\ cascade \in [Workers -> SUBSET Ids]
    BY DEF Inv, TypeOK, WorkersTypeOK
  <2>2. CASE Redeliver(w)
    <3>1. wpc[w] = "retry" /\ wpc'[w] = "select"
      BY <2>1, <2>2 DEF Redeliver, Start
    <3>2. run'[w].attempt = run[w].attempt
      BY <2>1, <2>2 DEF Redeliver, Start
    <3> QED
      BY <3>1, <3>2
  <2>3. ASSUME NEW i \in Ids, TryRow(w, i) PROVE Further(w)
    <3>1. wpc[w] = "select" /\ wpc' = wpc /\ run' = run
      BY <2>3 DEF TryRow
    <3>2. i \in scan[w] /\ scan'[w] = scan[w] \ {i}
      BY <2>1, <2>3 DEF TryRow, Oldest
    <3> QED
      BY <3>1, <3>2 DEF Less
  <2>4. ASSUME NEW j \in Ids, CascadeRow(w, j) PROVE Further(w)
    <3>1. wpc[w] = "cascade" /\ wpc' = wpc /\ run' = run
      BY <2>4 DEF CascadeRow
    <3>2. j \in cascade[w] /\ cascade'[w] = cascade[w] \ {j}
      BY <2>1, <2>4 DEF CascadeRow
    <3> QED
      BY <3>1, <3>2 DEF Less
  <2>5. CASE DeleteRows(w)
    <3>1. wpc[w] = "select" /\ wpc'[w] = "cascade" /\ run' = run
      BY <2>1, <2>5 DEF DeleteRows
    <3> QED
      BY <3>1
  <2>6. CASE CommitBatch(w)
    <3>1. PICK n : n = run[w].batches + 1
      OBVIOUS
    <3>2. wpc[w] = "cascade"
      BY <2>6 DEF CommitBatch
    <3>3. \/ wpc'[w] = "idle"
          \/ wpc'[w] = "select" /\ run'[w] = [run[w] EXCEPT !.batches = n]
      BY <2>1, <2>6, <3>1 DEF CommitBatch
    <3>4. [run[w] EXCEPT !.batches = n].batches = n /\ [run[w] EXCEPT !.batches = n].attempt = run[w].attempt
      BY <2>1 DEF Run
    <3> QED
      BY <3>1, <3>2, <3>3, <3>4
  <2>7. CASE LockTimeout(w)
    <3>1. PICK n : n = run[w].attempt + 1
      OBVIOUS
    <3>2. \/ wpc'[w] = "idle"
          \/ wpc'[w] = "retry" /\ run'[w] = [run[w] EXCEPT !.attempt = n]
      BY <2>1, <2>7, <3>1 DEF LockTimeout
    <3>3. [run[w] EXCEPT !.attempt = n].attempt = n
      BY <2>1 DEF Run
    <3> QED
      BY <3>1, <3>2, <3>3
  <2> QED
    BY <2>2, <2>3, <2>4, <2>5, <2>6, <2>7 DEF WorkerAcquire, WorkerProceed
<1>2. Inv /\ [Next]_vars => [\A w \in Workers : WorkerAcquire(w) \/ WorkerProceed(w) \/ LockTimeout(w)
                                => Further(w)]_vars
    BY <1>1
<1> QED
    BY <1>2, Invariance, PTL DEF Spec, PurgesAdvance

-----------------------------------------------------------------------------
(* The refinement: a token is live while its row is there and not revoked. *)

\* The status of a token, from its row.
LEMMA StatusIs ==
    ASSUME NEW i \in Ids
    PROVE  TokenStatus[i] = IF token[i] = None THEN "unused"
                            ELSE IF session[i] = None THEN "spent"
                            ELSE IF session[i].revoked THEN "spent" ELSE "live"
    BY DEF TokenStatus, Spent

\* A new status is the old one with some tokens spent when each token is
\* either one of these, now spent, or has the status it had.
LEMMA SpendIs ==
    ASSUME NEW S \in SUBSET Ids,
           \A i \in Ids : TokenStatus'[i] = IF i \in S THEN "spent" ELSE TokenStatus[i]
    PROVE  Lifecycle!Spend(S)
    BY DEF Lifecycle!Spend, TokenStatus

\* What touches neither rows nor tokens leaves every status.
LEMMA StatusKept ==
    ASSUME UNCHANGED <<token, session>> PROVE TokenStatus' = TokenStatus
    BY DEF TokenStatus, Spent

\* The clock and the operator.
LEMMA EnvironmentMaps ==
    ASSUME Inv, Environment
    PROVE  Lifecycle!Next
<1> USE DEF Inv, TypeOK, TablesTypeOK
<1>1. CASE Tick
    BY <1>1, StatusKept DEF Tick, Lifecycle!Next, Lifecycle!TimePasses
<1>2. ASSUME NEW u \in Users, SetActive(u) PROVE Lifecycle!ChangeAccount(u)
  <2>1. TokenStatus' = TokenStatus
    BY <1>2, StatusKept DEF SetActive
  <2>2. \E s \in {"active", "inactive"} : account' = [account EXCEPT ![u] = s]
    BY <1>2 DEF SetActive
  <2> QED
    BY <1>2, <2>1, <2>2 DEF SetActive, HasRow, Lifecycle!ChangeAccount
<1>3. ASSUME NEW u \in Users, RemoveUser(u) PROVE Lifecycle!RemoveAccount(u)
  <2> DEFINE S == Lifecycle!Live(u)
  <2>1. \A i \in Ids : session'[i] = IF session[i] # None /\ token[i] # None /\ token[i].sub = u
                                     THEN None ELSE session[i]
    BY <1>3 DEF RemoveUser, SessionsOf, Stored, RowOfToken
  <2>2. token' = token
    BY <1>3 DEF RemoveUser
  <2>3. S \in SUBSET Ids
    BY DEF Lifecycle!Live
  <2>4. ASSUME NEW i \in Ids PROVE TokenStatus'[i] = IF i \in S THEN "spent" ELSE TokenStatus[i]
    <3>1. i \in S <=> token[i] # None /\ session[i] # None /\ ~session[i].revoked /\ token[i].sub = u
      BY StatusIs DEF Lifecycle!Live
    <3>2. TokenStatus'[i] = IF token'[i] = None THEN "unused"
                            ELSE IF session'[i] = None THEN "spent"
                            ELSE IF session'[i].revoked THEN "spent" ELSE "live"
      BY DEF TokenStatus, Spent
    <3> QED
      BY <2>1, <2>2, <3>1, <3>2, StatusIs
  <2> HIDE DEF S
  <2>5. Lifecycle!Spend(S)
    BY <2>3, <2>4, SpendIs
  <2> QED
    BY <1>3, <2>5 DEF RemoveUser, Lifecycle!RemoveAccount, S
<1> QED
    BY <1>1, <1>2, <1>3 DEF Environment, Lifecycle!Next

\* A registration brings an account into being.
LEMMA RegisterMaps ==
    ASSUME Inv, LocksInv, NEW r \in Requests, CommitRegister(r)
    PROVE  Lifecycle!Next
<1> DEFINE u == job[r].user
<1>1. u \in Users /\ account[u] = "unregistered"
    BY DEF CommitRegister, Inv, JobOK, InTransaction, LocksInv, RegisteringNew
<1>2. TokenStatus' = TokenStatus
    BY StatusKept DEF CommitRegister
<1>3. \E s \in {"active", "inactive"} : account' = [account EXCEPT ![u] = s]
    BY DEF CommitRegister
<1> HIDE DEF u
<1>4. Lifecycle!ChangeAccount(u)
    BY <1>1, <1>2, <1>3 DEF CommitRegister, Lifecycle!ChangeAccount
<1> QED
    BY <1>1, <1>4 DEF Lifecycle!Next

\* Publishing a token issues it, and spends the one it is exchanged for.
LEMMA IssueMaps ==
    ASSUME Inv, NEW r \in Requests, CommitIssue(r)
    PROVE  Lifecycle!Next
<1> DEFINE u == job[r].user
           parent == job[r].tok
<1>1. PICK n \in Fresh : IssueWrites(r, n)
    BY IssueFacts
<1>2. /\ n \in Ids /\ u \in Users /\ parent \in Ids \cup {None} /\ n # parent
      /\ account[u] = "active" /\ UNCHANGED <<clock, account>>
    BY <1>1, NoneAssumption DEF CommitIssue, IssueWrites, Fresh, Inv, JobOK, InTransaction, IssuingToActive,
       TypeOK, RequestsTypeOK, Job
<1>3. TokenStatus[n] = "unused"
    BY <1>1, <1>2, StatusIs DEF IssueWrites
<1>4. parent # None => parent \in Lifecycle!Live(u)
    BY <1>1, <1>2, StatusIs DEF IssueWrites, Lifecycle!Live
<1>5. ASSUME NEW i \in Ids
      PROVE  TokenStatus'[i] = IF i = n THEN "live" ELSE IF i = parent THEN "spent" ELSE TokenStatus[i]
  <2>1. TokenStatus'[i] = IF token'[i] = None THEN "unused"
                          ELSE IF session'[i] = None THEN "spent"
                          ELSE IF session'[i].revoked THEN "spent" ELSE "live"
    BY DEF TokenStatus, Spent
  <2>2. CASE i = n
    BY <1>1, <2>1, <2>2 DEF IssueWrites
  <2>3. CASE i # n /\ i = parent
    BY <1>1, <2>1, <2>3, NoneAssumption DEF IssueWrites
  <2>4. CASE i \notin {n, parent}
    BY <1>1, <2>1, <2>4, StatusIs DEF IssueWrites
  <2> QED
    BY <2>2, <2>3, <2>4
<1>6. TokenStatus' = [i \in Ids |-> IF i = n THEN "live"
                                    ELSE IF i = parent THEN "spent" ELSE TokenStatus[i]]
    BY <1>5 DEF TokenStatus
<1>7. /\ token'[n].sub = u /\ token'[n].parent = parent
      /\ \A i \in Ids \ {n} : token'[i] = token[i]
    BY <1>1 DEF IssueWrites
<1> HIDE DEF u, parent
<1>8. Lifecycle!Issue(u, n, parent)
    BY <1>2, <1>3, <1>4, <1>6, <1>7 DEF Lifecycle!Issue
<1> QED
    BY <1>2, <1>8 DEF Lifecycle!Next

\* A verdict retires live tokens of the one user whose rows the handler holds.
LEMMA VerdictMaps ==
    ASSUME Inv, LocksInv, NEW r \in Requests, CommitVerdict(r)
    PROVE  Lifecycle!Next
<1> DEFINE u == job[r].user
           S == LockedBy(r) \cap Lifecycle!Live(u)
<1>1. u \in Users /\ UNCHANGED <<clock, account, token>>
    BY DEF CommitVerdict, Inv, JobOK, InTransaction
<1>2. S \in SUBSET Ids /\ S \subseteq Lifecycle!Live(u)
    BY DEF LockedBy
<1>3. ASSUME NEW i \in Ids PROVE TokenStatus'[i] = IF i \in S THEN "spent" ELSE TokenStatus[i]
  <2>1. TokenStatus'[i] = IF token'[i] = None THEN "unused"
                          ELSE IF session'[i] = None THEN "spent"
                          ELSE IF session'[i].revoked THEN "spent" ELSE "live"
    BY DEF TokenStatus, Spent
  <2>2. CASE rowLock[i] # r
    BY <1>1, <2>1, <2>2, VerdictFacts, StatusIs DEF LockedBy
  <2>3. CASE rowLock[i] = r
    <3>1. i \in LockedBy(r) /\ token[i] # None /\ token[i].sub = u /\ session[i] # None
      BY <2>3, NoneAssumption DEF LockedBy, LocksInv, UserFirst, Inv, LockedStored
    <3>2. i \in S <=> TokenStatus[i] = "live"
      BY <3>1 DEF Lifecycle!Live
    <3>3. TokenStatus'[i] = "spent"
      BY <1>1, <2>1, <2>3, <3>1, VerdictFacts
    <3> QED
      BY <3>1, <3>2, <3>3, StatusIs
  <2> QED
    BY <2>2, <2>3
<1> HIDE DEF u, S
<1>4. Lifecycle!Retire(u, S)
    BY <1>1, <1>2, <1>3, SpendIs DEF Lifecycle!Retire
<1> QED
    BY <1>1, <1>2, <1>4 DEF Lifecycle!Next

\* A batch of the purge forgets what was still live of it.
LEMMA BatchMaps ==
    ASSUME Inv, DatesInv, PurgeInv, NEW w \in Workers, CommitBatch(w)
    PROVE  Lifecycle!Next
<1> DEFINE S == {i \in picked[w] : TokenStatus[i] = "live"}
<1>1. UNCHANGED <<clock, account, token>> /\ wpc[w] = "cascade"
    BY DEF CommitBatch
<1>2. picked[w] \subseteq Ids /\ S \in SUBSET Ids
    BY DEF Inv, TypeOK, WorkersTypeOK
<1>3. ASSUME NEW i \in S PROVE TokenStatus[i] = "live" /\ token[i].exp + Retention < clock
  <2>1. /\ token[i] # None /\ token[i].exp < run[w].cutoff
        /\ run[w].cutoff <= clock - Retention
    BY <1>1 DEF PurgeInv, PurgeExpired
  <2>2. token[i].exp \in Nat /\ clock \in Nat /\ run[w].cutoff \in Int /\ Retention \in Nat
    BY <1>2, <2>1, TimeAssumption DEF Inv, TypeOK, TablesTypeOK, WorkersTypeOK, Claims, Run
  <2> QED
    BY <2>1, <2>2
<1>4. ASSUME NEW i \in Ids PROVE TokenStatus'[i] = IF i \in S THEN "spent" ELSE TokenStatus[i]
  <2>1. TokenStatus'[i] = IF token'[i] = None THEN "unused"
                          ELSE IF session'[i] = None THEN "spent"
                          ELSE IF session'[i].revoked THEN "spent" ELSE "live"
    BY DEF TokenStatus, Spent
  <2>2. CASE i \in picked[w]
    BY <1>1, <2>1, <2>2, BatchFacts, StatusIs DEF PurgeInv, Inv, RowOfToken, Stored
  <2>3. CASE i \notin picked[w]
    BY <1>1, <2>1, <2>3, BatchFacts, StatusIs DEF PurgeInv
  <2> QED
    BY <2>2, <2>3
<1> HIDE DEF S
<1>5. Lifecycle!Forget(S)
    BY <1>1, <1>2, <1>3, <1>4, SpendIs DEF Lifecycle!Forget
<1> QED
    BY <1>2, <1>5 DEF Lifecycle!Next

\* Every step of the system is a step of the lifecycle, or changes nothing of it.
LEMMA StepMaps ==
    ASSUME Inv, ChainInv, [Next]_vars
    PROVE  [Lifecycle!Next]_(Lifecycle!lifecycleVars)
<1> USE DEF ChainInv
<1>1. ASSUME UNCHANGED <<clock, account, token, session>>
      PROVE  UNCHANGED Lifecycle!lifecycleVars
    BY <1>1, StatusKept DEF Lifecycle!lifecycleVars
<1>2. CASE Environment
    BY <1>2, EnvironmentMaps
<1>3. ASSUME NEW r \in Requests, RequestStep(r), UNCHANGED workerVars
      PROVE  [Lifecycle!Next]_(Lifecycle!lifecycleVars)
  <2>1. CASE CommitRegister(r) \/ CommitIssue(r) \/ CommitVerdict(r)
    BY <2>1, RegisterMaps, IssueMaps, VerdictMaps
  <2>2. CASE Rollback(r)
    BY <1>1, <2>2 DEF Rollback
  <2> QED
    BY <1>1, <1>3, <2>1, <2>2, MoveEffect DEF RequestStep, Proceed
<1>4. ASSUME NEW w \in Workers, WorkerStep(w)
      PROVE  [Lifecycle!Next]_(Lifecycle!lifecycleVars)
  <2>1. CASE session' # session
    BY <1>4, <2>1, DeletionCommits, BatchMaps
  <2>2. CASE session' = session
    BY <1>1, <1>4, <2>2, WorkerFacts DEF WorkerEffect
  <2> QED
    BY <2>1, <2>2
<1>5. CASE UNCHANGED vars
    BY <1>1, <1>5 DEF vars, tableVars
<1> QED
    BY <1>2, <1>3, <1>4, <1>5 DEF Next

\* register, login, refresh, logout and the purge implement the lifecycle of a
\* refresh token: issued to an active account, exchanged for one successor,
\* retired with tokens of the same user only, forgotten only out of the window.
THEOREM LifecycleImplemented == Spec => ImplementsLifecycle
<1>1. Init => Lifecycle!Init
    BY DEF Init, TablesInit, Lifecycle!Init, TokenStatus
<1> QED
    BY <1>1, StepMaps, Invariance, ChainInvariance, PTL DEF Spec, ImplementsLifecycle, Lifecycle!Spec
=============================================================================
