------------------------------ MODULE AuthProofs ------------------------------
(***************************************************************************)
(* Safety of AuthSystem for every number of users, sessions, handlers and  *)
(* workers, and every lifetime, leeway, retention and batch size.          *)
(***************************************************************************)
EXTENDS AuthInvariant, TLAPS

\* The initial state satisfies the invariant.
LEMMA InitInv == Init => Inv
<1> SUFFICES ASSUME Init PROVE Inv
    OBVIOUS
<1> USE DEF Init, TablesInit, RequestsInit, WorkersInit
<1>1. TypeOK
    BY NoneAssumption, TimeAssumption, PurgeAssumption
    DEF TypeOK, TablesTypeOK, RequestsTypeOK, WorkersTypeOK, AccountState, Procs,
        Kinds, Outcomes, Points, Job, NoJob, WorkerPoints, Run, NoRun
<1>2. /\ JobOK /\ UserLocked /\ IssuingToActive /\ RotatingUnspent /\ ReuseFrontier
    BY DEF JobOK, InTransaction, UserLocked, HoldsUser, IssuingToActive,
           RotatingUnspent, ReuseFrontier, Revoking
<1>3. /\ RowOfToken /\ LockedStored /\ PickedLocked /\ ParentSpent /\ OneSuccessor
    BY DEF RowOfToken, LockedStored, PickedLocked, ParentSpent, OneSuccessor,
           Stored, Issued
<1> QED
    BY <1>1, <1>2, <1>3 DEF Inv

\* Time passes, an operator edits users: an account cannot be switched off or
\* removed while a handler holds it, nor removed while one of its rows is held.
LEMMA EnvironmentInv ==
    ASSUME Inv, Environment, UNCHANGED <<requestVars, workerVars>>
    PROVE  Inv'
<1> USE DEF Inv, requestVars, workerVars
<1>1. CASE Tick
  <2>1. TypeOK'
    BY <1>1, TimeAssumption DEF Tick, TypeOK, TablesTypeOK, RequestsTypeOK, WorkersTypeOK, Run, Job
  <2> QED
    BY <1>1, <2>1 DEF Tick, JobOK, InTransaction, UserLocked, HoldsUser, IssuingToActive,
           RotatingUnspent, ReuseFrontier, Revoking, RowOfToken, LockedStored, PickedLocked,
           ParentSpent, OneSuccessor, Stored, Issued, Spent, LockedBy, Unrevoked, SessionsOf
<1>2. ASSUME NEW u \in Users, SetActive(u) PROVE Inv'
  <2>1. TypeOK'
    BY <1>2 DEF SetActive, HasRow, AccountState, TypeOK, TablesTypeOK, RequestsTypeOK, WorkersTypeOK, Run, Job
  <2>2. IssuingToActive'
    BY <1>2, NoneAssumption DEF SetActive, HasRow, IssuingToActive, UserLocked, HoldsUser, TypeOK, TablesTypeOK,
        JobOK, InTransaction
  <2> QED
    BY <1>2, <2>1, <2>2 DEF SetActive, JobOK, InTransaction, UserLocked, HoldsUser,
           RotatingUnspent, ReuseFrontier, Revoking, RowOfToken, LockedStored, PickedLocked,
           ParentSpent, OneSuccessor, Stored, Issued, Spent, LockedBy, Unrevoked, SessionsOf
<1>3. ASSUME NEW u \in Users, RemoveUser(u) PROVE Inv'
  <2> USE <1>3 DEF RemoveUser, SessionsOf, Stored
  <2>1. TypeOK'
    BY DEF HasRow, AccountState, TypeOK, TablesTypeOK, RequestsTypeOK, WorkersTypeOK, Run, Job
  <2>2. IssuingToActive'
    BY NoneAssumption DEF HasRow, IssuingToActive, UserLocked, HoldsUser, TypeOK, TablesTypeOK,
        JobOK, InTransaction
  <2>3. JobOK' /\ UserLocked' /\ PickedLocked'
    BY DEF JobOK, InTransaction, UserLocked, HoldsUser, PickedLocked, LockedBy
  <2>4. RowOfToken' /\ LockedStored' /\ OneSuccessor'
    BY DEF RowOfToken, LockedStored, OneSuccessor, Issued
  <2>5. RotatingUnspent'
    BY NoneAssumption DEF RotatingUnspent, TypeOK, RequestsTypeOK, Job, JobOK, InTransaction
  <2>6. ReuseFrontier'
    BY DEF ReuseFrontier, Revoking, Unrevoked, LockedBy
  <2>7. ParentSpent'
    BY DEF ParentSpent, Issued, Spent, TypeOK, TablesTypeOK, Claims
  <2> QED
    BY <2>1, <2>2, <2>3, <2>4, <2>5, <2>6, <2>7
<1> QED
    BY <1>1, <1>2, <1>3 DEF Environment

-----------------------------------------------------------------------------
(* Requests that start.                                                    *)

\* Nothing is promised yet for a handler that has only read the account or
\* decoded a token; an insert waits for the lock of its address.
LEMMA BeginInv ==
    ASSUME Inv, NEW r \in Requests, Begin(r), UNCHANGED workerVars
    PROVE  Inv'
<1> USE DEF Inv, workerVars, tableVars, Goto, Decide
<1>1. ASSUME NEW u \in Users, Register(r, u) PROVE Inv'
  <2> USE <1>1 DEF Register, AcquireUser, NoJob
  <2>1. TypeOK'
    BY DEF TypeOK, TablesTypeOK, RequestsTypeOK, WorkersTypeOK, Run, Procs, Kinds, Outcomes, Points, Job
  <2>2. JobOK'
    BY NoneAssumption DEF JobOK, InTransaction, TypeOK, RequestsTypeOK
  <2>3. UserLocked' /\ IssuingToActive'
    BY NoneAssumption DEF UserLocked, HoldsUser, IssuingToActive, TypeOK, TablesTypeOK, RequestsTypeOK
  <2>4. RotatingUnspent' /\ ReuseFrontier'
    BY DEF RotatingUnspent, ReuseFrontier, Revoking, Unrevoked, SessionsOf, Stored, LockedBy,
           TypeOK, RequestsTypeOK
  <2>5. RowOfToken' /\ LockedStored' /\ PickedLocked' /\ ParentSpent' /\ OneSuccessor'
    BY DEF RowOfToken, LockedStored, PickedLocked, ParentSpent, OneSuccessor, Stored, Issued, Spent, LockedBy
  <2> QED
    BY <2>1, <2>2, <2>3, <2>4, <2>5
<1>2. ASSUME NEW kind \in Kinds, NEW u \in Users, NEW i \in Ids \cup {None}, NEW late \in BOOLEAN,
             Receive(r, kind, u, i, late),
             kind = "login" <=> i = None,
             i # None => token[i] # None /\ token[i].sub = u
      PROVE  Inv'
  <2> USE <1>2 DEF Receive
  <2>1. TypeOK'
    BY DEF TypeOK, TablesTypeOK, RequestsTypeOK, WorkersTypeOK, Run, Procs, Points, Job
  <2>2. JobOK'
    BY NoneAssumption DEF JobOK, InTransaction, TypeOK, RequestsTypeOK
  <2>3. UserLocked' /\ IssuingToActive' /\ RotatingUnspent'
    BY DEF UserLocked, HoldsUser, IssuingToActive, RotatingUnspent, TypeOK, RequestsTypeOK
  <2>4. ReuseFrontier'
    BY DEF ReuseFrontier, Revoking, Unrevoked, SessionsOf, Stored, LockedBy,
           TypeOK, RequestsTypeOK
  <2>5. RowOfToken' /\ LockedStored' /\ PickedLocked' /\ ParentSpent' /\ OneSuccessor'
    BY DEF RowOfToken, LockedStored, PickedLocked, ParentSpent, OneSuccessor, Stored, Issued, Spent, LockedBy
  <2> QED
    BY <2>1, <2>2, <2>3, <2>4, <2>5
<1>3. ASSUME NEW u \in Users, BeginLogin(r, u) PROVE Inv'
    BY <1>2, <1>3 DEF BeginLogin, Kinds
<1>4. ASSUME NEW i \in Ids, BeginRefresh(r, i) \/ BeginLogout(r, i) PROVE Inv'
  <2>1. token[i] # None /\ token[i].sub \in Users
    BY <1>4 DEF BeginRefresh, BeginLogout, TypeOK, TablesTypeOK, Claims
  <2>2. i # None
    BY NoneAssumption
  <2>3. DecodedLate(i) \in BOOLEAN
    BY DEF DecodedLate
  <2>4. CASE BeginRefresh(r, i)
    BY <1>2, <2>1, <2>2, <2>3, <2>4 DEF BeginRefresh, Kinds
  <2>5. CASE BeginLogout(r, i)
    BY <1>2, <2>1, <2>2, <2>3, <2>5 DEF BeginLogout, Kinds
  <2> QED
    BY <1>4, <2>4, <2>5
<1> QED
    BY <1>1, <1>3, <1>4 DEF Begin

-----------------------------------------------------------------------------
(* Lock acquisitions.                                                      *)

\* Under the user lock the account is re-read, under the row lock revoked_at:
\* this is where a handler comes to know what it commits on.
LEMMA AcquireInv ==
    ASSUME Inv, NEW r \in Requests, Acquire(r), UNCHANGED workerVars
    PROVE  Inv'
<1> USE DEF Inv, workerVars, Goto, Decide
<1>1. CASE LockUserForLogin(r)
  <2> USE <1>1 DEF LockUserForLogin, AcquireUser, IssueVerdict
  <2>1. job[r].user \in Users /\ job[r].tok = None
    BY DEF JobOK, InTransaction
  <2>2. TypeOK'
    BY <2>1 DEF TypeOK, TablesTypeOK, RequestsTypeOK, WorkersTypeOK, Run, Procs, Outcomes, Points, Job
  <2>3. JobOK'
    BY <2>1 DEF JobOK, InTransaction, TypeOK, RequestsTypeOK
  <2>4. UserLocked' /\ IssuingToActive'
    BY <2>1, NoneAssumption DEF UserLocked, HoldsUser, IssuingToActive, TypeOK, TablesTypeOK, RequestsTypeOK
  <2>5. RotatingUnspent'
    BY <2>1 DEF RotatingUnspent, TypeOK, RequestsTypeOK
  <2>6. ReuseFrontier'
    BY DEF ReuseFrontier, Revoking, Unrevoked, SessionsOf, Stored, LockedBy, TypeOK, RequestsTypeOK
  <2>7. RowOfToken' /\ LockedStored' /\ PickedLocked' /\ ParentSpent' /\ OneSuccessor'
    BY DEF RowOfToken, LockedStored, PickedLocked, ParentSpent, OneSuccessor, Stored, Issued, Spent, LockedBy
  <2> QED
    BY <2>2, <2>3, <2>4, <2>5, <2>6, <2>7
<1>2. CASE LockUserForToken(r)
  <2> USE <1>2 DEF LockUserForToken, AcquireUser
  <2>1. job[r].user \in Users /\ job[r].tok \in Ids
    BY DEF JobOK, InTransaction
  <2>2. TypeOK'
    BY <2>1 DEF TypeOK, TablesTypeOK, RequestsTypeOK, WorkersTypeOK, Run, Procs, Outcomes, Points, Job
  <2>3. JobOK'
    BY <2>1 DEF JobOK, InTransaction, TypeOK, RequestsTypeOK
  <2>4. UserLocked' /\ IssuingToActive' /\ RotatingUnspent'
    BY <2>1, NoneAssumption DEF UserLocked, HoldsUser, IssuingToActive, RotatingUnspent,
       TypeOK, TablesTypeOK, RequestsTypeOK
  <2>5. ReuseFrontier'
    BY DEF ReuseFrontier, Revoking, Unrevoked, SessionsOf, Stored, LockedBy, TypeOK, RequestsTypeOK
  <2>6. RowOfToken' /\ LockedStored' /\ PickedLocked' /\ ParentSpent' /\ OneSuccessor'
    BY DEF RowOfToken, LockedStored, PickedLocked, ParentSpent, OneSuccessor, Stored, Issued, Spent, LockedBy
  <2> QED
    BY <2>2, <2>3, <2>4, <2>5, <2>6
<1>3. CASE LockSession(r)
  <2> DEFINE i == job[r].tok
  <2> USE <1>3 DEF LockSession, AcquireRow
  <2>1. /\ i \in Ids /\ token[i] # None /\ token[i].sub = job[r].user
        /\ job[r].user \in Users /\ session[i].user = job[r].user
    BY DEF JobOK, InTransaction, RowOfToken, Stored
  <2>2. outcome'[r] = "ISSUED" => account[job[r].user] = "active" /\ ~session[i].revoked
    BY <2>1 DEF IssueVerdict, TypeOK, RequestsTypeOK
  <2>3. pc'[r] \in {"commit", "revoke"} /\ outcome'[r] \in Outcomes
    BY DEF IssueVerdict, Outcomes, TypeOK, RequestsTypeOK
  <2>4. /\ pc'[r] = "commit" => outcome'[r] # "TOKEN_REVOKED"
        /\ pc'[r] = "revoke" => /\ outcome'[r] = "TOKEN_REVOKED"
                                /\ todo'[r] = Unrevoked(job[r].user)
    BY <2>1 DEF IssueVerdict, TypeOK, RequestsTypeOK
  <2>5. /\ pc' = [pc EXCEPT ![r] = pc'[r]]
        /\ outcome' = [outcome EXCEPT ![r] = outcome'[r]]
        /\ todo' = [todo EXCEPT ![r] = todo'[r]]
        /\ todo'[r] \in SUBSET Ids
    BY DEF TypeOK, RequestsTypeOK, Unrevoked, SessionsOf, Stored
  <2>6. /\ pc[r] = "session" /\ session[i] # None
        /\ rowLock[i] = None /\ rowLock' = [rowLock EXCEPT ![i] = r]
        /\ now' = [now EXCEPT ![r] = clock]
        /\ UNCHANGED <<clock, account, token, session, userLock, job>>
    OBVIOUS
  <2> HIDE <1>3 DEF LockSession, AcquireRow, i
  <2>7. TypeOK'
    <3>1. TablesTypeOK'
      BY <2>1, <2>6 DEF TypeOK, TablesTypeOK, Procs
    <3>2. RequestsTypeOK'
      BY <2>3, <2>5, <2>6 DEF TypeOK, TablesTypeOK, RequestsTypeOK, Points
    <3> QED
      BY <3>1, <3>2 DEF TypeOK, WorkersTypeOK, Run
  <2>8. JobOK'
    BY <2>1, <2>3, <2>5, <2>6 DEF JobOK, InTransaction, TypeOK, RequestsTypeOK, i
  <2>9. UserLocked' /\ IssuingToActive'
    BY <2>1, <2>2, <2>3, <2>5, <2>6 DEF UserLocked, HoldsUser, IssuingToActive, TypeOK, RequestsTypeOK
  <2>10. RotatingUnspent'
    BY <2>1, <2>2, <2>3, <2>5, <2>6, NoneAssumption
    DEF RotatingUnspent, TypeOK, RequestsTypeOK, TablesTypeOK, Job, i
  <2>11. ReuseFrontier'
    BY <2>1, <2>3, <2>4, <2>5, <2>6, NoneAssumption
    DEF ReuseFrontier, Revoking, Unrevoked, SessionsOf, Stored, LockedBy, TypeOK, TablesTypeOK, RequestsTypeOK
  <2>12. RowOfToken' /\ LockedStored' /\ ParentSpent' /\ OneSuccessor'
    BY <2>6 DEF RowOfToken, LockedStored, ParentSpent, OneSuccessor, Stored, Issued, Spent,
       TypeOK, TablesTypeOK
  <2>13. PickedLocked'
    BY <2>6, NoneAssumption DEF PickedLocked, LockedBy, TypeOK, TablesTypeOK
  <2> QED
    BY <2>7, <2>8, <2>9, <2>10, <2>11, <2>12, <2>13
<1>4. ASSUME NEW i \in Ids, RevokeRow(r, i) PROVE Inv'
  <2> USE <1>4 DEF RevokeRow, AcquireRow
  <2>1. TypeOK'
    BY DEF TypeOK, TablesTypeOK, RequestsTypeOK, WorkersTypeOK, Run, Procs, Job
  <2>2. JobOK' /\ UserLocked' /\ IssuingToActive'
    BY DEF JobOK, InTransaction, UserLocked, HoldsUser, IssuingToActive
  <2>3. RotatingUnspent'
    BY NoneAssumption DEF RotatingUnspent, TypeOK, TablesTypeOK, RequestsTypeOK, Job
  <2>4. ReuseFrontier'
    BY NoneAssumption DEF ReuseFrontier, Revoking, Unrevoked, SessionsOf, Stored, LockedBy,
       TypeOK, TablesTypeOK, RequestsTypeOK
  <2>5. RowOfToken' /\ LockedStored' /\ ParentSpent' /\ OneSuccessor'
    BY DEF RowOfToken, LockedStored, ParentSpent, OneSuccessor, Stored, Issued, Spent, TypeOK, TablesTypeOK
  <2>6. PickedLocked'
    BY NoneAssumption DEF PickedLocked, LockedBy, TypeOK, TablesTypeOK
  <2> QED
    BY <2>1, <2>2, <2>3, <2>4, <2>5, <2>6
<1> QED
    BY <1>1, <1>2, <1>3, <1>4 DEF Acquire

-----------------------------------------------------------------------------
(* The end of a transaction.                                               *)

\* Steps that move a handler on and touch neither tables nor locks.
LEMMA MoveInv ==
    ASSUME Inv, NEW r \in Requests,
           UserGone(r) \/ SessionGone(r) \/ RevokeDone(r) \/ Failed(r),
           UNCHANGED workerVars
    PROVE  Inv'
<1> USE DEF Inv, workerVars, tableVars, Goto, Decide
<1>1. /\ pc[r] \in {"user", "session", "revoke", "failed"}
      /\ pc'[r] \in {"commit", "idle"}
      /\ pc[r] = "failed" => pc'[r] = "idle"
      /\ pc' = [pc EXCEPT ![r] = pc'[r]]
      /\ outcome' = [outcome EXCEPT ![r] = outcome'[r]]
      /\ outcome'[r] \in Outcomes \ {"ISSUED"} \/ outcome' = outcome
      /\ UNCHANGED <<clock, account, token, session, userLock, rowLock, job, now, todo>>
    BY DEF UserGone, SessionGone, RevokeDone, Failed, Outcomes, TypeOK, RequestsTypeOK
<1>2. pc'[r] = "commit" =>
        \/ outcome'[r] \notin {"ISSUED", "TOKEN_REVOKED"}
        \/ pc[r] = "revoke" /\ outcome'[r] = "TOKEN_REVOKED" /\ todo[r] = {}
    BY DEF UserGone, SessionGone, RevokeDone, Failed, ReuseFrontier, Revoking, TypeOK, RequestsTypeOK
<1>3. TypeOK'
  <2>1. pc' \in [Requests -> Points] /\ outcome' \in [Requests -> Outcomes]
    BY <1>1 DEF TypeOK, RequestsTypeOK, Points
  <2>2. TablesTypeOK' /\ WorkersTypeOK'
    BY <1>1 DEF TypeOK, TablesTypeOK, WorkersTypeOK
  <2> QED
    BY <1>1, <2>1, <2>2 DEF TypeOK, RequestsTypeOK
<1>4. JobOK' /\ UserLocked'
    BY <1>1, <1>2 DEF JobOK, InTransaction, UserLocked, HoldsUser, TypeOK, RequestsTypeOK
<1>5. IssuingToActive' /\ RotatingUnspent'
    BY <1>1, <1>2 DEF IssuingToActive, RotatingUnspent, TypeOK, RequestsTypeOK
<1>6. ReuseFrontier'
    BY <1>1, <1>2 DEF ReuseFrontier, Revoking, Unrevoked, SessionsOf, Stored, LockedBy, TypeOK, RequestsTypeOK
<1>7. RowOfToken' /\ LockedStored' /\ PickedLocked' /\ ParentSpent' /\ OneSuccessor'
    BY <1>1 DEF RowOfToken, LockedStored, PickedLocked, ParentSpent, OneSuccessor, Stored, Issued, Spent, LockedBy
<1> QED
    BY <1>3, <1>4, <1>5, <1>6, <1>7

\* What every end of a transaction leaves of the locks and of the handler.
LEMMA FinishFacts ==
    ASSUME Inv, NEW r \in Requests, NEW point \in {"idle", "failed"}, Finish(r, point)
    PROVE  /\ RequestsTypeOK'
           /\ userLock' \in [Users -> Requests \cup {None}]
           /\ rowLock' \in [Ids -> Procs \cup {None}]
           /\ \A u \in Users : userLock[u] # r => userLock'[u] = userLock[u]
           /\ \A i \in Ids : rowLock[i] # r => rowLock'[i] = rowLock[i]
           /\ \A i \in Ids : rowLock[i] = r => rowLock'[i] = None
           /\ ~InTransaction(r)'
           /\ \A q \in Requests \ {r} : /\ pc'[q] = pc[q] /\ job'[q] = job[q]
                                       /\ outcome'[q] = outcome[q] /\ todo'[q] = todo[q]
<1> USE DEF Inv, TypeOK, TablesTypeOK, RequestsTypeOK, Finish, ReleaseLocks, ReleaseRows, Goto
<1>1. RequestsTypeOK'
    BY TimeAssumption DEF NoJob, Job, Kinds, Outcomes, Points
<1> QED
    BY <1>1 DEF InTransaction

\* When the tables do not lose or reopen a row that another transaction holds,
\* the end of one transaction takes nothing from the others.
LEMMA OthersKept ==
    ASSUME Inv, NEW r \in Requests, NEW point \in {"idle", "failed"}, Finish(r, point),
           UNCHANGED workerVars,
           \A i \in Ids : rowLock[i] \notin {None, r} => session'[i] = session[i],
           \A i \in Ids : token[i] # None => token'[i] = token[i],
           \A u \in Users : account[u] = "active" => account'[u] = "active",
           \A u \in Users : Unrevoked(u)' \subseteq Unrevoked(u) \/ userLock[u] = r
    PROVE  /\ JobOK' /\ LockedStored' /\ PickedLocked' /\ UserLocked'
           /\ IssuingToActive' /\ RotatingUnspent' /\ ReuseFrontier'
<1> USE FinishFacts DEF Inv
<1>1. JobOK'
    BY DEF JobOK, InTransaction
<1>2. LockedStored' /\ PickedLocked'
    BY NoneAssumption, ProcsAssumption
    DEF LockedStored, PickedLocked, LockedBy, workerVars, TypeOK, TablesTypeOK, WorkersTypeOK
<1>3. UserLocked' /\ IssuingToActive'
    BY DEF UserLocked, IssuingToActive, HoldsUser, InTransaction, JobOK
<1>4. RotatingUnspent'
  <2> SUFFICES ASSUME NEW q \in Requests,
                      pc'[q] = "commit", outcome'[q] = "ISSUED", job'[q].tok # None
               PROVE  rowLock'[job'[q].tok] = q /\ ~session'[job'[q].tok].revoked
    BY DEF RotatingUnspent
  <2>1. q # r /\ pc'[q] = pc[q] /\ job'[q] = job[q] /\ outcome'[q] = outcome[q]
    BY DEF InTransaction
  <2>2. job[q].tok \in Ids
    BY <2>1 DEF TypeOK, RequestsTypeOK, Job
  <2>3. rowLock[job[q].tok] = q /\ ~session[job[q].tok].revoked
    BY <2>1 DEF RotatingUnspent
  <2> QED
    BY <2>1, <2>2, <2>3, NoneAssumption
<1>5. ReuseFrontier'
  <2> SUFFICES ASSUME NEW q \in Requests, NEW u, u = job'[q].user, Revoking(q)'
               PROVE  /\ Unrevoked(u)' \subseteq todo'[q] \cup LockedBy(q)'
                      /\ pc'[q] = "revoke" => outcome'[q] = "TOKEN_REVOKED"
                      /\ pc'[q] = "commit" => todo'[q] = {}
    BY DEF ReuseFrontier
  <2>1. /\ q # r /\ Revoking(q) /\ u = job[q].user
        /\ pc'[q] = pc[q] /\ outcome'[q] = outcome[q] /\ todo'[q] = todo[q]
    BY DEF Revoking, InTransaction
  <2>2. userLock[u] = q /\ u \in Users
    BY <2>1 DEF UserLocked, HoldsUser, Revoking, JobOK, InTransaction
  <2>3. Unrevoked(u)' \subseteq Unrevoked(u)
    BY <2>1, <2>2
  <2>4. LockedBy(q) \subseteq LockedBy(q)'
    BY <2>1 DEF LockedBy
  <2> QED
    BY <2>1, <2>3, <2>4 DEF ReuseFrontier
<1> QED
    BY <1>1, <1>2, <1>3, <1>4, <1>5

\* The typing conjuncts a transaction's end re-establishes, when the tables it
\* writes are well typed.
LEMMA FinishTypeOK ==
    ASSUME Inv, NEW r \in Requests, NEW point \in {"idle", "failed"}, Finish(r, point),
           UNCHANGED <<clock, workerVars>>,
           account' \in [Users -> AccountState],
           token' \in [Ids -> Claims \cup {None}],
           session' \in [Ids -> Row \cup {None}]
    PROVE  TypeOK'
<1>1. /\ clock' \in 0..MaxTime /\ WorkersTypeOK'
    BY DEF Inv, TypeOK, TablesTypeOK, WorkersTypeOK, workerVars, Run
<1> QED
    BY <1>1, FinishFacts DEF TypeOK, TablesTypeOK

\* Ends that issue nothing: a registration, a committed verdict, a rollback.
\* Rows only go from usable to revoked, and only those the handler holds.
LEMMA EndInv ==
    ASSUME Inv, NEW r \in Requests, CommitRegister(r) \/ CommitVerdict(r) \/ Rollback(r),
           UNCHANGED workerVars
    PROVE  Inv'
<1> DEFINE point == IF Rollback(r) THEN "failed" ELSE "idle"
<1>1. /\ UNCHANGED <<clock, token>>
      /\ point \in {"idle", "failed"} /\ Finish(r, point)
    BY DEF CommitRegister, CommitVerdict, Rollback
<1>2. \/ account' = account
      \/ job[r].user \in Users /\ account' = [account EXCEPT ![job[r].user] = "active"]
    BY DEF CommitRegister, CommitVerdict, Rollback, Inv, JobOK, InTransaction
<1>3. \/ session' = session
      \/ session' = WithRevoked(LockedBy(r))
    BY DEF CommitRegister, CommitVerdict, Rollback
<1>4. /\ account' \in [Users -> AccountState]
      /\ \A u \in Users : account[u] = "active" => account'[u] = "active"
    BY <1>2 DEF Inv, TypeOK, TablesTypeOK, AccountState
<1>5. /\ session' \in [Ids -> Row \cup {None}]
      /\ \A i \in Ids : session'[i] = None <=> session[i] = None
      /\ \A i \in Ids : rowLock[i] # r => session'[i] = session[i]
      /\ \A i \in Stored : session'[i].user = session[i].user
      /\ \A i \in Stored : session[i].revoked => session'[i].revoked
  <2>1. \A i \in LockedBy(r) : session[i] \in Row /\ r # None
    BY NoneAssumption DEF LockedBy, Inv, LockedStored, TypeOK, TablesTypeOK
  <2>2. CASE session' = session
    BY <2>2 DEF Inv, TypeOK, TablesTypeOK
  <2>3. CASE session' = WithRevoked(LockedBy(r))
    BY <2>1, <2>3, NoneIsNoRecord, ZenonT(60) DEF WithRevoked, LockedBy, Stored, Row, Inv, TypeOK, TablesTypeOK
  <2> QED
    BY <1>3, <2>2, <2>3
<1>6. \A u \in Users : Unrevoked(u)' \subseteq Unrevoked(u)
    BY <1>5 DEF Unrevoked, SessionsOf, Stored
<1> HIDE DEF point
<1>7. TypeOK'
    BY <1>1, <1>4, <1>5, FinishTypeOK DEF Inv, TypeOK, TablesTypeOK
<1>8. /\ JobOK' /\ LockedStored' /\ PickedLocked' /\ UserLocked'
      /\ IssuingToActive' /\ RotatingUnspent' /\ ReuseFrontier'
    BY <1>1, <1>4, <1>5, <1>6, OthersKept
<1>9. RowOfToken' /\ OneSuccessor'
    BY <1>1, <1>5 DEF Inv, RowOfToken, OneSuccessor, Stored, Issued
<1>10. ParentSpent'
    BY <1>1, <1>5 DEF Inv, ParentSpent, Issued, Stored, Spent, TypeOK, TablesTypeOK, Claims
<1> QED
    BY <1>7, <1>8, <1>9, <1>10 DEF Inv

\* Issuing a token: the new row belongs to the user the handler holds, and the
\* row rotated into it was usable until now, so nothing had succeeded it.
LEMMA IssueInv ==
    ASSUME Inv, NEW r \in Requests, CommitIssue(r), UNCHANGED workerVars
    PROVE  Inv'
<1> DEFINE u == job[r].user
           i == job[r].tok
<1>1. PICK n \in Fresh : /\ token' = [token EXCEPT ![n] = NewClaims(r)]
                         /\ session' = Rotated(r, i, n)
    BY DEF CommitIssue
<1>2. /\ pc[r] = "commit" /\ outcome[r] = "ISSUED"
      /\ Finish(r, "idle") /\ UNCHANGED <<clock, account>>
    BY DEF CommitIssue
<1>3. /\ u \in Users /\ userLock[u] = r /\ account[u] = "active"
      /\ i \in Ids \cup {None}
      /\ i # None => /\ rowLock[i] = r /\ ~session[i].revoked
                     /\ session[i] \in Row /\ session[i].user = u
                     /\ token[i] # None /\ token[i].sub = u
  <2>1. u \in Users /\ i \in Ids \cup {None} /\ (i # None => token[i] # None /\ token[i].sub = u)
    BY <1>2 DEF Inv, JobOK, InTransaction, TypeOK, RequestsTypeOK, Job
  <2>2. userLock[u] = r /\ account[u] = "active"
    BY <1>2 DEF Inv, UserLocked, HoldsUser, IssuingToActive
  <2>3. i # None => rowLock[i] = r /\ ~session[i].revoked
    BY <1>2 DEF Inv, RotatingUnspent
  <2>4. i # None => session[i] \in Row /\ session[i].user = u
    BY <2>1, <2>3, NoneAssumption DEF Inv, LockedStored, RowOfToken, Stored, TypeOK, TablesTypeOK
  <2> QED
    BY <2>1, <2>2, <2>3, <2>4
<1>4. /\ n \in Ids /\ n # None /\ n # i /\ token[n] = None /\ session[n] = None /\ rowLock[n] = None
    BY <1>3, NoneAssumption DEF Fresh, Issued, Inv, RowOfToken, Stored, LockedStored
<1>5. /\ NewRow(r) \in Row /\ NewRow(r).user = u
      /\ NewClaims(r) \in Claims /\ NewClaims(r).sub = u /\ NewClaims(r).parent = i
    BY <1>3, TimeAssumption DEF NewRow, NewClaims, Row, Claims, Inv, TypeOK, RequestsTypeOK
<1>6. /\ token' \in [Ids -> Claims \cup {None}]
      /\ token'[n] = NewClaims(r)
      /\ \A j \in Ids \ {n} : token'[j] = token[j]
    BY <1>1, <1>4, <1>5 DEF Inv, TypeOK, TablesTypeOK
<1>7. /\ session' \in [Ids -> Row \cup {None}]
      /\ session'[n] = NewRow(r)
      /\ i # None => /\ session'[i] \in Row /\ session'[i].revoked
                     /\ session'[i].user = u
      /\ \A j \in Ids \ {n, i} : session'[j] = session[j]
  <2> DEFINE rotated == [session[i] EXCEPT !.revoked = TRUE, !.next = n]
  <2>1. i # None => rotated \in Row /\ rotated.revoked /\ rotated.user = u
    BY <1>3, <1>4 DEF Row
  <2>2. session' = [j \in Ids |-> IF j = n THEN NewRow(r) ELSE IF j = i THEN rotated
                                                          ELSE session[j]]
    BY <1>1, <1>4, Zenon DEF Rotated
  <2> HIDE DEF i, rotated
  <2> QED
    BY <1>3, <1>4, <1>5, <2>1, <2>2, NoneAssumption DEF Inv, TypeOK, TablesTypeOK
<1>8. n \notin {None, i} /\ NewRow(r) # None /\ NewClaims(r) # None
      /\ (i # None => session'[i] # None)
    BY <1>4, <1>5, <1>7, NoneIsNoRecord
<1> HIDE DEF u, i
<1>9. TypeOK'
    BY <1>2, <1>6, <1>7, FinishTypeOK DEF Inv, TypeOK, TablesTypeOK
<1>10. \A v \in Users : Unrevoked(v)' \subseteq Unrevoked(v) \/ userLock[v] = r
    BY <1>3, <1>5, <1>7, NoneAssumption DEF Unrevoked, SessionsOf, Stored
<1>11. /\ JobOK' /\ LockedStored' /\ PickedLocked' /\ UserLocked'
       /\ IssuingToActive' /\ RotatingUnspent' /\ ReuseFrontier'
  <2>1. \A j \in Ids : rowLock[j] \notin {None, r} => session'[j] = session[j]
    BY <1>3, <1>4, <1>7, NoneAssumption
  <2>2. \A j \in Ids : token[j] # None => token'[j] = token[j]
    BY <1>4, <1>6
  <2> QED
    BY <1>2, <1>10, <2>1, <2>2, OthersKept
<1>12. RowOfToken'
    BY <1>3, <1>4, <1>5, <1>6, <1>7, <1>8, NoneAssumption DEF Inv, RowOfToken, Stored
<1>13. ParentSpent'
  <2> SUFFICES ASSUME NEW j \in Ids, token'[j] # None, NEW p, p = token'[j].parent, p # None
               PROVE  Spent(p)'
    BY DEF ParentSpent, Issued
  <2>1. CASE j = n
    <3>1. p = i
      BY <1>5, <1>6, <2>1
    <3> QED
      BY <1>3, <1>4, <1>6, <1>7, <3>1, NoneAssumption DEF Spent
  <2>2. CASE j # n
    <3>1. p = token[j].parent /\ p \in Ids /\ Spent(p)
      BY <1>6, <2>2 DEF Inv, ParentSpent, Issued, TypeOK, TablesTypeOK, Claims
    <3>2. p # n /\ token'[p] # None
      BY <1>4, <1>6, <3>1 DEF Spent
    <3> QED
      BY <1>3, <1>7, <3>1, <3>2, NoneAssumption DEF Spent
  <2> QED
    BY <2>1, <2>2
<1>14. OneSuccessor'
  <2>1. ASSUME NEW j \in Issued, token[j].parent = i, i # None PROVE FALSE
    <3>1. Spent(i)
      BY <2>1 DEF Inv, ParentSpent
    <3> QED
      BY <1>3, <2>1, <3>1, NoneIsNoRecord DEF Spent
  <2> QED
    BY <1>4, <1>5, <1>6, <2>1 DEF Inv, OneSuccessor, Issued
<1> QED
    BY <1>9, <1>11, <1>12, <1>13, <1>14 DEF Inv

-----------------------------------------------------------------------------
(* The purge.                                                              *)

\* A job stays one while its batches and attempts are counted within their bounds.
LEMMA RunCounted ==
    ASSUME NEW old \in Run
    PROVE  /\ \A n \in 0..MaxBatches : [old EXCEPT !.batches = n] \in Run
           /\ \A n \in 0..MaxRetries : [old EXCEPT !.attempt = n] \in Run
<1>1. PICK size \in BatchSizes \cup {0}, cutoff \in Int, batches \in 0..MaxBatches, attempt \in 0..MaxRetries :
          old = [size |-> size, cutoff |-> cutoff, batches |-> batches, attempt |-> attempt]
  BY DEF Run
<1>2. \A n : /\ [old EXCEPT !.batches = n] = [size |-> size, cutoff |-> cutoff, batches |-> n, attempt |-> attempt]
             /\ [old EXCEPT !.attempt = n] = [size |-> size, cutoff |-> cutoff, batches |-> batches, attempt |-> n]
  BY <1>1
<1> QED
  BY <1>2 DEF Run

\* A worker step is well typed.  It works on rows it alone holds.
LEMMA WorkerTypeOK ==
    ASSUME Inv, NEW w \in Workers, WorkerStep(w), UNCHANGED requestVars
    PROVE  TypeOK'
<1> USE TimeAssumption, PurgeAssumption
    DEF Inv, requestVars, tableVars, TypeOK, TablesTypeOK, RequestsTypeOK, WorkersTypeOK,
        WorkerGoto, WorkerPoints, Drop, ReleaseRows, AcquireRow, Procs
<1>1. ASSUME NEW size \in BatchSizes, Deliver(w, size) PROVE TypeOK'
    BY <1>1 DEF Deliver, Start, Run, Expired, Stored
<1>2. CASE Redeliver(w)
    BY <1>2 DEF Redeliver, Start, Run, Expired, Stored
<1>3. ASSUME NEW i \in Ids, TryRow(w, i) PROVE TypeOK'
  <2>1. TablesTypeOK' /\ RequestsTypeOK'
    BY <1>3 DEF TryRow
  <2>2. scan' \in [Workers -> SUBSET Ids] /\ picked' \in [Workers -> SUBSET Ids]
    BY <1>3 DEF TryRow
  <2> QED
    BY <1>3, <2>1, <2>2 DEF TryRow, Run
<1>4. CASE DeleteRows(w)
    BY <1>4 DEF DeleteRows, Predecessors, Stored, Run
<1>5. ASSUME NEW j \in Ids, CascadeRow(w, j) PROVE TypeOK'
    BY <1>5 DEF CascadeRow, Run
<1>6. CASE CommitBatch(w)
  <2>1. session' \in [Ids -> Row \cup {None}]
    <3>1. \A j \in LockedBy(w) : session[j] \in Row
      BY NoneAssumption DEF LockedBy, LockedStored
    <3>2. \A j \in LockedBy(w) : [session[j] EXCEPT !.next = None] \in Row
      BY <3>1 DEF Row
    <3>3. \A j \in Ids : Purged(w)[j] \in Row \cup {None}
      BY <3>2 DEF Purged
    <3>4. Purged(w) = [j \in Ids |-> Purged(w)[j]]
      BY DEF Purged
    <3>5. session' = Purged(w)
      BY <1>6 DEF CommitBatch
    <3> QED
      BY <3>3, <3>4, <3>5
  <2>2. run' \in [Workers -> Run]
    <3>1. ASSUME run[w].batches + 1 < MaxBatches
          PROVE  [run[w] EXCEPT !.batches = run[w].batches + 1] \in Run
      <4>1. run[w].batches + 1 \in 0..MaxBatches
        BY <3>1 DEF Run
      <4> QED
        BY <4>1, RunCounted
    <3>2. NoRun \in Run
      BY DEF Run, NoRun
    <3> QED
      BY <1>6, <3>1, <3>2 DEF CommitBatch
  <2>3. TablesTypeOK' /\ RequestsTypeOK'
    BY <1>6, <2>1 DEF CommitBatch
  <2> QED
    BY <1>6, <2>2, <2>3 DEF CommitBatch, Expired, Stored
<1>7. CASE LockTimeout(w)
  <2>1. run' \in [Workers -> Run]
    <3>1. ASSUME run[w].attempt < MaxRetries
          PROVE  [run[w] EXCEPT !.attempt = run[w].attempt + 1] \in Run
      <4>1. run[w].attempt + 1 \in 0..MaxRetries
        BY <3>1 DEF Run
      <4> QED
        BY <4>1, RunCounted
    <3>2. NoRun \in Run
      BY DEF Run, NoRun
    <3> QED
      BY <1>7, <3>1, <3>2 DEF LockTimeout, MayRetry
  <2>2. TablesTypeOK' /\ RequestsTypeOK'
    BY <1>7 DEF LockTimeout, Abort
  <2> QED
    BY <1>7, <2>1, <2>2 DEF LockTimeout, Abort
<1>8. CASE Crash(w)
    BY <1>8 DEF Crash, Abort, Run
<1> QED
    BY <1>1, <1>2, <1>3, <1>4, <1>5, <1>6, <1>7, <1>8 DEF WorkerStep, WorkerAcquire, WorkerProceed

\* What a worker step does to the tables: it takes free rows, gives back its
\* own, deletes or relinks only rows it holds, and never revokes or reopens one.
WorkerEffect(w) ==
    /\ UNCHANGED <<clock, account, token, userLock>>
    /\ \A i \in Ids : rowLock[i] \notin {None, w} =>
            rowLock'[i] = rowLock[i] /\ session'[i] = session[i]
    /\ \A i \in Ids : rowLock'[i] \in {None, w, rowLock[i]}
    /\ \A i \in Ids : rowLock'[i] # None => session'[i] # None
    /\ \A i \in Ids : session'[i] # None =>
            /\ session[i] # None
            /\ session'[i].user = session[i].user
            /\ session'[i].revoked = session[i].revoked
    /\ \A i \in picked'[w] : rowLock'[i] = w
    /\ \A v \in Workers \ {w} : picked'[v] = picked[v]

\* Every step of a worker has that effect.
LEMMA WorkerFacts ==
    ASSUME Inv, NEW w \in Workers, WorkerStep(w)
    PROVE  WorkerEffect(w)
<1> USE NoneAssumption
    DEF Inv, tableVars, TypeOK, TablesTypeOK, WorkersTypeOK, Drop, ReleaseRows, AcquireRow,
        LockedStored, PickedLocked, LockedBy, WorkerEffect
<1>1. ASSUME NEW size \in BatchSizes, Deliver(w, size) PROVE WorkerEffect(w)
    BY <1>1 DEF Deliver, Start
<1>2. CASE Redeliver(w)
    BY <1>2 DEF Redeliver, Start
<1>3. ASSUME NEW i \in Ids, TryRow(w, i) PROVE WorkerEffect(w)
    BY <1>3 DEF TryRow
<1>4. CASE DeleteRows(w)
    BY <1>4 DEF DeleteRows
<1>5. ASSUME NEW j \in Ids, CascadeRow(w, j) PROVE WorkerEffect(w)
    BY <1>5 DEF CascadeRow
<1>6. CASE CommitBatch(w)
  <2>1. /\ UNCHANGED <<clock, account, token, userLock>>
        /\ session' = Purged(w) /\ picked' = Drop(picked, w) /\ ReleaseRows(w)
    BY <1>6 DEF CommitBatch
  <2>2. \A i \in Ids : session[i] \in Row /\ session'[i] # None =>
            session'[i].user = session[i].user /\ session'[i].revoked = session[i].revoked
    BY <2>1 DEF Purged, Row
  <2> QED
    BY <2>1, <2>2 DEF Purged
<1>7. CASE LockTimeout(w)
    BY <1>7 DEF LockTimeout, Abort
<1>8. CASE Crash(w)
    BY <1>8 DEF Crash, Abort
<1> QED
    BY <1>1, <1>2, <1>3, <1>4, <1>5, <1>6, <1>7, <1>8 DEF WorkerStep, WorkerAcquire, WorkerProceed

\* So the purge takes nothing a handler relies on.
LEMMA WorkerInv ==
    ASSUME Inv, NEW w \in Workers, WorkerStep(w), UNCHANGED requestVars
    PROVE  Inv'
<1>1. WorkerEffect(w)
    BY WorkerFacts
<1>2. TypeOK'
    BY WorkerTypeOK
<1> USE <1>1 DEF WorkerEffect, Inv, requestVars
<1>3. JobOK' /\ UserLocked' /\ IssuingToActive'
    BY DEF JobOK, InTransaction, UserLocked, HoldsUser, IssuingToActive
<1>4. RowOfToken' /\ LockedStored' /\ OneSuccessor'
    BY DEF RowOfToken, LockedStored, OneSuccessor, Stored, Issued
<1>5. PickedLocked'
    BY <1>2, NoneAssumption DEF PickedLocked, LockedBy, TypeOK, TablesTypeOK, WorkersTypeOK
<1>6. RotatingUnspent'
    BY NoneAssumption, ProcsAssumption DEF RotatingUnspent, TypeOK, RequestsTypeOK, Job
<1>7. ReuseFrontier'
    BY NoneAssumption, ProcsAssumption
    DEF ReuseFrontier, Revoking, Unrevoked, SessionsOf, Stored, LockedBy
<1>8. ParentSpent'
    BY DEF ParentSpent, Issued, Spent, TypeOK, TablesTypeOK, Claims
<1> QED
    BY <1>2, <1>3, <1>4, <1>5, <1>6, <1>7, <1>8

-----------------------------------------------------------------------------
(* The theorems.                                                           *)

\* Every step of every process preserves the invariant.
LEMMA NextInv == Inv /\ [Next]_vars => Inv'
<1> SUFFICES ASSUME Inv, [Next]_vars PROVE Inv'
    OBVIOUS
<1>1. CASE Environment /\ UNCHANGED <<requestVars, workerVars>>
    BY <1>1, EnvironmentInv
<1>2. ASSUME NEW r \in Requests, RequestStep(r), UNCHANGED workerVars PROVE Inv'
  <2>1. Proceed(r) => \/ UserGone(r) \/ SessionGone(r) \/ RevokeDone(r) \/ Failed(r)
                      \/ CommitRegister(r) \/ CommitVerdict(r) \/ Rollback(r)
                      \/ CommitIssue(r)
    BY DEF Proceed
  <2> QED
    BY <1>2, <2>1, BeginInv, AcquireInv, MoveInv, EndInv, IssueInv DEF RequestStep
<1>3. ASSUME NEW w \in Workers, WorkerStep(w), UNCHANGED requestVars PROVE Inv'
    BY <1>3, WorkerInv
<1>4. CASE UNCHANGED vars
    BY <1>4 DEF vars, tableVars, requestVars, workerVars, Inv, TypeOK, TablesTypeOK,
           RequestsTypeOK, WorkersTypeOK, Run, Job, JobOK, InTransaction, RowOfToken, LockedStored,
           PickedLocked, UserLocked, HoldsUser, IssuingToActive, RotatingUnspent, ReuseFrontier,
           Revoking, Unrevoked, SessionsOf, Stored, LockedBy, ParentSpent, OneSuccessor, Issued, Spent
<1> QED
    BY <1>1, <1>2, <1>3, <1>4 DEF Next

\* What each handler knows and holds at each point of its transaction is true
\* in every reachable state, whatever the other processes do.
THEOREM Invariance == Spec => []Inv
    BY InitInv, NextInv, PTL DEF Spec

\* Every variable keeps its type: no step writes a column of a missing row,
\* takes a lock twice, or runs a counter of the purge over its limit.
THEOREM TypeCorrect == Spec => []TypeOK
<1>1. Inv => TypeOK
    BY DEF Inv
<1> QED
    BY <1>1, Invariance, PTL

\* rotate_refresh_session: a refresh token is exchanged for one successor only.
THEOREM AtMostOneSuccessor == Spec => []OneSuccessor
<1>1. Inv => OneSuccessor
    BY DEF Inv
<1> QED
    BY <1>1, Invariance, PTL

-----------------------------------------------------------------------------
(* Action properties.                                                      *)

\* A transaction ends with an answer only in one of the three commit actions.
LEMMA CommitSteps ==
    ASSUME Inv, [Next]_vars, NEW r \in Requests, Commits(r)
    PROVE  CommitRegister(r) \/ CommitIssue(r) \/ CommitVerdict(r)
<1> USE DEF Commits, Inv, TypeOK, RequestsTypeOK
<1>1. CASE RequestStep(r)
  <2>1. ~Begin(r)
    BY DEF Begin, Register, BeginLogin, BeginRefresh, BeginLogout, Receive
  <2>2. ~Acquire(r)
    BY DEF Acquire, LockUserForLogin, LockUserForToken, LockSession, RevokeRow
  <2>3. ~Rollback(r)
    BY DEF Rollback, Finish, Goto
  <2>4. ~(UserGone(r) \/ SessionGone(r) \/ RevokeDone(r) \/ Failed(r))
    BY DEF UserGone, SessionGone, RevokeDone, Failed
  <2> QED
    BY <1>1, <2>1, <2>2, <2>3, <2>4 DEF RequestStep, Proceed
<1>2. ASSUME NEW q \in Requests \ {r}, RequestStep(q) PROVE pc'[r] = pc[r]
    BY <1>2 DEF RequestStep, Begin, Register, BeginLogin, BeginRefresh, BeginLogout, Receive,
        Acquire, LockUserForLogin, LockUserForToken, LockSession, RevokeRow, Proceed, UserGone,
        SessionGone, RevokeDone, Failed, CommitRegister, CommitIssue, CommitVerdict, Rollback,
        Finish, Goto, Decide
<1>3. ASSUME UNCHANGED pc PROVE FALSE
    BY <1>3
<1> QED
    BY <1>1, <1>2, <1>3 DEF Next, vars, requestVars

\* revoke_refresh_sessions_for_user: the step that commits a detected reuse
\* leaves the user no usable session.  The UPDATE has locked every row that was
\* usable when it started, and the user lock keeps new ones from being issued.
THEOREM ReuseIsContained == Spec => ReuseContained
<1> DEFINE Step == \A r \in Requests, u \in Users :
                        Commits(r) /\ outcome[r] = "TOKEN_REVOKED" /\ job[r].user = u
                        => Unrevoked(u)' = {}
<1>1. ASSUME Inv, [Next]_vars PROVE [Step]_refreshVars
  <2> SUFFICES ASSUME NEW r \in Requests, NEW u \in Users,
                      Commits(r), outcome[r] = "TOKEN_REVOKED", job[r].user = u
               PROVE  Unrevoked(u)' = {}
    OBVIOUS
  <2>1. pc[r] = "commit" /\ session' = WithRevoked(LockedBy(r))
    BY <1>1, CommitSteps DEF CommitRegister, CommitIssue, CommitVerdict
  <2>2. Unrevoked(u) \subseteq LockedBy(r)
    BY <1>1, <2>1 DEF Inv, ReuseFrontier, Revoking
  <2>3. \A i \in LockedBy(r) : session[i] \in Row
    BY <1>1, NoneAssumption DEF Inv, LockedStored, LockedBy, TypeOK, TablesTypeOK
  <2>4. \A i \in LockedBy(r) : session'[i].revoked
    BY <2>1, <2>3 DEF WithRevoked, LockedBy, Row
  <2>5. \A i \in Ids \ LockedBy(r) : session'[i] = session[i]
    BY <2>1 DEF WithRevoked
  <2> QED
    BY <2>2, <2>4, <2>5 DEF Unrevoked, SessionsOf, Stored
<1> QED
    BY <1>1, Invariance, PTL DEF Spec, ReuseContained

\* Only the commit of an issue makes a row, and it leaves the accounts alone.
LEMMA NewRowActive ==
    ASSUME Inv, [Next]_vars, NEW n \in Ids, session[n] = None, session'[n] # None
    PROVE  account[session'[n].user] = "active" /\ account' = account
<1>1. ASSUME Environment PROVE FALSE
  BY <1>1 DEF Environment, Tick, SetActive, RemoveUser, SessionsOf, Stored
<1>2. ASSUME NEW w \in Workers, WorkerStep(w) PROVE FALSE
  BY <1>2, WorkerFacts DEF WorkerEffect
<1>3. ASSUME NEW r \in Requests, RequestStep(r) PROVE CommitIssue(r)
  <2>1. n \notin LockedBy(r)
    BY NoneAssumption DEF LockedBy, Inv, LockedStored
  <2>2. ~CommitVerdict(r)
    BY <2>1 DEF CommitVerdict, WithRevoked
  <2> QED
    BY <1>3, <2>2 DEF RequestStep, Begin, Register, BeginLogin, BeginRefresh, BeginLogout,
        Receive, Acquire, LockUserForLogin, LockUserForToken, LockSession, RevokeRow, Proceed,
        UserGone, SessionGone, RevokeDone, Failed, CommitRegister, Rollback, tableVars
<1>4. ASSUME NEW r \in Requests, CommitIssue(r) PROVE account[session'[n].user] = "active"
  <2>1. PICK m \in Fresh : session' = Rotated(r, job[r].tok, m)
    BY <1>4 DEF CommitIssue
  <2>2. account[job[r].user] = "active"
    BY <1>4 DEF CommitIssue, Inv, IssuingToActive
  <2>3. job[r].tok # n
    BY <1>4, NoneAssumption DEF CommitIssue, Inv, RotatingUnspent, LockedStored
  <2>4. n = m
    BY <2>1, <2>3 DEF Rotated
  <2>5. session'[n] = NewRow(r)
    BY <2>1, <2>3, <2>4, Zenon DEF Rotated
  <2> QED
    BY <2>2, <2>5 DEF NewRow
<1> QED
    BY <1>1, <1>2, <1>3, <1>4 DEF Next, vars, tableVars, CommitIssue

\* issue_token_pair_for_locked_user: a session becomes visible only while its
\* account is active, although the account was read before it was locked.
THEOREM OnlyActiveIssue == Spec => IssuedToActive
<1> DEFINE Step == \A n \in Ids : session[n] = None /\ session'[n] # None
                        => account[session'[n].user] = "active"
<1>1. ASSUME Inv, [Next]_vars PROVE [Step]_refreshVars
    BY <1>1, NewRowActive
<1> QED
    BY <1>1, Invariance, PTL DEF Spec, IssuedToActive

-----------------------------------------------------------------------------
(* A refused or accepted refresh token is spent: the second layer of the   *)
(* safety proof.                                                           *)

\* The operator and the purge.
LEMMA AnswerOthers ==
    ASSUME Inv, AnswerInv,
           \/ Environment /\ UNCHANGED <<requestVars, workerVars>>
           \/ \E w \in Workers : WorkerStep(w) /\ UNCHANGED requestVars
    PROVE  AnswerInv'
<1> USE DEF AnswerInv, requestVars
<1>1. CASE Environment /\ UNCHANGED requestVars
  <2>1. RowOwned'
    <3>1. CASE Tick
      BY <3>1 DEF Tick, RowOwned, HasRow, Stored
    <3>2. ASSUME NEW u \in Users, SetActive(u) PROVE RowOwned'
      BY <3>2 DEF SetActive, RowOwned, HasRow, Stored, Inv, TypeOK, TablesTypeOK
    <3>3. ASSUME NEW u \in Users, RemoveUser(u) PROVE RowOwned'
      BY <3>3 DEF RemoveUser, RowOwned, HasRow, Stored, SessionsOf, Inv, TypeOK, TablesTypeOK
    <3> QED
      BY <1>1, <3>1, <3>2, <3>3 DEF Environment
  <2>2. \A i \in Ids : rowLock'[i] = rowLock[i] /\ (session[i] = None => session'[i] = None)
    BY <1>1 DEF Environment, Tick, SetActive, RemoveUser
  <2>3. AnswerHeld'
    BY <1>1, <2>2 DEF AnswerHeld, Inv, TypeOK, RequestsTypeOK, Job
  <2> QED
    BY <2>1, <2>3
<1>2. ASSUME NEW w \in Workers, WorkerStep(w), UNCHANGED requestVars PROVE AnswerInv'
  <2>1. WorkerEffect(w)
    BY <1>2, WorkerFacts
  <2>2. RowOwned'
    BY <2>1 DEF WorkerEffect, RowOwned, HasRow, Stored
  <2>3. AnswerHeld'
    BY <1>2, <2>1, NoneAssumption, ProcsAssumption
    DEF WorkerEffect, AnswerHeld, Inv, TypeOK, RequestsTypeOK, Job
  <2> QED
    BY <2>2, <2>3
<1> QED
    BY <1>1, <1>2

\* A handler that starts, waits or moves on.
LEMMA AnswerMoves ==
    ASSUME Inv, AnswerInv, NEW r \in Requests,
           \/ Begin(r) \/ Acquire(r)
           \/ UserGone(r) \/ SessionGone(r) \/ RevokeDone(r) \/ Failed(r)
    PROVE  AnswerInv'
<1> USE DEF AnswerInv, tableVars, Goto, Decide, Inv, TypeOK, TablesTypeOK, RequestsTypeOK
<1>1. UNCHANGED <<account, token, session>>
    BY DEF Begin, Register, BeginLogin, BeginRefresh, BeginLogout, Receive, Acquire,
       LockUserForLogin, LockUserForToken, LockSession, RevokeRow, UserGone, SessionGone,
       RevokeDone, Failed
<1>2. RowOwned'
    BY <1>1 DEF RowOwned, HasRow, Stored
<1>3. \A q \in Requests \ {r} : pc'[q] = pc[q] /\ job'[q] = job[q] /\ outcome'[q] = outcome[q]
    BY DEF Begin, Register, BeginLogin, BeginRefresh, BeginLogout, Receive, Acquire,
       LockUserForLogin, LockUserForToken, LockSession, RevokeRow, UserGone, SessionGone,
       RevokeDone, Failed
<1>4. \A i \in Ids : rowLock[i] # None => rowLock'[i] = rowLock[i]
    BY DEF Begin, Register, BeginLogin, BeginRefresh, BeginLogout, Receive, Acquire, AcquireRow,
       LockUserForLogin, LockUserForToken, LockSession, RevokeRow, UserGone, SessionGone,
       RevokeDone, Failed
<1>5. pc'[r] \in {"revoke", "commit"} /\ job'[r].tok # None =>
        /\ session[job'[r].tok] = None \/ rowLock'[job'[r].tok] = r
        /\ outcome'[r] # "REGISTERED"
  <2>1. CASE Begin(r)
    <3>1. ASSUME NEW u \in Users, Register(r, u) PROVE job'[r].tok = None
      BY <3>1 DEF Register, NoJob
    <3>2. (\A u \in Users : ~Register(r, u)) => pc'[r] = "user"
      BY <2>1 DEF Begin, BeginLogin, BeginRefresh, BeginLogout, Receive
    <3> QED
      BY <3>1, <3>2
  <2>2. CASE LockUserForLogin(r) \/ LockUserForToken(r)
    BY <2>2 DEF LockUserForLogin, LockUserForToken, JobOK, InTransaction
  <2>3. CASE LockSession(r)
    BY <2>3 DEF LockSession, AcquireRow, IssueVerdict, JobOK, InTransaction
  <2>4. CASE RevokeDone(r) \/ \E i \in Ids : RevokeRow(r, i)
    BY <1>4, <2>4, NoneAssumption DEF RevokeDone, RevokeRow, AnswerHeld, ReuseFrontier, Revoking, Job
  <2>5. CASE UserGone(r)
    <3>1. job[r].tok \in Ids => session[job[r].tok] = None
      BY <2>5 DEF UserGone, JobOK, InTransaction, RowOfToken, RowOwned, Stored
    <3> QED
      BY <2>5, <3>1 DEF UserGone, Job
  <2>6. CASE SessionGone(r) \/ Failed(r)
    BY <2>6 DEF SessionGone, Failed
  <2> QED
    BY <2>1, <2>2, <2>3, <2>4, <2>5, <2>6 DEF Acquire
<1>6. AnswerHeld'
  <2> SUFFICES ASSUME NEW q \in Requests, q # r,
                      pc'[q] \in {"revoke", "commit"}, job'[q].tok # None
               PROVE  /\ session'[job'[q].tok] = None \/ rowLock'[job'[q].tok] = q
                      /\ outcome'[q] # "REGISTERED"
    BY <1>1, <1>5 DEF AnswerHeld
  <2> QED
    BY <1>1, <1>3, <1>4, NoneAssumption DEF AnswerHeld, Job
<1> QED
    BY <1>2, <1>6

\* What the end of a transaction does to the rows: those of other handlers stay,
\* and only CommitIssue makes a row, for an id no handler was given.
LEMMA AnswerEnds ==
    ASSUME Inv, Inv', AnswerInv, NEW r \in Requests,
           CommitRegister(r) \/ CommitIssue(r) \/ CommitVerdict(r) \/ Rollback(r),
           UNCHANGED workerVars
    PROVE  AnswerInv'
<1>1. PICK point \in {"idle", "failed"} : Finish(r, point)
    BY DEF CommitRegister, CommitIssue, CommitVerdict, Rollback
<1>2. \A i \in Ids : session[i] = None /\ token[i] # None => session'[i] = None
  <2>1. CASE CommitRegister(r) \/ Rollback(r)
    BY <2>1 DEF CommitRegister, Rollback
  <2>2. CASE CommitVerdict(r)
    BY <2>2, NoneAssumption DEF CommitVerdict, WithRevoked, LockedBy, Inv, LockedStored
  <2>3. CASE CommitIssue(r)
    <3>1. PICK n \in Fresh : session' = Rotated(r, job[r].tok, n)
      BY <2>3 DEF CommitIssue
    <3>2. job[r].tok \in Ids => session[job[r].tok] # None
      BY <2>3, NoneAssumption DEF CommitIssue, Inv, RotatingUnspent, LockedStored
    <3> QED
      BY <3>1, <3>2 DEF Rotated, Fresh, Issued
  <2> QED
    BY <2>1, <2>2, <2>3
<1>3. AnswerHeld'
  <2> SUFFICES ASSUME NEW q \in Requests, pc'[q] \in {"revoke", "commit"}, job'[q].tok # None
               PROVE  /\ session'[job'[q].tok] = None \/ rowLock'[job'[q].tok] = q
                      /\ outcome'[q] # "REGISTERED"
    BY DEF AnswerHeld
  <2>1. q # r /\ pc'[q] = pc[q] /\ job'[q] = job[q] /\ outcome'[q] = outcome[q]
    BY <1>1, FinishFacts DEF InTransaction
  <2>2. job[q].tok \in Ids /\ token[job[q].tok] # None
    BY <2>1 DEF Inv, TypeOK, RequestsTypeOK, Job, JobOK, InTransaction
  <2>3. /\ session[job[q].tok] = None \/ rowLock[job[q].tok] = q
        /\ outcome[q] # "REGISTERED"
    BY <2>1 DEF AnswerInv, AnswerHeld
  <2>4. rowLock[job[q].tok] = q => rowLock'[job[q].tok] = q
    BY <1>1, <2>1, <2>2, FinishFacts
  <2> QED
    BY <1>2, <2>1, <2>2, <2>3, <2>4
<1>4. RowOwned'
  <2>1. \A u \in Users : HasRow(u) => HasRow(u)'
    BY DEF HasRow, CommitRegister, CommitIssue, CommitVerdict, Rollback, Inv, TypeOK, TablesTypeOK
  <2>2. ASSUME NEW i \in Ids, session[i] # None, session'[i] # None
        PROVE  session'[i].user = session[i].user /\ session[i].user \in Users
    <3>1. /\ session[i].user = token[i].sub /\ token[i] # None /\ token[i].sub \in Users
          /\ session'[i].user = token'[i].sub
      BY <2>2 DEF Inv, RowOfToken, Stored, TypeOK, TablesTypeOK, Claims
    <3>2. token'[i] = token[i]
      <4>1. CASE CommitIssue(r)
        BY <3>1, <4>1 DEF CommitIssue, Fresh, Issued, Inv, TypeOK, TablesTypeOK
      <4> QED
        BY <4>1 DEF CommitRegister, CommitVerdict, Rollback
    <3> QED
      BY <3>1, <3>2
  <2>3. ASSUME NEW i \in Ids, session[i] = None, session'[i] # None
        PROVE  account'[session'[i].user] = "active"
    BY <2>3, NewRowActive DEF Next, RequestStep, Proceed
  <2> QED
    BY <2>1, <2>2, <2>3 DEF RowOwned, Stored, HasRow, AnswerInv
<1> QED
    BY <1>3, <1>4 DEF AnswerInv

\* The two invariants together are preserved by every step.
LEMMA AnswerNext == Inv /\ Inv' /\ AnswerInv /\ [Next]_vars => AnswerInv'
<1> SUFFICES ASSUME Inv, Inv', AnswerInv, [Next]_vars PROVE AnswerInv'
    OBVIOUS
<1>1. ASSUME NEW r \in Requests, RequestStep(r), UNCHANGED workerVars PROVE AnswerInv'
    BY <1>1, AnswerMoves, AnswerEnds DEF RequestStep, Proceed
<1>2. CASE UNCHANGED vars
    BY <1>2 DEF vars, tableVars, requestVars, AnswerInv, RowOwned, HasRow, Stored, AnswerHeld
<1> QED
    BY <1>1, <1>2, AnswerOthers DEF Next

\* A handler about to answer holds the presented session's row, or it is gone.
THEOREM AnswerInvariance == Spec => []AnswerInv
<1>1. Init => AnswerInv
    BY DEF Init, TablesInit, RequestsInit, AnswerInv, RowOwned, Stored, AnswerHeld
<1> QED
    BY <1>1, AnswerNext, Invariance, PTL DEF Spec

\* rotate_refresh_session and logout_refresh_session: whatever a committed
\* transaction answers, the token it was given cannot be used again.
THEOREM AnswerSpends == Spec => AnsweredIsSpent
<1> DEFINE Step == \A r \in Requests, i \in Ids : Commits(r) /\ job[r].tok = i => Spent(i)'
<1>1. ASSUME Inv, AnswerInv, [Next]_vars PROVE [Step]_refreshVars
  <2> SUFFICES ASSUME NEW r \in Requests, NEW i \in Ids, Commits(r), job[r].tok = i
               PROVE  token'[i] # None /\ (session'[i] # None => session'[i].revoked)
    BY DEF Spent
  <2>1. pc[r] = "commit" /\ i # None /\ token[i] # None
    BY <1>1, NoneAssumption DEF Commits, Inv, JobOK, InTransaction
  <2>2. /\ session[i] = None \/ (rowLock[i] = r /\ session[i] \in Row)
        /\ outcome[r] # "REGISTERED"
    BY <1>1, <2>1, NoneAssumption
    DEF AnswerInv, AnswerHeld, Inv, LockedStored, TypeOK, TablesTypeOK
  <2>3. CASE CommitVerdict(r)
    BY <2>1, <2>2, <2>3 DEF CommitVerdict, WithRevoked, LockedBy, Row
  <2>4. CASE CommitIssue(r)
    <3>1. PICK n \in Fresh : /\ token' = [token EXCEPT ![n] = NewClaims(r)]
                             /\ session' = Rotated(r, i, n)
      BY <2>4 DEF CommitIssue
    <3>2. n # i /\ token'[i] = token[i]
      BY <1>1, <2>1, <3>1 DEF Fresh, Issued, Inv, TypeOK, TablesTypeOK
    <3>3. session'[i] = [session[i] EXCEPT !.revoked = TRUE, !.next = n]
      BY <3>1, <3>2, Zenon DEF Rotated
    <3>4. session[i] \in Row
      BY <1>1, <2>1, <2>2, <2>4, NoneAssumption DEF CommitIssue, Inv, RotatingUnspent, LockedStored
    <3> QED
      BY <2>1, <3>2, <3>3, <3>4 DEF Row
  <2> QED
    BY <1>1, <2>2, <2>3, <2>4, CommitSteps DEF CommitRegister
<1> QED
    BY <1>1, Invariance, AnswerInvariance, PTL DEF Spec, AnsweredIsSpent
=============================================================================
