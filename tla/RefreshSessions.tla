--------------------------- MODULE RefreshSessions ---------------------------
(***************************************************************************)
(* The API side of authentication: register, login, refresh and logout,    *)
(* each one database transaction.  A handler is cut where it can wait for  *)
(* another transaction or be overtaken by one: the unlocked reads before   *)
(* the user lock, SELECT users FOR UPDATE, SELECT refresh_sessions FOR     *)
(* UPDATE, every row of the reuse UPDATE, and COMMIT.                      *)
(***************************************************************************)
EXTENDS SessionTables

VARIABLES
    pc,         \* where each handler is
    job,        \* what it was asked, with what it read before any lock
    now,        \* the clock it read once it held its locks
    outcome,    \* what its transaction has decided to answer
    todo        \* rows its reuse UPDATE has not reached yet

requestVars == <<pc, job, now, outcome, todo>>
refreshVars == <<tableVars, requestVars>>

Kinds == {"register", "login", "refresh", "logout"}
Outcomes == {"none", "REGISTERED", "INVALID_CREDENTIALS", "INVALID_TOKEN",
             "TOKEN_EXPIRED", "TOKEN_REVOKED", "USER_INACTIVE",
             "ISSUED", "LOGGED_OUT"}
Points == {"idle", "user", "session", "revoke", "commit", "failed"}

Job == [kind : Kinds \cup {"none"}, user : Users \cup {None},
        tok : Ids \cup {None}, late : BOOLEAN]
NoJob == [kind |-> "none", user |-> None, tok |-> None, late |-> FALSE]

RequestsTypeOK ==
    /\ pc \in [Requests -> Points]
    /\ job \in [Requests -> Job]
    /\ now \in [Requests -> 0..MaxTime]
    /\ outcome \in [Requests -> Outcomes]
    /\ todo \in [Requests -> SUBSET Ids]

RequestsInit ==
    /\ pc = [r \in Requests |-> "idle"]
    /\ job = [r \in Requests |-> NoJob]
    /\ now = [r \in Requests |-> 0]
    /\ outcome = [r \in Requests |-> "none"]
    /\ todo = [r \in Requests |-> {}]

Goto(r, point) == pc' = [pc EXCEPT ![r] = point]
Decide(r, result) == Goto(r, "commit") /\ outcome' = [outcome EXCEPT ![r] = result]

-----------------------------------------------------------------------------
(* Requests arrive.  A login for an unknown e-mail or with a wrong         *)
(* password, a registration of an address that is taken, and a token that  *)
(* does not decode change no state, so they are not actions.               *)

\* Bound: a request that may publish a token starts only while an id is left.
MayIssue(r) ==
    \/ job[r].kind = "login"
    \/ job[r].kind = "refresh" /\ ~Spent(job[r].tok)
IdLeft == Cardinality(Fresh) > Cardinality({r \in Requests : MayIssue(r)})

Receive(r, kind, u, i, late) ==
    /\ pc[r] = "idle"
    /\ Goto(r, "user")
    /\ job' = [job EXCEPT ![r] = [kind |-> kind, user |-> u, tok |-> i, late |-> late]]
    /\ UNCHANGED <<tableVars, now, outcome, todo>>

\* login: SELECT users by e-mail, without a lock, then verify the password.
BeginLogin(r, u) ==
    /\ HasRow(u)
    /\ IdLeft
    /\ Receive(r, "login", u, None, FALSE)

\* decode_token, or decode_expired_refresh_token when exp is past the leeway.
DecodedLate(i) == token[i].exp <= clock - Leeway

BeginRefresh(r, i) ==
    /\ token[i] # None
    /\ Spent(i) \/ IdLeft
    /\ Receive(r, "refresh", token[i].sub, i, DecodedLate(i))

BeginLogout(r, i) ==
    /\ token[i] # None
    /\ Receive(r, "logout", token[i].sub, i, DecodedLate(i))

-----------------------------------------------------------------------------
(* Inside the transaction.                                                 *)

\* register: INSERT INTO users.  uq_users_email makes it wait for another
\* insert of the address, and refuses it (409, nothing written) when the row
\* is there.
Register(r, u) ==
    /\ pc[r] = "idle"
    /\ account[u] = "unregistered"
    /\ AcquireUser(r, u)
    /\ job' = [job EXCEPT ![r] = [NoJob EXCEPT !.kind = "register", !.user = u]]
    /\ Decide(r, "REGISTERED")
    /\ UNCHANGED <<clock, account, token, session, rowLock, now, todo>>

\* lock_user_for_refresh finds no row: nothing is locked.
UserGone(r) ==
    /\ pc[r] = "user"
    /\ ~HasRow(job[r].user)
    /\ Decide(r, IF job[r].kind = "login" THEN "INVALID_CREDENTIALS" ELSE "INVALID_TOKEN")
    /\ UNCHANGED <<tableVars, job, now, todo>>

\* Whether a locked user is issued a token.
IssueVerdict_Unchecked(u) == "ISSUED"    \* mutant
IssueVerdict(u) == IF account[u] = "active" THEN "ISSUED" ELSE "USER_INACTIVE"

\* login takes the user lock, re-reads is_active and stages a session.
LockUserForLogin(r) ==
    LET u == job[r].user IN
    /\ pc[r] = "user"
    /\ job[r].kind = "login"
    /\ HasRow(u)
    /\ AcquireUser(r, u)
    /\ now' = [now EXCEPT ![r] = clock]
    /\ Decide(r, IssueVerdict(u))
    /\ UNCHANGED <<clock, account, token, session, rowLock, job, todo>>

\* refresh and logout take the user lock before any session row.
LockUserForToken(r) ==
    /\ pc[r] = "user"
    /\ job[r].kind \in {"refresh", "logout"}
    /\ HasRow(job[r].user)
    /\ AcquireUser(r, job[r].user)
    /\ Goto(r, "session")
    /\ UNCHANGED <<clock, account, token, session, rowLock, job, now, outcome, todo>>

\* The presented session's row is gone (purged).
SessionGone(r) ==
    /\ pc[r] = "session"
    /\ session[job[r].tok] = None
    /\ Decide(r, "INVALID_TOKEN")
    /\ UNCHANGED <<tableVars, job, now, todo>>

TooLate_AsDecoded(r) == job[r].late    \* mutant
TooLate(r) == job[r].late \/ session[job[r].tok].expires <= clock

\* SELECT refresh_sessions FOR UPDATE, then the clock and the verdict.
LockSession(r) ==
    LET i == job[r].tok
        row == session[i]
    IN
    /\ pc[r] = "session"
    /\ row # None
    /\ AcquireRow(r, i)
    /\ now' = [now EXCEPT ![r] = clock]
    /\ \/ /\ TooLate(r)
          /\ Decide(r, "TOKEN_EXPIRED")
          /\ UNCHANGED todo
       \/ /\ ~TooLate(r)
          /\ job[r].kind = "logout"
          /\ Decide(r, "LOGGED_OUT")
          /\ UNCHANGED todo
       \/ /\ ~TooLate(r)
          /\ job[r].kind = "refresh"
          /\ row.revoked
          /\ Goto(r, "revoke")
          /\ todo' = [todo EXCEPT ![r] = Unrevoked(row.user)]
          /\ outcome' = [outcome EXCEPT ![r] = "TOKEN_REVOKED"]
       \/ /\ ~TooLate(r)
          /\ job[r].kind = "refresh"
          /\ ~row.revoked
          /\ Decide(r, IssueVerdict(row.user))
          /\ UNCHANGED todo
    /\ UNCHANGED <<clock, account, token, session, userLock, job>>

\* UPDATE refresh_sessions SET revoked_at WHERE user_id = ... AND revoked_at
\* IS NULL: the rows of the statement's snapshot, one lock after another; a
\* row deleted meanwhile is skipped.
RevokeRow(r, i) ==
    /\ pc[r] = "revoke"
    /\ i \in todo[r]
    /\ todo' = [todo EXCEPT ![r] = @ \ {i}]
    /\ IF session[i] = None THEN UNCHANGED rowLock ELSE AcquireRow(r, i)
    /\ UNCHANGED <<clock, account, token, session, userLock, pc, job, now, outcome>>

RevokeDone(r) ==
    /\ pc[r] = "revoke"
    /\ todo[r] = {}
    /\ Goto(r, "commit")
    /\ UNCHANGED <<tableVars, job, now, outcome, todo>>

-----------------------------------------------------------------------------
(* The end of the transaction, and of the request.                         *)

Finish(r, point) ==
    /\ ReleaseLocks(r)
    /\ Goto(r, point)
    /\ job' = [job EXCEPT ![r] = NoJob]
    /\ now' = [now EXCEPT ![r] = 0]
    /\ outcome' = [outcome EXCEPT ![r] = "none"]
    /\ todo' = [todo EXCEPT ![r] = {}]

CommitRegister(r) ==
    /\ pc[r] = "commit"
    /\ outcome[r] = "REGISTERED"
    /\ account' = [account EXCEPT ![job[r].user] = "active"]
    /\ Finish(r, "idle")
    /\ UNCHANGED <<clock, token, session>>

NewRow(r) == [user |-> job[r].user, expires |-> now[r] + Lifetime,
              revoked |-> FALSE, next |-> None]
NewClaims(r) == [sub |-> job[r].user, exp |-> now[r] + Lifetime, parent |-> job[r].tok]

\* The rows after rotating i into n (a login rotates nothing: i is None).
Rotated_StaysUsable(r, i, n) ==    \* mutant
    [j \in Ids |-> CASE j = n -> NewRow(r)
                     [] j = i -> [session[i] EXCEPT !.next = n]
                     [] OTHER -> session[j]]
Rotated_LinkedBack(r, i, n) ==    \* mutant
    [j \in Ids |-> CASE j = n -> [NewRow(r) EXCEPT !.next = i]
                     [] j = i -> [session[i] EXCEPT !.revoked = TRUE]
                     [] OTHER -> session[j]]
Rotated(r, i, n) ==
    [j \in Ids |-> CASE j = n -> NewRow(r)
                     [] j = i -> [session[i] EXCEPT !.revoked = TRUE, !.next = n]
                     [] OTHER -> session[j]]

CommitIssue(r) ==
    /\ pc[r] = "commit"
    /\ outcome[r] = "ISSUED"
    /\ \E n \in Fresh :
         /\ token' = [token EXCEPT ![n] = NewClaims(r)]
         /\ session' = Rotated(r, job[r].tok, n)
    /\ Finish(r, "idle")
    /\ UNCHANGED <<clock, account>>

\* The rows a verdict revokes: every row the transaction holds.  They are the
\* presented one, and for TOKEN_REVOKED the ones the reuse UPDATE reached.
WithRevoked_RolledBack(rows) == session    \* mutant
WithRevoked(rows) == [j \in Ids |-> IF j \in rows THEN [session[j] EXCEPT !.revoked = TRUE]
                                                  ELSE session[j]]

\* refresh commits its error outcomes before it raises them.
CommitVerdict(r) ==
    /\ pc[r] = "commit"
    /\ outcome[r] \notin {"REGISTERED", "ISSUED"}
    /\ session' = WithRevoked(LockedBy(r))
    /\ Finish(r, "idle")
    /\ UNCHANGED <<clock, account, token>>

\* The connection or the process is lost, a statement fails, or the deadlock
\* detector picks this transaction: it is rolled back and answered 500.
Rollback(r) ==
    /\ pc[r] \notin {"idle", "failed"}
    /\ Finish(r, "failed")
    /\ UNCHANGED <<clock, account, token, session>>

Failed(r) ==
    /\ pc[r] = "failed"
    /\ Goto(r, "idle")
    /\ UNCHANGED <<tableVars, job, now, outcome, todo>>

-----------------------------------------------------------------------------

Begin(r) ==
    \/ \E u \in Users : Register(r, u) \/ BeginLogin(r, u)
    \/ \E i \in Ids : BeginRefresh(r, i) \/ BeginLogout(r, i)

Acquire(r) ==
    \/ LockUserForLogin(r)
    \/ LockUserForToken(r)
    \/ LockSession(r)
    \/ \E i \in Ids : RevokeRow(r, i)

Proceed(r) ==
    \/ UserGone(r)
    \/ SessionGone(r)
    \/ RevokeDone(r)
    \/ CommitRegister(r)
    \/ CommitIssue(r)
    \/ CommitVerdict(r)
    \/ Failed(r)

RequestStep(r) == Begin(r) \/ Acquire(r) \/ Proceed(r) \/ Rollback(r)

-----------------------------------------------------------------------------
(* What must hold.                                                         *)

Commits(r) == pc[r] = "commit" /\ pc'[r] = "idle"

\* A refresh token buys at most one successor, however many requests present
\* it at once and whatever is purged since: two tokens never share a parent.
\* It rests on rotate_refresh_session re-reading revoked_at under the lock.
OneSuccessor ==
    \A i, j \in Issued : token[i].parent = token[j].parent /\ i # j => token[i].parent = None

\* replaced_by_id is the rotation history: a row that has a successor is
\* revoked, points at the row issued in exchange for it, and that row belongs
\* to the same user and never expires first (what keeps the purge from
\* holding a successor while a request still uses its predecessor).
ChainShape ==
    \A i \in Stored : LET n == session[i].next IN
        n # None => /\ session[i].revoked
                    /\ n \in Stored
                    /\ token[n].parent = i
                    /\ session[n].user = session[i].user
                    /\ session[n].expires >= session[i].expires

\* When a refresh answers TOKEN_REVOKED, the step that commits it leaves the
\* user without a single usable session, including those that logins and
\* rotations running next to it were about to publish.
ReuseContained ==
    [][\A r \in Requests, u \in Users :
            Commits(r) /\ outcome[r] = "TOKEN_REVOKED" /\ job[r].user = u
            => Unrevoked(u)' = {}]_refreshVars

\* A session is published only for an account that is active at that moment,
\* although login reads the account long before it locks it.
IssuedToActive ==
    [][\A n \in Ids : session[n] = None /\ session'[n] # None
            => account[session'[n].user] = "active"]_refreshVars

\* Any committed answer to refresh or logout, success or refusal, leaves the
\* presented token spent: refusals are committed before they are raised.
AnsweredIsSpent ==
    [][\A r \in Requests, i \in Ids :
            Commits(r) /\ job[r].tok = i => Spent(i)']_refreshVars
=============================================================================
