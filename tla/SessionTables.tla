---------------------------- MODULE SessionTables ----------------------------
(***************************************************************************)
(* The committed state of the two tables the refresh-token flow works on   *)
(* (users and refresh_sessions), the tokens clients hold, the row locks    *)
(* PostgreSQL keeps for open transactions, and the clock.                  *)
(*                                                                         *)
(* Writes of an open transaction are not in these variables: a transaction *)
(* publishes all of its writes in the step that commits it.  That is READ  *)
(* COMMITTED for this code, because every row it writes is locked by its   *)
(* transaction from the moment it decides to write it until it commits.    *)
(***************************************************************************)
EXTENDS Integers, FiniteSets

CONSTANTS
    Users,      \* accounts, one per normalized e-mail address
    Ids,        \* refresh-session ids (the jti of a refresh token)
    Requests,   \* API request handlers running at a time
    Workers,    \* Dramatiq worker threads running the purge actor
    None,       \* SQL NULL, an absent row, a lock nobody holds
    Lifetime,   \* AuthSettings.refresh_expires_seconds
    Leeway,     \* AuthSettings.leeway_seconds
    Retention,  \* RefreshSessionRetentionSettings.retention_seconds
    MaxTime     \* bound: the clock stops here

ASSUME NoneAssumption == None \notin Users \cup Ids \cup Requests \cup Workers
ASSUME ProcsAssumption == Requests \cap Workers = {}
ASSUME TimeAssumption ==
    /\ Lifetime \in Nat \ {0}
    /\ Leeway \in Nat
    /\ Retention \in Nat
    /\ MaxTime \in Nat

VARIABLES
    clock,      \* datetime.now(UTC), in seconds, the same for all processes
    account,    \* users: state of the row of each account
    token,      \* claims of every refresh token a commit has published
    session,    \* refresh_sessions: the committed row of an id, or None
    userLock,   \* transaction holding FOR UPDATE on a users row
    rowLock     \* transaction holding a lock on a refresh_sessions row

tableVars == <<clock, account, token, session, userLock, rowLock>>

Procs == Requests \cup Workers
AccountState == {"unregistered", "active", "inactive", "removed"}

\* The columns of RefreshSession that decide anything; next is replaced_by_id.
Row == [user : Users, expires : Nat, revoked : BOOLEAN, next : Ids \cup {None}]

\* sub and exp are claims; parent is history: the token this one was issued
\* in exchange for, or None for a login.
Claims == [sub : Users, exp : Nat, parent : Ids \cup {None}]

ASSUME NoneIsNoRecord == None \notin Row \cup Claims

TablesTypeOK ==
    /\ clock \in 0..MaxTime
    /\ account \in [Users -> AccountState]
    /\ token \in [Ids -> Claims \cup {None}]
    /\ session \in [Ids -> Row \cup {None}]
    /\ userLock \in [Users -> Requests \cup {None}]
    /\ rowLock \in [Ids -> Procs \cup {None}]

TablesInit ==
    /\ clock = 0
    /\ account = [u \in Users |-> "unregistered"]
    /\ token = [i \in Ids |-> None]
    /\ session = [i \in Ids |-> None]
    /\ userLock = [u \in Users |-> None]
    /\ rowLock = [i \in Ids |-> None]

-----------------------------------------------------------------------------

HasRow(u) == account[u] \in {"active", "inactive"}
Stored == {i \in Ids : session[i] # None}
Issued == {i \in Ids : token[i] # None}
Fresh == Ids \ Issued
SessionsOf(u) == {i \in Stored : session[i].user = u}
Unrevoked_AnyUser(u) == {i \in Stored : ~session[i].revoked}    \* mutant
Unrevoked(u) == {i \in SessionsOf(u) : ~session[i].revoked}
LockedBy(p) == {i \in Ids : rowLock[i] = p}

\* A published token that no rotation may accept any more.
Spent(i) == token[i] # None /\ (session[i] # None => session[i].revoked)

AcquireUser_NoWait(p, u) == userLock' = [userLock EXCEPT ![u] = p]    \* mutant
AcquireUser(p, u) == userLock[u] = None /\ userLock' = [userLock EXCEPT ![u] = p]
AcquireRow_NoForUpdate(p, i) == rowLock[i] = None /\ UNCHANGED rowLock    \* mutant
AcquireRow(p, i) == rowLock[i] = None /\ rowLock' = [rowLock EXCEPT ![i] = p]

\* COMMIT and ROLLBACK both end with every lock of the transaction released.
ReleaseRows(p) == rowLock' = [i \in Ids |-> IF rowLock[i] = p THEN None ELSE rowLock[i]]
ReleaseLocks_RowsOnly(p) == UNCHANGED userLock /\ ReleaseRows(p)    \* mutant
ReleaseLocks(p) ==
    /\ userLock' = [u \in Users |-> IF userLock[u] = p THEN None ELSE userLock[u]]
    /\ ReleaseRows(p)

-----------------------------------------------------------------------------
(* The environment: time, and an operator who edits users with SQL.  The   *)
(* code under src/ only reads is_active and only relies on the cascade.    *)

Tick ==
    /\ clock < MaxTime
    /\ clock' = clock + 1
    /\ UNCHANGED <<account, token, session, userLock, rowLock>>

\* UPDATE users SET is_active = ...
SetActive(u) ==
    /\ HasRow(u)
    /\ userLock[u] = None
    /\ account' = [account EXCEPT ![u] = IF @ = "active" THEN "inactive" ELSE "active"]
    /\ UNCHANGED <<clock, token, session, userLock, rowLock>>

\* DELETE FROM users, with ON DELETE CASCADE to refresh_sessions.
RemoveUser(u) ==
    /\ HasRow(u)
    /\ userLock[u] = None
    /\ \A i \in SessionsOf(u) : rowLock[i] = None
    /\ account' = [account EXCEPT ![u] = "removed"]
    /\ session' = [i \in Ids |-> IF i \in SessionsOf(u) THEN None ELSE session[i]]
    /\ UNCHANGED <<clock, token, userLock, rowLock>>

Environment == Tick \/ \E u \in Users : SetActive(u) \/ RemoveUser(u)
=============================================================================
