---------------------------- MODULE AuthInvariant ----------------------------
(***************************************************************************)
(* The inductive invariant behind the safety of AuthSystem: what a handler *)
(* knows and holds at each point of its transaction.                       *)
(***************************************************************************)
EXTENDS AuthSystem

\* A handler inside a transaction knows its user, and the user of the token it
\* was given; only logins come without a token.
InTransaction(r) == pc[r] \in {"user", "session", "revoke", "commit"}
JobOK ==
    \A r \in Requests : InTransaction(r) =>
        /\ job[r].user \in Users
        /\ job[r].tok \in Ids => /\ token[job[r].tok] # None
                                 /\ token[job[r].tok].sub = job[r].user
        /\ job[r].kind = "login" => job[r].tok = None
        /\ pc[r] = "user" /\ job[r].kind # "login" => job[r].tok \in Ids
        /\ pc[r] \in {"session", "revoke"} => job[r].tok \in Ids

\* A stored row is the row of an issued token, with the token's owner.
RowOfToken ==
    \A i \in Stored : token[i] # None /\ session[i].user = token[i].sub

\* Nobody holds a lock on a row that is gone; a worker holds what it deletes.
LockedStored == \A i \in Ids : rowLock[i] # None => session[i] # None
PickedLocked == \A w \in Workers : picked[w] \subseteq LockedBy(w)

\* From the user lock to the commit, the handler is the only one with that
\* lock, so the account it saw active still is.
HoldsUser(r) ==
    \/ pc[r] \in {"session", "revoke"}
    \/ pc[r] = "commit" /\ outcome[r] \in {"ISSUED", "TOKEN_REVOKED"}
UserLocked ==
    \A r \in Requests : HoldsUser(r) => userLock[job[r].user] = r
IssuingToActive ==
    \A r \in Requests : pc[r] = "commit" /\ outcome[r] = "ISSUED"
        => account[job[r].user] = "active"

\* A handler about to rotate holds the row, and nobody has revoked it.
RotatingUnspent ==
    \A r \in Requests : pc[r] = "commit" /\ outcome[r] = "ISSUED" /\ job[r].tok # None
        => rowLock[job[r].tok] = r /\ ~session[job[r].tok].revoked

\* The reuse UPDATE has locked, or still has ahead, every usable session.
Revoking(r) == pc[r] = "revoke" \/ (pc[r] = "commit" /\ outcome[r] = "TOKEN_REVOKED")
ReuseFrontier ==
    \A r \in Requests : Revoking(r) =>
        /\ Unrevoked(job[r].user) \subseteq todo[r] \cup LockedBy(r)
        /\ pc[r] = "revoke" => outcome[r] = "TOKEN_REVOKED"
        /\ pc[r] = "commit" => todo[r] = {}

\* A token that has a successor is spent.
ParentSpent ==
    \A i \in Issued : token[i].parent # None => Spent(token[i].parent)

\* What every handler and worker knows and holds at each point of its
\* transaction stays true whatever the others do; the conjuncts are named for
\* the checks of rotate_refresh_session and the locks that protect them.
Inv ==
    /\ TypeOK
    /\ JobOK
    /\ RowOfToken
    /\ LockedStored
    /\ PickedLocked
    /\ UserLocked
    /\ IssuingToActive
    /\ RotatingUnspent
    /\ ReuseFrontier
    /\ ParentSpent
    /\ OneSuccessor

\* A stored row belongs to an account that is there (the cascade on users).
RowOwned == \A i \in Stored : HasRow(session[i].user)

\* A handler about to answer holds the row of the presented token, or the row
\* is gone for good; a registration has no token.
AnswerHeld ==
    \A r \in Requests : pc[r] \in {"revoke", "commit"} /\ job[r].tok # None
        => /\ session[job[r].tok] = None \/ rowLock[job[r].tok] = r
           /\ outcome[r] # "REGISTERED"

\* refresh and logout answer about a row they still hold or that is gone, and
\* no session outlives its account.
AnswerInv == RowOwned /\ AnswerHeld

-----------------------------------------------------------------------------
(* What the purge and the rotation chains rest on.                         *)

\* A row expires with its token, at most Lifetime from now, and a rotation
\* never issues a token that expires before the one it replaces.
NowPast == \A r \in Requests : now[r] <= clock
RowDates == \A i \in Stored : session[i].expires = token[i].exp
IssuedBefore == \A i \in Issued : token[i].exp <= clock + Lifetime
RotatingLater ==
    \A r \in Requests : pc[r] = "commit" /\ outcome[r] = "ISSUED" /\ job[r].tok # None
        => token[job[r].tok].exp <= now[r] + Lifetime
DatesInv == NowPast /\ RowDates /\ IssuedBefore /\ RotatingLater

\* The user lock comes first: a handler that has not got it holds nothing, and
\* every row it holds, or has yet to ask for, belongs to the user it holds.
NothingHeld ==
    \A r \in Requests :
        /\ pc[r] \in {"idle", "user", "failed"} => \A u \in Users : userLock[u] # r
        /\ pc[r] \in {"idle", "user", "session", "failed"} => LockedBy(r) \cup todo[r] = {}
UserFirst ==
    \A r \in Requests : \A i \in LockedBy(r) \cup todo[r] :
        /\ token[i] # None
        /\ token[i].sub = job[r].user
        /\ userLock[job[r].user] = r

\* While the reuse UPDATE runs, the presented token was not expired when it
\* was read, and the user's other rows are as the statement found them.
ReuseOpen ==
    \A r \in Requests : pc[r] = "revoke" =>
        /\ now[r] < token[job[r].tok].exp
        /\ todo[r] \cap LockedBy(r) = {}
        /\ \A i \in Stored \cap (todo[r] \cup LockedBy(r)) : i # job[r].tok => ~session[i].revoked

\* A registration about to commit is the only one of its address.
RegisteringNew ==
    \A r \in Requests : pc[r] = "commit" /\ outcome[r] = "REGISTERED"
        => account[job[r].user] = "unregistered" /\ userLock[job[r].user] = r
LocksInv == NothingHeld /\ UserFirst /\ ReuseOpen /\ RegisteringNew

\* What a worker selects is older than its cutoff, and the cutoff is out of
\* the retention window.
PurgeExpired ==
    \A w \in Workers :
        /\ IF wpc[w] \in {"select", "cascade"} THEN run[w].cutoff <= clock - Retention
                                               ELSE picked[w] = {} /\ scan[w] = {}
        /\ \A i \in scan[w] \cup picked[w] : token[i] # None /\ token[i].exp < run[w].cutoff

\* The cascade takes the rows that point at a deleted one, and no others: each
\* of them is held, or still to be taken.
CascadeExact ==
    \A w \in Workers :
        /\ \A j \in LockedBy(w) \ picked[w] : session[j].next \in picked[w]
        /\ \A j \in cascade[w] : token[j] # None /\ (j \in Stored => session[j].next \in picked[w])
        /\ wpc[w] = "cascade" =>
             \A j \in Stored \ picked[w] :
                 session[j].next \in picked[w] => j \in cascade[w] \cup LockedBy(w)
PurgeInv == PurgeExpired /\ CascadeExact

\* Rotation chains stay whole whatever the purge deletes from them, because
\* handlers lock the user first and the purge locks what points at its rows.
ChainInv == DatesInv /\ LocksInv /\ PurgeInv /\ ChainShape

\* All that the safety of the composed system rests on, layer by layer: what
\* handlers know and hold, what they answer about, and whole chains.
AuthInv == Inv /\ AnswerInv /\ ChainInv
=============================================================================
