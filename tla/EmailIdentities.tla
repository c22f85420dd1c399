----------------------------- MODULE EmailIdentities -----------------------------
(***************************************************************************)
(* Migration 0005: stored e-mail addresses are brought to the form in      *)
(* which logins look them up, and back, row by row under a unique          *)
(* constraint, with a backup of what they were.                            *)
(***************************************************************************)
EXTENDS Integers

CONSTANTS
    Absent,
    Users,
    Addresses,
    Valid,          \* those that login validation accepts
    Canonical,      \* validated and normalize_email: [Valid -> Valid]
    MaxWrites       \* bound: registrations, corrections and deletions

ASSUME AddressAssumption ==
    /\ Absent \notin Addresses
    /\ Absent \notin [original : Addresses, canonical : Addresses]
    /\ Valid \subseteq Addresses
    /\ Canonical \in [Valid -> Valid]
    /\ \A a \in Valid : Canonical[Canonical[a]] = Canonical[a]
    /\ MaxWrites \in Nat

VARIABLES
    email,          \* users: the address of each, Absent for no account
    backups,        \* email_identity_backups: [original, canonical], Absent for no row
    revision,       \* the schema the database is at, "0004" or "0005"
    migration,      \* "none", "upgrade" or "downgrade": the transaction under way
    changed,        \* users whose UPDATE is still to run in it
    before,         \* what to roll back to: [email, backups]
    refused,        \* history: a statement of a migration met the unique constraint
    given,          \* history: the address an account had at the upgrade or was given since
    touched,        \* history: accounts corrected by hand since the upgrade
    writes

data == <<email, backups>>
history == <<given, touched>>
emailVars == <<data, revision, migration, changed, before, refused, history, writes>>

Accounts == {u \in Users : email[u] # Absent}
Taken == {email[u] : u \in Accounts}

EmailTypeOK ==
    /\ email \in [Users -> Addresses \cup {Absent}]
    /\ backups \in [Users -> [original : Addresses, canonical : Addresses] \cup {Absent}]
    /\ revision \in {"0004", "0005"}
    /\ migration \in {"none", "upgrade", "downgrade"}
    /\ changed \subseteq Users
    /\ given \in [Users -> Addresses \cup {Absent}]
    /\ touched \subseteq Users
    /\ refused \in BOOLEAN
    /\ writes \in 0 .. MaxWrites
    /\ before \in [email : [Users -> Addresses \cup {Absent}],
                  backups : [Users -> [original : Addresses, canonical : Addresses] \cup {Absent}]]

Distinct(f, set) == \A u, v \in set : f[u] = f[v] => u = v

NoBackups == [u \in Users |-> Absent]

EmailInit ==
    /\ email \in {e \in [Users -> Addresses \cup {Absent}] :
                     Distinct(e, {u \in Users : e[u] # Absent})}
    /\ backups = NoBackups
    /\ revision = "0004"
    /\ migration = "none"
    /\ changed = {}
    /\ before = [email |-> email, backups |-> backups]
    /\ refused = FALSE
    /\ given = email
    /\ touched = {}
    /\ writes = 0

-----------------------------------------------------------------------------

\* Any validated address of an account, or a collision, stops the upgrade before
\* it has written anything.
Upgrade_NoCollisionCheck == \* mutant
    /\ migration = "none"
    /\ revision = "0004"
    /\ \A u \in Accounts : email[u] \in Valid
    /\ migration' = "upgrade"
    /\ before' = [email |-> email, backups |-> backups]
    /\ changed' = {u \in Accounts : Canonical[email[u]] # email[u]}
    /\ UNCHANGED <<data, revision, refused, history, writes>>

\* normalize_identities takes the lock, and finds what must change.
Upgrade ==
    /\ migration = "none"
    /\ revision = "0004"
    /\ \A u \in Accounts : email[u] \in Valid
    /\ \A u, v \in Accounts : Canonical[email[u]] = Canonical[email[v]] => u = v
    /\ migration' = "upgrade"
    /\ before' = [email |-> email, backups |-> backups]
    /\ changed' = {u \in Accounts : Canonical[email[u]] # email[u]}
    /\ UNCHANGED <<data, revision, refused, history, writes>>

TargetOf_Always(e, b, u) == IF b[u] # Absent THEN b[u].original ELSE e[u]   \* mutant

\* What the downgrade gives back: the original, unless the account has another
\* address by now.
TargetOf(e, b, u) == IF b[u] # Absent /\ e[u] = b[u].canonical THEN b[u].original ELSE e[u]

Target(u) == TargetOf(email, backups, u)

\* restore_identities, likewise.
Downgrade ==
    /\ migration = "none"
    /\ revision = "0005"
    /\ \A u, v \in Accounts : Target(u) = Target(v) => u = v
    /\ migration' = "downgrade"
    /\ before' = [email |-> email, backups |-> backups]
    /\ changed' = {u \in Accounts : Target(u) # email[u]}
    /\ UNCHANGED <<data, revision, refused, history, writes>>

\* The UPDATE of one row, and the INSERT of its backup.
Rewrite(u, address) ==
    /\ u \in changed
    /\ changed' = changed \ {u}
    /\ refused' = (refused \/ \E v \in Accounts \ {u} : email[v] = address)
    /\ email' = [email EXCEPT ![u] = address]
    /\ UNCHANGED <<revision, migration, before, history, writes>>

NormalizeRow(u) ==
    /\ migration = "upgrade"
    /\ Rewrite(u, Canonical[email[u]])
    /\ backups' = [backups EXCEPT ![u] = [original |-> email[u], canonical |-> Canonical[email[u]]]]

RestoreRow(u) ==
    /\ migration = "downgrade"
    /\ Rewrite(u, Target(u))
    /\ UNCHANGED backups

Finish_KeepBackups ==   \* mutant: the table of backups survives the downgrade
    /\ migration # "none"
    /\ changed = {}
    /\ revision' = IF migration = "upgrade" THEN "0005" ELSE "0004"
    /\ migration' = "none"
    /\ touched' = IF migration = "upgrade" THEN {} ELSE touched
    /\ given' = IF migration = "upgrade" THEN before.email ELSE given
    /\ UNCHANGED <<data, changed, before, refused, writes>>

\* The commit; a downgrade has dropped the backups.
Finish ==
    /\ migration # "none"
    /\ changed = {}
    /\ revision' = IF migration = "upgrade" THEN "0005" ELSE "0004"
    /\ backups' = IF migration = "upgrade" THEN backups ELSE NoBackups
    /\ migration' = "none"
    /\ touched' = IF migration = "upgrade" THEN {} ELSE touched
    /\ given' = IF migration = "upgrade" THEN before.email ELSE given
    /\ UNCHANGED <<email, changed, before, refused, writes>>

\* The process dies: PostgreSQL rolls back rows and tables alike.
Crash ==
    /\ migration # "none"
    /\ email' = before.email
    /\ backups' = before.backups
    /\ migration' = "none"
    /\ changed' = {}
    /\ UNCHANGED <<revision, before, refused, history, writes>>

Give(u, address) ==
    /\ migration = "none"
    /\ writes < MaxWrites
    /\ writes' = writes + 1
    /\ email' = [email EXCEPT ![u] = address]
    /\ given' = [given EXCEPT ![u] = address]
    /\ UNCHANGED <<backups, revision, migration, changed, before, refused>>

\* POST /auth/register, for an id that has not been used.
Register(u) ==
    /\ email[u] = Absent
    /\ backups[u] = Absent
    /\ \E a \in Valid : Canonical[a] \notin Taken /\ Give(u, Canonical[a])
    /\ UNCHANGED touched

\* The correction of an account by hand that both migrations may ask for.
Correct(u) ==
    /\ email[u] # Absent
    /\ \E a \in Valid \ Taken : Give(u, a)
    /\ touched' = touched \cup {u}

Delete(u) ==
    /\ email[u] # Absent
    /\ Give(u, Absent)
    /\ UNCHANGED touched

EmailNext ==
    \/ Upgrade \/ Downgrade \/ Finish \/ Crash
    \/ \E u \in Users : NormalizeRow(u) \/ RestoreRow(u) \/ Register(u) \/ Correct(u) \/ Delete(u)

EmailSpec == EmailInit /\ [][EmailNext]_emailVars

-----------------------------------------------------------------------------

\* After the upgrade a login, which looks for the canonical address, can find
\* every account, unless somebody has changed it by hand.
LoginsFindAccounts ==
    revision = "0005" /\ migration = "none" =>
        \A u \in Accounts \ touched : email[u] \in Valid /\ Canonical[email[u]] = email[u]

\* Row by row, in any order, the migrations never stumble over the unique
\* constraint: no row needs an address that another row is still to give up.
NoStatementRefused == ~ refused

\* Whatever is registered, deleted or corrected in between, a downgrade puts back
\* the exact address of an account nobody touched, and leaves one that was given
\* another address with it, up to its canonical form.
RollbackExact ==
    revision = "0004" /\ migration = "none" =>
        \A u \in Accounts :
            \/ email[u] = given[u]
            \/ u \in touched /\ {email[u], given[u]} \subseteq Valid
               /\ Canonical[email[u]] = Canonical[given[u]]
-----------------------------------------------------------------------------
(* The strengthening that the proofs need, of contents e with backups b *)

Same(a, c) == {a, c} \subseteq Valid /\ Canonical[a] = Canonical[c]

Idle(e, b) ==
    /\ Distinct(e, {u \in Users : e[u] # Absent})
    /\ \A u \in Users : b[u] # Absent =>
        /\ b[u].original \in Valid
        /\ b[u].canonical = Canonical[b[u].original]
        /\ b[u].canonical # b[u].original
    /\ revision = "0004" =>
        /\ b = NoBackups
        /\ \A u \in Users : e[u] # Absent => e[u] = given[u] \/ (u \in touched /\ Same(e[u], given[u]))
    /\ revision = "0005" => \A u \in Users : e[u] # Absent =>
        /\ TargetOf(e, b, u) = given[u] \/ (u \in touched /\ Same(TargetOf(e, b, u), given[u]))
        /\ u \notin touched => e[u] \in Valid /\ Canonical[e[u]] = e[u]

\* What an upgrade has done so far to the accounts there were.
Upgrading ==
    LET old == before.email IN
    /\ revision = "0004"
    /\ \A u \in Users : old[u] = Absent => email[u] = Absent /\ backups[u] = Absent /\ u \notin changed
    /\ \A u \in Users : old[u] # Absent =>
        /\ old[u] \in Valid
        /\ u \in changed => email[u] = old[u] /\ backups[u] = Absent /\ Canonical[old[u]] # old[u]
        /\ u \notin changed =>
            /\ email[u] = Canonical[old[u]]
            /\ backups[u] = IF email[u] = old[u] THEN Absent
                            ELSE [original |-> old[u], canonical |-> email[u]]
    /\ \A u, v \in Users :
        old[u] # Absent /\ old[v] # Absent /\ Canonical[old[u]] = Canonical[old[v]] => u = v

Downgrading ==
    LET old == before.email
        target(u) == TargetOf(old, backups, u)
    IN  /\ revision = "0005"
        /\ backups = before.backups
        /\ \A u \in Users : old[u] = Absent => email[u] = Absent /\ u \notin changed
        /\ \A u \in Users : old[u] # Absent =>
            /\ u \in changed => email[u] = old[u] /\ target(u) # old[u]
            /\ u \notin changed => email[u] = target(u)
        /\ \A u, v \in Users : old[u] # Absent /\ old[v] # Absent /\ target(u) = target(v) => u = v

\* The inductive invariant: a migration under way can be rolled back to contents
\* that were in order, and has kept to its plan.
EmailInv ==
    /\ EmailTypeOK
    /\ migration = "none" => Idle(email, backups)
    /\ migration # "none" => Idle(before.email, before.backups)
    /\ migration = "upgrade" => Upgrading
    /\ migration = "downgrade" => Downgrading
    /\ ~ refused
=============================================================================
