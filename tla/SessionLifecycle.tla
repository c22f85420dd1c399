--------------------------- MODULE SessionLifecycle ---------------------------
(***************************************************************************)
(* What refresh sessions promise, with no tables, locks, transactions or   *)
(* requests: a refresh token is live from the moment it is issued until it *)
(* is spent, once and for all, and while it is live it can be exchanged    *)
(* for exactly one successor.                                              *)
(***************************************************************************)
EXTENDS Integers

CONSTANTS Users, Ids, None, Retention

VARIABLES
    clock,
    account,    \* state of each account
    status,     \* of each refresh token: unused, live or spent
    claims      \* of each refresh token: whose it is, when it expires, and
                \* the token it was exchanged for (None for a login)

lifecycleVars == <<clock, account, status, claims>>

Live(u) == {i \in Ids : status[i] = "live" /\ claims[i].sub = u}

Init ==
    /\ clock = 0
    /\ account = [u \in Users |-> "unregistered"]
    /\ status = [i \in Ids |-> "unused"]
    /\ claims = [i \in Ids |-> None]

TimePasses == clock' > clock /\ UNCHANGED <<account, status, claims>>

\* An account comes into being, changes between active and inactive, or goes;
\* only its end touches its tokens.
ChangeAccount(u) ==
    /\ \E s \in {"active", "inactive"} : account' = [account EXCEPT ![u] = s]
    /\ account[u] # "removed"
    /\ UNCHANGED <<clock, status, claims>>

Spend(S) == status' = [i \in Ids |-> IF i \in S THEN "spent" ELSE status[i]]

RemoveAccount(u) ==
    /\ account' = [account EXCEPT ![u] = "removed"]
    /\ Spend(Live(u))
    /\ UNCHANGED <<clock, claims>>

\* A token n is issued to u, who is active; a rotation spends its parent.
Issue(u, n, parent) ==
    /\ account[u] = "active"
    /\ status[n] = "unused"
    /\ parent # None => parent \in Live(u)
    /\ status' = [i \in Ids |-> IF i = n THEN "live"
                                ELSE IF i = parent THEN "spent" ELSE status[i]]
    /\ claims'[n].sub = u
    /\ claims'[n].parent = parent
    /\ \A i \in Ids \ {n} : claims'[i] = claims[i]
    /\ UNCHANGED <<clock, account>>

\* A logout or a refusal spends tokens of one user.
Retire(u, S) ==
    /\ S \subseteq Live(u)
    /\ Spend(S)
    /\ UNCHANGED <<clock, account, claims>>

\* The purge forgets tokens that expired longer ago than the retention window.
Forget(S) ==
    /\ \A i \in S : status[i] = "live" /\ claims[i].exp + Retention < clock
    /\ Spend(S)
    /\ UNCHANGED <<clock, account, claims>>

Next ==
    \/ TimePasses
    \/ \E u \in Users : ChangeAccount(u) \/ RemoveAccount(u)
    \/ \E u \in Users, n \in Ids, parent \in Ids \cup {None} : Issue(u, n, parent)
    \/ \E u \in Users, S \in SUBSET Ids : Retire(u, S)
    \/ \E S \in SUBSET Ids : Forget(S)

Spec == Init /\ [][Next]_lifecycleVars
=============================================================================
