--------------------------- MODULE ResourceInvariant ---------------------------
(***************************************************************************)
(* The inductive invariant of ResourceWrites: what a handler knows of the  *)
(* committed state, and what it holds, at each point of its transaction.   *)
(***************************************************************************)
EXTENDS ResourceWrites, Naturals

Active(r) == pc[r] \notin {"idle", "failed"}

\* Documents and points go together.
PointOK(r) ==
    /\ Active(r) <=> doc[r] # NoDocument
    /\ pc[r] = "advisory" => doc[r].kind = "PUT"
    /\ pc[r] \in {"load", "cascade"} => doc[r].kind = "DELETE"
    /\ pc[r] = "insert" => doc[r].kind \in {"PUT", "POST"}
    /\ pc[r] = "write" => doc[r].kind = "PATCH" /\ ~Locks(doc[r]) /\ seen[r] # None
    /\ pc[r] \in {"idle", "failed", "advisory", "find", "load", "insert", "write"} =>
          /\ had[r] = {}
          /\ todo[r] = {}
    /\ pc[r] \in {"idle", "failed", "advisory", "find", "insert"} => seen[r] = None
    /\ doc[r] # NoDocument /\ doc[r].kind = "POST" => seen[r] = None
PointsOK == \A r \in Requests : PointOK(r)

\* A handler writes a row it holds, and nothing else is held.
Writing(r) == pc[r] = "unlink" /\ doc[r].kind # "DELETE"
RowHeld ==
    /\ \A r \in Requests : Writing(r) \/ pc[r] = "cascade" => rowLock = r
    /\ \A r \in Requests : rowLock = r => Writing(r) \/ pc[r] = "cascade"
LinksHeld == \A t \in Tags, r \in Requests :
    linkLock[t] = r => t \in links \ todo[r] /\ pc[r] \in {"unlink", "cascade"}

\* The row a locked handler read is the row it writes to, but for PATCH of
\* attributes; that one finds a row, too.
RowKnown == \A r \in Requests : Writing(r) /\ doc[r].kind \notin {"POST"} =>
    /\ doc[r].kind \in {"PATCH", "ADD", "REMOVE"} => row # None /\ seen[r] # None
    /\ seen[r] # None => row # None
    /\ Locks(doc[r]) /\ seen[r] # None => row = seen[r]

\* The collection it loaded is the committed one, but for tags that are gone;
\* what it has deleted and what it must still delete is what nobody wants.
Loads(r) == Writing(r) /\ (Locks(doc[r]) \/ doc[r].kind = "POST")
LinksKnown == \A r \in Requests : Writing(r) =>
    /\ Loads(r) => links \subseteq had[r] /\ had[r] \cap tags \subseteq links
    /\ ~Loads(r) => had[r] = {}
    /\ had[r] \ Wanted(r, had[r]) \subseteq todo[r] \cup LinksOf(r)
    /\ todo[r] \cup LinksOf(r) \subseteq had[r] \ Wanted(r, had[r])

\* DELETE has locked every link there is, or still has to.
CascadeKnown == \A r \in Requests :
    pc[r] = "cascade" => links \subseteq todo[r] \cup LinksOf(r)

\* One PUT at a time is past the advisory lock, and a POST is alone.
PutAlone == \A r \in Requests :
    /\ Active(r) /\ doc[r].kind = "PUT" /\ pc[r] # "advisory" => advisory = r
    /\ advisory = r => Active(r) /\ pc[r] # "advisory"
PostAlone == \A r \in Requests : Active(r) /\ doc[r].kind = "POST" =>
    /\ ~named
    /\ \A q \in Requests \ {r} : ~Active(q)
Unnamed == ~named => \A r \in Requests : Active(r) => doc[r].kind = "POST"

\* Without seeds, a handler that found no row still finds none.
StillNone == Seeds = {} =>
    \A r \in Requests : /\ Active(r) /\ doc[r].kind \in {"PUT", "POST"}
                        /\ pc[r] \in {"insert", "unlink"}
                        /\ seen[r] = None
                        => row = None

ResourceInv ==
    /\ TypeOK
    /\ PointsOK
    /\ RowHeld
    /\ LinksHeld
    /\ RowKnown
    /\ LinksKnown
    /\ CascadeKnown
    /\ PutAlone
    /\ PostAlone
    /\ Unnamed
    /\ StillNone

-----------------------------------------------------------------------------
(* What keeps handlers going.                                              *)

\* While no DELETE is under way chains of waits are short: who holds the row
\* waits for nobody, and only a PUT that waits for another PUT waits for two.
WaitsAreShort ==
    (\A r \in Requests : Active(r) => doc[r].kind # "DELETE") =>
        \A r \in Requests : \A h \in Waits(r) : \A g \in Waits(h) :
            pc[r] = "advisory" /\ rowLock = g /\ Waits(g) = {}

\* Each step a handler takes of its own, failure included, brings its
\* transaction closer to its end: to a later point, or past one more link.
Stage == [idle |-> 0, advisory |-> 1, find |-> 2, load |-> 3, insert |-> 3, write |-> 3,
          unlink |-> 4, cascade |-> 5, failed |-> 6]
HandlersAdvance ==
    [][\A r \in Requests : Acquire(r) \/ Proceed(r) =>
        \/ pc'[r] = "idle"
        \/ Stage[pc[r]] < Stage[pc'[r]]
        \/ pc'[r] = pc[r] /\ todo'[r] \subseteq todo[r] /\ todo'[r] # todo[r]]_vars
=============================================================================
