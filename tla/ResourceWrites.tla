---------------------------- MODULE ResourceWrites ----------------------------
(***************************************************************************)
(* The write actions on one example resource, each one transaction: POST,  *)
(* PUT, PATCH, DELETE, and the relationship routes.  Handlers of other     *)
(* resources share no lock with them, so one resource is enough.           *)
(*                                                                         *)
(* A handler is cut where it can wait or be overtaken: the advisory lock   *)
(* of PUT, the SELECT of the row, the loading of its tags, every statement *)
(* that locks a row, and COMMIT, which publishes what it has written.      *)
(***************************************************************************)
EXTENDS FiniteSets

CONSTANTS
    Columns,      \* attributes of an example that clients write
    Values,
    Tags,         \* tags there were at the start
    Categories,   \* categories there were at the start
    Requests,     \* write handlers running at a time
    None,         \* SQL NULL, an absent row, a lock nobody holds
    Absent,       \* a member left out of a document (MISSING)
    Documents,    \* the documents clients send
    Seeds         \* what db/seeds.py may be run with, or {}

Kinds == {"POST", "PUT", "PATCH", "DELETE", "ADD", "REMOVE"}

\* A parsed document; a relationship PATCH is a PATCH of that member alone.
Document == [kind : Kinds,
             cols : [Columns -> Values \cup {Absent}],
             category : Categories \cup {None, Absent},
             tags : {Absent} \cup SUBSET Tags]
Complete(d) == \A c \in Columns : d.cols[c] # Absent

ASSUME SentinelAssumption ==
    /\ None \notin Requests \cup Categories \cup {Absent}
    /\ Absent \notin Values \cup Categories
    /\ \A S \in SUBSET Tags : Absent # S
ASSUME DocumentAssumption ==
    /\ Documents \subseteq Document
    /\ \A d \in Documents :
         /\ d.kind \in {"POST", "PUT"} => Complete(d)
         /\ d.kind \in {"ADD", "REMOVE"} => d.tags # Absent
         /\ d.kind \in {"ADD", "REMOVE", "DELETE"} =>
               d.category = Absent /\ \A c \in Columns : d.cols[c] = Absent

ASSUME SeedAssumption ==
    Seeds \subseteq [cols : [Columns -> Values], category : Categories, tags : SUBSET Tags]

VARIABLES
    tags,         \* rows of the table tags
    categories,   \* rows of the table categories
    row,          \* the committed row of examples, or None
    links,        \* the committed rows of example_tags for it
    named,        \* whether anybody but a POST has used its id
    advisory,     \* handler holding the advisory lock of the id
    rowLock,      \* handler holding the row, or inserting it
    linkLock,     \* handler holding a row of example_tags
    pc,           \* where each handler is
    doc,          \* the document it works on
    seen,         \* the row its first SELECT returned, or None
    had,          \* the tags it loaded
    todo          \* rows of example_tags it has still to delete

tables == <<tags, categories, row, links>>
locks == <<advisory, rowLock, linkLock>>
handler == <<pc, doc, seen, had, todo>>
vars == <<tables, named, locks, handler>>

Row == [cols : [Columns -> Values], category : Categories \cup {None}]
ASSUME NoneIsNoRow == None \notin Row

NoDocument == [kind |-> "none"]
Points == {"idle", "advisory", "find", "load", "insert", "write", "unlink", "cascade", "failed"}

TypeOK ==
    /\ tags \subseteq Tags
    /\ categories \subseteq Categories
    /\ row \in Row \cup {None}
    /\ links \subseteq tags
    /\ row = None => links = {}
    /\ named \in BOOLEAN
    /\ advisory \in Requests \cup {None}
    /\ rowLock \in Requests \cup {None}
    /\ linkLock \in [Tags -> Requests \cup {None}]
    /\ pc \in [Requests -> Points]
    /\ doc \in [Requests -> Documents \cup {NoDocument}]
    /\ seen \in [Requests -> Row \cup {None}]
    /\ had \in [Requests -> SUBSET Tags]
    /\ todo \in [Requests -> SUBSET Tags]

Init ==
    /\ tags = Tags
    /\ categories = Categories
    /\ row = None
    /\ links = {}
    /\ named = FALSE
    /\ advisory = None
    /\ rowLock = None
    /\ linkLock = [t \in Tags |-> None]
    /\ pc = [r \in Requests |-> "idle"]
    /\ doc = [r \in Requests |-> NoDocument]
    /\ seen = [r \in Requests |-> None]
    /\ had = [r \in Requests |-> {}]
    /\ todo = [r \in Requests |-> {}]

-----------------------------------------------------------------------------
(* What a document asks for.                                               *)

\* PATCH takes FOR UPDATE only when it carries relationships; DELETE never.
Locks(d) ==
    \/ d.kind \in {"PUT", "ADD", "REMOVE"}
    \/ d.kind = "PATCH" /\ (d.tags # Absent \/ d.category # Absent)

\* Every target of the linkage exists.
Resolvable(d) ==
    /\ d.tags # Absent => d.tags \subseteq tags
    /\ d.category \in {None, Absent} \cup categories

\* The collection after the request, from the one it loaded.  A PUT that found
\* a row resets what the document leaves out.
WantedTags_KeepOmitted(d, replaces, loaded) ==    \* mutant
    CASE d.kind = "ADD" -> loaded \cup d.tags
      [] d.kind = "REMOVE" -> loaded \ d.tags
      [] d.kind \notin {"ADD", "REMOVE"} -> IF d.tags # Absent THEN d.tags ELSE loaded
WantedTags(d, replaces, loaded) ==
    CASE d.kind = "ADD" -> loaded \cup d.tags
      [] d.kind = "REMOVE" -> loaded \ d.tags
      [] d.kind \notin {"ADD", "REMOVE"} ->
            IF d.tags # Absent THEN d.tags ELSE IF replaces THEN {} ELSE loaded

Wanted(r, loaded) == WantedTags(doc[r], doc[r].kind = "PUT" /\ seen[r] # None, loaded)

\* The columns its UPDATE sets: PATCH sets those that differ from what it read.
Written(r) ==
    {c \in Columns : /\ doc[r].cols[c] # Absent
                     /\ doc[r].kind = "PATCH" => doc[r].cols[c] # seen[r].cols[c]}

NewCategory(r) ==
    IF doc[r].category # Absent THEN doc[r].category
    ELSE IF doc[r].kind = "PUT" /\ seen[r] # None THEN None ELSE row.category

Inserted(d) == [cols |-> d.cols, category |-> IF d.category = Absent THEN None ELSE d.category]

\* The row r commits: a new one, or the columns of its UPDATE on the newest one.
NewRow_WritesBack(r) ==    \* mutant
    IF row = None THEN Inserted(doc[r])
    ELSE [cols |-> [c \in Columns |-> IF c \in Written(r) \/ doc[r].cols[c] # Absent
                                        THEN doc[r].cols[c]
                                      ELSE IF seen[r] # None THEN seen[r].cols[c] ELSE row.cols[c]],
          category |-> NewCategory(r)]
NewRow(r) ==
    IF row = None THEN Inserted(doc[r])
    ELSE [cols |-> [c \in Columns |-> IF c \in Written(r) THEN doc[r].cols[c] ELSE row.cols[c]],
          category |-> NewCategory(r)]

-----------------------------------------------------------------------------
(* Locks, and the ends of a transaction.                                   *)

Goto(r, point) == pc' = [pc EXCEPT ![r] = point]
LockRow_NoForUpdate(r) == rowLock = None /\ UNCHANGED rowLock    \* mutant
LockRow(r) == rowLock = None /\ rowLock' = r
LockLink(r, t) == linkLock[t] = None /\ linkLock' = [linkLock EXCEPT ![t] = r]
LinksOf(r) == {t \in Tags : linkLock[t] = r}

\* COMMIT and ROLLBACK both release every lock of the transaction.
Release_KeepAdvisory(r) ==    \* mutant
    /\ UNCHANGED advisory
    /\ rowLock' = IF rowLock = r THEN None ELSE rowLock
    /\ linkLock' = [t \in Tags |-> IF linkLock[t] = r THEN None ELSE linkLock[t]]
Release(r) ==
    /\ advisory' = IF advisory = r THEN None ELSE advisory
    /\ rowLock' = IF rowLock = r THEN None ELSE rowLock
    /\ linkLock' = [t \in Tags |-> IF linkLock[t] = r THEN None ELSE linkLock[t]]

Finish(r, point) ==
    /\ Release(r)
    /\ Goto(r, point)
    /\ doc' = [doc EXCEPT ![r] = NoDocument]
    /\ seen' = [seen EXCEPT ![r] = None]
    /\ had' = [had EXCEPT ![r] = {}]
    /\ todo' = [todo EXCEPT ![r] = {}]
    /\ UNCHANGED <<tags, categories, named>>

\* An error answer: 404, 409 or 500, with nothing written.
Fail(r) == Finish(r, "failed") /\ UNCHANGED <<row, links>>

-----------------------------------------------------------------------------
(* From the request to the row.                                            *)

Creating == \E r \in Requests : pc[r] # "idle" /\ doc[r].kind = "POST"

\* POST draws an id nobody has used, and nobody else knows it before it is
\* answered.
Receive(r, d) ==
    /\ pc[r] = "idle"
    /\ ~Creating
    /\ d.kind = "POST" => ~named /\ row = None
    /\ named' = (named \/ d.kind # "POST")
    /\ doc' = [doc EXCEPT ![r] = d]
    /\ Goto(r, IF d.kind = "PUT" THEN "advisory" ELSE "find")
    /\ UNCHANGED <<tables, locks, seen, had, todo>>

LockAdvisory_KeyOfItsOwn(r) ==    \* mutant
    /\ pc[r] = "advisory"
    /\ Goto(r, "find")
    /\ UNCHANGED <<tables, named, locks, doc, seen, had, todo>>
LockAdvisory(r) ==
    /\ pc[r] = "advisory"
    /\ advisory = None
    /\ advisory' = r
    /\ Goto(r, "find")
    /\ UNCHANGED <<tables, named, rowLock, linkLock, doc, seen, had, todo>>

\* No row: 404, except for PUT and POST, which insert it once the targets of
\* their linkage are resolved.
FindNothing(r) ==
    /\ pc[r] = "find"
    /\ row = None
    /\ IF doc[r].kind \in {"PUT", "POST"} /\ Resolvable(doc[r])
         THEN Goto(r, "insert") /\ UNCHANGED <<tables, named, locks, doc, seen, had, todo>>
         ELSE Fail(r)

\* SELECT ... FOR UPDATE, its tags, and the targets of the linkage.
FindLocked(r) ==
    /\ pc[r] = "find"
    /\ Locks(doc[r])
    /\ row # None
    /\ rowLock = None
    /\ IF Resolvable(doc[r])
         THEN /\ LockRow(r)
              /\ seen' = [seen EXCEPT ![r] = row]
              /\ had' = [had EXCEPT ![r] = links]
              /\ todo' = [todo EXCEPT ![r] = links \ WantedTags(doc[r], doc[r].kind = "PUT", links)]
              /\ Goto(r, "unlink")
              /\ UNCHANGED <<tables, named, advisory, linkLock, doc>>
         ELSE Fail(r)

\* SELECT without a lock.
FindUnlocked(r) ==
    /\ pc[r] = "find"
    /\ doc[r].kind \in {"PATCH", "DELETE"}
    /\ ~Locks(doc[r])
    /\ row # None
    /\ seen' = [seen EXCEPT ![r] = row]
    /\ Goto(r, IF doc[r].kind = "DELETE" THEN "load" ELSE "write")
    /\ UNCHANGED <<tables, named, locks, doc, had, todo>>

\* DELETE loads the tags in a second statement: it deletes those rows itself.
LoadLinks(r) ==
    /\ pc[r] = "load"
    /\ had' = [had EXCEPT ![r] = links]
    /\ todo' = [todo EXCEPT ![r] = links]
    /\ Goto(r, "unlink")
    /\ UNCHANGED <<tables, named, locks, doc, seen>>

-----------------------------------------------------------------------------
(* Statements that write.                                                  *)

\* INSERT ... ON CONFLICT DO UPDATE.  When it meets a row after all, the
\* resource is read back and only the linkage of the document is applied.
Insert_TrustsPrecheck(r) ==    \* mutant
    /\ pc[r] = "insert"
    /\ LockRow(r)
    /\ Goto(r, "unlink")
    /\ UNCHANGED <<tables, named, advisory, linkLock, doc, seen, had, todo>>
Insert(r) ==
    /\ pc[r] = "insert"
    /\ LockRow(r)
    /\ had' = [had EXCEPT ![r] = links]
    /\ todo' = [todo EXCEPT ![r] = links \ Wanted(r, links)]
    /\ Goto(r, "unlink")
    /\ UNCHANGED <<tables, named, advisory, linkLock, doc, seen>>

\* PATCH of attributes: nothing to write, no row left to write, or the UPDATE.
WriteNothing(r) ==
    /\ pc[r] = "write"
    /\ Written(r) = {}
    /\ Finish(r, "idle")
    /\ UNCHANGED <<row, links>>

WriteGone(r) ==
    /\ pc[r] = "write"
    /\ Written(r) # {}
    /\ row = None
    /\ Fail(r)

Write(r) ==
    /\ pc[r] = "write"
    /\ Written(r) # {}
    /\ row # None
    /\ LockRow(r)
    /\ Goto(r, "unlink")
    /\ UNCHANGED <<tables, named, advisory, linkLock, doc, seen, had, todo>>

\* DELETE FROM example_tags for a tag that was loaded and is not wanted: it
\* must find the row, or the flush fails.
Unlink(r, t) ==
    /\ pc[r] = "unlink"
    /\ t \in todo[r]
    /\ linkLock[t] = None
    /\ IF t \in links
         THEN /\ LockLink(r, t)
              /\ todo' = [todo EXCEPT ![r] = @ \ {t}]
              /\ UNCHANGED <<tables, named, advisory, rowLock, pc, doc, seen, had>>
         ELSE Fail(r)

\* DELETE FROM examples: finding no row is only a warning.
EraseNothing(r) ==
    /\ pc[r] = "unlink"
    /\ todo[r] = {}
    /\ doc[r].kind = "DELETE"
    /\ row = None
    /\ Finish(r, "idle")
    /\ UNCHANGED <<row, links>>

Erase(r) ==
    /\ pc[r] = "unlink"
    /\ todo[r] = {}
    /\ doc[r].kind = "DELETE"
    /\ row # None
    /\ LockRow(r)
    /\ todo' = [todo EXCEPT ![r] = links \ LinksOf(r)]
    /\ Goto(r, "cascade")
    /\ UNCHANGED <<tables, named, advisory, linkLock, doc, seen, had>>

\* ON DELETE CASCADE of the rows of example_tags added since it loaded them.
Cascade(r, t) ==
    /\ pc[r] = "cascade"
    /\ t \in todo[r]
    /\ todo' = [todo EXCEPT ![r] = @ \ {t}]
    /\ IF t \in links THEN LockLink(r, t) ELSE UNCHANGED linkLock
    /\ UNCHANGED <<tables, named, advisory, rowLock, pc, doc, seen, had>>

-----------------------------------------------------------------------------
(* COMMIT.                                                                 *)

CommitDelete(r) ==
    /\ pc[r] = "cascade"
    /\ todo[r] = {}
    /\ row' = None
    /\ links' = {}
    /\ Finish(r, "idle")

Added(r) == Wanted(r, had[r]) \ had[r]

\* The rows inserted into example_tags, and a category, must still exist, and
\* the pair must be new: a foreign or primary key error is answered 409.
Allowed_AnyTag(r) == TRUE    \* mutant
Allowed(r) ==
    /\ Added(r) \subseteq tags
    /\ Added(r) \cap links = {}
    /\ NewRow(r).category \in categories \cup {None}

CommitWrite(r) ==
    /\ pc[r] = "unlink"
    /\ todo[r] = {}
    /\ doc[r].kind # "DELETE"
    /\ IF Allowed(r)
         THEN /\ row' = NewRow(r)
              /\ links' = (links \ LinksOf(r)) \cup Added(r)
              /\ Finish(r, "idle")
         ELSE Fail(r)

\* Connection lost, statement failed: answered 500.
Rollback(r) == pc[r] \notin {"idle", "failed"} /\ Fail(r)

Answered(r) ==
    /\ pc[r] = "failed"
    /\ Goto(r, "idle")
    /\ UNCHANGED <<tables, named, locks, doc, seen, had, todo>>

-----------------------------------------------------------------------------
(* Other programs: seeds.py, and whoever deletes tags and categories, which *)
(* have no write routes.                                                   *)

\* DELETE FROM tags, with ON DELETE CASCADE to example_tags.
RemoveTag(t) ==
    /\ t \in tags
    /\ linkLock[t] = None
    /\ tags' = tags \ {t}
    /\ links' = links \ {t}
    /\ UNCHANGED <<categories, row, named, locks, handler>>

\* DELETE FROM categories, with ON DELETE SET NULL to examples.
RemoveCategory(c) ==
    /\ c \in categories
    /\ categories' = categories \ {c}
    /\ IF row # None /\ row.category = c
         THEN rowLock = None /\ row' = [row EXCEPT !.category = None]
         ELSE UNCHANGED row
    /\ UNCHANGED <<tags, links, named, locks, handler>>

\* One transaction of INSERT ... ON CONFLICT: the category and the tags come first,
\* a row that exists is overwritten, a link that exists stays.  It takes no advisory
\* lock, and waits for who holds the row or a link.
Seed(graph) ==
    /\ ~Creating
    /\ rowLock = None
    /\ \A t \in graph.tags : linkLock[t] = None
    /\ named' = TRUE
    /\ tags' = tags \cup graph.tags
    /\ categories' = categories \cup {graph.category}
    /\ row' = [cols |-> graph.cols, category |-> graph.category]
    /\ links' = links \cup graph.tags
    /\ UNCHANGED <<locks, handler>>

Environment ==
    \/ \E t \in Tags : RemoveTag(t)
    \/ \E c \in Categories : RemoveCategory(c)
    \/ \E graph \in Seeds : Seed(graph)

Acquire(r) ==
    \/ LockAdvisory(r)
    \/ FindLocked(r)
    \/ Insert(r)
    \/ Write(r)
    \/ \E t \in Tags : Unlink(r, t) \/ Cascade(r, t)
    \/ Erase(r)

Proceed(r) ==
    \/ FindNothing(r)
    \/ FindUnlocked(r)
    \/ LoadLinks(r)
    \/ WriteNothing(r)
    \/ WriteGone(r)
    \/ EraseNothing(r)
    \/ CommitDelete(r)
    \/ CommitWrite(r)
    \/ Answered(r)

Step(r) == (\E d \in Documents : Receive(r, d)) \/ Acquire(r) \/ Proceed(r) \/ Rollback(r)

Next == Environment \/ \E r \in Requests : Step(r)

Spec == Init /\ [][Next]_vars

-----------------------------------------------------------------------------
(* Waiting.                                                                *)

\* The handlers whose locks r waits for, when it can take no step of its own.
Waits(r) ==
    CASE pc[r] = "advisory" -> {advisory} \ {None}
      [] pc[r] = "find" /\ Locks(doc[r]) /\ row # None -> {rowLock} \ {None}
      [] pc[r] = "insert" -> {rowLock} \ {None}
      [] pc[r] = "write" /\ Written(r) # {} /\ row # None -> {rowLock} \ {None}
      [] pc[r] \in {"unlink", "cascade"} /\ todo[r] # {} /\ \A t \in todo[r] : linkLock[t] # None ->
            {linkLock[t] : t \in todo[r]}
      [] pc[r] = "unlink" /\ todo[r] = {} /\ doc[r].kind = "DELETE" /\ row # None ->
            {rowLock} \ {None}
      [] OTHER -> {}

\* Every member waits for a member and is waited for by one.
Deadlocked(S) ==
    /\ S # {}
    /\ \A r \in S : Waits(r) \cap S # {} /\ \E q \in S : r \in Waits(q)

\* The deadlock detector of PostgreSQL rolls back one member.
BreakDeadlock == \E S \in SUBSET Requests : Deadlocked(S) /\ \E r \in S : Rollback(r)

\* Handlers run on; PostgreSQL serves the waiters of a lock in turn, and
\* detects deadlocks.  No request has to arrive, and no other program to run.
Fairness ==
    /\ \A r \in Requests : WF_vars(Proceed(r)) /\ SF_vars(Acquire(r))
    /\ WF_vars(BreakDeadlock)

FairSpec == Spec /\ Fairness

-----------------------------------------------------------------------------
(* What must hold.                                                         *)

Commits(r) == pc[r] = "unlink" /\ pc'[r] = "idle" /\ doc[r].kind # "DELETE"

\* A committed relationship request has its exact effect on the committed
\* collection, whatever others did since it loaded it: no member that another
\* request added is lost, none that one removed comes back, and only tags that
\* are gone are missing.  Other requests leave the collection alone.
MembersExact ==
    [][\A r \in Requests : Commits(r) /\ doc[r].kind \in {"ADD", "REMOVE", "PATCH"} =>
            links' = CASE doc[r].kind = "ADD" -> (links \cup doc[r].tags) \cap tags
                       [] doc[r].kind = "REMOVE" -> links \ doc[r].tags
                       [] OTHER -> IF doc[r].tags = Absent THEN links ELSE doc[r].tags \cap tags]_vars

\* A committed PATCH sets what it names and reverts nothing else: a column it
\* leaves out keeps the newest committed value, though the row it read may be
\* older.  A column it names may keep the value of an overtaking write only when
\* the PATCH read that column, without a lock, with the value it asks for.
PatchMerges ==
    [][\A r \in Requests : Commits(r) /\ doc[r].kind = "PATCH" =>
         /\ doc[r].category = Absent => row'.category = row.category
         /\ \A c \in Columns :
              IF doc[r].cols[c] = Absent THEN row'.cols[c] = row.cols[c]
              ELSE \/ row'.cols[c] = doc[r].cols[c]
                   \/ ~Locks(doc[r]) /\ seen[r].cols[c] = doc[r].cols[c]]_vars

\* "Atomically create or fully replace one resource": what PUT commits is the
\* document, with every member it leaves out reset.
FullyReplaced(r) ==
    /\ row' = Inserted(doc[r])
    /\ links' = IF doc[r].tags = Absent THEN {} ELSE doc[r].tags \cap tags
PutReplaces ==
    [][\A r \in Requests : Commits(r) /\ doc[r].kind = "PUT" => FullyReplaced(r)]_vars

\* Whatever row it met, PUT commits every member of its document.
PutApplies ==
    [][\A r \in Requests : Commits(r) /\ doc[r].kind = "PUT" =>
         /\ row'.cols = doc[r].cols
         /\ doc[r].category # Absent => row'.category = doc[r].category
         /\ doc[r].tags # Absent => links' = doc[r].tags \cap tags]_vars

\* PUT answers 201 exactly when its commit is the one that brings the row into
\* being: the answer is decided by a SELECT that locks nothing when there is no
\* row, long before the INSERT.
CreatedMeansInserted ==
    [][\A r \in Requests : Commits(r) /\ doc[r].kind = "PUT" => (seen[r] = None <=> row = None)]_vars

\* Handlers take the row before its links, except DELETE: a deadlock always has
\* a DELETE in it, holding links and waiting for the row.
OnlyDeleteDeadlocks ==
    \A S \in SUBSET Requests : Deadlocked(S) => \E r \in S : doc[r].kind = "DELETE"

\* Every request is answered.
EveryWriteAnswered == \A r \in Requests : pc[r] # "idle" ~> pc[r] = "idle"
=============================================================================
