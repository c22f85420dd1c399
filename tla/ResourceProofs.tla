---------------------------- MODULE ResourceProofs ----------------------------
(***************************************************************************)
(* Safety of ResourceWrites for every set of documents, columns, values,   *)
(* tags, categories and handlers.  The lemma of each action shows that it  *)
(* preserves the invariant: first the types, then what points and          *)
(* documents say of each other, then who holds what, then what is known.   *)
(***************************************************************************)
EXTENDS ResourceInvariant, TLAPS

\* The shape of a document, by its kind.
LEMMA DocumentFacts ==
    ASSUME NEW d \in Documents
    PROVE  /\ d \in Document /\ d.kind \in Kinds /\ d # NoDocument
           /\ d.cols \in [Columns -> Values \cup {Absent}]
           /\ d.category \in Categories \cup {None, Absent}
           /\ d.tags = Absent \/ d.tags \in SUBSET Tags
           /\ d.kind \in {"ADD", "REMOVE"} => d.tags # Absent
           /\ d.kind = "DELETE" => d.category = Absent
           /\ d.kind \in {"POST", "PUT"} => \A c \in Columns : d.cols[c] # Absent
BY DocumentAssumption DEF Document, Kinds, NoDocument, Complete

\* A transaction that ends without writing changes nothing but what its handler holds.
LEMMA FinishKeeps ==
    ASSUME ResourceInv, NEW r \in Requests, NEW point \in {"idle", "failed"}, Finish(r, point), UNCHANGED <<row, links>>
    PROVE  ResourceInv'
<1> USE DEF ResourceInv, TypeOK, Finish, Release, Goto
<1>1. TypeOK'
  BY DEF Points
<1>2. PointsOK'
  BY DEF PointsOK, PointOK, Active
<1>3. RowHeld' /\ LinksHeld' /\ CascadeKnown'
  BY SentinelAssumption DEF RowHeld, Writing, LinksHeld, CascadeKnown, LinksOf
<1>4. RowKnown'
  BY DEF RowKnown, Writing
<1>5. LinksKnown'
  BY SentinelAssumption DEF LinksKnown, Writing, Loads, Wanted, LinksOf
<1>6. PutAlone' /\ PostAlone' /\ Unnamed'
  BY SentinelAssumption DEF PutAlone, Active, PostAlone, Unnamed
<1>7. StillNone'
  BY DEF StillNone, Active
<1> QED
  BY <1>1, <1>2, <1>3, <1>4, <1>5, <1>6, <1>7

\* A request arrives: a POST only for an id nobody has named.
LEMMA ReceiveKeeps ==
    ASSUME ResourceInv, NEW r \in Requests, NEW d \in Documents, Receive(r, d)
    PROVE  ResourceInv'
<1> USE DEF ResourceInv, TypeOK, Receive, Creating, Goto, Unnamed
<1>1. TypeOK'
  BY DEF Points, tables, locks
<1>2. PointsOK'
  BY DocumentFacts DEF PointsOK, PointOK, Active
<1>3. RowHeld' /\ LinksHeld' /\ CascadeKnown'
  BY DEF RowHeld, Writing, tables, locks, LinksHeld, CascadeKnown, LinksOf
<1>4. RowKnown'
  BY DEF RowKnown, Writing, tables
<1>5. LinksKnown'
  BY DEF LinksKnown, Writing, Loads, Wanted, LinksOf, tables, locks
<1>6. StillNone'
  BY DEF StillNone, Active, tables
<1>7. PutAlone'
  BY DEF PutAlone, Active, locks
<1>8. PostAlone'
  BY DEF PostAlone, Active
<1>9. Unnamed'
  BY DEF Active
<1> QED
  BY <1>1, <1>2, <1>3, <1>4, <1>5, <1>6, <1>7, <1>8, <1>9

\* One PUT at a time gets past the advisory lock.
LEMMA LockAdvisoryKeeps ==
    ASSUME ResourceInv, NEW r \in Requests, LockAdvisory(r)
    PROVE  ResourceInv'
<1> USE DEF ResourceInv, TypeOK, LockAdvisory, Goto
<1>1. TypeOK'
  BY DEF Points, tables
<1>2. PointsOK'
  BY DEF PointsOK, PointOK, Active
<1>3. RowHeld' /\ LinksHeld' /\ CascadeKnown'
  BY DEF RowHeld, Writing, tables, LinksHeld, CascadeKnown, LinksOf
<1>4. RowKnown'
  BY DEF RowKnown, Writing, tables
<1>5. LinksKnown'
  BY DEF LinksKnown, Writing, Loads, Wanted, LinksOf, tables
<1>6. PutAlone' /\ PostAlone' /\ Unnamed'
  BY SentinelAssumption DEF PutAlone, Active, PostAlone, Unnamed
<1>7. StillNone'
  BY DEF StillNone, Active, tables
<1> QED
  BY <1>1, <1>2, <1>3, <1>4, <1>5, <1>6, <1>7

\* No row: what finds none may insert one.
LEMMA FindNothingKeeps ==
    ASSUME ResourceInv, NEW r \in Requests, FindNothing(r), ~Fail(r)
    PROVE  ResourceInv'
<1> USE DEF ResourceInv, TypeOK, FindNothing, Goto
<1>1. TypeOK'
  BY DEF Points, tables, locks
<1>2. PointsOK'
  BY DEF PointsOK, PointOK, Active
<1>3. RowHeld' /\ LinksHeld' /\ CascadeKnown'
  BY DEF RowHeld, Writing, tables, locks, LinksHeld, CascadeKnown
<1>4. RowKnown'
  BY DEF RowKnown, Writing
<1>5. LinksKnown'
  BY DEF LinksKnown, Writing, Loads, Wanted, LinksOf, tables, locks
<1>6. PutAlone' /\ PostAlone' /\ Unnamed'
  BY DEF PutAlone, Active, locks, PostAlone, Unnamed
<1>7. StillNone'
  BY DEF StillNone, tables
<1> QED
  BY <1>1, <1>2, <1>3, <1>4, <1>5, <1>6, <1>7

\* A locking SELECT: the row and the collection become known and held.
LEMMA FindLockedKeeps ==
    ASSUME ResourceInv, NEW r \in Requests, FindLocked(r), ~Fail(r)
    PROVE  ResourceInv'
<1> USE DEF ResourceInv, TypeOK, FindLocked, LockRow, Goto, WantedTags, Locks
<1>1. TypeOK'
  BY DEF Points, tables
<1>2. PointsOK'
  BY DEF PointsOK, PointOK, Active
<1>3. RowHeld' /\ LinksHeld' /\ CascadeKnown'
  BY SentinelAssumption DEF RowHeld, Writing, tables, LinksHeld, CascadeKnown
<1>4. RowKnown'
  BY DEF RowKnown, Writing, tables
<1>5. LinksKnown'
  BY DEF LinksKnown, Writing, Loads, Wanted, LinksOf, LinksHeld, tables
<1>6. PutAlone' /\ PostAlone' /\ Unnamed'
  BY DEF PutAlone, Active, PostAlone, Unnamed
<1>7. StillNone'
  BY DEF StillNone, Active
<1> QED
  BY <1>1, <1>2, <1>3, <1>4, <1>5, <1>6, <1>7

\* A SELECT without a lock.
LEMMA FindUnlockedKeeps ==
    ASSUME ResourceInv, NEW r \in Requests, FindUnlocked(r)
    PROVE  ResourceInv'
<1> USE DEF ResourceInv, TypeOK, FindUnlocked, Goto
<1>1. TypeOK'
  BY DEF Points, tables, locks
<1>2. PointsOK'
  BY DEF PointsOK, PointOK, Active
<1>3. RowHeld' /\ LinksHeld' /\ CascadeKnown'
  BY DEF RowHeld, Writing, tables, locks, LinksHeld, CascadeKnown, LinksOf
<1>4. RowKnown'
  BY DEF RowKnown, Writing, tables
<1>5. LinksKnown'
  BY DEF LinksKnown, Writing, Loads, Wanted, LinksOf, tables, locks
<1>6. PutAlone' /\ PostAlone' /\ Unnamed'
  BY DEF PutAlone, Active, locks, PostAlone, Unnamed
<1>7. StillNone'
  BY DEF StillNone, Active
<1> QED
  BY <1>1, <1>2, <1>3, <1>4, <1>5, <1>6, <1>7

\* DELETE loads the collection.
LEMMA LoadLinksKeeps ==
    ASSUME ResourceInv, NEW r \in Requests, LoadLinks(r)
    PROVE  ResourceInv'
<1> USE DEF ResourceInv, TypeOK, LoadLinks, Goto
<1>1. TypeOK'
  BY DEF Points, tables, locks
<1>2. PointsOK'
  BY DEF PointsOK, PointOK, Active
<1>3. RowHeld' /\ LinksHeld' /\ CascadeKnown'
  BY DEF RowHeld, Writing, PointsOK, PointOK, tables, locks, LinksHeld, CascadeKnown,
      LinksOf
<1>4. RowKnown'
  BY DEF RowKnown, Writing, PointsOK, PointOK, tables
<1>5. LinksKnown'
  BY DEF LinksKnown, Writing, Loads, Wanted, LinksOf, PointsOK, PointOK, tables, locks
<1>6. PutAlone' /\ PostAlone' /\ Unnamed'
  BY DEF PutAlone, Active, locks, PostAlone, Unnamed
<1>7. StillNone'
  BY DEF StillNone, PointsOK, PointOK, tables, NoDocument
<1> QED
  BY <1>1, <1>2, <1>3, <1>4, <1>5, <1>6, <1>7

\* The upsert statement holds the row, and reads the collection back.
LEMMA InsertKeeps ==
    ASSUME ResourceInv, NEW r \in Requests, Insert(r)
    PROVE  ResourceInv'
<1> USE DEF ResourceInv, TypeOK, Insert, LockRow, Goto
<1>1. TypeOK'
  BY DEF Points, tables
<1>2. PointsOK'
  BY DEF PointsOK, PointOK, Active
<1>3. RowHeld' /\ LinksHeld' /\ CascadeKnown'
  BY SentinelAssumption DEF RowHeld, Writing, PointsOK, PointOK, tables, LinksHeld,
      CascadeKnown
<1>4. RowKnown'
  BY DEF RowKnown, Writing, PointsOK, PointOK, tables
<1>5. LinksKnown'
  BY DEF LinksKnown, Writing, Loads, Locks, Wanted, LinksOf, LinksHeld, PointsOK, PointOK,
      tables
<1>6. PutAlone' /\ PostAlone' /\ Unnamed'
  BY DEF PutAlone, Active, PostAlone, Unnamed
<1>7. StillNone'
  BY DEF StillNone, Active, tables
<1> QED
  BY <1>1, <1>2, <1>3, <1>4, <1>5, <1>6, <1>7

\* The UPDATE of a PATCH of attributes.
LEMMA WriteKeeps ==
    ASSUME ResourceInv, NEW r \in Requests, Write(r)
    PROVE  ResourceInv'
<1> USE DEF ResourceInv, TypeOK, Write, LockRow, Goto
<1>1. TypeOK'
  BY DEF Points, tables
<1>2. PointsOK'
  BY DEF PointsOK, PointOK, Active
<1>3. RowHeld' /\ LinksHeld' /\ CascadeKnown'
  BY SentinelAssumption DEF RowHeld, Writing, PointsOK, PointOK, tables, LinksHeld,
      CascadeKnown
<1>4. RowKnown'
  BY DEF RowKnown, Writing, PointsOK, PointOK, tables
<1>5. LinksKnown'
  BY DEF LinksKnown, Writing, Loads, Wanted, LinksOf, LinksHeld, PointsOK, PointOK, tables
<1>6. PutAlone' /\ PostAlone' /\ Unnamed'
  BY DEF PutAlone, Active, PostAlone, Unnamed
<1>7. StillNone'
  BY DEF StillNone, PointsOK, PointOK, NoDocument
<1> QED
  BY <1>1, <1>2, <1>3, <1>4, <1>5, <1>6, <1>7

\* A link is deleted.
LEMMA UnlinkKeeps ==
    ASSUME ResourceInv, NEW r \in Requests, NEW t \in Tags, Unlink(r, t), ~Fail(r)
    PROVE  ResourceInv'
<1> USE DEF ResourceInv, TypeOK, Unlink, LockLink, Goto
<1>1. TypeOK'
  BY DEF tables
<1>2. PointsOK'
  BY DEF PointsOK, PointOK, Active
<1>3. RowHeld' /\ LinksHeld' /\ CascadeKnown'
  BY SentinelAssumption DEF RowHeld, Writing, tables, LinksHeld, CascadeKnown, LinksOf
<1>4. RowKnown'
  BY DEF RowKnown, Writing, tables
<1>5. LinksKnown'
  BY SentinelAssumption DEF LinksKnown, Writing, Loads, Wanted, LinksOf, tables
<1>6. PutAlone' /\ PostAlone' /\ Unnamed'
  BY DEF PutAlone, Active, PostAlone, Unnamed
<1>7. StillNone'
  BY DEF StillNone, Active
<1> QED
  BY <1>1, <1>2, <1>3, <1>4, <1>5, <1>6, <1>7

\* DELETE holds the row.
LEMMA EraseKeeps ==
    ASSUME ResourceInv, NEW r \in Requests, Erase(r)
    PROVE  ResourceInv'
<1> USE DEF ResourceInv, TypeOK, Erase, LockRow, Goto, LinksOf
<1>1. TypeOK'
  BY DEF Points, tables
<1>2. PointsOK'
  BY DEF PointsOK, PointOK, Active
<1>3. RowHeld' /\ LinksHeld' /\ CascadeKnown'
  BY SentinelAssumption DEF RowHeld, Writing, tables, LinksHeld, CascadeKnown
<1>4. RowKnown'
  BY DEF RowKnown, Writing, tables
<1>5. LinksKnown'
  BY DEF LinksKnown, Writing, Loads, Wanted, tables
<1>6. PutAlone' /\ PostAlone' /\ Unnamed'
  BY DEF PutAlone, Active, PostAlone, Unnamed
<1>7. StillNone'
  BY DEF StillNone, Active
<1> QED
  BY <1>1, <1>2, <1>3, <1>4, <1>5, <1>6, <1>7

\* The cascade deletes a link, or finds it gone.
LEMMA CascadeKeeps ==
    ASSUME ResourceInv, NEW r \in Requests, NEW t \in Tags, Cascade(r, t)
    PROVE  ResourceInv'
<1> USE DEF ResourceInv, TypeOK, Cascade, LockLink, Goto
<1>1. TypeOK'
  BY DEF tables
<1>2. PointsOK'
  BY DEF PointsOK, PointOK, Active
<1>3. RowHeld' /\ LinksHeld' /\ CascadeKnown'
  BY DEF RowHeld, Writing, tables, LinksHeld, CascadeKnown, LinksOf
<1>4. RowKnown'
  BY DEF RowKnown, Writing, tables
<1>5. LinksKnown'
  BY DEF LinksKnown, RowHeld, Writing
<1>6. PutAlone' /\ PostAlone' /\ Unnamed'
  BY DEF PutAlone, Active, PostAlone, Unnamed
<1>7. StillNone'
  BY DEF StillNone, Active, tables
<1> QED
  BY <1>1, <1>2, <1>3, <1>4, <1>5, <1>6, <1>7

\* The commit of a DELETE.
LEMMA CommitDeleteKeeps ==
    ASSUME ResourceInv, NEW r \in Requests, CommitDelete(r)
    PROVE  ResourceInv'
<1> USE DEF ResourceInv, TypeOK, CommitDelete, Finish, Release, Goto, CascadeKnown, LinksOf
<1>1. TypeOK'
  BY DEF Points
<1>2. PointsOK'
  BY DEF PointsOK, PointOK, Active
<1>3. RowHeld' /\ LinksHeld' /\ CascadeKnown'
  BY SentinelAssumption DEF RowHeld, Writing, LinksHeld
<1>4. RowKnown'
  BY DEF RowKnown, RowHeld, Writing
<1>5. LinksKnown'
  BY DEF LinksKnown, RowHeld, Writing
<1>6. PutAlone' /\ PostAlone' /\ Unnamed'
  BY SentinelAssumption DEF PutAlone, Active, PostAlone, Unnamed
<1>7. StillNone'
  BY DEF StillNone
<1> QED
  BY <1>1, <1>2, <1>3, <1>4, <1>5, <1>6, <1>7

\* The commit of any other write: its row has every column, its links exist,
\* and nobody else was about to insert the row.
LEMMA CommitWriteKeeps ==
    ASSUME ResourceInv, NEW r \in Requests, CommitWrite(r), ~Fail(r)
    PROVE  ResourceInv'
<1> USE DEF ResourceInv, TypeOK, CommitWrite, Finish, Release, Goto
<1>1. /\ doc[r] \in Documents
      /\ row' = NewRow(r)
      /\ links' = (links \ LinksOf(r)) \cup Added(r)
      /\ Allowed(r)
  BY DEF PointsOK, PointOK, Active
<1>2. row = None => doc[r].kind \in {"PUT", "POST"}
  BY <1>1, DocumentFacts DEF RowKnown, Writing, Kinds
<1>3. NewRow(r) \in Row
  <2>1. CASE row = None
    <3>1. doc[r].cols \in [Columns -> Values]
      BY <2>1, <1>1, <1>2, DocumentFacts
    <3> QED
      BY <2>1, <3>1, <1>1 DEF Allowed, NewRow, Inserted, Row
  <2>2. CASE row # None
    <3>1. \A c \in Columns : c \in Written(r) => doc[r].cols[c] \in Values
      BY <1>1, DocumentFacts DEF Written
    <3> QED
      BY <2>2, <3>1, <1>1 DEF Allowed, NewRow, Row
  <2> QED
    BY <2>1, <2>2
<1>4. TypeOK'
  <2>1. row' # None /\ row' \in Row
    BY <1>1, <1>3, NoneIsNoRow
  <2>2. links' \subseteq tags
    BY <1>1 DEF Allowed
  <2> QED
    BY <1>1, <2>1, <2>2 DEF Points
<1>5. StillNone'
  <2> SUFFICES ASSUME Seeds = {}, NEW q \in Requests, q # r, Active(q), pc[q] \in {"insert", "unlink"},
                      doc[q].kind \in {"PUT", "POST"}, seen[q] = None
               PROVE  FALSE
    BY <1>1 DEF StillNone, Active
  <2>1. row = None
    BY DEF StillNone
  <2>2. Active(r) /\ pc[r] # "advisory"
    BY DEF Active
  <2>3. doc[r].kind # "POST" /\ doc[q].kind # "POST"
    BY <2>2 DEF PostAlone
  <2> QED
    BY <1>2, <2>1, <2>2, <2>3 DEF PutAlone
<1>6. PointsOK'
  BY DEF PointsOK, PointOK, Active
<1>7. RowHeld' /\ LinksHeld' /\ CascadeKnown'
  BY SentinelAssumption DEF RowHeld, Writing, LinksHeld, CascadeKnown, LinksOf
<1>8. RowKnown'
  BY DEF RowKnown, RowHeld, Writing
<1>9. LinksKnown'
  BY DEF LinksKnown, RowHeld, Writing
<1>10. PutAlone' /\ PostAlone' /\ Unnamed'
  BY SentinelAssumption DEF PutAlone, Active, PostAlone, Unnamed
<1> QED
  BY <1>4, <1>5, <1>6, <1>7, <1>8, <1>9, <1>10

\* A failed request is answered.
LEMMA AnsweredKeeps ==
    ASSUME ResourceInv, NEW r \in Requests, Answered(r)
    PROVE  ResourceInv'
<1> USE DEF ResourceInv, TypeOK, Answered, Goto
<1>1. TypeOK'
  BY DEF Points, tables, locks
<1>2. PointsOK'
  BY DEF PointsOK, PointOK, Active
<1>3. RowHeld' /\ LinksHeld' /\ CascadeKnown'
  BY DEF RowHeld, Writing, tables, locks, LinksHeld, CascadeKnown, LinksOf
<1>4. RowKnown'
  BY DEF RowKnown, Writing, tables
<1>5. LinksKnown'
  BY DEF LinksKnown, Writing, Loads, Wanted, LinksOf, tables, locks
<1>6. PutAlone' /\ PostAlone' /\ Unnamed'
  BY DEF PutAlone, Active, locks, PostAlone, Unnamed
<1>7. StillNone'
  BY DEF StillNone, Active, tables
<1> QED
  BY <1>1, <1>2, <1>3, <1>4, <1>5, <1>6, <1>7

\* A tag is deleted, with its links, none of which is held.
LEMMA RemoveTagKeeps ==
    ASSUME ResourceInv, NEW t \in Tags, RemoveTag(t)
    PROVE  ResourceInv'
<1> USE DEF ResourceInv, TypeOK, RemoveTag
<1>1. TypeOK'
  BY DEF locks, handler
<1>2. PointsOK'
  BY DEF PointsOK, PointOK, Active, handler
<1>3. RowHeld' /\ LinksHeld' /\ CascadeKnown'
  BY SentinelAssumption DEF RowHeld, Writing, locks, handler, LinksHeld, CascadeKnown,
      LinksOf
<1>4. RowKnown'
  BY DEF RowKnown, Writing, handler
<1>5. LinksKnown'
  BY DEF LinksKnown, Writing, Loads, Wanted, LinksOf, locks, handler
<1>6. PutAlone' /\ PostAlone' /\ Unnamed'
  BY DEF PutAlone, Active, locks, handler, PostAlone, Unnamed
<1>7. StillNone'
  BY DEF StillNone, Active, handler
<1> QED
  BY <1>1, <1>2, <1>3, <1>4, <1>5, <1>6, <1>7

\* A category is deleted, and the row that names it changed, which nobody holds.
LEMMA RemoveCategoryKeeps ==
    ASSUME ResourceInv, NEW c \in Categories, RemoveCategory(c)
    PROVE  ResourceInv'
<1> USE DEF ResourceInv, TypeOK, RemoveCategory, Row
<1>1. TypeOK'
  BY NoneIsNoRow DEF locks, handler
<1>2. PointsOK'
  BY DEF PointsOK, PointOK, Active, handler
<1>3. RowHeld' /\ LinksHeld' /\ CascadeKnown'
  BY DEF RowHeld, Writing, locks, handler, LinksHeld, CascadeKnown, LinksOf
<1>4. RowKnown'
  BY SentinelAssumption DEF RowKnown, RowHeld, Writing, handler
<1>5. LinksKnown'
  BY DEF LinksKnown, Writing, Loads, Wanted, LinksOf, locks, handler
<1>6. PutAlone' /\ PostAlone' /\ Unnamed'
  BY DEF PutAlone, Active, locks, handler, PostAlone, Unnamed
<1>7. StillNone'
  BY DEF StillNone, Active, handler
<1> QED
  BY <1>1, <1>2, <1>3, <1>4, <1>5, <1>6, <1>7

\* The row, which nobody holds, is inserted or overwritten by seeds.py.
LEMMA SeedKeeps ==
    ASSUME ResourceInv, NEW graph \in Seeds, Seed(graph)
    PROVE  ResourceInv'
<1> USE DEF ResourceInv, TypeOK, Seed, Creating, Row
<1>1. TypeOK'
  <2>1. /\ graph.cols \in [Columns -> Values] /\ graph.category \in Categories
        /\ graph.tags \subseteq Tags
    BY SeedAssumption
  <2>2. row' \in Row /\ row' # None
    BY <2>1, NoneIsNoRow
  <2>3. tags' \subseteq Tags /\ categories' \subseteq Categories /\ links' \subseteq tags'
    BY <2>1
  <2> QED
    BY <2>2, <2>3 DEF locks, handler
<1>2. PointsOK'
  BY DEF PointsOK, PointOK, Active, handler
<1>3. \A r \in Requests : ~Writing(r) /\ pc[r] # "cascade"
  BY SentinelAssumption DEF RowHeld
<1>4. pc' = pc /\ doc' = doc /\ \A r \in Requests : ~(Writing(r)') /\ pc'[r] # "cascade"
  BY <1>3 DEF Writing, handler
<1>5. LinksHeld'
  BY DEF LinksHeld, locks, handler
<1>6. RowHeld' /\ LinksHeld' /\ CascadeKnown'
  BY <1>4, <1>5, SentinelAssumption DEF RowHeld, locks, CascadeKnown
<1>7. RowKnown'
  BY <1>4 DEF RowKnown
<1>8. LinksKnown'
  BY <1>4 DEF LinksKnown
<1>9. PutAlone' /\ PostAlone' /\ Unnamed'
  BY DEF PutAlone, Active, locks, handler, PostAlone, Unnamed
<1>10. StillNone'
  BY DEF StillNone
<1> QED
  BY <1>1, <1>2, <1>6, <1>7, <1>8, <1>9, <1>10

-----------------------------------------------------------------------------

\* The initial state satisfies the invariant.
LEMMA InitResource == Init => ResourceInv
<1> SUFFICES ASSUME Init PROVE ResourceInv
  OBVIOUS
<1>1. /\ pc = [r \in Requests |-> "idle"] /\ doc = [r \in Requests |-> NoDocument]
      /\ row = None /\ links = {} /\ rowLock = None /\ linkLock = [t \in Tags |-> None]
  BY DEF Init
<1>2. TypeOK
  BY <1>1, SentinelAssumption, NoneIsNoRow DEF Init, TypeOK, Points
<1>3. PointsOK
  BY <1>1 DEF Init, PointsOK, PointOK, Active
<1>4. RowHeld /\ LinksHeld /\ RowKnown /\ LinksKnown /\ CascadeKnown
  BY <1>1, SentinelAssumption DEF RowHeld, Writing, LinksHeld, RowKnown, LinksKnown, CascadeKnown
<1>5. PutAlone /\ PostAlone /\ Unnamed /\ StillNone
  BY <1>1, SentinelAssumption DEF Init, PutAlone, PostAlone, Unnamed, StillNone, Active
<1> QED
  BY <1>2, <1>3, <1>4, <1>5 DEF ResourceInv

\* A handler that fails, at whatever point.
LEMMA FailKeeps ==
    ASSUME ResourceInv, NEW r \in Requests, Fail(r)
    PROVE  ResourceInv'
BY FinishKeeps DEF Fail

\* Every step preserves the invariant.
LEMMA StepKeeps ==
    ASSUME ResourceInv, [Next]_vars
    PROVE  ResourceInv'
<1>1. CASE UNCHANGED vars
  BY <1>1 DEF vars, tables, locks, handler, ResourceInv, TypeOK, PointsOK, PointOK, Active,
              RowHeld, Writing, LinksHeld, RowKnown, LinksKnown, Loads, LinksOf, Wanted,
              CascadeKnown, PutAlone, PostAlone, Unnamed, StillNone
<1>2. CASE Environment
  BY <1>2, RemoveTagKeeps, RemoveCategoryKeeps, SeedKeeps DEF Environment
<1>3. ASSUME NEW r \in Requests, Step(r) PROVE ResourceInv'
  <2>1. CASE \E d \in Documents : Receive(r, d)
    BY <2>1, ReceiveKeeps
  <2>2. CASE Acquire(r)
    BY <2>2, FailKeeps, LockAdvisoryKeeps, FindLockedKeeps, InsertKeeps, WriteKeeps,
       UnlinkKeeps, CascadeKeeps, EraseKeeps DEF Acquire
  <2>3. CASE Proceed(r)
    BY <2>3, FailKeeps, FinishKeeps, FindNothingKeeps, FindUnlockedKeeps, LoadLinksKeeps,
       CommitDeleteKeeps, CommitWriteKeeps, AnsweredKeeps
    DEF Proceed, WriteNothing, WriteGone, EraseNothing
  <2>4. CASE Rollback(r)
    BY <2>4, FailKeeps DEF Rollback
  <2> QED
    BY <1>3, <2>1, <2>2, <2>3, <2>4 DEF Step
<1> QED
  BY <1>1, <1>2, <1>3 DEF Next

\* At each point of its transaction a handler knows the row and the collection
\* it is going to change, and holds what keeps them so.
THEOREM WritesInvariance == Spec => []ResourceInv
<1>1. ResourceInv /\ [Next]_vars => ResourceInv'
  BY StepKeeps
<1> QED
  BY InitResource, <1>1, PTL DEF Spec

-----------------------------------------------------------------------------
(* What a commit does, given the invariant.                                *)

\* Only CommitWrite ends a write with success, or a PATCH with nothing to write,
\* which is not at "unlink".
LEMMA CommitFacts ==
    ASSUME ResourceInv, [Next]_vars, NEW r \in Requests, Commits(r)
    PROVE  /\ doc[r] \in Documents
           /\ todo[r] = {}
           /\ Allowed(r)
           /\ row' = NewRow(r)
           /\ links' = (links \ LinksOf(r)) \cup Added(r)
<1> USE DEF ResourceInv, TypeOK, Commits
<1>1. ~UNCHANGED pc
  OBVIOUS
<1>2. ASSUME NEW q \in Requests, Step(q) PROVE CommitWrite(r)
  <2>1. q = r
    BY <1>2 DEF Step, Receive, Acquire, Proceed, Rollback, LockAdvisory, FindLocked, Insert, Write,
       Unlink, Cascade, Erase, FindNothing, FindUnlocked, LoadLinks, WriteNothing, WriteGone,
       EraseNothing, CommitDelete, CommitWrite, Answered, Fail, Finish, Goto
  <2> QED
    BY <1>2, <2>1 DEF Step, Receive, Acquire, Proceed, Rollback, LockAdvisory, FindLocked, Insert, Write,
       Unlink, Cascade, Erase, FindNothing, FindUnlocked, LoadLinks, WriteNothing, WriteGone,
       EraseNothing, CommitDelete, CommitWrite, Answered, Fail, Finish, Goto
<1>3. ~Environment
  BY <1>1 DEF Environment, RemoveTag, RemoveCategory, Seed, handler
<1>4. CommitWrite(r)
  BY <1>1, <1>2, <1>3 DEF Next, vars, handler
<1>5. ~Fail(r)
  BY DEF Fail, Finish, Goto
<1> QED
  BY <1>4, <1>5 DEF CommitWrite, PointsOK, PointOK, Active

\* The collection a commit leaves is the one wanted, without the tags that are
\* gone: what was loaded under the lock still is what is there.
LEMMA WantedIsLeft ==
    ASSUME ResourceInv, [Next]_vars, NEW r \in Requests, Commits(r)
    PROVE  IF Loads(r) THEN links' = Wanted(r, had[r]) \cap tags ELSE had[r] = {} /\ links' = links \cup Added(r)
<1> USE DEF ResourceInv, TypeOK, Commits
<1>1. Writing(r)
  BY DEF Writing
<1>2. links \subseteq tags /\ Added(r) \subseteq tags
  BY CommitFacts DEF Allowed
<1>3. LinksOf(r) = had[r] \ Wanted(r, had[r])
  BY <1>1, CommitFacts DEF LinksKnown
<1> QED
  BY <1>1, <1>2, <1>3, CommitFacts DEF LinksKnown, Added

\* No member of a relationship is lost or comes back: the collection after a
\* relationship request is its exact effect on the committed one.
THEOREM MembersAreExact == Spec => MembersExact
<1>1. ASSUME ResourceInv, [Next]_vars, NEW r \in Requests, Commits(r),
             doc[r].kind \in {"ADD", "REMOVE", "PATCH"}
      PROVE  links' = CASE doc[r].kind = "ADD" -> (links \cup doc[r].tags) \cap tags
                        [] doc[r].kind = "REMOVE" -> links \ doc[r].tags
                        [] OTHER -> IF doc[r].tags = Absent THEN links ELSE doc[r].tags \cap tags
  <2> USE <1>1
  <2>1. /\ doc[r] \in Documents /\ Writing(r) /\ links \subseteq tags
        /\ doc[r].tags = Absent \/ doc[r].tags \in SUBSET Tags
        /\ doc[r].kind \in {"ADD", "REMOVE"} => doc[r].tags # Absent
    BY CommitFacts, DocumentFacts DEF Writing, Commits, ResourceInv, TypeOK
  <2>2. CASE Loads(r)
    <3>1. links' = Wanted(r, had[r]) \cap tags
      BY <2>2, WantedIsLeft
    <3>2. links \subseteq had[r] /\ had[r] \cap tags \subseteq links
      BY <2>1, <2>2 DEF ResourceInv, LinksKnown
    <3> QED
      BY <2>1, <3>1, <3>2 DEF Wanted, WantedTags
  <2>3. CASE ~Loads(r)
    <3>1. doc[r].kind = "PATCH" /\ doc[r].tags = Absent
      BY <2>1, <2>3 DEF Loads, Locks
    <3>2. had[r] = {} /\ links' = links \cup Added(r)
      BY <2>3, WantedIsLeft
    <3> QED
      BY <3>1, <3>2 DEF Added, Wanted, WantedTags
  <2> QED
    BY <2>2, <2>3
<1>2. ResourceInv /\ [Next]_vars => [\A r \in Requests :
         Commits(r) /\ doc[r].kind \in {"ADD", "REMOVE", "PATCH"} =>
            links' = CASE doc[r].kind = "ADD" -> (links \cup doc[r].tags) \cap tags
                       [] doc[r].kind = "REMOVE" -> links \ doc[r].tags
                       [] OTHER -> IF doc[r].tags = Absent THEN links ELSE doc[r].tags \cap tags]_vars
  BY <1>1
<1> QED
  BY WritesInvariance, <1>2, PTL DEF Spec, MembersExact

\* A PATCH reverts nothing it does not name, however old the row it read.
THEOREM PatchIsMerged == Spec => PatchMerges
<1>1. ASSUME ResourceInv, [Next]_vars, NEW r \in Requests, Commits(r), doc[r].kind = "PATCH"
      PROVE  /\ doc[r].category = Absent => row'.category = row.category
             /\ \A c \in Columns :
                  IF doc[r].cols[c] = Absent THEN row'.cols[c] = row.cols[c]
                  ELSE \/ row'.cols[c] = doc[r].cols[c]
                       \/ ~Locks(doc[r]) /\ seen[r].cols[c] = doc[r].cols[c]
  <2> USE <1>1
  <2>1. row # None /\ seen[r] # None /\ (Locks(doc[r]) => row = seen[r])
    BY DEF ResourceInv, RowKnown, Writing, Commits
  <2>2. row' = NewRow(r)
    BY CommitFacts
  <2> QED
    BY <2>1, <2>2 DEF NewRow, NewCategory, Written
<1>2. ResourceInv /\ [Next]_vars => [\A r \in Requests : Commits(r) /\ doc[r].kind = "PATCH" =>
         /\ doc[r].category = Absent => row'.category = row.category
         /\ \A c \in Columns :
              IF doc[r].cols[c] = Absent THEN row'.cols[c] = row.cols[c]
              ELSE \/ row'.cols[c] = doc[r].cols[c]
                   \/ ~Locks(doc[r]) /\ seen[r].cols[c] = doc[r].cols[c]]_vars
  BY <1>1
<1> QED
  BY WritesInvariance, <1>2, PTL DEF Spec, PatchMerges

\* What PUT leaves of the row and the collection, whatever row it met.
LEMMA PutCommit ==
    ASSUME ResourceInv, [Next]_vars, NEW r \in Requests, Commits(r), doc[r].kind = "PUT"
    PROVE  /\ row' = NewRow(r)
           /\ row'.cols = doc[r].cols
           /\ doc[r].category # Absent => row'.category = doc[r].category
           /\ links' = Wanted(r, had[r]) \cap tags
           /\ links \subseteq had[r] /\ had[r] \cap tags \subseteq links
<1>1. /\ doc[r] \in Documents /\ Writing(r) /\ Loads(r) /\ row' = NewRow(r)
      /\ row # None => row \in Row
  BY CommitFacts DEF Commits, Writing, Loads, Locks, ResourceInv, TypeOK
<1>2. /\ Written(r) = Columns
      /\ doc[r].cols = [c \in Columns |-> doc[r].cols[c]]
  BY <1>1, DocumentFacts DEF Written
<1>3. row'.cols = doc[r].cols
  BY <1>1, <1>2 DEF NewRow, Inserted
<1>4. doc[r].category # Absent => row'.category = doc[r].category
  BY <1>1 DEF NewRow, Inserted, NewCategory
<1>5. links' = Wanted(r, had[r]) \cap tags
  BY <1>1, WantedIsLeft
<1> QED
  BY <1>1, <1>3, <1>4, <1>5 DEF ResourceInv, LinksKnown

\* PUT commits every member of its document, whatever row it met.
THEOREM PutAppliesMembers == Spec => PutApplies
<1>1. ASSUME ResourceInv, [Next]_vars, NEW r \in Requests, Commits(r), doc[r].kind = "PUT"
      PROVE  /\ row'.cols = doc[r].cols
             /\ doc[r].category # Absent => row'.category = doc[r].category
             /\ doc[r].tags # Absent => links' = doc[r].tags \cap tags
  BY <1>1, PutCommit DEF Wanted, WantedTags
<1>2. ResourceInv /\ [Next]_vars => [\A r \in Requests : Commits(r) /\ doc[r].kind = "PUT" =>
         /\ row'.cols = doc[r].cols
         /\ doc[r].category # Absent => row'.category = doc[r].category
         /\ doc[r].tags # Absent => links' = doc[r].tags \cap tags]_vars
  BY <1>1
<1> QED
  BY WritesInvariance, <1>2, PTL DEF Spec, PutApplies

\* A PUT that found no row inserts one, when seeds.py does not run.
LEMMA PutFound ==
    ASSUME Seeds = {}, ResourceInv, NEW r \in Requests, Commits(r), doc[r].kind = "PUT"
    PROVE  seen[r] = None <=> row = None
BY DEF ResourceInv, Commits, RowKnown, StillNone, Writing, Active

\* The answer 201 of PUT says who brought the row into being, when
\* seeds.py does not run.
THEOREM CreatedIsInserted == Seeds = {} => (Spec => CreatedMeansInserted)
<1> SUFFICES ASSUME Seeds = {} PROVE Spec => CreatedMeansInserted
  OBVIOUS
<1>1. ResourceInv /\ [Next]_vars => [\A r \in Requests :
         Commits(r) /\ doc[r].kind = "PUT" => (seen[r] = None <=> row = None)]_vars
  BY PutFound
<1> QED
  BY WritesInvariance, <1>1, PTL DEF Spec, CreatedMeansInserted

\* PUT replaces the resource fully, when seeds.py does not run.
THEOREM PutIsReplacement == Seeds = {} => (Spec => PutReplaces)
<1> SUFFICES ASSUME Seeds = {} PROVE Spec => PutReplaces
  OBVIOUS
<1>1. ASSUME ResourceInv, [Next]_vars, NEW r \in Requests, Commits(r), doc[r].kind = "PUT"
      PROVE  FullyReplaced(r)
  <2> USE <1>1
  <2>1. seen[r] = None <=> row = None
    BY PutFound
  <2>2. row' = Inserted(doc[r])
    <3>1. CASE row = None
      BY <3>1, PutCommit DEF NewRow
    <3>2. CASE row # None
      <4>1. row' = [cols |-> row'.cols, category |-> NewCategory(r)]
        BY <3>2, PutCommit DEF NewRow
      <4> QED
        BY <2>1, <3>2, <4>1, PutCommit DEF Inserted, NewCategory
    <3> QED
      BY <3>1, <3>2
  <2>3. links' = IF doc[r].tags = Absent THEN {} ELSE doc[r].tags \cap tags
    <3>1. row = None => had[r] \cap tags = {}
      BY PutCommit DEF ResourceInv, TypeOK
    <3> QED
      BY <2>1, <3>1, PutCommit DEF Wanted, WantedTags
  <2> QED
    BY <2>2, <2>3 DEF FullyReplaced
<1>2. ResourceInv /\ [Next]_vars => [\A r \in Requests :
         Commits(r) /\ doc[r].kind = "PUT" => FullyReplaced(r)]_vars
  BY <1>1
<1> QED
  BY WritesInvariance, <1>2, PTL DEF Spec, PutReplaces

\* Without a DELETE no cycle of lock waits closes: the holder of the row waits
\* for links only, and only a DELETE holds links without holding the row.
THEOREM DeadlocksHaveADelete == Spec => []OnlyDeleteDeadlocks
<1>1. ASSUME ResourceInv, NEW S \in SUBSET Requests, Deadlocked(S),
             \A r \in S : doc[r].kind # "DELETE"
      PROVE  FALSE
  <2> USE <1>1 DEF ResourceInv, TypeOK
  <2>1. ASSUME NEW r \in S, pc[r] = "unlink" PROVE FALSE
    <3>1. Writing(r) /\ rowLock = r
      BY <2>1 DEF Writing, RowHeld
    <3>2. PICK q \in S : q \in Waits(r)
      BY DEF Deadlocked
    <3>3. PICK t \in todo[r] : linkLock[t] = q
      BY <2>1, <3>2 DEF Waits
    <3>4. t \in Tags /\ pc[q] \in {"unlink", "cascade"} /\ t \notin todo[q]
      BY <3>3 DEF LinksHeld
    <3>5. rowLock = q
      BY <3>4 DEF RowHeld, Writing
    <3> QED
      BY <3>1, <3>3, <3>4, <3>5
  <2>2. ASSUME NEW r \in S, rowLock = r PROVE FALSE
    BY <2>1, <2>2 DEF RowHeld, Writing, PointsOK, PointOK
  <2>3. ASSUME NEW r \in S, pc[r] # "advisory" PROVE FALSE
    <3>1. PICK q \in S : q \in Waits(r)
      BY DEF Deadlocked
    <3>2. pc[r] # "cascade"
      BY <1>1 DEF Init, PointsOK, PointOK, Active
    <3>3. q = rowLock
      BY <2>1, <2>3, <3>1, <3>2 DEF Waits
    <3> QED
      BY <2>2, <3>3
  <2>4. PICK r \in S : pc[r] = "advisory"
    BY <2>3 DEF Deadlocked
  <2>5. PICK q \in S : q \in Waits(r)
    BY DEF Deadlocked
  <2>6. advisory = q
    BY <2>4, <2>5 DEF Waits
  <2> QED
    BY <2>3, <2>6 DEF PutAlone
<1>2. ResourceInv => OnlyDeleteDeadlocks
  BY <1>1 DEF OnlyDeleteDeadlocks
<1> QED
  BY WritesInvariance, <1>2, PTL

\* Without a DELETE the holder of the row waits for nobody: it waits for links
\* only, and only a DELETE holds links without holding the row.
LEMMA HolderWaitsForNone ==
    ASSUME ResourceInv, \A r \in Requests : Active(r) => doc[r].kind # "DELETE",
           NEW g \in Requests, rowLock = g
    PROVE  Waits(g) = {}
<1> USE DEF ResourceInv, TypeOK
<1>1. pc[g] = "unlink" /\ doc[g].kind # "DELETE"
  <2>1. pc[g] \in {"unlink", "cascade"}
    BY DEF RowHeld, Writing
  <2>2. doc[g].kind # "DELETE"
    BY <2>1 DEF Active
  <2>3. pc[g] # "cascade"
    BY <2>2 DEF PointsOK, PointOK
  <2> QED
    BY <2>1, <2>2, <2>3
<1>2. ASSUME NEW x \in Waits(g) PROVE FALSE
  <2>1. todo[g] # {} /\ \A t \in todo[g] : linkLock[t] # None
    BY <1>1, <1>2 DEF Waits
  <2>2. PICK t \in todo[g] : linkLock[t] # None
    BY <2>1
  <2>3. t \in Tags /\ linkLock[t] \in Requests
    BY <2>2
  <2>4. PICK q \in Requests : q = linkLock[t]
    BY <2>3
  <2>5. pc[q] \in {"unlink", "cascade"} /\ t \notin todo[q]
    BY <2>3, <2>4 DEF LinksHeld
  <2>6. doc[q].kind # "DELETE"
    BY <2>5 DEF Active
  <2>7. rowLock = q
    BY <2>5, <2>6 DEF RowHeld, Writing
  <2> QED
    BY <2>2, <2>5, <2>7
<1> QED
  BY <1>2

\* A handler that waits for anything but the advisory lock waits for the holder of
\* the row, while no DELETE is under way.
LEMMA RowIsWaitedFor ==
    ASSUME ResourceInv, \A r \in Requests : Active(r) => doc[r].kind # "DELETE",
           NEW r \in Requests, NEW h \in Waits(r), pc[r] # "advisory"
    PROVE  h = rowLock /\ h \in Requests
<1> USE DEF ResourceInv, TypeOK
<1>1. Active(r)
  BY DEF Active, Waits
<1>2. doc[r].kind # "DELETE"
  BY <1>1
<1>3. pc[r] # "cascade"
  BY <1>2 DEF PointsOK, PointOK
<1>4. pc[r] # "unlink"
  <2> SUFFICES ASSUME pc[r] = "unlink" PROVE FALSE
    OBVIOUS
  <2>1. rowLock = r
    BY <1>2 DEF RowHeld, Writing
  <2> QED
    BY <2>1, HolderWaitsForNone
<1>5. h \in {rowLock} \ {None}
  BY <1>3, <1>4 DEF Waits
<1>6. rowLock \in Requests \cup {None}
  OBVIOUS
<1> QED
  BY <1>5, <1>6

\* While no DELETE is under way, whoever waits does so for the holder of the row, who
\* waits for nobody, or as a PUT for one that does.
THEOREM WritersWaitBriefly == Spec => []WaitsAreShort
<1>1. ResourceInv => WaitsAreShort
  <2> SUFFICES ASSUME ResourceInv, \A r \in Requests : Active(r) => doc[r].kind # "DELETE",
                      NEW r \in Requests, NEW h \in Waits(r), NEW g \in Waits(h)
               PROVE  pc[r] = "advisory" /\ rowLock = g /\ Waits(g) = {}
    BY DEF WaitsAreShort
  <2>1. pc[r] = "advisory"
    <3> SUFFICES ASSUME pc[r] # "advisory" PROVE FALSE
      OBVIOUS
    <3>1. rowLock = h /\ h \in Requests
      BY RowIsWaitedFor
    <3>2. Waits(h) = {}
      BY <3>1, HolderWaitsForNone
    <3> QED
      BY <3>2
  <2>2. h \in Requests /\ advisory = h
    BY <2>1 DEF Waits, ResourceInv, TypeOK
  <2>3. pc[h] # "advisory"
    BY <2>2 DEF ResourceInv, PutAlone
  <2>4. rowLock = g /\ g \in Requests
    BY <2>2, <2>3, RowIsWaitedFor
  <2> QED
    BY <2>1, <2>4, HolderWaitsForNone
<1> QED
  BY <1>1, WritesInvariance, PTL

\* No handler goes round in circles: each step it takes of its own, failure
\* included, leads to a later point or past one more link.
THEOREM WritersComeToAnEnd == Spec => HandlersAdvance
<1> DEFINE Further(r) == \/ pc'[r] = "idle"
                         \/ Stage[pc[r]] < Stage[pc'[r]]
                         \/ pc'[r] = pc[r] /\ todo'[r] \subseteq todo[r] /\ todo'[r] # todo[r]
<1>1. ASSUME ResourceInv, NEW r \in Requests, Acquire(r) \/ Proceed(r)
      PROVE  Further(r)
  <2> USE <1>1
  <2>1. pc \in [Requests -> Points] /\ todo \in [Requests -> SUBSET Tags]
    BY DEF ResourceInv, TypeOK
  <2>2. /\ Stage["advisory"] = 1 /\ Stage["find"] = 2 /\ Stage["load"] = 3 /\ Stage["insert"] = 3
        /\ Stage["write"] = 3 /\ Stage["unlink"] = 4 /\ Stage["cascade"] = 5 /\ Stage["failed"] = 6
    BY DEF Stage
  <2>3. \A point : Goto(r, point) /\ point \in Points => pc'[r] = point
    BY <2>1 DEF Goto
  <2>4. "failed" \in Points /\ "idle" \in Points
    BY DEF Points
  <2>5. Fail(r) => pc'[r] = "failed"
    BY <2>3, <2>4 DEF Fail, Finish
  <2>6. pc[r] # "idle" /\ pc[r] # "failed" /\ pc'[r] = "failed" => Further(r)
    BY <2>1, <2>2 DEF Points
  <2>7. CASE LockAdvisory(r)
    <3>1. pc[r] = "advisory" /\ pc'[r] = "find"
      BY <2>1, <2>7 DEF LockAdvisory, Goto
    <3> QED
      BY <2>2, <3>1
  <2>8. CASE FindLocked(r) \/ FindNothing(r) \/ FindUnlocked(r)
    <3>1. pc[r] = "find" /\ pc'[r] \in {"insert", "unlink", "load", "write", "failed"}
      BY <2>1, <2>5, <2>8 DEF FindLocked, FindNothing, FindUnlocked, Goto
    <3> QED
      BY <2>2, <3>1
  <2>9. CASE Insert(r) \/ Write(r) \/ LoadLinks(r)
    <3>1. pc[r] \in {"insert", "write", "load"} /\ pc'[r] = "unlink"
      BY <2>1, <2>9 DEF Insert, Write, LoadLinks, Goto
    <3> QED
      BY <2>2, <3>1
  <2>10. ASSUME NEW t \in Tags, Unlink(r, t) PROVE Further(r)
    <3>1. CASE t \in links
      BY <2>1, <2>10, <3>1 DEF Unlink
    <3>2. CASE t \notin links
      BY <2>5, <2>6, <2>10, <3>2 DEF Unlink
    <3> QED
      BY <3>1, <3>2
  <2>11. ASSUME NEW t \in Tags, Cascade(r, t) PROVE Further(r)
    BY <2>1, <2>11 DEF Cascade
  <2>12. CASE Erase(r)
    <3>1. pc[r] = "unlink" /\ pc'[r] = "cascade"
      BY <2>1, <2>12 DEF Erase, Goto
    <3> QED
      BY <2>2, <3>1
  <2>13. CASE WriteNothing(r) \/ EraseNothing(r) \/ CommitDelete(r)
    BY <2>3, <2>4, <2>13 DEF WriteNothing, EraseNothing, CommitDelete, Finish
  <2>14. CASE WriteGone(r)
    BY <2>5, <2>6, <2>14 DEF WriteGone
  <2>15. CASE CommitWrite(r)
    <3>1. pc[r] = "unlink" /\ (pc'[r] = "idle" \/ pc'[r] = "failed")
      BY <2>3, <2>4, <2>5, <2>15 DEF CommitWrite, Finish
    <3> QED
      BY <2>6, <3>1
  <2>16. CASE Answered(r)
    BY <2>3, <2>4, <2>16 DEF Answered
  <2> QED
    BY <2>7, <2>8, <2>9, <2>10, <2>11, <2>12, <2>13, <2>14, <2>15, <2>16 DEF Acquire, Proceed
<1>2. ResourceInv /\ [Next]_vars => [\A r \in Requests : Acquire(r) \/ Proceed(r) => Further(r)]_vars
  BY <1>1
<1> QED
  BY <1>2, WritesInvariance, PTL DEF Spec, HandlersAdvance
==============================================================================
