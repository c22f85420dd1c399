-------------------------------- MODULE Listing --------------------------------
(***************************************************************************)
(* A client walks a collection along the links of the pages it is given,   *)
(* while others insert, change and delete rows.  A page is read by one     *)
(* statement, the total by another one before it.                          *)
(***************************************************************************)
EXTENDS QueryParameters

CONSTANTS
    Ids,            \* integers: the values of the tie breaker's column
    Rows,           \* what a row may hold: [column -> value]
    Tables,         \* the tables to begin with
    Requests,       \* first requests of a walk through the collection
    Related,        \* and of a walk through a related collection
    Joins,          \* what index_scope may be: how often it repeats the row of each id
    MaxWrites       \* bound: writes during a walk

\* A row has a value its column can hold, or NULL where that is allowed.
ASSUME RowsAssumption ==
    /\ IsFiniteSet(Ids) /\ Ids \subseteq ColumnValues
    /\ Tables \subseteq [Ids -> Rows \cup {None}]
    /\ None \notin Rows \cup Int
    /\ \A row \in Rows : \A name \in DOMAIN SortColumns :
        LET column == SortColumns[name] IN
        \/ column = TieBreaker.column
        \/ row[column] \in ColumnValues
        \/ row[column] = Null /\ column \in Nullable

\* What the first requests and the links of a page are made of.
Given == UNION {Range(q) : q \in Requests \cup Related}
Linkable ==
    Given
    \cup [name : {"totals"}, value : {"true"}]
    \cup [name : {"number", "size"}, value : Int]
    \cup [name : {"after", "before"}, value : Cursors]

Pages == [ids : Seq(Ids), links : [{"self", "first", "prev", "next", "last"} -> Seq(Linkable) \cup {None}]]

ASSUME NoneAssumption == None \notin Seq(Linkable) \cup Pages

\* A walk begins with a request that is accepted, at one end.
ASSUME RequestsAssumption ==
    /\ \A q \in Requests \cup Related : q \in Seq(Range(q)) /\ \A p \in Range(q) : WellFormed(p)
    /\ \A q \in Requests : LET spec == ParseQuery(q) IN
        spec.error = None /\ spec.number = 1 /\ spec.cursor \in {None, Boundary}
    /\ \A q \in Related : ParsePage(q).error = None /\ ParsePage(q).number = 1

\* index_scope loses no row, and its query has no more rows than an offset counts.
ASSUME JoinsAssumption ==
    \A join \in Joins :
        /\ join \in [Ids -> Nat \ {0}]
        /\ Cardinality(UNION {{i} \X (1 .. join[i]) : i \in Ids}) <= MaxOffset

VARIABLES
    copies,     \* how often index_scope repeats each row; it does not change
    table,      \* the row of each id, None when there is none
    walk,       \* "index" or "related"
    request,    \* the request under way or answered last
    total,      \* what its COUNT returned, None if it has none
    page,       \* the page it was answered with, None before
    walked,     \* history: the ids of the pages so far
    stable,     \* history: ids of the rows selected all along and not written
    writes

vars == <<copies, table, walk, request, total, page, walked, stable, writes>>

Spec(q) == IF walk = "index" THEN ParseQuery(q) ELSE ParsePage(q)

-----------------------------------------------------------------------------
(* The statements of a request *)

Value(i, column) == IF column = TieBreaker.column THEN i ELSE table[i][column]

Stored == {i \in Ids : table[i] # None}

\* No comparison with NULL holds.
Satisfies(v, op, values) ==
    IF op = "isNull" THEN (v = Null) = (1 \in values)
    ELSE /\ v # Null
         /\ CASE op \in {"exact", "in"} -> v \in values
              [] op = "gt" -> \E w \in values : v > w
              [] op = "gte" -> \E w \in values : v >= w
              [] op = "lt" -> \E w \in values : v < w
              [] op = "lte" -> \E w \in values : v <= w

Selected(spec) ==
    {i \in Stored : \A f \in spec.filters :
        Satisfies(Value(i, FilterFields[f.field].column), f.op, f.values)}

\* The terms the database sorts by: inverted for page[before].
KeysetSorts_NotInverted(spec) == spec.sorts    \* mutant
KeysetSorts(spec) ==
    [k \in DOMAIN spec.sorts |-> [spec.sorts[k] EXCEPT !.desc = (@ # spec.before)]]

\* ORDER BY, which puts NULL last, or first when it descends.
Precedes(i, j, sorts) ==
    \E k \in DOMAIN sorts :
        LET v(id, n) == Value(id, ColumnOf(sorts[n].name)) IN
        /\ \A n \in 1 .. k - 1 : v(i, n) = v(j, n)
        /\ IF sorts[k].desc THEN v(i, k) > v(j, k) ELSE v(i, k) < v(j, k)

KeyOf(i, sorts) == [k \in DOMAIN sorts |-> Value(i, ColumnOf(sorts[k].name))]

Beyond_NoPrefix(key, spec) ==   \* mutant: the columns before are not pinned
    \E k \in DOMAIN spec.sorts :
        IF spec.sorts[k].desc # spec.before THEN key[k] < spec.cursor.v[k] ELSE key[k] > spec.cursor.v[k]

Beyond_NotStrict(key, spec) ==  \* mutant: the row of the cursor is not left out
    \E k \in DOMAIN spec.sorts :
        /\ \A n \in 1 .. k - 1 : key[n] = spec.cursor.v[n]
        /\ IF spec.sorts[k].desc # spec.before THEN key[k] <= spec.cursor.v[k] ELSE key[k] >= spec.cursor.v[k]

\* The OR of AND prefixes: equal in the columns before, strictly beyond in one.
Beyond(key, spec) ==
    \E k \in DOMAIN spec.sorts :
        /\ \A n \in 1 .. k - 1 : key[n] = spec.cursor.v[n]
        /\ IF spec.sorts[k].desc # spec.before THEN key[k] < spec.cursor.v[k] ELSE key[k] > spec.cursor.v[k]

\* The bound on the leading column, for the planner.
WithinBound(key, spec) ==
    IF spec.sorts[1].desc # spec.before THEN key[1] <= spec.cursor.v[1] ELSE key[1] >= spec.cursor.v[1]

Positioned(spec) == spec.cursor # None /\ spec.cursor # Boundary

Keyset(spec) ==
    {i \in Selected(spec) :
        Positioned(spec) => LET key == KeyOf(i, spec.sorts)
                            IN  WithinBound(key, spec) /\ Beyond(key, spec)}

\* The rows of a statement: index_scope may join others to one, and repeat it.
Copies(i) == IF walk = "index" THEN copies[i] ELSE 1
Joined(ids) == UNION {{i} \X (1 .. Copies(i)) : i \in ids}

\* A related collection is in the order of its ids.
OrderOf(spec) == IF walk = "index" THEN KeysetSorts(spec) ELSE <<Term(TieBreaker.name, FALSE)>>

\* The ids of a statement's rows, in its order.
RawRows(spec) ==
    LET rows == Joined(Keyset(spec))
        earlier(p, q) == Precedes(p[1], q[1], OrderOf(spec)) \/ (p[1] = q[1] /\ p[2] < q[2])
        ordered == InOrder(rows, {pair \in rows \X rows : earlier(pair[1], pair[2])})
    IN  [n \in 1 .. Cardinality(rows) |-> ordered[n][1]]

Count(spec) == Cardinality(Joined(Selected(spec)))

Limited(rows, spec, limit) ==
    LET offset == IF spec.cursor = None THEN (spec.number - 1) * spec.size ELSE 0
    IN  SubSeq(rows, offset + 1, IF offset + limit < Len(rows) THEN offset + limit ELSE Len(rows))

IndexPage_ProbeFolded(spec) ==  \* mutant: the probe is looked for among the distinct rows
    LET rows == Distinct(Limited(RawRows(spec), spec, spec.size + 1))
        models == SubSeq(rows, 1, IF Len(rows) < spec.size THEN Len(rows) ELSE spec.size)
    IN  [ids |-> IF spec.before THEN Reverse(models) ELSE models, hasMore |-> Len(rows) > spec.size]

\* One row more than the page is read, as the probe for a next page, before the
\* rows are made distinct.
IndexPage(spec) ==
    LET raw == Limited(RawRows(spec), spec, spec.size + 1)
        rows == Distinct(raw)
        models == SubSeq(rows, 1, IF Len(rows) < spec.size THEN Len(rows) ELSE spec.size)
    IN  [ids |-> IF spec.before THEN Reverse(models) ELSE models, hasMore |-> Len(raw) > spec.size]

RelatedPage(spec) == [ids |-> Limited(RawRows(spec), spec, spec.size), hasMore |-> FALSE]

CursorAt(i, spec) == EncodeCursor(KeyOf(i, spec.sorts), spec.sorts)

\* The page a request is answered with, and its links.
Answer(q, spec, count) ==
    LET read == IF walk = "index" THEN IndexPage(spec) ELSE RelatedPage(spec)
        cursor(n) == IF read.ids = <<>> THEN None ELSE CursorAt(read.ids[n], spec)
    IN  [ids |-> read.ids,
         links |-> IF spec.cursor = None THEN OffsetLinks(q, spec, count, read.hasMore)
                   ELSE CursorLinks(q, spec, read.hasMore, cursor(Len(read.ids)), cursor(1))]

-----------------------------------------------------------------------------

Init ==
    /\ copies \in Joins
    /\ table \in Tables
    /\ \E kind \in {"index", "related"} :
        /\ walk = kind
        /\ request \in IF kind = "index" THEN Requests ELSE Related
    /\ total = None
    /\ page = None
    /\ walked = <<>>
    /\ stable = Selected(Spec(request))
    /\ writes = 0

Counted == total # None \/ ~ (Spec(request).totals \/ walk = "related")

\* The COUNT of a request that asks for totals; a related collection has one always.
CountRows ==
    /\ page = None
    /\ ~ Counted
    /\ total' = Count(Spec(request))
    /\ UNCHANGED <<copies, table, walk, request, page, walked, stable, writes>>

ReadPage ==
    /\ page = None
    /\ Counted
    /\ \E spec \in {Spec(request)} : page' = Answer(request, spec, total)
    /\ walked' = walked \o page'.ids
    /\ UNCHANGED <<copies, table, walk, request, total, stable, writes>>

\* A walk that began with page[before] goes backwards.
Onward == IF Spec(request).before THEN page.links.prev ELSE page.links.next

Follow ==
    /\ page # None
    /\ Onward # None
    /\ request' = Onward
    /\ total' = None
    /\ page' = None
    /\ UNCHANGED <<copies, table, walk, walked, stable, writes>>

\* Another request inserts, replaces or deletes a row.
Write(i) ==
    /\ writes < MaxWrites
    /\ writes' = writes + 1
    /\ \E row \in Rows \cup {None} : row # table[i] /\ table' = [table EXCEPT ![i] = row]
    /\ stable' = stable \ {i}
    /\ UNCHANGED <<copies, walk, request, total, page, walked>>

Next == CountRows \/ ReadPage \/ Follow \/ \E i \in Ids : Write(i)

Walk == Init /\ [][Next]_vars

-----------------------------------------------------------------------------

CursorWalk == Spec(request).cursor # None

TimesWalked(i) == Cardinality({n \in DOMAIN walked : walked[n] = i})

\* Pages by cursor: whatever is inserted, changed or deleted meanwhile, a row
\* that stays as it is turns up exactly once by the end of the walk, forwards or
\* backwards, with mixed directions and repeated sort values.
CursorWalkComplete ==
    CursorWalk /\ page # None =>
        \A i \in stable : IF Onward = None THEN TimesWalked(i) = 1 ELSE TimesWalked(i) <= 1

\* Pages by number lose nothing while the rows stay as they are, also when
\* index_scope repeats rows and the probe row is folded into its page.
QuietWalkComplete ==
    writes = 0 /\ page # None /\ Onward = None => \A i \in stable : TimesWalked(i) >= 1

\* A forward walk shows rows in the order of the request, a backward walk its
\* pages from the end.
WalkOrdered ==
    CursorWalk /\ page # None =>
        LET sorts == Spec(request).sorts IN
        \A m, n \in DOMAIN page.ids :
            m < n /\ {page.ids[m], page.ids[n]} \subseteq stable
            => Precedes(page.ids[m], page.ids[n], sorts)

\* A walk by cursor shows each row that stays, once, and in its place.
CursorWalkExact == CursorWalkComplete /\ WalkOrdered

\* Every link the program hands out is one it accepts, for the same selection,
\* order, inclusion, page size and totals.
LinksAccepted ==
    page # None =>
        LET spec == Spec(request)
            kept(other) == [k \in {"filters", "sorts", "includes", "size", "totals"} |-> other[k]]
        IN  \A l \in DOMAIN page.links : page.links[l] # None =>
                \A next \in {Spec(page.links[l])} :
                    /\ next.error = None
                    /\ kept(next) = kept(spec)
                    /\ (next.cursor = None) = (spec.cursor = None)

\* A page never says it is the last while its last link points further on, even
\* when the total was counted before a write and the page read after it.
NextAgreesWithLast ==
    page # None /\ ~ CursorWalk /\ page.links.last # None /\ page.links.next = None
    => Spec(page.links.last).number <= Spec(request).number

\* The links of a page agree with the request they continue and with each other.
LinksConsistent == LinksAccepted /\ NextAgreesWithLast

\* The one page a request would be answered with now.
PageFor(q) == {Answer(q, spec, total) : spec \in {Spec(q)}}

\* The page before the page after this one is this one, while nothing changes.
ThereAndBack ==
    page # None /\ page.links.next # None /\ (\A i \in Ids : copies[i] = 1) /\ ~ Spec(request).before =>
        \A now \in PageFor(request), ahead \in PageFor(page.links.next) :
            page = now /\ ahead.ids # <<>> =>
                /\ ahead.links.prev # None
                /\ \A back \in PageFor(ahead.links.prev) : back.ids = page.ids

\* A cursor that comes later in the order the database walks by.
Later(new, old, sorts) ==
    \E k \in DOMAIN sorts :
        /\ SubSeq(new, 1, k - 1) = SubSeq(old, 1, k - 1)
        /\ IF sorts[k].desc THEN new[k] < old[k] ELSE new[k] > old[k]

\* Nobody is led around in circles, whatever is written: each cursor to follow is
\* later than the one that was followed, in the direction of the walk.
CursorAdvances ==
    [][Follow /\ Positioned(Spec(request)) =>
        Later(Spec(request').cursor.v, Spec(request).cursor.v, KeysetSorts(Spec(request)))]_vars
=============================================================================
