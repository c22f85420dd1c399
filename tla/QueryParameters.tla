---------------------------- MODULE QueryParameters ----------------------------
(***************************************************************************)
(* From the query parameters of a collection request to what is asked of   *)
(* the database, and from a page to the links that lead on from it.  A     *)
(* request is a sequence of parameters [name, value]:                      *)
(*   "filter"       [field, op, values]; no values stands for one that the *)
(*                  field's parser refuses                                 *)
(*   "sort"         a sequence of terms [name, desc]                       *)
(*   "include"      a sequence of paths, empty for include=                *)
(*   "number" and "size"    an integer, 0 for one that is refused          *)
(*   "totals"       "true", "false" or another string                      *)
(*   "after" and "before"   a cursor [s, v]: the terms and values it was   *)
(*                  minted from, or none at all for page[after]=           *)
(*   "page"         another parameter of the page family                   *)
(*   any other      a parameter the program does not know                  *)
(***************************************************************************)
EXTENDS Integers, Sequences, SequencesExt, Orders

CONSTANTS
    None,
    FilterFields,   \* of each name that can be filtered: its column and operators
    SortColumns,    \* of each name that can be sorted by: its column
    IncludePaths,
    DefaultSort,    \* terms
    TieBreaker,     \* a term with its column, whose values identify rows
    Nullable,       \* columns that may hold NULL
    ColumnValues,   \* integers a column holds
    Null,           \* NULL, which PostgreSQL sorts as if larger than any value
    DefaultSize, MaxSize, MaxOffset

\* What rows can be sorted by, and positions among them.
SortTerms == [name : DOMAIN SortColumns \cup {TieBreaker.name}, desc : BOOLEAN]
Cursors == [s : Seq([name : STRING, desc : BOOLEAN]), v : Seq(Int)]

ASSUME PolicyAssumption ==
    /\ DefaultSort \in Seq(SortTerms)
    /\ DOMAIN SortColumns \cup {TieBreaker.name} \subseteq STRING
    /\ TieBreaker.desc \in BOOLEAN
    /\ TieBreaker.column \notin Nullable
    /\ ColumnValues \subseteq Nat
    /\ Null \in Nat /\ \A v \in ColumnValues : v < Null
    /\ DefaultSize \in Nat \ {0} /\ MaxSize \in Nat /\ MaxOffset \in Nat
    /\ DefaultSize <= MaxSize
ASSUME NoneIsNoCode ==
    /\ None \notin {"INVALID_FILTER", "INVALID_SORT", "INVALID_INCLUDE", "INVALID_PAGE",
                    "INVALID_QUERY_PARAMETER"}
    /\ None \notin Cursors

\* Each entry of a sequence once, where it first comes.
Distinct(s) == Extract(s, {n \in DOMAIN s : \A m \in 1 .. n - 1 : s[m] # s[n]})

Boundary == [s |-> <<>>, v |-> <<>>]

-----------------------------------------------------------------------------
(* Sorting *)

Term(name, desc) == [name |-> name, desc |-> desc]

\* None for a name the policy does not know.
ColumnOf(name) ==
    IF name = TieBreaker.name THEN TieBreaker.column
    ELSE IF name \in DOMAIN SortColumns THEN SortColumns[name] ELSE None

WithTieBreaker_ByName(terms) == \* mutant: the tie breaker is missed when anything is sorted by
    IF terms # <<>> THEN terms ELSE <<Term(TieBreaker.name, TieBreaker.desc)>>

\* Appended unless the terms name it, or its column under another name.
WithTieBreaker(terms) ==
    IF \E i \in DOMAIN terms : ColumnOf(terms[i].name) = TieBreaker.column
    THEN terms
    ELSE Append(terms, Term(TieBreaker.name, TieBreaker.desc))

SortAccepted(terms) ==
    /\ terms # <<>>
    /\ \A i \in DOMAIN terms : terms[i].name \in DOMAIN SortColumns
    /\ \A i, j \in DOMAIN terms : terms[i].name = terms[j].name => i = j

\* A position can be addressed by values only if none of them can be NULL.
Addressable(sorts) == \A i \in DOMAIN sorts : ColumnOf(sorts[i].name) \notin Nullable

-----------------------------------------------------------------------------
(* Cursors *)

\* The cursor of a row with these values in the columns of the effective sort;
\* None when a link with it could not be followed.
EncodeCursor(key, sorts) ==
    IF Addressable(sorts) /\ \A i \in DOMAIN sorts : key[i] # Null
    THEN [s |-> sorts, v |-> key] ELSE None

\* Values the columns of the sort can hold.
Decodable(values) == Range(values) \subseteq ColumnValues

\* A cursor of another sort, or with values its columns cannot hold, is refused.
CursorAccepted(cursor, sorts) ==
    /\ Addressable(sorts)
    /\ cursor # Boundary =>
        /\ cursor.s = sorts
        /\ Len(cursor.v) = Len(sorts)
        /\ Decodable(cursor.v)

-----------------------------------------------------------------------------
(* Parsing *)

FilterAccepted(filter) ==
    /\ filter.field \in DOMAIN FilterFields
    /\ filter.op \in FilterFields[filter.field].operators
    /\ filter.values # {}

\* The part of a value that the syntax of its parameter fixes.
WellFormed(p) ==
    /\ p.name = "sort" => p.value \in Seq([name : STRING, desc : BOOLEAN])
    /\ p.name \in {"number", "size"} => p.value \in Int
    /\ p.name \in {"after", "before"} => p.value \in Cursors

PageParameters == {"number", "size", "totals", "after", "before"}
CollectionParameters == {"filter", "sort", "include"} \cup PageParameters

IsPage(name) == name \in PageParameters \cup {"page"}

Code(name) == CASE name = "filter" -> "INVALID_FILTER"
                [] name = "sort" -> "INVALID_SORT"
                [] name = "include" -> "INVALID_INCLUDE"
                [] IsPage(name) -> "INVALID_PAGE"
                [] OTHER -> "INVALID_QUERY_PARAMETER"

\* What may be given once: a filter per field and operator, one cursor of
\* either kind, every other parameter.
Key(p) == CASE p.name = "filter" -> <<p.value.field, p.value.op>>
            [] p.name \in {"after", "before"} -> <<"cursor">>
            [] OTHER -> <<p.name>>

\* A cursor is looked at when all else has been read.
Accepted(p) ==
    CASE p.name = "filter" -> FilterAccepted(p.value)
      [] p.name = "sort" -> SortAccepted(p.value)
      [] p.name = "include" -> Range(p.value) \subseteq IncludePaths
      [] p.name \in {"number", "size"} -> p.value >= 1
      [] p.name = "totals" -> p.value \in {"true", "false"}
      [] OTHER -> TRUE

\* The parameters that are refused by a route that takes the known ones.
Faulty(request, known) ==
    {n \in DOMAIN request :
        \/ request[n].name \notin known
        \/ ~ Accepted(request[n])
        \/ \E m \in 1 .. n - 1 : Key(request[m]) = Key(request[n])}

Naming(request, names) == {n \in DOMAIN request : request[n].name \in names}

ValueOf(request, names, default) ==
    IF Naming(request, names) = {} THEN default
    ELSE request[CHOOSE n \in Naming(request, names) : TRUE].value

\* The first parameter that is refused ends the parsing; without one, each has
\* its say, whatever their order.
Read(request, known) ==
    LET faulty == Faulty(request, known)
        sort == ValueOf(request, {"sort"}, DefaultSort)
        size == ValueOf(request, {"size"}, DefaultSize)
    IN  [error |-> IF faulty = {} THEN None ELSE Code(request[Min(faulty)].name),
         filters |-> {request[n].value : n \in Naming(request, {"filter"})},
         sorts |-> WithTieBreaker(sort),
         includes |-> Distinct(ValueOf(request, {"include"}, <<>>)),
         number |-> ValueOf(request, {"number"}, 1),
         size |-> IF size < MaxSize THEN size ELSE MaxSize,
         totals |-> ValueOf(request, {"totals"}, "false") = "true",
         cursor |-> ValueOf(request, {"after", "before"}, None),
         before |-> Naming(request, {"before"}) # {}]

Refused(spec, code) == IF spec.error = None THEN [spec EXCEPT !.error = code] ELSE spec

OffsetAccepted(spec) == (spec.number - 1) * spec.size <= MaxOffset

ParseQuery_NumberedCursor(request) ==   \* mutant: a cursor goes with a page number
    LET spec == Read(request, CollectionParameters)
    IN  IF /\ OffsetAccepted(spec)
           /\ spec.cursor # None => CursorAccepted(spec.cursor, spec.sorts)
        THEN spec ELSE Refused(spec, "INVALID_PAGE")

ParseQuery_CursorEarly(request) ==      \* mutant: the cursor is held against the sort read so far
    LET spec == Read(request, CollectionParameters)
        early == \A n \in Naming(request, {"sort"}), m \in Naming(request, {"after", "before"}) : m < n
        sorts == IF early THEN WithTieBreaker(DefaultSort) ELSE spec.sorts
    IN  IF /\ OffsetAccepted(spec)
           /\ spec.cursor # None => /\ Naming(request, {"number"}) = {}
                                    /\ CursorAccepted(spec.cursor, sorts)
        THEN spec ELSE Refused(spec, "INVALID_PAGE")

\* Parameters of a collection.
ParseQuery(request) ==
    LET spec == Read(request, CollectionParameters)
    IN  IF /\ OffsetAccepted(spec)
           /\ spec.cursor # None => /\ Naming(request, {"number"}) = {}
                                    /\ CursorAccepted(spec.cursor, spec.sorts)
        THEN spec ELSE Refused(spec, "INVALID_PAGE")

ParsePage_Uncapped(request) ==  \* mutant: the size is not capped
    LET spec == [Read(request, {"number", "size"}) EXCEPT !.size = ValueOf(request, {"size"}, DefaultSize)]
    IN  IF OffsetAccepted(spec) THEN spec ELSE Refused(spec, "INVALID_PAGE")

\* The parameters a related collection takes: page number and size only.
ParsePage(request) ==
    LET spec == Read(request, {"number", "size"})
    IN  IF OffsetAccepted(spec) THEN spec ELSE Refused(spec, "INVALID_PAGE")

\* The parameters a single resource takes: include only.
ParseInclude(request) == Read(request, {"include"})

-----------------------------------------------------------------------------
(* Links *)

\* What is not about the page, as it came.
Preserved(request) == Extract(request, {n \in DOMAIN request : ~ IsPage(request[n].name)})

Link_WithoutTotals(request, spec, p) == \* mutant: a link forgets page[totals]
    Preserved(request) \o <<p, [name |-> "size", value |-> spec.size]>>

\* Totals and size go on as they were understood.
Link(request, spec, p) ==
    Preserved(request)
    \o (IF spec.totals THEN <<[name |-> "totals", value |-> "true"]>> ELSE <<>>)
    \o <<p, [name |-> "size", value |-> spec.size]>>

LastPage(total, size) == IF total = 0 THEN 1 ELSE (total + size - 1) \div size

MoreByCount_Ignored(spec, total) == FALSE   \* mutant: the probe row alone decides

MoreByCount(spec, total) == total # None /\ spec.number < LastPage(total, spec.size)

\* hasMore comes from the probe row; show_related has none and passes FALSE.
OffsetLinks(request, spec, total, hasMore) ==
    LET to(number) == Link(request, spec, [name |-> "number", value |-> number])
        more == hasMore \/ MoreByCount(spec, total)
    IN  [self |-> to(spec.number),
         first |-> to(1),
         prev |-> IF spec.number > 1 THEN to(spec.number - 1) ELSE None,
         next |-> IF more THEN to(spec.number + 1) ELSE None,
         last |-> IF total = None THEN None ELSE to(LastPage(total, spec.size))]

\* nextCursor and prevCursor: of the last and the first row of the page.
CursorLinks(request, spec, hasMore, nextCursor, prevCursor) ==
    LET after(cursor) == Link(request, spec, [name |-> "after", value |-> cursor])
        before(cursor) == Link(request, spec, [name |-> "before", value |-> cursor])
        positioned == spec.cursor # Boundary
        toNext == IF spec.before THEN positioned ELSE hasMore
        toPrev == IF spec.before THEN hasMore ELSE positioned
    IN  [self |-> IF spec.before THEN before(spec.cursor) ELSE after(spec.cursor),
         first |-> after(Boundary),
         prev |-> IF toPrev /\ prevCursor # None THEN before(prevCursor) ELSE None,
         next |-> IF toNext /\ nextCursor # None THEN after(nextCursor) ELSE None,
         last |-> before(Boundary)]
=============================================================================
