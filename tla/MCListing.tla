------------------------------- MODULE MCListing -------------------------------
EXTENDS Listing

\* A policy like the one of examples, with a sortable column that may be NULL.
PolicyFilters == [score |-> [column |-> "score", operators |-> {"exact", "gt", "gte", "lt", "lte", "in"}],
                  category |-> [column |-> "category", operators |-> {"exact", "isNull"}]]
PolicySorts == [score |-> "score", title |-> "title", category |-> "category"]
ByScore == <<Term("score", TRUE)>>
IdAscending == [name |-> "id", desc |-> FALSE, column |-> "id"]

MCIds == 1 .. 4
MCRows == [score : {1, 2}, title : {1}, category : {Null, 1}]
\* Row 1 has no category; there may be no row 4.
MCTables == {t \in [MCIds -> MCRows \cup {None}] : \A i \in MCIds :
                IF t[i] = None THEN i = 4 ELSE t[i].category = (IF i = 1 THEN Null ELSE 1)}

P(name, value) == [name |-> name, value |-> value]
Size(n) == P("size", n)
Mixed == P("sort", <<Term("title", FALSE), Term("score", TRUE)>>)
AtLeast == P("filter", [field |-> "score", op |-> "gte", values |-> {1}])
ByCategory == P("sort", <<Term("category", TRUE)>>)
NotNull == P("filter", [field |-> "category", op |-> "isNull", values |-> {0}])

CursorRequests == {
    <<P("after", Boundary), Size(1)>>,
    <<P("before", Boundary), Size(2)>>,
    <<Mixed, P("after", Boundary), Size(2), AtLeast>>,
    <<NotNull, Mixed, P("before", Boundary), Size(1), P("totals", "true")>>}

OffsetRequests == {
    <<Size(1)>>,
    <<P("include", <<"tags">>), Size(2), Mixed>>,
    <<ByCategory, Size(2)>>,
    <<P("totals", "true"), Size(2), AtLeast>>}

IndexRequests == CursorRequests \cup OffsetRequests

RelatedRequests == {<<Size(2)>>, <<P("number", 1), Size(1)>>}

\* Every row once, or row 2 twice.
MCJoins == {[i \in MCIds |-> 1], [i \in MCIds |-> IF i = 2 THEN 2 ELSE 1]}
=============================================================================
