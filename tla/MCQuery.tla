-------------------------------- MODULE MCQuery --------------------------------
EXTENDS QueryRequests

PolicyFilters == [score |-> [column |-> "score", operators |-> {"exact", "gte"}]]
\* "key" is another name of the tie breaker's column.
PolicySorts == [score |-> "score", category |-> "category", key |-> "id"]
ByScore == <<Term("score", TRUE)>>
IdAscending == [name |-> "id", desc |-> FALSE, column |-> "id"]

P(name, value) == [name |-> name, value |-> value]
AtLeast(values) == P("filter", [field |-> "score", op |-> "gte", values |-> values])
ById == Term("id", FALSE)

MCParameters == {
    AtLeast({1}), AtLeast({}),
    P("filter", [field |-> "score", op |-> "isNull", values |-> {1}]),
    P("sort", <<Term("score", FALSE)>>), P("sort", <<Term("key", TRUE)>>),
    P("sort", <<Term("category", FALSE)>>), P("sort", <<>>),
    P("include", <<"tags", "tags">>), P("include", <<"other">>),
    P("number", 0), P("number", 1), P("number", 3),
    P("size", 2), P("size", 9),
    P("totals", "true"), P("totals", "yes"),
    P("after", Boundary), P("before", Boundary),
    P("after", [s |-> <<Term("score", TRUE), ById>>, v |-> <<1, 2>>]),
    P("before", [s |-> <<Term("score", FALSE), ById>>, v |-> <<1, 2>>]),
    P("after", [s |-> <<Term("key", TRUE)>>, v |-> <<7>>]),
    P("page", 1), P("fields", 1)}
================================================================================
