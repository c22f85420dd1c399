----------------------------- MODULE QueryRequests -----------------------------
(***************************************************************************)
(* What must be true of every request a client can put together from query *)
(* parameters, in any number and in every order.                           *)
(***************************************************************************)
EXTENDS QueryParameters

CONSTANTS
    Parameters,     \* what a request may be made of
    MaxParameters   \* bound: parameters of a request

ASSUME ParametersAssumption == \A p \in Parameters : WellFormed(p)

VARIABLE query

QueryInit == query = <<>>

AddParameter(p) ==
    /\ Len(query) < MaxParameters
    /\ query' = Append(query, p)

QueryNext == \E p \in Parameters : AddParameter(p)

QuerySpec == QueryInit /\ [][QueryNext]_query

-----------------------------------------------------------------------------

\* A request that is accepted never trips over the checks of PageSpec and
\* PageCursor, which would answer 500: the page is a page, its offset one the
\* database takes, a cursor comes without a number, and with values or at an end.
SpecConstructible ==
    \A spec \in {ParseQuery(query), ParsePage(query)} : spec.error = None =>
        /\ spec.number >= 1 /\ spec.size \in 1 .. MaxSize
        /\ (spec.number - 1) * spec.size <= MaxOffset
        /\ spec.cursor # None => spec.number = 1

\* Rows have one order under every accepted request, whether the client names
\* the tie breaker's column, under whatever name, or not.
OneOrder ==
    LET spec == ParseQuery(query) IN
    spec.error = None => TieBreaker.column \in {ColumnOf(spec.sorts[k].name) : k \in DOMAIN spec.sorts}

\* The order of the parameters does not matter, whichever two change places: a
\* cursor may come before the sort that it belongs to.
OrderIrrelevant ==
    \A n \in 1 .. Len(query) - 1 :
        LET spec == ParseQuery(query)
            turned == ParseQuery([query EXCEPT ![n] = query[n + 1], ![n + 1] = query[n]])
        IN  (spec.error = None) = (turned.error = None) /\ (spec.error = None => turned = spec)

\* What a related collection or a single resource accepts means the same in the
\* collection.
SameMeaning ==
    \A spec \in {ParsePage(query), ParseInclude(query)} : spec.error = None =>
        LET all == ParseQuery(query) IN
        /\ all.error = None
        /\ <<all.number, all.size, all.includes>> = <<spec.number, spec.size, spec.includes>>

\* What the parser lets through, the statements can carry out, in one order of
\* the rows and with one meaning on every route that takes it.
AcceptedIsSound == SpecConstructible /\ OneOrder /\ SameMeaning
================================================================================
