---------------------------- MODULE ListingInvariant ----------------------------
(***************************************************************************)
(* What is true all along a walk, and keeps itself true: the requests a    *)
(* client is led to ask for the same, from where the last page ended, and  *)
(* what has been shown is what lies before that.                           *)
(***************************************************************************)
EXTENDS Listing

-----------------------------------------------------------------------------
(* Order                                                                   *)

\* Keys in the order of the terms.
Lex(a, b, sorts) ==
    \E k \in DOMAIN sorts :
        /\ \A n \in 1 .. k - 1 : a[n] = b[n]
        /\ IF sorts[k].desc THEN a[k] > b[k] ELSE a[k] < b[k]

\* Sorting by at least the column that identifies a row.
Identifying(sorts) ==
    /\ sorts \in Seq(SortTerms)
    /\ \E k \in DOMAIN sorts : ColumnOf(sorts[k].name) = TieBreaker.column

-----------------------------------------------------------------------------
(* Requests and links                                                      *)

RowsTyped == table \in [Ids -> Rows \cup {None}] /\ copies \in Joins /\ walk \in {"index", "related"}

\* A request as it can be sent.
Proper(r) == r \in Seq(Range(r)) /\ \A p \in Range(r) : WellFormed(p)

\* A request of a walk.
Sent(r) == Proper(r) /\ r \in Seq(Linkable) /\ Spec(r).error = None

\* What Spec makes of a request that is accepted.
SpecTyped(spec) ==
    /\ Identifying(spec.sorts)
    /\ spec.before \in BOOLEAN /\ spec.totals \in BOOLEAN
    /\ spec.size \in Nat \ {0} /\ spec.number \in Nat \ {0} /\ OffsetAccepted(spec)
    /\ spec.before => spec.cursor # None
    /\ spec.cursor # None => spec.cursor \in Cursors /\ CursorAccepted(spec.cursor, spec.sorts)

SameAsk(new, old) ==
    /\ new.error = None
    /\ new.filters = old.filters /\ new.sorts = old.sorts /\ new.includes = old.includes
    /\ new.size = old.size /\ new.totals = old.totals

OnwardOf(r, links) == IF Spec(r).before THEN links.prev ELSE links.next

LinkFields == {"self", "first", "prev", "next", "last"}

\* A link that leads on to the request it was made for.
Leads(l, r) ==
    /\ Proper(l) /\ l \in Seq(Linkable)
    /\ SameAsk(Spec(l), Spec(r))
    /\ (Spec(l).cursor = None) = (Spec(r).cursor = None)

LinksLead(r, links) ==
    /\ links \in [LinkFields -> Seq(Linkable) \cup {None}]
    /\ \A field \in LinkFields : links[field] # None => Leads(links[field], r)

\* The cursor of a row that is read after the one of the request.
Minted(c, spec) ==
    \/ c = None
    \/ /\ c \in Cursors /\ c # Boundary /\ CursorAccepted(c, spec.sorts)
       /\ Positioned(spec) => Lex(spec.cursor.v, c.v, KeysetSorts(spec))

\* A page leads on from the request it answers.
PageLeads(r, p) ==
    LET s == Spec(r)
        on == OnwardOf(r, p.links)
    IN  /\ p \in Pages /\ LinksLead(r, p.links)
        /\ s.cursor = None =>
            /\ on # None => Spec(on).number = s.number + 1 /\ ~ Spec(on).before
            /\ p.links.last # None /\ p.links.next = None => Spec(p.links.last).number <= s.number
        /\ s.cursor # None /\ on # None => Minted(Spec(on).cursor, s) /\ Spec(on).before = s.before

WalkTyped ==
    /\ RowsTyped
    /\ total = None \/ total \in 0 .. MaxOffset
    /\ walked \in Seq(Ids) /\ stable \subseteq Ids /\ writes \in Nat
    /\ \A r \in {request}, p \in {page} : Sent(r) /\ (p # None => PageLeads(r, p))

-----------------------------------------------------------------------------
(* Rows                                                                    *)

\* The request that is answered next, None at the end of a walk.
Coming(r, p) == IF p = None THEN r ELSE OnwardOf(r, p.links)

\* A row that is still to come.
Ahead(i, next) == next # None /\ \E s \in {Spec(next)} : i \in Keyset(s)

\* A walk by cursor has shown, once, the rows that are not to come.
StableWalked ==
    \A r \in {request}, p \in {page} : \A s \in {Spec(r)}, next \in {Coming(r, p)} :
        \A i \in stable :
            /\ i \in Selected(s)
            /\ s.cursor # None => TimesWalked(i) = (IF Ahead(i, next) THEN 0 ELSE 1)

\* A page by cursor is in the order that was asked for.
StableOrdered ==
    \A r \in {request}, p \in {page} : \A s \in {Spec(r)} :
        p # None /\ s.cursor # None =>
            \A m, n \in DOMAIN p.ids :
                m < n /\ p.ids[m] \in stable /\ p.ids[n] \in stable => Precedes(p.ids[m], p.ids[n], s.sorts)

\* A walk by number, among rows that stay as they are, has shown those before
\* the page that is to come.
QuietlyWalked ==
    \A r \in {request}, p \in {page} : \A s \in {Spec(r)} : \A R \in {RawRows(s)} :
        writes = 0 /\ s.cursor = None =>
            /\ total # None => total = Count(s)
            /\ p # None /\ walk = "related" => total # None
            /\ \A n \in DOMAIN R : n <= (IF p = None THEN s.number - 1 ELSE s.number) * s.size =>
                    \E m \in DOMAIN walked : walked[m] = R[n]
            /\ p # None /\ Coming(r, p) = None => Len(R) <= s.number * s.size

WalkInvariant == WalkTyped /\ StableWalked /\ StableOrdered /\ QuietlyWalked
================================================================================
