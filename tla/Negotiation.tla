------------------------------ MODULE Negotiation ------------------------------
(***************************************************************************)
(* What the program makes of the headers Accept, Content-Type and          *)
(* Accept-Language.  A header is a sequence of entries, read as far as its *)
(* syntax goes:                                                            *)
(*   media ranges  [range, parameters, q]                                  *)
(*   languages     [range, subtags, parameters, q]                         *)
(* or Unparsed for an entry that does not parse, or Open for one whose     *)
(* quotes are not closed, with which the whole header is lost.  parameters *)
(* are the names of those beside q; q is NotGiven when there is none, and  *)
(* Malformed when it is no quality value.                                  *)
(***************************************************************************)
EXTENDS Integers, Sequences, SequencesExt, FiniteSetsExt

CONSTANTS
    Unparsed, Open,
    MaxQuality      \* q=1, in the unit of the quality values

Malformed == -1
NotGiven == -2

ASSUME QualityAssumption == MaxQuality \in Nat \ {0}

Readable(header) == Open \notin Range(header)

Given(header) == {n \in DOMAIN header : header[n] # Unparsed}

Quality(entry) == IF entry.q = NotGiven THEN MaxQuality ELSE entry.q

-----------------------------------------------------------------------------
(* Media types *)

ContentTypeAccepted_AnyParameter(entry) ==  \* mutant
    entry \notin {Unparsed, Open} /\ entry.range = "jsonapi"

\* validate_content_type; q is a parameter like any other there.
ContentTypeAccepted(entry) ==
    /\ entry \notin {Unparsed, Open}
    /\ entry.range = "jsonapi"
    /\ entry.parameters \subseteq {"profile"}
    /\ entry.q = NotGiven

Specificity == [jsonapi |-> 2, application |-> 1, any |-> 0]

Foreign(entry) == entry.range = "jsonapi" /\ ~ entry.parameters \subseteq {"profile"}

Weighed_ForeignDropped(entry) ==  \* mutant: the media type with foreign parameters is passed over
    /\ entry.range \in DOMAIN Specificity
    /\ entry.q # Malformed
    /\ entry.parameters \subseteq IF entry.range = "jsonapi" THEN {"profile"} ELSE {}

\* Entries that are not passed over.
Weighed(entry) ==
    /\ entry.range \in DOMAIN Specificity
    /\ entry.q # Malformed
    /\ entry.range # "jsonapi" => entry.parameters = {}

\* The media type with foreign parameters is refused, not ignored.
Weight(entry) == IF Foreign(entry) THEN 0 ELSE Quality(entry)

Decisive(header) ==
    LET weighed == {n \in Given(header) : Weighed(header[n])}
    IN  {n \in weighed : \A k \in weighed :
            Specificity[header[k].range] <= Specificity[header[n].range]}

AcceptAllows_First(header) ==   \* mutant: the first of the decisive entries decides
    header # <<>> =>
        /\ Readable(header)
        /\ Decisive(header) # {}
        /\ Weight(header[Min(Decisive(header))]) > 0

\* validate_accept; an absent header is <<>>.
AcceptAllows(header) ==
    header # <<>> => Readable(header) /\ \E n \in Decisive(header) : Weight(header[n]) > 0

-----------------------------------------------------------------------------
(* Languages *)

Languages == {"ko", "en"}

\* An entry that is wrong in any other way than its range still names a language.
LanguageQuality(entry) ==
    IF entry.parameters # {} \/ entry.q = Malformed THEN 0 ELSE Quality(entry)

Named(header, range) == {n \in Given(header) : header[n].range = range}

Candidates_OthersAsWildcard(header, language) ==    \* mutant: another language stands for any
    IF Named(header, language) # {} THEN Named(header, language)
    ELSE {n \in Given(header) : header[n].range \notin Languages}

\* The wildcard counts for a language that is not named.
Candidates(header, language) ==
    IF Named(header, language) # {} THEN Named(header, language) ELSE Named(header, "*")

Effective_AnySubtag(header, language) ==    \* mutant: the best of all, not of the most specific
    Candidates(header, language) \cup Named(header, "*")

\* The most specific of them.
Effective(header, language) ==
    LET candidates == Candidates(header, language)
    IN  {n \in candidates : \A k \in candidates : header[k].subtags <= header[n].subtags}

\* Their best quality, and where it comes first.
Preference(header, language) ==
    LET effective == Effective(header, language)
        best == {n \in effective : \A k \in effective :
                    LanguageQuality(header[k]) <= LanguageQuality(header[n])}
    IN  IF effective = {} THEN [quality |-> 0, order |-> Len(header) + 1]
        ELSE [quality |-> LanguageQuality(header[Min(best)]), order |-> Min(best)]

\* resolve_language: Korean, unless English is preferred or as good and earlier.
Language(header) ==
    LET ko == Preference(header, "ko")
        en == Preference(header, "en")
    IN  IF /\ Readable(header)
           /\ \/ en.quality > ko.quality
              \/ en.quality = ko.quality /\ en.quality > 0 /\ en.order < ko.order
        THEN "en" ELSE "ko"
=============================================================================
