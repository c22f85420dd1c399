-------------------------------- MODULE Headers --------------------------------
(***************************************************************************)
(* What must be true of every Accept and every Accept-Language header, of  *)
(* any number of entries in every order.                                   *)
(***************************************************************************)
EXTENDS Negotiation

CONSTANTS
    MediaRanges, LanguageRanges,    \* entries a header may have
    MaxEntries                      \* bound: entries of a header

Qualities == {NotGiven, Malformed} \cup 0 .. MaxQuality

ASSUME EntriesAssumption ==
    /\ Unparsed # Open
    /\ \A entry \in MediaRanges \cup LanguageRanges : entry # Open /\ entry # Unparsed
    /\ \A entry \in MediaRanges \cup LanguageRanges : entry.q \in Qualities
    /\ \A entry \in LanguageRanges : entry.subtags \in Nat

VARIABLES kind, header

HeaderInit == kind \in {"accept", "language"} /\ header = <<>>

AddEntry(entry) ==
    /\ Len(header) < MaxEntries
    /\ header' = Append(header, entry)
    /\ UNCHANGED kind

HeaderNext ==
    \/ kind = "accept" /\ \E entry \in MediaRanges \cup {Unparsed, Open} : AddEntry(entry)
    \/ kind = "language" /\ \E entry \in LanguageRanges \cup {Unparsed, Open} : AddEntry(entry)

HeaderSpec == HeaderInit /\ [][HeaderNext]_<<kind, header>>

-----------------------------------------------------------------------------

\* The rule of JSON:API for Accept: instances of its media type with parameters
\* other than profile do not count, also next to wildcards; when there are only
\* such, the request is refused, and one that is wanted without them is enough.
JsonApiRule ==
    LET instances == {n \in Named(header, "jsonapi") : header[n].q # Malformed} IN
    kind = "accept" /\ Readable(header) =>
        /\ instances # {} /\ (\A n \in instances : Foreign(header[n])) => ~ AcceptAllows(header)
        /\ (\E n \in instances : ~ Foreign(header[n]) /\ Quality(header[n]) > 0) => AcceptAllows(header)

\* Media ranges may come in any order: two that change places change nothing.
RangesUnordered ==
    kind = "accept" =>
        \A n \in 1 .. Len(header) - 1 :
            AcceptAllows([header EXCEPT ![n] = header[n + 1], ![n + 1] = header[n]]) = AcceptAllows(header)

\* The media type a client may send its documents with is one it may ask for,
\* in the same words.
BothHeaders ==
    kind = "accept" /\ Len(header) = 1 /\ ContentTypeAccepted(header[1]) => AcceptAllows(header)

\* A language that the client excludes, each time it names it, is chosen only as
\* the default when it does not want the other one either.
ExcludedNeverChosen ==
    kind = "language" /\ Readable(header) =>
        \A l, other \in Languages :
            /\ Named(header, l) # {}
            /\ \A n \in Named(header, l) : header[n].q = 0
            /\ Preference(header, other).quality > 0
            => Language(header) # l

\* Languages the program does not have make no difference, nor do entries that
\* are none: without one of them the header says the same.
UnsupportedIgnored ==
    kind = "language" /\ Readable(header) =>
        \A n \in DOMAIN header :
            header[n] = Unparsed \/ header[n].range \notin Languages \cup {"*"}
            => Language(RemoveAt(header, n)) = Language(header)

\* What the headers say is what the client gets: it is refused or served, and in
\* which language, as JSON:API 1.1 and the order of its preferences ask for.
HeadersHonoured ==
    /\ JsonApiRule
    /\ RangesUnordered
    /\ BothHeaders
    /\ ExcludedNeverChosen
    /\ UnsupportedIgnored
================================================================================
