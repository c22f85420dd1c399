------------------------------ MODULE QueryProofs ------------------------------
(***************************************************************************)
(* What the query parameters of a request ask for is understood in one     *)
(* way, whatever they are, however many, in any order.                     *)
(***************************************************************************)
EXTENDS QueryRequests, OrderProofs

-----------------------------------------------------------------------------
(* Query parameters                                                        *)

\* What may be given once, and is looked up by name.
Families == {{"sort"}, {"include"}, {"number"}, {"size"}, {"totals"}, {"after", "before"}}

FiltersOf(r) == {r[n].value : n \in Naming(r, {"filter"})}

\* The specification made of what was given.
Understood(filters, sort, includes, number, size, totals, cursor, before) ==
    [error |-> None,
     filters |-> filters,
     sorts |-> WithTieBreaker(sort),
     includes |-> Distinct(includes),
     number |-> number,
     size |-> IF size < MaxSize THEN size ELSE MaxSize,
     totals |-> totals = "true",
     cursor |-> cursor,
     before |-> ~ before]

LEMMA ReadUnderstands ==
    ASSUME NEW r, NEW known, Faulty(r, known) = {}
    PROVE  Read(r, known) = Understood(FiltersOf(r),
                ValueOf(r, {"sort"}, DefaultSort), ValueOf(r, {"include"}, <<>>),
                ValueOf(r, {"number"}, 1), ValueOf(r, {"size"}, DefaultSize),
                ValueOf(r, {"totals"}, "false"), ValueOf(r, {"after", "before"}, None),
                Naming(r, {"before"}) = {})
  BY DEF Read, Understood, FiltersOf

LEMMA ReadFields ==
    ASSUME NEW r, NEW known
    PROVE  LET size == ValueOf(r, {"size"}, DefaultSize) IN
           /\ Read(r, known).sorts = WithTieBreaker(ValueOf(r, {"sort"}, DefaultSort))
           /\ Read(r, known).number = ValueOf(r, {"number"}, 1)
           /\ Read(r, known).size = IF size < MaxSize THEN size ELSE MaxSize
           /\ Read(r, known).cursor = ValueOf(r, {"after", "before"}, None)
  BY DEF Read

\* A request is refused exactly when a parameter is at fault.
LEMMA ErrorIsFault ==
    ASSUME NEW r, NEW known
    PROVE  Read(r, known).error = None <=> Faulty(r, known) = {}
<1>1. \A name : Code(name) # None
  BY NoneIsNoCode DEF Code
<1> QED
  BY <1>1 DEF Read

\* Of each family at most one parameter is given, unless one is at fault.
LEMMA GivenOnce ==
    ASSUME NEW T, NEW r \in Seq(T), NEW known, Faulty(r, known) = {},
           NEW m \in DOMAIN r, NEW n \in DOMAIN r, Key(r[m]) = Key(r[n])
    PROVE  m = n
<1>1. DOMAIN r \subseteq Nat \ {0}
  BY LenProperties
<1>2. ~ (m < n)
  BY <1>1 DEF Faulty
<1>3. ~ (n < m)
  BY <1>1 DEF Faulty
<1> QED
  BY <1>1, <1>2, <1>3

LEMMA OneOfFamily ==
    ASSUME NEW T, NEW r \in Seq(T), NEW known, Faulty(r, known) = {},
           NEW family \in Families, NEW m \in Naming(r, family)
    PROVE  Naming(r, family) = {m}
<1>1. \A n \in Naming(r, family) : Key(r[n]) = Key(r[m])
  BY DEF Families, Naming, Key
<1> QED
  BY <1>1, GivenOnce DEF Naming

\* What is read of a family is the value of the parameter given.
LEMMA ValueGiven ==
    ASSUME NEW T, NEW r \in Seq(T), NEW known, Faulty(r, known) = {},
           NEW family \in Families, NEW m \in Naming(r, family), NEW default
    PROVE  ValueOf(r, family, default) = r[m].value
<1>1. Naming(r, family) = {m}
  BY OneOfFamily
<1>2. (CHOOSE n \in Naming(r, family) : TRUE) = m
  BY <1>1
<1> QED
  BY <1>1, <1>2 DEF ValueOf

-----------------------------------------------------------------------------
(* Order                                                                   *)

\* q is r with its parameters in another order.
Reordering(r, q, order, back) ==
    /\ order \in [DOMAIN r -> DOMAIN r] /\ back \in [DOMAIN r -> DOMAIN r]
    /\ \A n \in DOMAIN r : back[order[n]] = n /\ order[back[n]] = n
    /\ q = [n \in DOMAIN r |-> r[order[n]]]

\* A fault stays one wherever its parameter goes,
LEMMA FaultsStay ==
    ASSUME NEW T, NEW r \in Seq(T), NEW q, NEW known, NEW order, NEW back,
           Reordering(r, q, order, back), Faulty(r, known) = {}
    PROVE  Faulty(q, known) = {}
<1> SUFFICES ASSUME NEW n \in DOMAIN r, NEW m \in 1 .. n - 1, Key(q[m]) = Key(q[n])
    PROVE FALSE
  BY DEF Reordering, Faulty
<1>1. DOMAIN r = 1 .. Len(r) /\ Len(r) \in Nat
  BY LenProperties
<1>2. m \in DOMAIN r /\ m # n
  BY <1>1
<1>3. order[m] \in DOMAIN r /\ order[n] \in DOMAIN r /\ Key(r[order[m]]) = Key(r[order[n]])
  BY <1>2 DEF Reordering
<1>4. order[m] = order[n]
  BY <1>3, GivenOnce
<1> QED
  BY <1>2, <1>4 DEF Reordering

LEMMA ReorderingBack ==
    ASSUME NEW T, NEW r \in Seq(T), NEW q, NEW order, NEW back, Reordering(r, q, order, back)
    PROVE  Reordering(q, r, back, order) /\ q \in Seq(T)
<1>1. /\ DOMAIN r = 1 .. Len(r) /\ Len(r) \in Nat /\ \A n \in DOMAIN r : r[n] \in T
      /\ r = [n \in DOMAIN r |-> r[n]]
  BY LenProperties, ElementOfSeq
<1>2. \A n \in DOMAIN r : q[back[n]] = r[n] /\ back[n] \in DOMAIN r
  BY DEF Reordering
<1>3. r = [n \in DOMAIN q |-> q[back[n]]]
  BY <1>1, <1>2 DEF Reordering
<1>4. q \in [1 .. Len(r) -> T]
  BY <1>1 DEF Reordering
<1>5. q \in Seq(T)
  BY <1>1, <1>4
<1> QED
  BY <1>3, <1>5 DEF Reordering

\* and the values read are the same.
LEMMA ValuesStay ==
    ASSUME NEW T, NEW r \in Seq(T), NEW q, NEW known, NEW order, NEW back,
           Reordering(r, q, order, back), Faulty(r, known) = {},
           NEW family \in Families, NEW default
    PROVE  /\ ValueOf(q, family, default) = ValueOf(r, family, default)
           /\ Naming(q, family) = {} <=> Naming(r, family) = {}
<1>1. \A n \in Naming(q, family) : order[n] \in Naming(r, family) /\ q[n] = r[order[n]]
  BY DEF Reordering, Naming
<1>2. \A n \in Naming(r, family) : back[n] \in Naming(q, family)
  BY DEF Reordering, Naming
<1>3. CASE Naming(q, family) = {}
  BY <1>2, <1>3 DEF ValueOf
<1>4. ASSUME NEW n \in Naming(q, family) PROVE ValueOf(q, family, default) = ValueOf(r, family, default)
  <2>1. ValueOf(q, family, default) = q[n].value
    BY FaultsStay, ReorderingBack, ValueGiven
  <2>2. ValueOf(r, family, default) = r[order[n]].value
    BY <1>1, ValueGiven
  <2> QED
    BY <1>1, <2>1, <2>2
<1> QED
  BY <1>1, <1>2, <1>3, <1>4

LEMMA OnlyBefore ==
    ASSUME NEW r, NEW q, NEW order, NEW back, Reordering(r, q, order, back)
    PROVE  /\ Naming(q, {"before"}) = {} <=> Naming(r, {"before"}) = {}
           /\ FiltersOf(q) = FiltersOf(r)
<1>1. \A names : \A n \in Naming(q, names) : order[n] \in Naming(r, names) /\ q[n] = r[order[n]]
  BY DEF Reordering, Naming
<1>2. \A names : \A n \in Naming(r, names) : back[n] \in Naming(q, names) /\ q[back[n]] = r[n]
  BY DEF Reordering, Naming
<1>3. Naming(q, {"before"}) = {} <=> Naming(r, {"before"}) = {}
  BY <1>1, <1>2
<1>4. FiltersOf(q) = FiltersOf(r)
  BY <1>1, <1>2 DEF FiltersOf
<1> QED
  BY <1>3, <1>4

\* A request means the same in every order of its parameters.
LEMMA OrderOfParameters ==
    ASSUME NEW T, NEW r \in Seq(T), NEW q, NEW known, NEW order, NEW back,
           Reordering(r, q, order, back)
    PROVE  /\ Faulty(q, known) = {} <=> Faulty(r, known) = {}
           /\ Faulty(r, known) = {} => Read(q, known) = Read(r, known)
<1>1. Faulty(q, known) = {} <=> Faulty(r, known) = {}
  BY FaultsStay, ReorderingBack
<1>2. ASSUME Faulty(r, known) = {} PROVE Read(q, known) = Read(r, known)
  <2>1. \A family \in Families : \A default :
            ValueOf(q, family, default) = ValueOf(r, family, default)
    BY <1>2, ValuesStay
  <2>2. /\ ValueOf(q, {"sort"}, DefaultSort) = ValueOf(r, {"sort"}, DefaultSort)
        /\ ValueOf(q, {"include"}, <<>>) = ValueOf(r, {"include"}, <<>>)
        /\ ValueOf(q, {"number"}, 1) = ValueOf(r, {"number"}, 1)
        /\ ValueOf(q, {"size"}, DefaultSize) = ValueOf(r, {"size"}, DefaultSize)
        /\ ValueOf(q, {"totals"}, "false") = ValueOf(r, {"totals"}, "false")
        /\ ValueOf(q, {"after", "before"}, None) = ValueOf(r, {"after", "before"}, None)
    BY <2>1 DEF Families
  <2>3. Faulty(q, known) = {}
    BY <1>1, <1>2
  <2>4. /\ Naming(q, {"before"}) = {} <=> Naming(r, {"before"}) = {}
        /\ FiltersOf(q) = FiltersOf(r)
    BY OnlyBefore
  <2>5. Read(r, known) = Understood(FiltersOf(r),
            ValueOf(r, {"sort"}, DefaultSort), ValueOf(r, {"include"}, <<>>),
            ValueOf(r, {"number"}, 1), ValueOf(r, {"size"}, DefaultSize),
            ValueOf(r, {"totals"}, "false"), ValueOf(r, {"after", "before"}, None),
            Naming(r, {"before"}) = {})
    BY <1>2, ReadUnderstands
  <2>6. Read(q, known) = Understood(FiltersOf(q),
            ValueOf(q, {"sort"}, DefaultSort), ValueOf(q, {"include"}, <<>>),
            ValueOf(q, {"number"}, 1), ValueOf(q, {"size"}, DefaultSize),
            ValueOf(q, {"totals"}, "false"), ValueOf(q, {"after", "before"}, None),
            Naming(q, {"before"}) = {})
    BY <2>3, ReadUnderstands
  <2> QED
    <3>1. CASE Naming(q, {"before"}) = {}
      <4>1. (Naming(q, {"before"}) = {}) = TRUE /\ (Naming(r, {"before"}) = {}) = TRUE
        BY <2>4, <3>1
      <4> QED
        BY <2>2, <2>4, <2>5, <2>6, <4>1
    <3>2. CASE Naming(q, {"before"}) # {}
      <4>1. (Naming(q, {"before"}) = {}) = FALSE /\ (Naming(r, {"before"}) = {}) = FALSE
        BY <2>4, <3>2
      <4> QED
        BY <2>2, <2>4, <2>5, <2>6, <4>1
    <3> QED
      BY <3>1, <3>2
<1> QED
  BY <1>1, <1>2

\* A request that is refused has an error.
LEMMA RefusedHasError ==
    ASSUME NEW r, NEW known
    PROVE  Refused(Read(r, known), "INVALID_PAGE").error # None
<1> DEFINE spec == Read(r, known)
<1>1. "error" \in DOMAIN spec
  BY DEF Read
<1> HIDE DEF spec
<1>2. Refused(spec, "INVALID_PAGE").error # None
  BY <1>1, NoneIsNoCode DEF Refused
<1> QED
  BY <1>2 DEF spec

LEMMA AcceptedReads ==
    ASSUME NEW r
    PROVE  /\ ParseQuery(r).error = None =>
                /\ Faulty(r, CollectionParameters) = {}
                /\ ParseQuery(r) = Read(r, CollectionParameters)
                /\ OffsetAccepted(ParseQuery(r))
                /\ ParseQuery(r).cursor # None =>
                    Naming(r, {"number"}) = {} /\ CursorAccepted(ParseQuery(r).cursor, ParseQuery(r).sorts)
           /\ ParsePage(r).error = None =>
                /\ Faulty(r, {"number", "size"}) = {}
                /\ ParsePage(r) = Read(r, {"number", "size"})
                /\ OffsetAccepted(ParsePage(r))
  BY ErrorIsFault, RefusedHasError DEF ParseQuery, ParsePage

LEMMA CollectionAnyOrder ==
    ASSUME NEW T, NEW r \in Seq(T), NEW q, NEW order, NEW back, Reordering(r, q, order, back)
    PROVE  /\ ParseQuery(q).error = None <=> ParseQuery(r).error = None
           /\ ParseQuery(r).error = None => ParseQuery(q) = ParseQuery(r)
<1> DEFINE read(p) == Read(p, CollectionParameters)
<1>1. \A p : ParseQuery(p).error = None => Faulty(p, CollectionParameters) = {}
  BY AcceptedReads
<1>2. CASE Faulty(r, CollectionParameters) # {}
  BY <1>1, <1>2, OrderOfParameters
<1>3. CASE Faulty(r, CollectionParameters) = {}
  <2>1. read(q) = read(r)
    BY <1>3, OrderOfParameters
  <2>2. Naming(q, {"number"}) = {} <=> Naming(r, {"number"}) = {}
    BY <1>3, ValuesStay DEF Families
  <2>3. ParseQuery(q) = ParseQuery(r)
    BY <2>1, <2>2 DEF ParseQuery
  <2> QED
    BY <2>3
<1> QED
  BY <1>2, <1>3
-----------------------------------------------------------------------------
(* The state machine                                                       *)

\* A request is made of parameters.
LEMMA Made == QuerySpec => [](query \in Seq(Parameters))
<1>1. QueryInit => query \in Seq(Parameters)
  BY DEF QueryInit
<1>2. query \in Seq(Parameters) /\ [QueryNext]_query => (query \in Seq(Parameters))'
  BY AppendProperties DEF QueryNext, AddParameter
<1> QED
  BY <1>1, <1>2, PTL DEF QuerySpec

\* No two parameters of a request that change places change what it means
\* (parse_query reads on to the end before it looks at a cursor).
THEOREM OrderDoesNotMatter == QuerySpec => []OrderIrrelevant
<1>1. query \in Seq(Parameters) => OrderIrrelevant
  <2> SUFFICES ASSUME query \in Seq(Parameters), NEW n \in 1 .. Len(query) - 1
      PROVE  LET turned == ParseQuery([query EXCEPT ![n] = query[n + 1], ![n + 1] = query[n]])
             IN  /\ (ParseQuery(query).error = None) = (turned.error = None)
                 /\ ParseQuery(query).error = None => turned = ParseQuery(query)
    BY DEF OrderIrrelevant
  <2> DEFINE turned == [query EXCEPT ![n] = query[n + 1], ![n + 1] = query[n]]
             order == [m \in DOMAIN query |-> IF m = n THEN n + 1 ELSE IF m = n + 1 THEN n ELSE m]
  <2>1. /\ DOMAIN query = 1 .. Len(query) /\ Len(query) \in Nat
        /\ n \in DOMAIN query /\ n + 1 \in DOMAIN query /\ n # n + 1
        /\ query = [m \in DOMAIN query |-> query[m]]
    BY LenProperties
  <2>2. order \in [DOMAIN query -> DOMAIN query]
    BY <2>1
  <2>3. \A m \in DOMAIN query : order[order[m]] = m
    BY <2>1
  <2>4. turned = [m \in DOMAIN query |-> query[order[m]]]
    BY <2>1
  <2>5. Reordering(query, turned, order, order)
    BY <2>2, <2>3, <2>4 DEF Reordering
  <2> HIDE DEF turned, order
  <2>6. /\ ParseQuery(turned).error = None <=> ParseQuery(query).error = None
        /\ ParseQuery(query).error = None => ParseQuery(turned) = ParseQuery(query)
    BY <2>5, CollectionAnyOrder
  <2> QED
    BY <2>6 DEF turned
<1> QED
  BY <1>1, Made, PTL

-----------------------------------------------------------------------------
(* What is accepted                                                        *)

\* The page of a request without a fault is one.
LEMMA PageIsPage ==
    ASSUME NEW T, \A p \in T : WellFormed(p), NEW r \in Seq(T), NEW known, Faulty(r, known) = {}
    PROVE  /\ Read(r, known).number \in Nat \ {0}
           /\ Read(r, known).size \in 1 .. MaxSize
<1>1. \A n \in DOMAIN r : r[n] \in T /\ WellFormed(r[n]) /\ Accepted(r[n])
  BY ElementOfSeq, LenProperties DEF Faulty
<1>2. \A n \in DOMAIN r : r[n].name \in {"number", "size"} => r[n].value \in Nat \ {0}
  BY <1>1 DEF Accepted, WellFormed
<1>3. ValueOf(r, {"number"}, 1) \in Nat \ {0}
  <2>1. ASSUME NEW n \in Naming(r, {"number"}) PROVE ValueOf(r, {"number"}, 1) \in Nat \ {0}
    BY <1>2, ValueGiven DEF Naming, Families
  <2>2. CASE Naming(r, {"number"}) = {}
    BY <2>2 DEF ValueOf
  <2> QED
    BY <2>1, <2>2
<1>4. ValueOf(r, {"size"}, DefaultSize) \in Nat \ {0}
  <2>1. ASSUME NEW n \in Naming(r, {"size"}) PROVE ValueOf(r, {"size"}, DefaultSize) \in Nat \ {0}
    BY <1>2, ValueGiven DEF Naming, Families
  <2>2. CASE Naming(r, {"size"}) = {}
    BY <2>2, PolicyAssumption DEF ValueOf
  <2> QED
    BY <2>1, <2>2
<1> QED
  BY <1>3, <1>4, PolicyAssumption, ReadFields

LEMMA Constructible == query \in Seq(Parameters) => SpecConstructible
<1> SUFFICES ASSUME query \in Seq(Parameters) PROVE SpecConstructible
  OBVIOUS
<1>1. ASSUME ParseQuery(query).error = None, ParseQuery(query).cursor # None
      PROVE  ParseQuery(query).number = 1
  <2>1. /\ ParseQuery(query) = Read(query, CollectionParameters)
        /\ Naming(query, {"number"}) = {}
    BY <1>1, AcceptedReads
  <2>2. ValueOf(query, {"number"}, 1) = 1
    BY <2>1 DEF ValueOf
  <2> QED
    BY <2>1, <2>2, ReadFields
<1>2. ASSUME ParsePage(query).error = None
      PROVE  ParsePage(query).cursor = None
  <2>1. Naming(query, {"after", "before"}) = {}
    BY <1>2, AcceptedReads DEF Naming, Faulty
  <2>2. ValueOf(query, {"after", "before"}, None) = None
    BY <2>1 DEF ValueOf
  <2> QED
    BY <1>2, <2>2, AcceptedReads, ReadFields
<1>3. \A spec \in {ParseQuery(query), ParsePage(query)} : spec.error = None =>
        spec.number \in Nat \ {0} /\ spec.size \in 1 .. MaxSize /\ OffsetAccepted(spec)
  BY AcceptedReads, PageIsPage, ParametersAssumption
<1> QED
  BY <1>1, <1>2, <1>3 DEF SpecConstructible, OffsetAccepted

\* The effective sort is by known columns, and the one that identifies rows is among them.
LEMMA SortsUnderstood ==
    ASSUME NEW T, \A p \in T : WellFormed(p), NEW r \in Seq(T), NEW known, Faulty(r, known) = {}
    PROVE  /\ Read(r, known).sorts \in Seq(SortTerms)
           /\ \E k \in DOMAIN Read(r, known).sorts :
                ColumnOf(Read(r, known).sorts[k].name) = TieBreaker.column
<1> DEFINE terms == ValueOf(r, {"sort"}, DefaultSort)
           sorts == Read(r, known).sorts
<1>1. terms \in Seq(SortTerms)
  <2>1. ASSUME NEW n \in Naming(r, {"sort"}) PROVE terms \in Seq(SortTerms)
    <3>1. terms = r[n].value
      BY <2>1, ValueGiven DEF Families
    <3>2. n \in DOMAIN r /\ r[n] \in T /\ r[n].name = "sort" /\ Accepted(r[n])
      BY ElementOfSeq, LenProperties DEF Naming, Faulty
    <3>3. terms \in Seq([name : STRING, desc : BOOLEAN])
      BY <3>1, <3>2 DEF WellFormed
    <3>4. SortAccepted(terms)
      BY <3>1, <3>2 DEF Accepted
    <3> HIDE DEF terms
    <3>5. \A i \in 1 .. Len(terms) : terms[i] \in [name : STRING, desc : BOOLEAN] /\ terms[i].name \in DOMAIN SortColumns
      <4>1. DOMAIN terms = 1 .. Len(terms)
        BY <3>3, LenProperties
      <4>2. \A i \in 1 .. Len(terms) : terms[i] \in [name : STRING, desc : BOOLEAN]
        BY <3>3, ElementOfSeq
      <4> QED
        BY <3>4, <4>1, <4>2 DEF SortAccepted
    <3>6. \A i \in 1 .. Len(terms) : terms[i] \in SortTerms
      BY <3>5 DEF SortTerms
    <3>7. terms \in [1 .. Len(terms) -> SortTerms] /\ Len(terms) \in Nat
      BY <3>3, <3>6, LenProperties
    <3> QED
      BY <3>7
  <2> QED
    BY <2>1, PolicyAssumption DEF ValueOf
<1>2. sorts = WithTieBreaker(terms)
  BY ReadFields
<1> DEFINE last == Term(TieBreaker.name, TieBreaker.desc)
<1>3. last \in SortTerms /\ ColumnOf(last.name) = TieBreaker.column
  BY PolicyAssumption DEF Term, SortTerms, ColumnOf
<1> HIDE DEF terms, sorts
<1>4. CASE \E k \in DOMAIN terms : ColumnOf(terms[k].name) = TieBreaker.column
  BY <1>1, <1>2, <1>4 DEF WithTieBreaker, sorts
<1>5. CASE ~ \E k \in DOMAIN terms : ColumnOf(terms[k].name) = TieBreaker.column
  <2>1. sorts = Append(terms, last)
    BY <1>2, <1>5 DEF WithTieBreaker
  <2> HIDE DEF last
  <2>2. /\ Append(terms, last) \in Seq(SortTerms)
        /\ Len(terms) + 1 \in DOMAIN Append(terms, last)
        /\ Append(terms, last)[Len(terms) + 1] = last
    BY <1>1, <1>3, AppendProperties
  <2> QED
    BY <1>3, <2>1, <2>2 DEF sorts
<1> QED
  BY <1>4, <1>5

LEMMA OrderOfTieBreaker == query \in Seq(Parameters) => OneOrder
  BY SortsUnderstood, AcceptedReads, ParametersAssumption DEF OneOrder

\* What a smaller set of parameters allows, the collection takes as well.
LEMMA OneMeaning == query \in Seq(Parameters) => SameMeaning
<1> SUFFICES ASSUME query \in Seq(Parameters) PROVE SameMeaning
  OBVIOUS
<1> DEFINE all == Read(query, CollectionParameters)
<1>1. ASSUME NEW known \in SUBSET (CollectionParameters \ {"after", "before"}),
             Faulty(query, known) = {}, OffsetAccepted(Read(query, known))
      PROVE  /\ ParseQuery(query).error = None
             /\ ParseQuery(query).number = Read(query, known).number
             /\ ParseQuery(query).size = Read(query, known).size
             /\ ParseQuery(query).includes = Read(query, known).includes
  <2>1. Faulty(query, CollectionParameters) = {}
    BY <1>1 DEF Faulty
  <2>2. Naming(query, {"after", "before"}) = {}
    BY <1>1 DEF Naming, Faulty
  <2>3. all = Read(query, known)
    BY <1>1, <2>1, ReadUnderstands
  <2>4. all.cursor = None
    BY <2>2, ReadFields DEF ValueOf
  <2>5. all.error = None
    BY <2>1, ErrorIsFault
  <2>6. ParseQuery(query) = all
    BY <1>1, <2>3, <2>4 DEF ParseQuery
  <2> QED
    BY <2>3, <2>5, <2>6
<1>2. ASSUME ParseInclude(query).error = None
      PROVE  Faulty(query, {"include"}) = {} /\ OffsetAccepted(ParseInclude(query))
  <2>1. Faulty(query, {"include"}) = {}
    BY <1>2, ErrorIsFault DEF ParseInclude
  <2>2. Naming(query, {"number"}) = {}
    BY <2>1 DEF Naming, Faulty
  <2>3. ParseInclude(query).number = 1 /\ ParseInclude(query).size \in 1 .. MaxSize
    BY <2>1, <2>2, PageIsPage, ReadFields, ParametersAssumption DEF ParseInclude, ValueOf
  <2> QED
    BY <2>1, <2>3, PolicyAssumption DEF OffsetAccepted
<1>3. ASSUME ParsePage(query).error = None
      PROVE  /\ ParseQuery(query).error = None
             /\ ParseQuery(query).number = ParsePage(query).number
             /\ ParseQuery(query).size = ParsePage(query).size
             /\ ParseQuery(query).includes = ParsePage(query).includes
  BY <1>1, <1>3, AcceptedReads DEF CollectionParameters, PageParameters
<1>4. ASSUME ParseInclude(query).error = None
      PROVE  /\ ParseQuery(query).error = None
             /\ ParseQuery(query).number = ParseInclude(query).number
             /\ ParseQuery(query).size = ParseInclude(query).size
             /\ ParseQuery(query).includes = ParseInclude(query).includes
  BY <1>1, <1>2, <1>4 DEF CollectionParameters, PageParameters, ParseInclude
<1> QED
  BY <1>3, <1>4 DEF SameMeaning

\* What parse_query, parse_page_query and parse_include_query let through, PageSpec
\* takes, the statements can carry out, and means the same on every route.
THEOREM AcceptedRequestsAreSound == QuerySpec => []AcceptedIsSound
<1>1. query \in Seq(Parameters) => AcceptedIsSound
  BY Constructible, OrderOfTieBreaker, OneMeaning DEF AcceptedIsSound
<1> QED
  BY <1>1, Made, PTL
================================================================================
